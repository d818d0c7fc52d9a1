------------------------------- MODULE DnsWire -------------------------------
(***************************************************************************)
(* The DNS protocol code: names and their text form (DomainName), the      *)
(* parser (DnsParser, Wire), the writer (DnsWriter), and what the service  *)
(* makes of messages (DnsResponse, CachePolicy).                           *)
(*                                                                         *)
(* Packets and labels are sequences of octets, because the properties are  *)
(* about offsets.  The text of a name is a sequence of tokens, each an      *)
(* octet and how it is written.  Error codes are not told apart: every     *)
(* refusal is Refused.                                                     *)
(***************************************************************************)
EXTENDS Integers, Sequences, FiniteSets, SequencesExt, FiniteSetsExt

CONSTANTS
    kMaxDomainWireSize, maximum_compression_pointers,
    maximum_questions, maximum_records_per_section, maximum_total_records,
    kUpstreamReceiveBufferSize,
    Refused,
    PacketOctets, MaxPacket,    \* what a packet holds behind its header, and how much
    TextTokens, MaxText,        \* the same for the text form of a name
    Exchanges                   \* [header, question, addresses, ttl, maximum_size]

VARIABLE wire                   \* a packet or text of any content, or an exchange

kDnsHeaderSize == 12

kMaxLabelSize == 63

-----------------------------------------------------------------------------
(* DomainName: a name is the sequence of its labels *)

ascii_lower(octet) == IF octet \in 65 .. 90 THEN octet + 32 ELSE octet

canonical(name) == [i \in DOMAIN name |-> [k \in DOMAIN name[i] |-> ascii_lower(name[i][k])]]

SameName(left, right) == canonical(left) = canonical(right)

wire_size(name) == FoldSeq(LAMBDA label, n : n + Len(label) + 1, 1, name)

from_labels(name) ==
    IF \E i \in DOMAIN name : Len(name[i]) = 0 \/ Len(name[i]) > kMaxLabelSize
    THEN Refused
    ELSE IF wire_size(name) > kMaxDomainWireSize THEN Refused ELSE name

Dot == 46
Backslash == 92

\* An octet of a label is written bare, with a backslash in front, or as a
\* backslash and three digits.  A bare dot ends a label; a bare backslash is
\* one that begins no escape: it ends the text, or a number above 255 follows.
Token(octet, form) == [octet |-> octet, form |-> form]
Separator == Token(Dot, "bare")
BadEscape == Token(Backslash, "bare")

label_to_presentation(label) ==
    [k \in DOMAIN label |->
        Token(label[k], CASE label[k] \in {Dot, Backslash} -> "escaped"
                          [] label[k] \in 33 .. 126 \ {Dot, Backslash} -> "bare"
                          [] OTHER -> "decimal")]

to_string(name) ==
    IF name = << >> THEN <<Separator>>
    ELSE FlattenSeq([i \in DOMAIN name |->
             (IF i = 1 THEN << >> ELSE <<Separator>>) \o label_to_presentation(name[i])])

\* the labels between the separators
Split(text) ==
    FoldLeft(LAMBDA labels, token : IF token = Separator THEN Append(labels, << >>)
                                    ELSE [labels EXCEPT ![Len(labels)] = Append(@, token.octet)],
             << << >> >>, text)

\* one separator may end the text; from_labels refuses a label without octets
from_text(text) ==
    LET labels == Split(text)
    IN  IF text \in {<< >>, <<Separator>>} THEN << >>
        ELSE IF Contains(text, BadEscape) THEN Refused
        ELSE from_labels(IF Last(labels) = << >> THEN Front(labels) ELSE labels)

-----------------------------------------------------------------------------
(* Wire: offsets count from 0 *)

OctetAt(packet, offset) == packet[offset + 1]

U16At(packet, offset) == OctetAt(packet, offset) * 256 + OctetAt(packet, offset + 1)

U32At(packet, offset) == U16At(packet, offset) * 65536 + U16At(packet, offset + 2)

Octets(packet, offset, count) == SubSeq(packet, offset + 1, offset + count)

U16(value) == <<value \div 256, value % 256>>

U32(value) == U16(value \div 65536) \o U16(value % 65536)

-----------------------------------------------------------------------------
(* decode_name; `visited' holds the targets of the pointers followed so far *)

NameAt(start) ==
    [labels |-> << >>, position |-> start, next_offset |-> start, size |-> 1,
     visited |-> {}, status |-> "reading"]

Refuse(n) == [n EXCEPT !.status = "refused"]

Followed(n) == n.visited # {}

\* may the n.position + count - th octet not be read?
Beyond(packet, encoded_end, n, count) ==
    n.position + count > (IF Followed(n) THEN Len(packet) ELSE encoded_end)

EndName(n) ==
    [n EXCEPT !.status = "done", !.next_offset = IF Followed(n) THEN @ ELSE n.position + 1]

\* mutant: the second octet of a pointer may lie behind encoded_end
FollowUnchecked(packet, encoded_end, n) ==
    LET pointer == U16At(packet, n.position) % 16384
    IN  IF \/ n.position + 2 > Len(packet)
           \/ pointer >= Len(packet) \/ pointer < kDnsHeaderSize \/ pointer >= n.position
           \/ pointer \in n.visited \/ Cardinality(n.visited) >= maximum_compression_pointers
        THEN Refuse(n)
        ELSE [n EXCEPT !.position = pointer, !.visited = @ \cup {pointer},
                       !.next_offset = IF Followed(n) THEN @ ELSE n.position + 2]

FollowPointer(packet, encoded_end, n) ==
    LET pointer == U16At(packet, n.position) % 16384
    IN  IF \/ Beyond(packet, encoded_end, n, 2)
           \/ pointer >= Len(packet) \/ pointer < kDnsHeaderSize \/ pointer >= n.position
           \/ pointer \in n.visited \/ Cardinality(n.visited) >= maximum_compression_pointers
        THEN Refuse(n)
        ELSE [n EXCEPT !.position = pointer, !.visited = @ \cup {pointer},
                       !.next_offset = IF Followed(n) THEN @ ELSE n.position + 2]

\* mutant: labels behind a pointer move next_offset, too
TakeLabelAnywhere(packet, encoded_end, n, length) ==
    IF Beyond(packet, encoded_end, n, length + 1) \/ n.size > kMaxDomainWireSize - (length + 1)
    THEN Refuse(n)
    ELSE [n EXCEPT !.labels = Append(@, Octets(packet, n.position + 1, length)),
                   !.size = @ + length + 1, !.position = @ + length + 1,
                   !.next_offset = n.position + length + 1]

TakeLabel(packet, encoded_end, n, length) ==
    IF Beyond(packet, encoded_end, n, length + 1) \/ n.size > kMaxDomainWireSize - (length + 1)
    THEN Refuse(n)
    ELSE [n EXCEPT !.labels = Append(@, Octets(packet, n.position + 1, length)),
                   !.size = @ + length + 1, !.position = @ + length + 1,
                   !.next_offset = IF Followed(n) THEN @ ELSE n.position + length + 1]

\* one turn of the loop: the upper two bits of the octet tell what comes
DecodeStep(packet, encoded_end, n) ==
    LET octet == OctetAt(packet, n.position)
    IN  IF n.position >= Len(packet) \/ Beyond(packet, encoded_end, n, 1) THEN Refuse(n)
        ELSE CASE octet = 0 -> EndName(n)
               [] octet \in 1 .. 63 -> TakeLabel(packet, encoded_end, n, octet)
               [] octet \in 64 .. 191 -> Refuse(n)
               [] octet \in 192 .. 255 -> FollowPointer(packet, encoded_end, n)

\* How many turns the loop takes at most: every turn but the last adds a label
\* or follows a pointer.
MaxTurns == kMaxDomainWireSize + maximum_compression_pointers

RECURSIVE Decode(_, _, _, _)
Decode(packet, encoded_end, n, turns) ==
    IF n.status # "reading" \/ turns = 0 THEN n
    ELSE Decode(packet, encoded_end, DecodeStep(packet, encoded_end, n), turns - 1)

decode_name(packet, start, encoded_end) == Decode(packet, encoded_end, NameAt(start), MaxTurns)

-----------------------------------------------------------------------------
(* parse_message: an item is what was read and where it ends, or Refused *)

TypeA == 1
TypeAAAA == 28
ClassIN == 1

QuestionBehind(packet, n) ==
    IF n.status # "done" \/ n.next_offset + 4 > Len(packet) THEN Refused
    ELSE [item |-> [name |-> n.labels, type |-> U16At(packet, n.next_offset),
                    question_class |-> U16At(packet, n.next_offset + 2)],
          end |-> n.next_offset + 4]

parse_question(packet, offset) == QuestionBehind(packet, decode_name(packet, offset, Len(packet)))

\* what the RDATA of a type consists of
Fixed(count) == [kind |-> "octets", count |-> count]
Name == [kind |-> "name", count |-> 0]
String == [kind |-> "string", count |-> 0]
Strings == [kind |-> "strings", count |-> 0]
Opaque == [kind |-> "opaque", count |-> 0]

Layout(type) ==
    CASE type = TypeA -> <<Fixed(4)>>
      [] type = TypeAAAA -> <<Fixed(16)>>
      [] type \in {2, 5, 12} -> <<Name>>                \* NS, CNAME, PTR
      [] type = 15 -> <<Fixed(2), Name>>                \* MX
      [] type = 6 -> <<Name, Name, Fixed(20)>>          \* SOA
      [] type = 14 -> <<Name, Name>>                    \* MINFO
      [] type = 13 -> <<String, String>>                \* HINFO
      [] type = 16 -> <<String, Strings>>               \* TXT
      [] OTHER -> <<Opaque>>

NameEnd(n, end) == IF n.status = "done" THEN n.next_offset ELSE end + 1

\* where a part of RDATA ends; behind the RDATA when it does not fit
PartEnd(packet, part, offset, end) ==
    CASE part.kind = "octets" -> offset + part.count
      [] part.kind = "string" -> offset + 1 + (IF offset < end THEN OctetAt(packet, offset) ELSE 0)
      [] part.kind = "name" -> NameEnd(decode_name(packet, offset, end), end)
      [] part.kind = "opaque" -> end

\* the octets from offset to end have the layout
RECURSIVE HasLayout(_, _, _, _)
HasLayout(packet, layout, offset, end) ==
    IF layout = << >> THEN offset = end
    ELSE IF layout = <<Strings>>
         THEN offset = end \/ HasLayout(packet, <<String, Strings>>, offset, end)
         ELSE /\ offset <= end
              /\ HasLayout(packet, Tail(layout), PartEnd(packet, Head(layout), offset, end), end)

\* the record whose name ends at the offset `fixed'
RecordBehind(packet, labels, fixed) ==
    LET type  == U16At(packet, fixed)
        rdata == fixed + 10
        size  == U16At(packet, fixed + 8)
    IN  IF \/ rdata > Len(packet) \/ rdata + size > Len(packet)
           \/ ~HasLayout(packet, Layout(type), rdata, rdata + size)
        THEN Refused
        ELSE [item |-> [name |-> labels, type |-> type, record_class |-> U16At(packet, fixed + 2),
                        ttl |-> U32At(packet, fixed + 4), rdata |-> Octets(packet, rdata, size)],
              end |-> rdata + size]

parse_resource_record(packet, offset) ==
    LET n == decode_name(packet, offset, Len(packet))
    IN  IF n.status # "done" THEN Refused ELSE RecordBehind(packet, n.labels, n.next_offset)

ParseItem(packet, offset, kind) ==
    IF kind = "question" THEN parse_question(packet, offset) ELSE parse_resource_record(packet, offset)

Take(read, parsed) ==
    IF parsed = Refused THEN Refused
    ELSE [items |-> Append(read.items, parsed.item), end |-> parsed.end]

\* parse_section: count more items behind those read
RECURSIVE parse_section(_, _, _, _)
parse_section(packet, read, count, kind) ==
    IF count = 0 \/ read = Refused THEN read
    ELSE parse_section(packet, Take(read, ParseItem(packet, read.end, kind)), count - 1, kind)

\* the header's flags, and the 4-bit fields among them
FlagBits ==
    [is_response |-> 32768, authoritative_answer |-> 1024, truncated |-> 512,
     recursion_desired |-> 256, recursion_available |-> 128, reserved_z |-> 64,
     authenticated_data |-> 32, checking_disabled |-> 16]

decode_header(packet) ==
    LET flags == U16At(packet, 2)
    IN  [id |-> U16At(packet, 0), opcode |-> (flags \div 2048) % 16, response_code |-> flags % 16,
         flags |-> {f \in DOMAIN FlagBits : (flags \div FlagBits[f]) % 2 = 1}]

count(packet, section) == U16At(packet, 2 + 2 * section)

\* the section's items, behind the sections read so far
ReadSection(packet, message, section) ==
    LET read == parse_section(packet, [items |-> << >>, end |-> message.end], count(packet, section),
                              IF section = 1 THEN "question" ELSE "record")
    IN  IF read = Refused THEN Refused
        ELSE [sections |-> Append(message.sections, read.items), end |-> read.end]

ReadSections(packet) ==
    FoldLeft(LAMBDA message, section : IF message = Refused THEN Refused
                                       ELSE ReadSection(packet, message, section),
             [sections |-> << >>, end |-> kDnsHeaderSize], <<1, 2, 3, 4>>)

Message(header, sections) ==
    [header |-> header, questions |-> sections[1], answers |-> sections[2],
     authorities |-> sections[3], additionals |-> sections[4]]

parse_message(packet, maximum_packet_size) ==
    IF Len(packet) < kDnsHeaderSize \/ Len(packet) > maximum_packet_size THEN Refused
    ELSE IF \/ count(packet, 1) > maximum_questions
            \/ \E section \in 2 .. 4 : count(packet, section) > maximum_records_per_section
            \/ count(packet, 2) + count(packet, 3) + count(packet, 4) > maximum_total_records
         THEN Refused
    ELSE LET read == ReadSections(packet)
         IN  IF read = Refused THEN Refused
             ELSE IF read.end # Len(packet) THEN Refused   \* reject_trailing_data
             ELSE Message(decode_header(packet), read.sections)

-----------------------------------------------------------------------------
(* DnsWriter: a writer that runs out of room refuses the whole message *)

WithinBudget(packet, maximum_size) == IF Len(packet) <= maximum_size THEN packet ELSE Refused

kMaxU16 == 65535

\* what the writers refuse before they write: a 4-bit field, a count or a size
\* that does not fit
Encodable(header, items, maximum_size) ==
    /\ header.opcode <= 15 /\ header.response_code <= 15
    /\ Len(items) <= kMaxU16 /\ maximum_size <= kMaxU16

encode_header(header, questions, answers) ==
    LET flags == SumSet({FlagBits[f] : f \in header.flags})
    IN  U16(header.id) \o U16(flags + header.opcode * 2048 + header.response_code)
        \o U16(questions) \o U16(answers) \o U16(0) \o U16(0)

write_name(name) ==
    FlattenSeq([i \in DOMAIN name |-> <<Len(name[i])>> \o name[i]]) \o <<0>>

write_question(question) ==
    write_name(question.name) \o U16(question.type) \o U16(question.question_class)

write_question_message(header, questions, maximum_size) ==
    IF ~Encodable(header, questions, maximum_size) THEN Refused
    ELSE WithinBudget(encode_header(header, Len(questions), 0)
                          \o FlattenSeq([i \in DOMAIN questions |-> write_question(questions[i])]),
                      maximum_size)

\* the question stands at offset 12, where the answers' names point to
write_address_message(header, question, answers, ttl, maximum_size) ==
    LET size == CASE question.type = TypeA -> 4 [] question.type = TypeAAAA -> 16 [] OTHER -> 0
        record(address) == U16(49152 + kDnsHeaderSize) \o U16(question.type)
                           \o U16(question.question_class) \o U32(ttl) \o U16(size) \o address
    IN  IF \/ ~Encodable(header, answers, maximum_size)
           \/ answers = << >> \/ size = 0 \/ \E i \in DOMAIN answers : Len(answers[i]) # size
        THEN Refused
        ELSE WithinBudget(encode_header(header, 1, Len(answers)) \o write_question(question)
                              \o FlattenSeq([i \in DOMAIN answers |-> record(answers[i])]),
                          maximum_size)

serialize_query(header, questions, maximum_size) ==
    IF "is_response" \in header.flags THEN Refused
    ELSE write_question_message(
             [header EXCEPT !.response_code = 0,
                            !.flags = @ \ {"authoritative_answer", "truncated", "recursion_available"}],
             questions, maximum_size)

rewrite_transaction_id(packet, id) ==
    IF Len(packet) < 2 THEN Refused ELSE U16(id) \o SubSeq(packet, 3, Len(packet))

\* the header of an answer to a request; the service always offers recursion
ResponseHeader(request, response_code) ==
    [id |-> request.id, opcode |-> request.opcode, response_code |-> response_code,
     flags |-> {"is_response", "recursion_available"}
               \cup (request.flags \cap {"recursion_desired", "checking_disabled"})]

\* without the question when it does not fit
make_error_response(request, response_code, maximum_size) ==
    LET header == ResponseHeader(request.header, response_code)
        full   == write_question_message(header, request.questions, maximum_size)
    IN  IF "is_response" \in request.header.flags THEN Refused
        ELSE IF full # Refused THEN full
        ELSE write_question_message(header, << >>, maximum_size)

\* for a packet that could not be parsed: octets that are missing count as zero
make_header_only_error_response(request_prefix, response_code, maximum_size) ==
    LET request == decode_header(SubSeq(request_prefix \o <<0, 0, 0, 0>>, 1, 4))
    IN  IF Len(request_prefix) < 2 \/ "is_response" \in request.flags THEN Refused
        ELSE write_question_message(ResponseHeader(request, response_code), << >>, maximum_size)

make_address_response(request, answers, ttl, maximum_size) ==
    IF "is_response" \in request.header.flags \/ Len(request.questions) # 1 THEN Refused
    ELSE write_address_message(ResponseHeader(request.header, 0), request.questions[1],
                               answers, ttl, maximum_size)

-----------------------------------------------------------------------------
(* What the service makes of a response *)

SameQuestion(left, right) ==
    /\ SameName(left.name, right.name)
    /\ left.type = right.type /\ left.question_class = right.question_class

\* validate_upstream_response
ValidResponse(message, id, opcode, question) ==
    /\ "is_response" \in message.header.flags /\ "reserved_z" \notin message.header.flags
    /\ message.header.id = id /\ message.header.opcode = opcode
    /\ Len(message.questions) = 1 /\ SameQuestion(message.questions[1], question)

cacheable_address_set(message, question) ==
    IF /\ "is_response" \in message.header.flags /\ "truncated" \notin message.header.flags
       /\ message.header.response_code = 0
       /\ Len(message.questions) = 1 /\ SameQuestion(message.questions[1], question)
       /\ message.answers # << >> /\ message.authorities = << >> /\ message.additionals = << >>
       /\ \A i \in DOMAIN message.answers :
              LET answer == message.answers[i]
              IN  /\ SameName(answer.name, question.name) /\ answer.ttl # 0
                  /\ answer.type = question.type /\ answer.record_class = question.question_class
                  /\ <<answer.type, Len(answer.rdata)>> \in {<<TypeA, 4>>, <<TypeAAAA, 16>>}
    THEN [addresses |-> [i \in DOMAIN message.answers |-> message.answers[i].rdata],
          ttl |-> Min({message.answers[i].ttl : i \in DOMAIN message.answers})]
    ELSE Refused

-----------------------------------------------------------------------------
(* The inputs *)

WireInit == wire = [kind |-> "none"]

Begin ==
    /\ wire.kind = "none"
    /\ \/ \E kind \in {"packet", "text"} : wire' = [kind |-> kind, input |-> << >>]
       \/ \E e \in Exchanges : wire' = [kind |-> "exchange", exchange |-> e]

Extend(kind, alphabet, bound) ==
    /\ wire.kind = kind /\ Len(wire.input) < bound
    /\ \E symbol \in alphabet : wire' = [wire EXCEPT !.input = Append(@, symbol)]

WireNext ==
    Begin \/ Extend("packet", PacketOctets, MaxPacket) \/ Extend("text", TextTokens, MaxText)

-----------------------------------------------------------------------------
(* Properties *)

\* where the encoding that starts at the offset ends, whatever it points to
RECURSIVE EncodingEnd(_, _)
EncodingEnd(packet, offset) ==
    CASE OctetAt(packet, offset) = 0 -> offset + 1
      [] OctetAt(packet, offset) > 63 -> offset + 2
      [] OTHER -> EncodingEnd(packet, offset + 1 + OctetAt(packet, offset))

Zeros(n) == [i \in 1 .. n |-> 0]

NamesEnd(packet) ==
    \A start \in kDnsHeaderSize .. Len(packet) : \A encoded_end \in start .. Len(packet) :
        LET n == decode_name(packet, start, encoded_end)
        IN  /\ n.status # "reading"
            /\ n.status = "done" =>
                  /\ from_labels(n.labels) # Refused /\ wire_size(n.labels) = n.size
                  /\ n.next_offset = EncodingEnd(packet, start)
                  /\ n.next_offset <= encoded_end

\* a record of the root's, with RDATA of the given length
RecordOf(type, length, rdata) ==
    Zeros(kDnsHeaderSize) \o <<0>> \o U16(type) \o U16(ClassIN) \o U32(0) \o U16(length) \o rdata

\* the lengths with which RDATA that starts with these octets is accepted
Lengths(type, octets) ==
    {n \in 0 .. Len(octets) :
        parse_resource_record(RecordOf(type, n, octets), kDnsHeaderSize) # Refused}

\* decode_name ends on every packet, wherever it starts; a name that it returns
\* is one from_labels accepts, its encoding lies within the RDATA or the packet
\* given to it, and the parser goes on right behind that encoding, however many
\* pointers the name took.  So RDATA made of names and strings is accepted with
\* one length only.
NamesStayInPlace ==
    wire.kind = "packet" =>
        /\ NamesEnd(Zeros(kDnsHeaderSize) \o wire.input)
        /\ \A type \in {2, 13, 14, 15} : Cardinality(Lengths(type, wire.input)) <= 1
        /\ Cardinality(Lengths(6, wire.input \o Zeros(20))) <= 1

\* nothing short of the whole packet is a message
Whole(packet) ==
    \A size \in 0 .. Len(packet) - 1 : parse_message(SubSeq(packet, 1, size), kMaxU16) = Refused

\* a message without records
Bare(header, questions) == Message(header, <<questions, << >>, << >>, << >>>>)

QueryIsReadBack(e, packet) ==
    LET other == (e.header.id + 1) % 65536
    IN  packet # Refused =>
            /\ Len(packet) <= e.maximum_size /\ Whole(packet)
            /\ parse_message(packet, kMaxU16) = Bare(e.header, <<e.question>>)
            /\ parse_message(rewrite_transaction_id(packet, other), kMaxU16)
                   = Bare([e.header EXCEPT !.id = other], <<e.question>>)

AnswerIsReadBack(e, packet) ==
    packet # Refused =>
        /\ Len(packet) <= e.maximum_size /\ Whole(packet)
        /\ LET message == parse_message(packet, kUpstreamReceiveBufferSize)
           IN  /\ message # Refused
               /\ ValidResponse(message, e.header.id, e.header.opcode, e.question)
               /\ cacheable_address_set(message, e.question)
                      = [addresses |-> e.addresses, ttl |-> e.ttl]

ErrorIsReadBack(e, packet, response_code, echoes) ==
    IF e.maximum_size \notin kDnsHeaderSize .. kMaxU16 THEN packet = Refused
    ELSE /\ Len(packet) <= e.maximum_size
         /\ parse_message(packet, kMaxU16)
                \in {Bare(ResponseHeader(e.header, response_code), questions) : questions \in echoes}

\* the answer to a query that was cut off behind its flags
FormatErrorIsReadBack(e) ==
    LET query == serialize_query(e.header, <<e.question>>, kMaxU16)
    IN  \A size \in 4 .. Len(query) :
            ErrorIsReadBack(e, make_header_only_error_response(SubSeq(query, 1, size), 1,
                                                               e.maximum_size), 1, {<< >>})

TextIsReadBack(text) ==
    LET name == from_text(text) IN name # Refused => from_text(to_string(name)) = name

\* What the writer writes, the parser reads back: queries (also after their id
\* was rewritten), address responses with their compressed names, and errors,
\* which drop the question rather than a part of it; all within the size asked
\* for.  A query that is cut off gets its id and flags back with the format error.
\* The responses pass the checks for upstream responses, and the cache gets
\* back the addresses and the TTL.  The text of a name reads back as that name.
WrittenIsReadBack ==
    CASE wire.kind = "exchange" ->
             LET e       == wire.exchange
                 request == Bare(e.header, <<e.question>>)
             IN  /\ QueryIsReadBack(e, serialize_query(e.header, request.questions, e.maximum_size))
                 /\ AnswerIsReadBack(e, make_address_response(request, e.addresses, e.ttl,
                                                              e.maximum_size))
                 /\ ErrorIsReadBack(e, make_error_response(request, 3, e.maximum_size), 3,
                                    {request.questions, << >>})
                 /\ FormatErrorIsReadBack(e)
      [] wire.kind = "text" -> TextIsReadBack(wire.input)
      [] OTHER -> TRUE

=============================================================================
