-------------------------- MODULE MCDataStructures --------------------------
(* Small inputs for the data structures. *)
EXTENDS DataStructures

MCRegistrations == 1 .. 6

\* the upstream's answers: two to keep, one with a record that must not be kept
MCAnswers ==
    {[plain |-> TRUE, ttls |-> <<1>>], [plain |-> TRUE, ttls |-> <<3, 2>>],
     [plain |-> TRUE, ttls |-> <<2, 0>>], [plain |-> FALSE, ttls |-> <<1>>]}

\* names over the labels "a", "b", "c", closed under suffixes, without the root
A == <<"a">>
BA == <<"b", "a">>
CA == <<"c", "a">>
B == <<"b">>
MCNames == {A, BA, CA, B}

MCHashes == [MCNames -> {[index |-> 0, fp |-> 1], [index |-> 0, fp |-> 2], [index |-> 1, fp |-> 2],
                         [index |-> 0, fp |-> 3], [index |-> 0, fp |-> 4]}]

\* with 4 buckets all share the first two, with 8 all but the last do
MCDelta == <<1, 8, 9, 4>>

Plain(name) == [kind |-> "plain", name |-> name]
MCRuleLists ==
    {<<Plain(A), Plain(BA), Plain(CA), Plain(B)>>,
     <<Plain(BA), Plain(B), Plain(BA), Plain(CA)>>,
     <<Plain(BA), Plain(Root)>>,
     <<Plain(CA), [kind |-> "invalid", name |-> Root]>>,
     <<[kind |-> "wildcard", name |-> A]>>, << >>}

\* queries as clients send them, with names up to the size allowed
MCNamesOnWire == {<< >>, <<<<65>>>>, <<<<97, 46>>, <<66>>>>, <<<<200>>, <<98>>, <<99>>>>}

MCHeaders ==
    [id : {258, 65535}, opcode : {0}, response_code : {0},
     flags : {{}, {"recursion_desired", "checking_disabled"}}]

Address(octets, first) == [i \in 1 .. octets |-> IF i = 1 THEN first ELSE i]

MCExchanges ==
    {[header |-> header, question |-> [name |-> name, type |-> of.type, question_class |-> ClassIN],
      addresses |-> of.addresses, ttl |-> ttl, maximum_size |-> maximum_size] :
        header \in MCHeaders, name \in MCNamesOnWire,
        of \in {[type |-> TypeA, addresses |-> <<Address(4, 10), Address(4, 192)>>],
                [type |-> TypeAAAA, addresses |-> <<Address(16, 32)>>]},
        ttl \in {1, 65536, 2147483647}, maximum_size \in {11, 12, 24, 56, 512, 65536}}

\* bare, escaped and decimal octets, dots, and an escape that is none
MCTextTokens ==
    {Separator, BadEscape, Token(97, "bare"), Token(Dot, "escaped"), Token(Backslash, "escaped"),
     Token(Dot, "decimal"), Token(7, "decimal")}

=============================================================================
