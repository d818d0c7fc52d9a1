-------------------------- MODULE RequestPathProofs --------------------------
(***************************************************************************)
(* Proofs about RequestPath, for any number of datagrams under way, any    *)
(* contents, any rules and any budgets.  The inductive invariant says      *)
(*                                                                         *)
(*  SocketInv    a closed upstream socket has nothing pending, a closed    *)
(*               listener has no datagrams, and nothing is resumed after   *)
(*               the loop but by a scheduler that has seen the stop        *)
(*  RequestInv   what is known of a datagram at each stage of its way      *)
(*  QueueInv     the socket's buffer holds datagrams nobody has received   *)
(***************************************************************************)
EXTENDS RequestPath, TLAPS

Outcomes == {"nothing", "address", "error", "lost"}

Stages == {"none", "socket", "spawned", "waiting", "resumed"}

Anything == {Nothing} \cup (UNION {Contents[r] : r \in Requests})

RequestType == [stage : Stages, content : Anything,
                blocked : BOOLEAN, outcome : {"none", "addresses", "other", "failed"},
                sent : Outcomes]

\* The variables the proofs need, with the values the code's flags and places allow.
DataType ==
    /\ request \in [Requests -> RequestType]
    /\ socket \in Seq(Requests)
    /\ filter \in [published : SUBSET Names, snapshot : SUBSET Names]

EventRecord == [listener : BOOLEAN, upstream : BOOLEAN, hangup : BOOLEAN, generation : BOOLEAN]

LoopPlaces == {"wait", "listener", "upstream", "errors", "run", "drain", "off"}

LoopRecord == [at : LoopPlaces, budget : Int, listener_pending : BOOLEAN,
               upstream_pending : BOOLEAN, hangup_pending : BOOLEAN, receive_failed : BOOLEAN]

LoopType ==
    /\ event \in EventRecord
    /\ loop \in LoopRecord
    /\ upstream \in [usable : BOOLEAN, open : BOOLEAN]
    /\ stop \in [requested : BOOLEAN, observed : BOOLEAN]
    /\ misuse \in BOOLEAN

TypeOK == DataType /\ LoopType

SocketInv ==
    /\ ~misuse
    /\ upstream.usable => upstream.open
    /\ ~upstream.open => ~event.upstream /\ ~loop.upstream_pending
    /\ loop.at = "drain" => stop.observed
    /\ loop.at \in {"drain", "off"} => socket = << >>

\* what is known of datagram r when its record is q: it holds what arrived; it is
\* blocked only by the snapshot; it is forwarded only when it may be answered
Proper(r, q, snapshot) ==
    /\ q.stage # "none" => /\ q.content \in Contents[r]
                           /\ q.blocked => q.content.question \in snapshot
    /\ q.stage \in {"waiting", "resumed"} => ~q.blocked /\ "NotAQuery" \notin q.content.flaws

RequestInv == \A r \in Requests : Proper(r, request[r], filter.snapshot)

QueueInv ==
    /\ \A i \in 1 .. Len(socket) : request[socket[i]].stage = "socket"
    /\ \A i, j \in 1 .. Len(socket) : socket[i] = socket[j] => i = j

\* The inductive invariant: see the head of this module.
InductiveInvariant == SocketInv /\ RequestInv /\ QueueInv
-----------------------------------------------------------------------------
(* evaluate_datagram *)

\* A message that is a response is found to be one, whatever else is wrong with it.
LEMMA Validated ==
    ASSUME NEW c, "NotAQuery" \in c.flaws
    PROVE  validate_mvp_query(c) = "NotAQuery"
<1> DEFINE I == {i \in DOMAIN QueryErrors : QueryErrors[i] \in c.flaws}
<1>1. DOMAIN QueryErrors = 1 .. 8 /\ QueryErrors[1] = "NotAQuery" BY DEF QueryErrors
<1>2. 1 \in I /\ \A y \in I : 1 <= y BY <1>1
<1>3. ASSUME NEW x \in I, \A y \in I : x <= y PROVE x = 1
  <2>1. x \in Int BY <1>1
  <2> QED BY <1>2, <1>3, <2>1
<1>4. Min(I) = 1 BY <1>2, <1>3, Zenon DEF Min
<1> QED BY <1>1, <1>2, <1>4, Zenon DEF validate_mvp_query

\* A response is neither forwarded nor answered, except that too short a datagram may
\* be taken for a query.
LEMMA Evaluated ==
    ASSUME NEW c, c.form \in {"truncated", "malformed", "message"}, c.size \in Nat,
           "NotAQuery" \in c.flaws
    PROVE  /\ evaluate_datagram(c) # "accepted"
           /\ evaluate_datagram(c) # "nothing" => c.size < 3
<1>1. validate_mvp_query(c) = "NotAQuery" BY Validated, Zenon
<1>2. CASE c.form = "truncated"
  BY <1>2, Zenon DEF evaluate_datagram, make_header_only_error_response
<1>3. CASE c.form = "malformed"
  BY <1>3 DEF evaluate_datagram, make_header_only_error_response
<1>4. CASE c.form = "message" BY <1>1, <1>4, Zenon DEF evaluate_datagram
<1> QED BY <1>2, <1>3, <1>4, Zenon

\* evaluate_datagram accepts, drops or names an error.
LEMMA EvaluatedKinds ==
    ASSUME NEW c, c.form \in {"truncated", "malformed", "message"}
    PROVE  evaluate_datagram(c) \in {"accepted", "nothing", "FORMERR", "NOTIMP"}
<1>1. CASE c.form = "truncated"
  BY <1>1, Zenon DEF evaluate_datagram, make_header_only_error_response
<1>2. CASE c.form = "malformed"
  BY <1>2, Zenon DEF evaluate_datagram, make_header_only_error_response
<1>3. CASE c.form = "message" BY <1>3, Zenon DEF evaluate_datagram,
                           response_code_for
<1> QED BY <1>1, <1>2, <1>3, Zenon
-----------------------------------------------------------------------------
(* What a step does to the datagrams *)

DataInv == DataType /\ RequestInv /\ QueueInv

\* A step that leaves the datagrams and the snapshot alone.
LEMMA DataKept ==
    ASSUME DataInv, UNCHANGED <<request, socket>>,
           filter' \in [published : SUBSET Names, snapshot : SUBSET Names],
           filter'.snapshot = filter.snapshot
    PROVE  DataInv'
BY Zenon DEF DataInv, DataType, RequestInv, QueueInv

\* A datagram that is not in the socket's buffer goes on.
LEMMA DatagramMoves ==
    ASSUME DataInv, UNCHANGED <<socket, filter>>, NEW r \in Requests, request[r].stage # "socket",
           NEW q \in RequestType, Proper(r, q, filter.snapshot),
           request' = [request EXCEPT ![r] = q]
    PROVE  DataInv'
<1>1. request \in [Requests -> RequestType] BY Zenon DEF DataInv, DataType
<1>2. DataType' BY <1>1, Zenon DEF DataInv, DataType
<1>3. /\ request'[r] = q
      /\ \A p \in Requests : p # r => request'[p] = request[p]
  BY <1>1, Zenon
<1>4. RequestInv' BY <1>3, Zenon DEF DataInv, RequestInv
<1>5. QueueInv'
  <2>1. ASSUME NEW i \in 1 .. Len(socket) PROVE request'[socket[i]].stage = "socket"
    <3>1. socket[i] \in Requests /\ request[socket[i]].stage = "socket"
      BY <2>1 DEF DataInv, DataType, QueueInv
    <3> QED BY <1>3, <3>1, Zenon
  <2> QED BY <2>1, Zenon DEF DataInv, QueueInv
<1> QED BY <1>2, <1>4, <1>5, Zenon DEF DataInv

\* What becomes of a datagram when the queries of some end.
LEMMA EndedProper ==
    ASSUME DataInv, NEW S \in SUBSET Waiting,
           NEW outcome \in {"addresses", "other", "failed"}, EndQueries(S, outcome),
           NEW r \in Requests
    PROVE  /\ request'[r] \in RequestType /\ Proper(r, request'[r], filter.snapshot)
           /\ request'[r] = request[r]
              \/ (request[r].stage = "waiting" /\ request'[r].stage = "resumed")
<1>1. request \in [Requests -> RequestType] BY Zenon DEF DataInv, DataType
<1>2. CASE r \notin S
  <2>1. request'[r] = request[r] BY <1>2, Zenon DEF EndQueries
  <2> QED BY <1>1, <2>1, Zenon DEF DataInv, RequestInv
<1>3. CASE r \in S
  <2>1. PICK q \in RequestType : q = request[r] BY <1>1, Zenon
  <2>2. q.stage = "waiting" BY <1>3, <2>1, Zenon DEF Waiting
  <2>3. request'[r] = [q EXCEPT !.stage = "resumed", !.outcome = outcome]
    BY <1>3, <2>1, Zenon DEF EndQueries
  <2>4. /\ request'[r] \in RequestType /\ request'[r].stage = "resumed"
        /\ request'[r].content = q.content /\ request'[r].blocked = q.blocked
    BY <2>3, Zenon DEF RequestType, Stages
  <2>5. Proper(r, q, filter.snapshot) BY <2>1 DEF DataInv, RequestInv
  <2> QED BY <2>1, <2>2, <2>4, <2>5, Zenon DEF Proper
<1> QED BY <1>2, <1>3, Zenon

\* The queries of some datagrams end.
LEMMA QueriesEnded ==
    ASSUME DataInv, UNCHANGED <<socket, filter>>, NEW S \in SUBSET Waiting,
           NEW outcome \in {"addresses", "other", "failed"}, EndQueries(S, outcome)
    PROVE  DataInv'
<1>1. \A r \in Requests :
          /\ request'[r] \in RequestType /\ Proper(r, request'[r], filter.snapshot)
          /\ request'[r] = request[r]
             \/ (request[r].stage = "waiting" /\ request'[r].stage = "resumed")
  BY EndedProper
<1>2. request' \in [Requests -> RequestType] BY <1>1, Zenon DEF EndQueries
<1>3. RequestInv' BY <1>1, Zenon DEF RequestInv
<1>4. \A r \in Requests : request[r].stage = "socket" => request'[r] = request[r] BY
                           <1>1, Zenon
<1>5. QueueInv' BY <1>4 DEF DataInv, DataType, QueueInv
<1> QED BY <1>2, <1>3, <1>5 DEF DataInv, DataType

\* A place no datagram is in.
LEMMA IdleType == Idle \in RequestType /\ Idle.stage = "none"
<1>1. Nothing \in Anything BY Zenon DEF Anything
<1>2. "none" \in Stages BY Zenon DEF Stages
<1>3. Idle.stage = "none" BY Zenon DEF Idle
<1>4. Idle \in RequestType BY <1>1, <1>2, Zenon DEF Idle, RequestType, Outcomes
<1> QED BY <1>3, <1>4, Zenon

\* What Finish leaves of a datagram.
LEMMA FinishedIsProper ==
    ASSUME NEW r, NEW sent \in Outcomes, NEW snapshot,
           NEW q, q = [Idle EXCEPT !.sent = sent]
    PROVE  /\ q \in RequestType /\ q.stage = "none" /\ q.sent = sent
           /\ Proper(r, q, snapshot)
<1>1. PICK i \in RequestType : i = Idle /\ i.stage = "none" BY IdleType, Zenon
<1>2. q \in RequestType /\ q.stage = "none" /\ q.sent = sent BY <1>1, Zenon DEF
                           RequestType
<1>3. Proper(r, q, snapshot) BY <1>2, Zenon DEF Proper
<1> QED BY <1>2, <1>3, Zenon
-----------------------------------------------------------------------------
(* The environment *)

\* What a step outside the loop may do to the loop's state.
LEMMA OutsideStep ==
    ASSUME TypeOK, InductiveInvariant, DataInv', UNCHANGED <<loop, upstream, misuse>>,
           socket' = socket \/ loop.at \in {"wait", "listener"},
           event' \in EventRecord,
           event'.upstream = event.upstream \/ upstream.open,
           stop' \in [requested : BOOLEAN, observed : BOOLEAN], stop'.observed = stop.observed
    PROVE  (TypeOK /\ InductiveInvariant)'
<1>1. LoopType' BY Zenon DEF TypeOK, LoopType
<1>2. SocketInv' BY Zenon DEF InductiveInvariant, SocketInv
<1> QED BY <1>1, <1>2, Zenon DEF TypeOK, InductiveInvariant, DataInv

\* A datagram arrives.
LEMMA ArriveStep ==
    ASSUME TypeOK, InductiveInvariant, NEW r \in Requests, NEW content \in Contents[r],
           Arrive(r, content)
    PROVE  (TypeOK /\ InductiveInvariant)'
<1> DEFINE q == [Idle EXCEPT !.stage = "socket", !.content = content,
                             !.blocked = content.question \in filter.snapshot]
<1>1. /\ request[r].stage = "none" /\ socket' = Append(socket, r) /\ loop.at \in {"wait", "listener"}
      /\ event' = [event EXCEPT !.listener = TRUE] /\ request' = [request EXCEPT ![r] = q]
      /\ UNCHANGED <<loop, upstream, filter, stop, misuse>>
  BY Zenon DEF Arrive
<1>2. request \in [Requests -> RequestType] /\ socket \in Seq(Requests) BY Zenon DEF
                           TypeOK, DataType
<1>3. q \in RequestType /\ Proper(r, q, filter.snapshot) /\ q.stage = "socket"
  <2>1. PICK i \in RequestType : i = Idle BY IdleType, Zenon
  <2>2. PICK b \in BOOLEAN : b <=> content.question \in filter.snapshot BY Zenon
  <2>3. (content.question \in filter.snapshot) = b BY <2>2
  <2>4. content \in Anything BY DEF Anything
  <2>5. q = [i EXCEPT !.stage = "socket", !.content = content, !.blocked = b] BY
                           <2>1, <2>3, Zenon
  <2> HIDE DEF q
  <2>6. q \in RequestType /\ q.stage = "socket" /\ q.content = content /\ q.blocked = b
    BY <2>4, <2>5, Zenon DEF RequestType, Stages
  <2> QED BY <2>2, <2>6, Zenon DEF Proper
<1> HIDE DEF q
<1>4. /\ request' \in [Requests -> RequestType] /\ request'[r] = q
      /\ \A p \in Requests : p # r => request'[p] = request[p]
  BY <1>1, <1>2, <1>3
<1>5. /\ socket' \in Seq(Requests) /\ Len(socket') = Len(socket) + 1 /\ Len(socket) \in Nat
      /\ socket'[Len(socket) + 1] = r
      /\ \A i \in 1 .. Len(socket) : socket'[i] = socket[i] /\ socket[i] \in Requests
  BY <1>1, <1>2
<1>6. \A i \in 1 .. Len(socket) : socket[i] # r BY <1>1, Zenon DEF
                           InductiveInvariant, QueueInv
<1>7. \A i \in 1 .. Len(socket') :
          i \in 1 .. Len(socket) \/ (i = Len(socket) + 1 /\ socket'[i] = r)
  BY <1>5
<1>8. QueueInv'
  <2>1. \A i \in 1 .. Len(socket') : request'[socket'[i]].stage = "socket"
    BY <1>3, <1>4, <1>5, <1>6, <1>7 DEF InductiveInvariant, QueueInv
  <2>2. \A i, j \in 1 .. Len(socket') : socket'[i] = socket'[j] => i = j
    BY <1>5, <1>6, <1>7, ZenonT(40) DEF InductiveInvariant, QueueInv
  <2> QED BY <2>1, <2>2, Zenon DEF QueueInv
<1>9. RequestInv' BY <1>1, <1>3, <1>4, Zenon DEF InductiveInvariant, RequestInv
<1>10. DataInv' BY <1>1, <1>4, <1>5, <1>8, <1>9, Zenon DEF DataInv, DataType, TypeOK
<1>11. /\ event' \in EventRecord
       /\ event'.upstream = event.upstream
  BY <1>1, Zenon DEF TypeOK, LoopType, EventRecord
<1> QED BY <1>1, <1>10, <1>11, OutsideStep, Zenon DEF TypeOK, LoopType, EventRecord

\* The other steps of clients, of the upstream and of other threads.
LEMMA OtherOutsideStep ==
    ASSUME TypeOK, InductiveInvariant,
           \/ \E r \in Requests : Reply(r)
           \/ HangUp \/ RequestStop
           \/ \E rules \in SUBSET Names : Publish(rules)
           \/ \E name \in Names : Forget(name)
    PROVE  (TypeOK /\ InductiveInvariant)'
<1>1. DataInv /\ LoopType BY DEF TypeOK, InductiveInvariant, DataInv
<1>2. UNCHANGED <<request, socket, loop, upstream, misuse>>
  BY DEF Reply, HangUp, RequestStop, Publish, Forget
<1>3. CASE (\E r \in Requests : Reply(r)) \/ HangUp
  <2>1. /\ upstream.open /\ UNCHANGED <<filter, stop>>
        /\ \/ event' = [event EXCEPT !.upstream = TRUE]
           \/ event' = [event EXCEPT !.upstream = TRUE, !.hangup = TRUE]
    BY <1>3, Zenon DEF Reply, HangUp
  <2>2. event' \in EventRecord
    BY <1>1, <2>1, Zenon DEF LoopType, EventRecord
  <2>3. DataInv' BY <1>1, <1>2, <2>1, DataKept DEF DataInv, DataType
  <2> QED BY <1>1, <1>2, <2>1, <2>2, <2>3, OutsideStep DEF LoopType, EventRecord
<1>4. ASSUME NEW rules \in SUBSET Names, Publish(rules) PROVE (TypeOK /\ InductiveInvariant)'
  <2>1. /\ filter' = [filter EXCEPT !.published = rules]
        /\ event' = [event EXCEPT !.generation = TRUE] /\ UNCHANGED stop
    BY <1>4, Zenon DEF Publish
  <2>2. /\ event' \in EventRecord
        /\ event'.upstream = event.upstream
    BY <1>1, <2>1, Zenon DEF LoopType, EventRecord
  <2>3. /\ filter' \in [published : SUBSET Names, snapshot : SUBSET Names]
        /\ filter'.snapshot = filter.snapshot
    BY <1>1, <2>1 DEF DataInv, DataType
  <2>4. DataInv' BY <1>1, <1>2, <2>3, DataKept
  <2> QED BY <1>1, <1>2, <2>1, <2>2, <2>4, OutsideStep DEF LoopType, EventRecord
<1>5. CASE RequestStop \/ \E name \in Names : Forget(name)
  <2>1. UNCHANGED <<event, filter>> /\ (stop' = [stop EXCEPT !.requested = TRUE] \/ stop' = stop)
    BY <1>5, Zenon DEF RequestStop, Forget
  <2>2. stop' \in [requested : BOOLEAN, observed : BOOLEAN] /\ stop'.observed = stop.observed
    BY <1>1, <2>1, Zenon DEF LoopType, EventRecord
  <2>3. DataInv' BY <1>1, <1>2, <2>1, DataKept DEF DataInv, DataType
  <2> QED BY <1>1, <1>2, <2>1, <2>2, <2>3, OutsideStep, Zenon DEF LoopType,
             EventRecord
<1> QED BY <1>3, <1>4, <1>5
-----------------------------------------------------------------------------
(* The event loop *)

\* Goto keeps the flags.
LEMMA GotoType ==
    ASSUME loop \in LoopRecord, NEW place \in LoopPlaces, NEW budget \in Int, Goto(place, budget)
    PROVE  /\ loop' \in LoopRecord /\ loop'.at = place
           /\ loop'.upstream_pending = loop.upstream_pending
BY Zenon DEF Goto, LoopRecord

\* A step that only moves the thread on, and may clear a pending flag.
LEMMA PlaceStep ==
    ASSUME TypeOK, InductiveInvariant, StopReceiving \/ ReceiveFails \/ EndIteration
    PROVE  (TypeOK /\ InductiveInvariant)'
<1>1. DataInv /\ LoopType /\ SocketInv BY Zenon DEF TypeOK, InductiveInvariant,
                           DataInv
<1>2. UNCHANGED <<request, socket, event, upstream, filter, stop, misuse>>
  BY Zenon DEF StopReceiving, ReceiveFails, EndIteration
<1>3. /\ loop' \in LoopRecord
      /\ loop'.upstream_pending = loop.upstream_pending /\ loop'.at \in {"wait", "upstream"}
  <2>1. loop \in LoopRecord BY <1>1, Zenon DEF LoopType
  <2>2. kUpstreamReceiveBudget \in Int BY RequestPathAssumption
  <2>3. CASE StopReceiving
    <3>1. PICK p \in BOOLEAN : p = (loop.listener_pending /\ loop.budget = 0 /\ ~stop.requested)
      BY <2>1, Zenon DEF LoopRecord
    <3>2. loop' = [loop EXCEPT !.at = "upstream", !.budget = kUpstreamReceiveBudget,
                               !.listener_pending = p]
      BY <2>3, <3>1 DEF StopReceiving
    <3> QED BY <2>1, <2>2, <3>2, Zenon DEF LoopRecord, LoopPlaces
  <2>4. CASE ReceiveFails
    <3>1. loop' = [loop EXCEPT !.at = "upstream", !.budget = kUpstreamReceiveBudget,
                               !.listener_pending = FALSE, !.receive_failed = TRUE]
      BY <2>4 DEF ReceiveFails
    <3> QED BY <2>1, <2>2, <3>1, Zenon DEF LoopRecord, LoopPlaces
  <2>5. CASE EndIteration
    <3>1. Goto("wait", 0) /\ "wait" \in LoopPlaces /\ 0 \in Int BY <2>5 DEF
                           EndIteration, LoopPlaces
    <3> QED BY <2>1, <3>1, GotoType
  <2> QED BY <2>3, <2>4, <2>5, Zenon
<1>4. DataInv' BY <1>1, <1>2, DataKept, Zenon DEF DataInv, DataType
<1>5. LoopType' BY <1>1, <1>2, <1>3, Zenon DEF LoopType
<1>6. SocketInv' BY <1>1, <1>2, <1>3, Zenon DEF SocketInv
<1> QED BY <1>4, <1>5, <1>6, Zenon DEF TypeOK, InductiveInvariant, DataInv

\* epoll_wait returns, and a new filter is adopted.
LEMMA WaitStep ==
    ASSUME TypeOK, InductiveInvariant, WaitForEvents
    PROVE  (TypeOK /\ InductiveInvariant)'
<1>1. DataType /\ LoopType /\ SocketInv /\ RequestInv /\ QueueInv BY Zenon DEF
                           TypeOK, InductiveInvariant
<1>2. UNCHANGED <<socket, upstream, stop, misuse>> BY Zenon DEF WaitForEvents
<1>3. event' \in EventRecord /\ event'.upstream = FALSE
  <2>1. event' = [e \in DOMAIN event |-> FALSE] BY DEF WaitForEvents
  <2>2. DOMAIN event = {"listener", "upstream", "hangup", "generation"}
    BY <1>1 DEF LoopType, EventRecord
  <2> QED BY <2>1, <2>2, Zenon DEF EventRecord
<1>4. filter' \in [published : SUBSET Names, snapshot : SUBSET Names]
  <2>1. filter \in [published : SUBSET Names, snapshot : SUBSET Names] BY <1>1,
                           Zenon DEF DataType
  <2>2. filter' = [filter EXCEPT !.snapshot = filter.published] \/ filter' = filter
    BY Zenon DEF WaitForEvents
  <2> QED BY <2>1, <2>2
<1>5. ASSUME NEW r \in Requests
      PROVE  /\ request'[r] \in RequestType /\ request'[r].stage = request[r].stage
             /\ Proper(r, request'[r], filter'.snapshot)
  <2>1. PICK q \in RequestType : q = request[r] BY <1>1, Zenon DEF DataType
  <2>2. PICK b \in BOOLEAN : b = (q.blocked /\ q.content.question \in filter'.snapshot)
    BY <2>1, Zenon DEF RequestType
  <2>3. request'[r] = [q EXCEPT !.blocked = b] BY <2>1, <2>2 DEF WaitForEvents
  <2>4. /\ request'[r] \in RequestType /\ request'[r].stage = q.stage
        /\ request'[r].content = q.content /\ request'[r].blocked = b
    BY <2>1, <2>2, <2>3, Zenon DEF RequestType
  <2>5. Proper(r, q, filter.snapshot) BY <1>1, <2>1 DEF RequestInv
  <2>6. b => q.blocked /\ q.content.question \in filter'.snapshot BY <2>2, Zenon
  <2>7. Proper(r, request'[r], filter'.snapshot) BY <2>4, <2>5, <2>6 DEF Proper
  <2> QED BY <2>1, <2>4, <2>7, Zenon
<1>6. request' \in [Requests -> RequestType] BY <1>5, Zenon DEF WaitForEvents
<1>7. RequestInv' BY <1>5 DEF RequestInv
<1>8. QueueInv' BY <1>1, <1>2, <1>5 DEF DataType, QueueInv
<1>9. PICK listener, failed, pending, hangup \in BOOLEAN :
          /\ pending => loop.upstream_pending \/ event.upstream
          /\ loop' = [loop EXCEPT !.at = "listener", !.budget = kReceiveBudget,
                                  !.listener_pending = listener, !.receive_failed = failed,
                                  !.upstream_pending = pending, !.hangup_pending = hangup]
  <2>1. /\ (loop.listener_pending \/ event.listener) \in BOOLEAN
        /\ (loop.receive_failed /\ ~event.listener) \in BOOLEAN
        /\ (loop.upstream_pending \/ event.upstream) \in BOOLEAN
        /\ (loop.hangup_pending \/ event.hangup) \in BOOLEAN
    BY Zenon
  <2> QED BY <2>1, ZenonT(40) DEF WaitForEvents
<1>10. loop' \in LoopRecord /\ loop'.upstream_pending = pending /\ loop'.at = "listener"
  <2>1. loop \in LoopRecord /\ kReceiveBudget \in Int BY <1>1, RequestPathAssumption
                           DEF LoopType
  <2> QED BY <1>9, <2>1, ZenonT(40) DEF LoopRecord, LoopPlaces
<1>11. SocketInv' BY <1>1, <1>2, <1>3, <1>9, <1>10 DEF SocketInv
<1>12. LoopType' BY <1>1, <1>2, <1>3, <1>10 DEF LoopType
<1>13. DataType' BY <1>1, <1>2, <1>4, <1>6, Zenon DEF DataType
<1> QED BY <1>7, <1>8, <1>11, <1>12, <1>13, Zenon DEF TypeOK, InductiveInvariant

\* A datagram is taken out of the socket's buffer, and its record becomes s.
LEMMA TakenStep ==
    ASSUME TypeOK, InductiveInvariant, socket # << >>, socket' = Tail(socket),
           loop.at = "listener", Goto("listener", loop.budget - 1),
           UNCHANGED <<event, upstream, filter, stop, misuse>>,
           NEW r \in Requests, r = Head(socket), NEW s \in RequestType,
           Proper(r, s, filter.snapshot), request' = [request EXCEPT ![r] = s]
    PROVE  (TypeOK /\ InductiveInvariant)'
<1>1. DataType /\ LoopType /\ SocketInv /\ RequestInv /\ QueueInv BY DEF TypeOK,
                           InductiveInvariant
<1>3. /\ socket' \in Seq(Requests) /\ Len(socket) \in Nat \ {0} /\ Len(socket') = Len(socket) - 1
      /\ r = socket[1]
      /\ \A i \in 1 .. Len(socket') : /\ socket'[i] = socket[i + 1]
                                      /\ i + 1 \in 1 .. Len(socket) /\ socket[i + 1] \in Requests
  BY <1>1 DEF DataType
<1>10. /\ request' \in [Requests -> RequestType] /\ request'[r] = s
       /\ \A p \in Requests : p # r => request'[p] = request[p]
  BY <1>1, Zenon DEF DataType
<1>11. RequestInv' BY <1>1, <1>10, Zenon DEF RequestInv
<1>12. QueueInv'
  <2>1. ASSUME NEW i \in 1 .. Len(socket') PROVE request'[socket'[i]].stage = "socket"
    <3>1. socket[i + 1] # r BY <1>1, <1>3 DEF QueueInv
    <3>2. request[socket[i + 1]].stage = "socket" BY <1>1, <1>3, Zenon DEF QueueInv
    <3> QED BY <1>3, <1>10, <3>1, <3>2, Zenon
  <2>2. ASSUME NEW i \in 1 .. Len(socket'), NEW j \in 1 .. Len(socket'), socket'[i] = socket'[j]
        PROVE  i = j
    <3>1. i + 1 = j + 1 BY <1>1, <1>3, <2>2, SMTT(30) DEF QueueInv
    <3> QED BY <3>1, <1>3
  <2> QED BY <2>1, <2>2, Zenon DEF QueueInv
<1>13. loop' \in LoopRecord /\ loop'.upstream_pending = loop.upstream_pending /\ loop'.at = "listener"
  <2>1. loop \in LoopRecord BY <1>1, Zenon DEF LoopType
  <2>2. loop.budget - 1 \in Int /\ "listener" \in LoopPlaces BY <2>1 DEF LoopRecord,
                           LoopPlaces
  <2> QED BY <2>1, <2>2, GotoType, Zenon
<1>14. SocketInv' BY <1>1, <1>13, Zenon DEF SocketInv
<1>15. LoopType' BY <1>1, <1>13, Zenon DEF LoopType
<1>16. DataType' BY <1>1, <1>3, <1>10, Zenon DEF DataType
<1> QED BY <1>11, <1>12, <1>14, <1>15, <1>16, Zenon DEF TypeOK, InductiveInvariant

\* A datagram is received, and its coroutine spawned or not.
LEMMA ReceiveStep ==
    ASSUME TypeOK, InductiveInvariant, Receive \/ DropDatagram
    PROVE  (TypeOK /\ InductiveInvariant)'
<1>1. DataType /\ RequestInv /\ QueueInv BY DEF TypeOK, InductiveInvariant
<1>2. /\ socket # << >> /\ socket' = Tail(socket) /\ loop.at = "listener"
      /\ Goto("listener", loop.budget - 1)
      /\ UNCHANGED <<event, upstream, filter, stop, misuse>>
  BY Zenon DEF Receive, DropDatagram
<1>3. Head(socket) = socket[1] /\ socket[1] \in Requests /\ 1 \in 1 .. Len(socket)
  BY <1>1, <1>2 DEF DataType
<1>4. PICK r \in Requests : r = Head(socket) BY <1>3, Zenon
<1>5. PICK q \in RequestType : q = request[r] BY <1>1 DEF DataType
<1>6. q.stage = "socket" BY <1>1, <1>3, <1>4, <1>5, Zenon DEF QueueInv
<1>7. CASE Receive
  <2>1. PICK s : s = [q EXCEPT !.stage = "spawned"] BY Zenon
  <2>2. /\ s \in RequestType /\ s.stage = "spawned"
        /\ s.content = q.content /\ s.blocked = q.blocked
    BY <2>1 DEF RequestType, Stages
  <2>3. Proper(r, q, filter.snapshot) BY <1>1, <1>5, Zenon DEF RequestInv
  <2>4. Proper(r, s, filter.snapshot) BY <1>6, <2>2, <2>3 DEF Proper
  <2>5. request' = [request EXCEPT ![r] = s]
    BY <1>1, <1>4, <1>5, <1>7, <2>1, Zenon DEF DataType, Receive
  <2> QED BY <1>2, <1>4, <2>2, <2>4, <2>5, TakenStep, Zenon
<1>8. CASE DropDatagram
  <2>1. PICK s : s = [Idle EXCEPT !.sent = "lost"] BY Zenon
  <2>2. "lost" \in Outcomes BY Zenon DEF Outcomes
  <2>3. s \in RequestType /\ Proper(r, s, filter.snapshot)
    BY <2>1, <2>2, FinishedIsProper, Zenon
  <2>4. request' = [request EXCEPT ![r] = s] BY <1>4, <1>8, <2>1, Zenon DEF DropDatagram
  <2> QED BY <1>2, <1>4, <2>3, <2>4, TakenStep, Zenon
<1> QED BY <1>7, <1>8, Zenon
\* A reply is taken from the upstream socket, which is open then.
LEMMA DrainReplyStep ==
    ASSUME TypeOK, InductiveInvariant, DrainReply
    PROVE  (TypeOK /\ InductiveInvariant)'
<1>1. DataInv /\ LoopType /\ SocketInv BY Zenon DEF TypeOK, InductiveInvariant,
                           DataInv
<1>2. /\ loop.at = "upstream" /\ loop.upstream_pending /\ misuse' = (misuse \/ ~upstream.open)
      /\ Goto("upstream", loop.budget - 1)
      /\ UNCHANGED <<socket, event, upstream, filter, stop>>
  BY Zenon DEF DrainReply
<1>3. ~misuse' /\ misuse' \in BOOLEAN BY <1>1, <1>2, Zenon DEF SocketInv
<1>4. PICK outcome \in {"addresses", "other"} : EndQueries({Head(replies)} \cap Waiting, outcome)
  BY DEF DrainReply
<1>5. DataInv'
  <2>1. {Head(replies)} \cap Waiting \in SUBSET Waiting BY Zenon
  <2>2. outcome \in {"addresses", "other", "failed"} BY Zenon
  <2> QED BY <1>1, <1>2, <1>4, <2>1, <2>2, QueriesEnded, Zenon
<1>6. loop' \in LoopRecord /\ loop'.at = "upstream" /\ loop'.upstream_pending = loop.upstream_pending
  <2>1. loop \in LoopRecord BY <1>1 DEF LoopType
  <2>2. loop.budget - 1 \in Int /\ "upstream" \in LoopPlaces BY <2>1 DEF LoopRecord,
                           LoopPlaces
  <2> QED BY <1>2, <2>1, <2>2, GotoType, Zenon
<1>7. SocketInv' BY <1>1, <1>2, <1>3, <1>6, Zenon DEF SocketInv
<1>8. LoopType' BY <1>1, <1>2, <1>3, <1>6, Zenon DEF LoopType
<1> QED BY <1>5, <1>7, <1>8, Zenon DEF TypeOK, InductiveInvariant, DataInv

\* The upstream socket has been drained, or failed.
LEMMA StopDrainingStep ==
    ASSUME TypeOK, InductiveInvariant, StopDraining
    PROVE  (TypeOK /\ InductiveInvariant)'
<1>1. DataInv /\ LoopType /\ SocketInv BY DEF TypeOK, InductiveInvariant, DataInv
<1>2. /\ misuse' = (misuse \/ (loop.upstream_pending /\ ~upstream.open))
      /\ UNCHANGED <<socket, event, upstream, filter, stop>>
  BY Zenon DEF StopDraining
<1>3. ~misuse' /\ misuse' \in BOOLEAN BY <1>1, <1>2, Zenon DEF SocketInv
<1>4. UNCHANGED request \/ EndQueries(Waiting, "failed") BY DEF StopDraining
<1>5. DataInv'
  <2>1. CASE UNCHANGED request BY <1>1, <1>2, <2>1, DataKept DEF DataInv, DataType
  <2>2. CASE EndQueries(Waiting, "failed")
    <3>1. Waiting \in SUBSET Waiting /\ "failed" \in {"addresses", "other", "failed"} BY
                           Zenon
    <3> QED BY <1>1, <1>2, <2>2, <3>1, QueriesEnded, Zenon
  <2> QED BY <1>4, <2>1, <2>2, Zenon
<1>6. /\ loop' \in LoopRecord /\ loop'.at = "errors"
      /\ loop'.upstream_pending => loop.upstream_pending
  <2>1. loop \in LoopRecord /\ 0 \in Int BY <1>1 DEF LoopType
  <2>2. PICK p \in BOOLEAN : p = (loop.upstream_pending /\ loop.budget = 0)
    BY <2>1, Zenon DEF LoopRecord
  <2>3. PICK q \in BOOLEAN : /\ q => loop.upstream_pending
                             /\ loop' = [loop EXCEPT !.at = "errors", !.budget = 0, !.upstream_pending = q]
    BY <2>2, Zenon DEF StopDraining
  <2> QED BY <2>1, <2>3, Zenon DEF LoopRecord, LoopPlaces
<1>7. SocketInv' BY <1>1, <1>2, <1>3, <1>6, Zenon DEF SocketInv
<1>8. LoopType' BY <1>1, <1>2, <1>3, <1>6, Zenon DEF LoopType
<1> QED BY <1>5, <1>7, <1>8, Zenon DEF TypeOK, InductiveInvariant, DataInv

\* A hangup closes the upstream socket and forgets what was pending on it.
LEMMA HangupStep ==
    ASSUME TypeOK, InductiveInvariant, HandleHangupAndTimers
    PROVE  (TypeOK /\ InductiveInvariant)'
<1>1. DataInv /\ LoopType /\ SocketInv BY DEF TypeOK, InductiveInvariant, DataInv
<1>2. /\ loop.at = "errors" /\ stop' = [stop EXCEPT !.observed = stop.requested]
      /\ UNCHANGED <<socket, filter, misuse>>
      /\ \/ /\ loop.hangup_pending /\ EndQueries(Waiting, "failed")
            /\ upstream' = [usable |-> FALSE, open |-> FALSE] /\ event' = [event EXCEPT !.upstream = FALSE]
         \/ /\ ~loop.hangup_pending /\ \E S \in SUBSET Waiting : EndQueries(S, "failed")
            /\ UNCHANGED <<upstream, event>>
  BY Zenon DEF HandleHangupAndTimers
<1>3. DataInv'
  <2>1. PICK S \in SUBSET Waiting : EndQueries(S, "failed") BY <1>2, Zenon
  <2>2. "failed" \in {"addresses", "other", "failed"} BY Zenon
  <2> QED BY <1>1, <1>2, <2>1, <2>2, QueriesEnded, Zenon
<1>4. stop' \in [requested : BOOLEAN, observed : BOOLEAN] BY <1>1, <1>2, Zenon DEF
                           LoopType
<1>5. /\ loop' \in LoopRecord /\ loop'.at = "run"
      /\ loop'.upstream_pending => loop.upstream_pending /\ ~loop.hangup_pending
  <2>1. loop \in LoopRecord /\ kReadyBudget \in Int BY <1>1, RequestPathAssumption
                           DEF LoopType
  <2>2. PICK p \in BOOLEAN : p = (loop.upstream_pending /\ ~loop.hangup_pending)
    BY <2>1, Zenon DEF LoopRecord
  <2>3. loop' = [loop EXCEPT !.at = "run", !.budget = kReadyBudget, !.hangup_pending = FALSE,
                             !.upstream_pending = p]
    BY <2>2, Zenon DEF HandleHangupAndTimers, PendingAfterHangup
  <2>4. loop' \in LoopRecord /\ loop'.at = "run" /\ loop'.upstream_pending = p
    BY <2>1, <2>2, <2>3, Zenon DEF LoopRecord, LoopPlaces
  <2> QED BY <2>2, <2>4, Zenon
<1>6. /\ upstream' \in [usable : BOOLEAN, open : BOOLEAN] /\ event' \in EventRecord
      /\ upstream'.usable => upstream'.open
      /\ ~upstream'.open => ~event'.upstream /\ ~loop'.upstream_pending
  <2>1. upstream \in [usable : BOOLEAN, open : BOOLEAN] /\ event \in EventRecord
    BY <1>1, Zenon DEF LoopType
  <2>2. CASE loop.hangup_pending
    <3>1. upstream' = [usable |-> FALSE, open |-> FALSE] /\ event' = [event EXCEPT !.upstream = FALSE]
      BY <1>2, <2>2, Zenon
    <3>2. upstream' \in [usable : BOOLEAN, open : BOOLEAN] /\ ~upstream'.usable BY
                           <3>1, Zenon
    <3>3. event' \in EventRecord /\ ~event'.upstream BY <2>1, <3>1, Zenon DEF
                           EventRecord
    <3> QED BY <1>5, <2>2, <3>2, <3>3, Zenon
  <2>3. CASE ~loop.hangup_pending BY <1>1, <1>2, <1>5, <2>1, <2>3, Zenon DEF
                           SocketInv
  <2> QED BY <2>2, <2>3, Zenon
<1>7. SocketInv' BY <1>1, <1>2, <1>5, <1>6, Zenon DEF SocketInv
<1>8. LoopType' BY <1>1, <1>2, <1>4, <1>5, <1>6, Zenon DEF LoopType
<1> QED BY <1>3, <1>7, <1>8, Zenon DEF TypeOK, InductiveInvariant, DataInv

\* The loop ends, and with it its socket's buffer.
LEMMA LeaveStep ==
    ASSUME TypeOK, InductiveInvariant, LeaveLoop
    PROVE  (TypeOK /\ InductiveInvariant)'
<1>1. DataInv /\ LoopType /\ SocketInv BY DEF TypeOK, InductiveInvariant, DataInv
<1>2. /\ EndQueries(Waiting, "failed") /\ stop' = [stop EXCEPT !.observed = TRUE]
      /\ socket' = << >> /\ Goto("drain", kShutdownResumeBudget)
      /\ event' = [e \in DOMAIN event |-> FALSE]
      /\ UNCHANGED <<upstream, filter, misuse>>
  BY Zenon DEF LeaveLoop
<1>8. event' \in EventRecord /\ event'.upstream = FALSE
  <2>1. event \in EventRecord BY <1>1, Zenon DEF LoopType
  <2>2. DOMAIN event = {"listener", "upstream", "hangup", "generation"} BY <2>1 DEF EventRecord
  <2>3. event' = [e \in {"listener", "upstream", "hangup", "generation"} |-> FALSE]
    BY <1>2, <2>2, Zenon
  <2> QED BY <2>3 DEF EventRecord
<1>3. stop' \in [requested : BOOLEAN, observed : BOOLEAN] /\ stop'.observed BY <1>1,
                           <1>2, Zenon DEF LoopType
<1>4. /\ loop' \in LoopRecord /\ loop'.at = "drain"
      /\ loop'.upstream_pending = loop.upstream_pending
  <2>1. loop \in LoopRecord /\ kShutdownResumeBudget \in Int /\ "drain" \in LoopPlaces
    BY <1>1, RequestPathAssumption DEF LoopType, LoopPlaces
  <2> QED BY <1>2, <2>1, GotoType
<1>5. SocketInv' BY <1>1, <1>2, <1>3, <1>4, <1>8, Zenon DEF SocketInv
<1>6. LoopType' BY <1>1, <1>2, <1>3, <1>4, <1>8, Zenon DEF LoopType
<1>7. DataInv'
  <2>1. \A r \in Requests : request'[r] \in RequestType /\ Proper(r, request'[r], filter.snapshot)
    BY <1>1, <1>2, EndedProper, Zenon
  <2>2. RequestInv' BY <1>2, <2>1, Zenon DEF RequestInv
  <2>3. request' \in [Requests -> RequestType] BY <1>2, <2>1, Zenon DEF EndQueries
  <2>4. Len(socket') = 0 /\ socket' \in Seq(Requests) BY <1>2
  <2>5. QueueInv' BY <2>4 DEF QueueInv
  <2> QED BY <1>1, <1>2, <2>2, <2>3, <2>4, <2>5, Zenon DEF DataInv, DataType
<1> QED BY <1>5, <1>6, <1>7, Zenon DEF TypeOK, InductiveInvariant, DataInv

\* What is left is destroyed.
LEMMA EndShutdownStep ==
    ASSUME TypeOK, InductiveInvariant, EndShutdown
    PROVE  (TypeOK /\ InductiveInvariant)'
<1>1. DataInv /\ LoopType /\ SocketInv BY DEF TypeOK, InductiveInvariant, DataInv
<1>2. /\ loop.at = "drain" /\ Goto("off", 0)
      /\ UNCHANGED <<socket, event, upstream, filter, stop, misuse>>
      /\ request' = [r \in Requests |-> IF r \in Range(ready) THEN Idle ELSE request[r]]
  BY Zenon DEF EndShutdown
<1>3. loop' \in LoopRecord /\ loop'.at = "off" /\ loop'.upstream_pending = loop.upstream_pending
  <2>1. loop \in LoopRecord /\ 0 \in Int /\ "off" \in LoopPlaces BY <1>1 DEF
                           LoopType, LoopPlaces
  <2> QED BY <1>2, <2>1, GotoType, Zenon
<1>4. socket = << >> BY <1>1, <1>2, Zenon DEF SocketInv
<1>5. SocketInv' BY <1>1, <1>2, <1>3, <1>4, Zenon DEF SocketInv
<1>6. LoopType' BY <1>1, <1>2, <1>3, Zenon DEF LoopType
<1>7. DataInv'
  <2>1. ASSUME NEW r \in Requests
        PROVE  request'[r] \in RequestType /\ Proper(r, request'[r], filter.snapshot)
    <3>1. request'[r] = Idle \/ request'[r] = request[r] BY <1>2, Zenon
    <3>2. Proper(r, Idle, filter.snapshot) BY IdleType, Zenon DEF Proper
    <3>3. request[r] \in RequestType /\ Proper(r, request[r], filter.snapshot)
      BY <1>1, Zenon DEF DataInv, DataType, RequestInv
    <3> QED BY <3>1, <3>2, <3>3, IdleType, Zenon
  <2>2. RequestInv' BY <1>2, <2>1, Zenon DEF RequestInv
  <2>3. request' \in [Requests -> RequestType] BY <1>2, <2>1, Zenon
  <2>4. Len(socket') = 0 BY <1>2, <1>4, Zenon
  <2>5. QueueInv' BY <2>4 DEF QueueInv
  <2> QED BY <1>1, <1>2, <2>2, <2>3, <2>5, Zenon DEF DataInv, DataType
<1> QED BY <1>5, <1>6, <1>7, Zenon DEF TypeOK, InductiveInvariant, DataInv
-----------------------------------------------------------------------------
(* process_datagram *)

\* What is sent for r, when anything is, and that it may be sent.
Sent(r, sent) ==
    /\ request' = [request EXCEPT ![r] = [Idle EXCEPT !.sent = sent]]
    /\ sent = "address" => ~request[r].blocked
    /\ sent # "nothing" =>
           request[r].content.size < 3 \/ "NotAQuery" \notin request[r].content.flaws

\* r is forwarded, and may be.
Forwarded(r) ==
    /\ request' = [request EXCEPT ![r].stage = "waiting"]
    /\ ~request[r].blocked /\ "NotAQuery" \notin request[r].content.flaws

\* What Finish sends.
LEMMA Finished ==
    ASSUME NEW r, NEW kind, stop'.observed \in BOOLEAN, Finish(r, kind),
           kind \in {"cache", "upstream"} => ~request[r].blocked,
           kind # "nothing" =>
               request[r].content.size < 3 \/ "NotAQuery" \notin request[r].content.flaws
    PROVE  \E sent \in Outcomes : Sent(r, sent)
<1>1. CASE kind = "nothing" \/ stop'.observed
  <2>1. request' = [request EXCEPT ![r] = [Idle EXCEPT !.sent = "nothing"]]
    BY <1>1, Zenon DEF Finish
  <2> QED BY <2>1, Zenon DEF Sent, Outcomes
<1>2. CASE ~(kind = "nothing" \/ stop'.observed) /\ kind \in {"cache", "upstream"}
  <2>1. PICK sent \in {"address", "lost"} :
            request' = [request EXCEPT ![r] = [Idle EXCEPT !.sent = sent]]
    BY <1>2, Zenon DEF Finish
  <2> QED BY <1>2, <2>1, Zenon DEF Sent, Outcomes
<1>3. CASE ~(kind = "nothing" \/ stop'.observed) /\ kind \notin {"cache", "upstream"}
  <2>1. PICK sent \in {"error", "lost"} :
            request' = [request EXCEPT ![r] = [Idle EXCEPT !.sent = sent]]
    BY <1>3, Zenon DEF Finish
  <2>2. sent # "address" BY <2>1, Zenon
  <2> QED BY <1>3, <2>1, <2>2, Zenon DEF Sent, Outcomes
<1> QED BY <1>1, <1>2, <1>3, Zenon

\* A resumed coroutine leaves the listener alone after the loop, and the upstream
\* socket once it is closed.
LEMMA ResumeSockets ==
    ASSUME TypeOK, InductiveInvariant, ResumeNext
    PROVE  /\ stop' \in [requested : BOOLEAN, observed : BOOLEAN]
           /\ stop.observed => stop'.observed
           /\ misuse' = FALSE
<1>1. LoopType /\ SocketInv BY DEF TypeOK, InductiveInvariant
<1>2. PICK r : r = Head(ready) /\ (BeginRequest(r) \/ EndRequest(r)) BY DEF ResumeNext
<1>3. /\ stop' \in [requested : BOOLEAN, observed : BOOLEAN]
      /\ stop.observed => stop'.observed
  <2>1. stop \in [requested : BOOLEAN, observed : BOOLEAN] BY <1>1, Zenon DEF
                           LoopType
  <2>2. CASE EndRequest(r) BY <2>1, <2>2, Zenon DEF EndRequest
  <2>3. CASE BeginRequest(r)
    <3>1. PICK b \in BOOLEAN : b = (stop.observed \/ stop.requested) BY <2>1, Zenon
    <3>2. stop' = [stop EXCEPT !.observed = b] BY <2>3, <3>1, Zenon DEF BeginRequest
    <3> QED BY <2>1, <3>1, <3>2, Zenon
  <2> QED BY <1>2, <2>2, <2>3, Zenon
<1>4. loop.at = "drain" => stop'.observed BY <1>1, <1>3, Zenon DEF SocketInv
<1>5. CASE \E kind : Finish(r, kind) BY <1>1, <1>3, <1>4, <1>5, Zenon DEF Finish,
                           SocketInv, LoopType
<1>6. CASE Forward(r)
  <2>1. CASE Finish(r, "SERVFAIL") BY <1>5, <2>1, Zenon
  <2>2. CASE upstream.usable /\ misuse' = (misuse \/ ~upstream.open)
    BY <1>1, <1>3, <2>2, Zenon DEF SocketInv, LoopType
  <2> QED BY <1>6, <2>1, <2>2, Zenon DEF Forward
<1>7. CASE EndRequest(r)
  <2>1. \E kind : Finish(r, kind) BY <1>7, Zenon DEF EndRequest
  <2> QED BY <1>5, <2>1, Zenon
<1>8. CASE BeginRequest(r)
  <2>1. (\E kind : Finish(r, kind)) \/ Forward(r) BY <1>8, Zenon DEF BeginRequest
  <2> QED BY <1>5, <1>6, <2>1, Zenon
<1> QED BY <1>2, <1>7, <1>8, Zenon

\* A resumed coroutine ends, sending what it may, or forwards what it may.
LEMMA ResumeSends ==
    ASSUME TypeOK, InductiveInvariant, ResumeNext, NEW r \in Requests, r = Head(ready)
    PROVE  /\ request[r].stage \in {"spawned", "resumed"}
           /\ \/ \E sent \in Outcomes : Sent(r, sent)
              \/ Forwarded(r)
<1> DEFINE c == request[r].content
<1>1. \/ request[r].stage = "spawned" /\ BeginRequest(r)
      \/ request[r].stage = "resumed" /\ EndRequest(r)
  BY Zenon DEF ResumeNext
<1>2. stop'.observed \in BOOLEAN BY ResumeSockets, Zenon
<1>3. Proper(r, request[r], filter.snapshot) BY Zenon DEF InductiveInvariant,
                           RequestInv
<1>4. c \in Contents[r] /\ (request[r].blocked => c.question \in filter.snapshot)
  BY <1>1, <1>3, Zenon DEF Proper
<1>5. c.form \in {"truncated", "malformed", "message"} /\ c.size \in Nat
  BY <1>4, ContentsAssumption, Zenon
<1>6. CASE request[r].stage = "resumed" /\ EndRequest(r)
  <2>1. ~request[r].blocked /\ "NotAQuery" \notin c.flaws BY <1>3, <1>6, Zenon DEF
                           Proper
  <2>2. PICK kind : Finish(r, kind) BY <1>6, Zenon DEF EndRequest
  <2> QED BY <1>2, <1>6, <2>1, <2>2, Finished
<1>7. CASE request[r].stage = "spawned" /\ BeginRequest(r)
  <2> DEFINE first == evaluate_datagram(c)
  <2>1. first \in {"accepted", "nothing", "FORMERR", "NOTIMP"} BY <1>5,
                           EvaluatedKinds
  <2>2. "NotAQuery" \in c.flaws => first # "accepted" /\ (first # "nothing" => c.size < 3)
    BY <1>5, Evaluated
  <2>3. \/ Finish(r, "nothing")
        \/ first # "accepted" /\ Finish(r, first)
        \/ first = "accepted" /\ Finish(r, "REFUSED")
        \/ first = "accepted" /\ c.question \notin filter.snapshot /\ Finish(r, "cache")
        \/ first = "accepted" /\ c.question \notin filter.snapshot /\ Forward(r)
    BY <1>2, <1>7, Zenon DEF BeginRequest
  <2> HIDE DEF first
  <2>4. CASE Finish(r, "nothing") BY <1>2, <1>7, <2>4, Finished, SMTT(30)
  <2>5. CASE first # "accepted" /\ Finish(r, first)
    <3>1. first \notin {"cache", "upstream"} BY <2>1, Zenon
    <3>2. first # "nothing" => c.size < 3 \/ "NotAQuery" \notin c.flaws BY <2>2, Zenon
    <3> QED BY <1>2, <1>7, <2>5, <3>1, <3>2, Finished
  <2>6. CASE first = "accepted" /\ Finish(r, "REFUSED")
    BY <1>2, <1>7, <2>2, <2>6, Finished, SMTT(30)
  <2>7. CASE first = "accepted" /\ c.question \notin filter.snapshot /\ Finish(r, "cache")
    BY <1>2, <1>4, <1>7, <2>2, <2>7, Finished
  <2>8. CASE first = "accepted" /\ c.question \notin filter.snapshot /\ Forward(r)
    <3>1. CASE Finish(r, "SERVFAIL") BY <1>2, <1>7, <2>2, <2>8, <3>1, Finished
    <3>2. CASE request' = [request EXCEPT ![r].stage = "waiting"]
      BY <1>4, <1>7, <2>2, <2>8, <3>2, Zenon DEF Forwarded
    <3> QED BY <2>8, <3>1, <3>2, Zenon DEF Forward
  <2> QED BY <2>3, <2>4, <2>5, <2>6, <2>7, <2>8, Zenon
<1> QED BY <1>1, <1>6, <1>7, Zenon
\* Nothing happens to the datagrams when what is resumed is not the coroutine of one.
LEMMA ResumeElsewhere ==
    ASSUME TypeOK, ResumeNext, Head(ready) \notin Requests
    PROVE  UNCHANGED request
<1>1. PICK r : r = Head(ready) /\ (BeginRequest(r) \/ EndRequest(r)) BY Zenon DEF
                           ResumeNext
<1>2. request = [p \in Requests |-> request[p]] BY Zenon DEF TypeOK, DataType
<1>3. ASSUME NEW v PROVE [request EXCEPT ![r] = v] = request BY <1>1, <1>2, Zenon
<1>4. [request EXCEPT ![r].stage = "waiting"] = request BY <1>1, <1>2, Zenon
<1>5. CASE \E kind : Finish(r, kind) BY <1>3, <1>5, Zenon DEF Finish
<1>6. CASE Forward(r)
  <2>1. CASE Finish(r, "SERVFAIL") BY <1>5, <2>1, Zenon
  <2>2. CASE request' = [request EXCEPT ![r].stage = "waiting"] BY <1>4, <2>2, Zenon
  <2> QED BY <1>6, <2>1, <2>2, Zenon DEF Forward
<1>7. CASE EndRequest(r)
  <2>1. \E kind : Finish(r, kind) BY <1>7, Zenon DEF EndRequest
  <2> QED BY <1>5, <2>1, Zenon
<1>8. CASE BeginRequest(r)
  <2>1. (\E kind : Finish(r, kind)) \/ Forward(r) BY <1>8, Zenon DEF BeginRequest
  <2> QED BY <1>5, <1>6, <2>1, Zenon
<1> QED BY <1>1, <1>7, <1>8, Zenon

\* A coroutine is resumed.
LEMMA ResumeStep ==
    ASSUME TypeOK, InductiveInvariant, ResumeNext
    PROVE  (TypeOK /\ InductiveInvariant)'
<1>1. DataInv /\ LoopType /\ SocketInv BY DEF TypeOK, InductiveInvariant, DataInv
<1>2. /\ loop.at \in {"run", "drain"} /\ Goto(loop.at, loop.budget - 1)
      /\ UNCHANGED <<socket, event, upstream, filter>>
  BY Zenon DEF ResumeNext
<1>3. loop' \in LoopRecord /\ loop'.at = loop.at /\ loop'.upstream_pending = loop.upstream_pending
  <2>1. loop \in LoopRecord BY <1>1, Zenon DEF LoopType
  <2>2. loop.budget - 1 \in Int /\ loop.at \in LoopPlaces BY <2>1 DEF LoopRecord
  <2> QED BY <1>2, <2>1, <2>2, GotoType, Zenon
<1>4. SocketInv' BY <1>1, <1>2, <1>3, ResumeSockets, Zenon DEF SocketInv
<1>5. LoopType' BY <1>1, <1>2, <1>3, ResumeSockets, Zenon DEF LoopType
<1>6. DataInv'
  <2>1. CASE Head(ready) \in Requests
    <3>1. PICK r \in Requests : r = Head(ready) BY <2>1, Zenon
    <3>2. request[r].stage # "socket" BY <3>1, ResumeSends, Zenon
    <3>3. CASE \E sent \in Outcomes : Sent(r, sent)
      <4>1. PICK sent \in Outcomes : Sent(r, sent) BY <3>3,
                           Zenon
      <4>2. PICK q : q = [Idle EXCEPT !.sent = sent] BY Zenon
      <4>3. q \in RequestType /\ Proper(r, q, filter.snapshot) BY <4>2,
                           FinishedIsProper
      <4>4. request' = [request EXCEPT ![r] = q] BY <4>1, <4>2 DEF Sent
      <4> QED BY <1>1, <1>2, <3>2, <4>3, <4>4, DatagramMoves, Zenon
    <3>4. CASE Forwarded(r)
      <4>1. PICK p \in RequestType : p = request[r] BY <1>1, Zenon DEF DataInv,
                           DataType
      <4>2. PICK q : q = [p EXCEPT !.stage = "waiting"] BY Zenon
      <4>3. /\ q \in RequestType /\ q.stage = "waiting"
            /\ q.content = p.content /\ q.blocked = p.blocked
        BY <4>2 DEF RequestType, Stages
      <4>4. Proper(r, p, filter.snapshot) BY <1>1, <4>1 DEF DataInv, RequestInv
      <4>5. p.stage # "none" BY <3>1, <4>1, ResumeSends
      <4>6. Proper(r, q, filter.snapshot) BY <3>4, <4>1, <4>3, <4>4, <4>5, Zenon DEF
                           Proper, Forwarded
      <4>7. request' = [request EXCEPT ![r] = q] BY <3>4, <4>1, <4>2, Zenon DEF
                           Forwarded
      <4> QED BY <1>1, <1>2, <3>2, <4>3, <4>6, <4>7, DatagramMoves, Zenon
    <3> QED BY <3>1, <3>3, <3>4, ResumeSends, Zenon
  <2>2. CASE Head(ready) \notin Requests
    <3>1. UNCHANGED request BY <2>2, ResumeElsewhere, Zenon
    <3> QED BY <1>1, <1>2, <3>1, DataKept, Zenon DEF DataInv, DataType
  <2> QED BY <2>1, <2>2, Zenon
<1> QED BY <1>4, <1>5, <1>6, Zenon DEF TypeOK, InductiveInvariant, DataInv
-----------------------------------------------------------------------------
(* The theorems *)

\* A worker starts with nothing under way.
LEMMA InitInvariant ==
    ASSUME Init
    PROVE  TypeOK /\ InductiveInvariant
<1>1. DataType
  <2>1. request \in [Requests -> RequestType] BY IdleType, Zenon DEF Init
  <2>2. socket \in Seq(Requests) BY DEF Init
  <2>3. filter \in [published : SUBSET Names, snapshot : SUBSET Names] BY Zenon DEF
                           Init
  <2> QED BY <2>1, <2>2, <2>3, Zenon DEF DataType
<1>2. LoopType
  <2>1. event \in EventRecord BY Zenon DEF Init, EventRecord
  <2>2. loop \in LoopRecord
    <3>1. 0 \in Int /\ "wait" \in LoopPlaces BY DEF LoopPlaces
    <3> QED BY <3>1, Zenon DEF Init, LoopRecord
  <2>3. upstream \in [usable : BOOLEAN, open : BOOLEAN] BY Zenon DEF Init
  <2>4. stop \in [requested : BOOLEAN, observed : BOOLEAN] BY Zenon DEF Init
  <2>5. misuse \in BOOLEAN BY Zenon DEF Init
  <2> QED BY <2>1, <2>2, <2>3, <2>4, <2>5, Zenon DEF LoopType
<1>3. SocketInv
  <2>1. ~misuse /\ upstream.open BY Zenon DEF Init
  <2>2. loop.at = "wait" BY Zenon DEF Init
  <2> QED BY <2>1, <2>2, Zenon DEF SocketInv
<1>4. RequestInv
  <2>1. \A r \in Requests : request[r] = Idle BY Zenon DEF Init
  <2> QED BY <2>1, IdleType, Zenon DEF RequestInv, Proper
<1>5. QueueInv
  <2>1. Len(socket) = 0 BY Zenon DEF Init
  <2> QED BY <2>1 DEF QueueInv
<1> QED BY <1>1, <1>2, <1>3, <1>4, <1>5, Zenon DEF TypeOK, InductiveInvariant

\* A step that is none of them changes nothing.
LEMMA Stutter ==
    ASSUME TypeOK, InductiveInvariant, UNCHANGED vars
    PROVE  (TypeOK /\ InductiveInvariant)'
<1>1. DataInv /\ LoopType /\ SocketInv BY Zenon DEF TypeOK, InductiveInvariant,
                           DataInv
<1>2. UNCHANGED <<request, socket, event, loop, upstream, filter, stop, misuse>> BY
                           Zenon DEF vars
<1>3. DataInv' BY <1>1, <1>2, DataKept, Zenon DEF DataInv, DataType
<1>4. SocketInv' /\ LoopType' BY <1>1, <1>2, Zenon DEF SocketInv, LoopType
<1> QED BY <1>3, <1>4, Zenon DEF TypeOK, InductiveInvariant, DataInv

\* Every step keeps the invariant.
LEMMA InvariantStep ==
    ASSUME TypeOK, InductiveInvariant, [Next]_vars
    PROVE  (TypeOK /\ InductiveInvariant)'
<1>1. CASE \E r \in Requests : \E c \in Contents[r] : Arrive(r, c) BY <1>1,
                           ArriveStep, Zenon
<1>2. CASE \/ \E r \in Requests : Reply(r)
           \/ HangUp \/ RequestStop
           \/ \E rules \in SUBSET Names : Publish(rules)
           \/ \E name \in Names : Forget(name)
  BY <1>2, OtherOutsideStep, Zenon
<1>3. CASE StopReceiving \/ ReceiveFails \/ EndIteration BY <1>3, PlaceStep, Zenon
<1>4. CASE WaitForEvents BY <1>4, WaitStep, Zenon
<1>5. CASE Receive \/ DropDatagram BY <1>5, ReceiveStep, Zenon
<1>6. CASE DrainReply BY <1>6, DrainReplyStep
<1>7. CASE StopDraining BY <1>7, StopDrainingStep, Zenon
<1>8. CASE HandleHangupAndTimers BY <1>8, HangupStep
<1>9. CASE ResumeNext BY <1>9, ResumeStep
<1>10. CASE Shutdown \/ FatalExit BY <1>10, LeaveStep DEF Shutdown, FatalExit
<1>11. CASE EndShutdown BY <1>11, EndShutdownStep
<1>12. CASE UNCHANGED vars BY <1>12, Stutter, Zenon
<1> QED BY <1>1, <1>2, <1>3, <1>4, <1>5, <1>6, <1>7, <1>8, <1>9, <1>10, <1>11,
           <1>12, Zenon DEF Next, ThreadStep

\* The inductive invariant holds in every reachable state.
THEOREM Invariance == Spec => [](TypeOK /\ InductiveInvariant)
<1>1. Init => TypeOK /\ InductiveInvariant BY InitInvariant, Zenon
<1>2. TypeOK /\ InductiveInvariant /\ [Next]_vars => (TypeOK /\ InductiveInvariant)'
  BY InvariantStep, Zenon
<1> QED BY <1>1, <1>2, PTL DEF Spec

\* No worker uses a descriptor it has closed: the upstream socket after a hangup, or
\* the listener after the loop.
THEOREM ClosedSocketsStayUnused == Spec => []ClosedSocketsAreUnused
<1>1. TypeOK /\ InductiveInvariant => ClosedSocketsAreUnused
  BY Zenon DEF InductiveInvariant, SocketInv, ClosedSocketsAreUnused
<1> QED BY <1>1, Invariance, PTL
\* the step of r, when it ends r's coroutine, sends what it may
Follows(r) ==
    /\ Sends(r, {"address"}) => ~request[r].blocked
    /\ Sends(r, {"error", "address"}) =>
           request[r].content.size < 3 \/ "NotAQuery" \notin request[r].content.flaws

\* Only a resumed coroutine sends anything.
LEMMA OthersAreSilent ==
    ASSUME TypeOK, InductiveInvariant, [Next]_vars, ~ResumeNext, NEW r \in Requests
    PROVE  ~Sends(r, {"error", "address"})
<1>1. DataInv BY Zenon DEF TypeOK, InductiveInvariant, DataInv
<1>2. request \in [Requests -> RequestType] BY <1>1, Zenon DEF DataInv, DataType
<1>3. CASE request'[r].stage = request[r].stage BY <1>3, Zenon DEF Sends
<1>4. CASE request'[r].stage \in {"socket", "spawned", "resumed"} BY <1>4, Zenon DEF
                           Sends
<1>5. CASE UNCHANGED request BY <1>3, <1>5, Zenon
<1>6. CASE \E p \in Requests : \E c \in Contents[p] : Arrive(p, c)
  <2>1. PICK p \in Requests : \E c \in Contents[p] : Arrive(p, c) BY <1>6, Zenon
  <2>2. PICK c \in Contents[p] : Arrive(p, c) BY <2>1, Zenon
  <2>3. PICK b : b = (c.question \in filter.snapshot) BY Zenon
  <2>4. request' = [request EXCEPT ![p] = [Idle EXCEPT !.stage = "socket", !.content = c, !.blocked = b]]
    BY <2>2, <2>3, Zenon DEF Arrive
  <2>5. PICK q : q = [Idle EXCEPT !.stage = "socket", !.content = c, !.blocked = b] BY
                           Zenon
  <2>6. q.stage = "socket"
    <3>1. PICK i \in RequestType : i = Idle BY IdleType, Zenon
    <3> QED BY <2>5, <3>1, Zenon DEF RequestType
  <2>7. request' = [request EXCEPT ![p] = q] BY <2>4, <2>5, Zenon
  <2>8. CASE r = p BY <1>2, <1>4, <2>6, <2>7, <2>8, Zenon
  <2>9. CASE r # p BY <1>2, <1>3, <2>7, <2>9, Zenon
  <2> QED BY <2>8, <2>9, Zenon
<1>7. CASE WaitForEvents
  <2>1. PICK q \in RequestType : q = request[r] BY <1>2, Zenon
  <2>2. PICK b : b = (q.blocked /\ q.content.question \in filter'.snapshot) BY
                           Zenon
  <2>3. request'[r] = [q EXCEPT !.blocked = b] BY <1>7, <2>1, <2>2, Zenon DEF
                           WaitForEvents
  <2>4. request'[r].stage = q.stage BY <2>1, <2>3, Zenon DEF RequestType
  <2> QED BY <1>3, <2>1, <2>4, Zenon
<1>8. CASE Receive
  <2>1. request' = [request EXCEPT ![Head(socket)].stage = "spawned"] BY <1>8, Zenon
                           DEF Receive
  <2>2. CASE r = Head(socket)
    <3>1. PICK q \in RequestType : q = request[r] BY <1>2
    <3>2. request'[r] = [q EXCEPT !.stage = "spawned"] BY <1>2, <2>1, <2>2, <3>1,
                           Zenon
    <3>3. request'[r].stage = "spawned" BY <3>2, Zenon DEF RequestType
    <3> QED BY <1>4, <3>3, Zenon
  <2>3. CASE r # Head(socket) BY <1>2, <1>3, <2>1, <2>3, Zenon
  <2> QED BY <2>2, <2>3, Zenon
<1>9. CASE \E S \in SUBSET Waiting, outcome \in {"addresses", "other", "failed"} : EndQueries(S, outcome)
  <2>1. PICK S \in SUBSET Waiting, outcome \in {"addresses", "other", "failed"} : EndQueries(S, outcome)
    BY <1>9, Zenon
  <2>2. request'[r] = request[r] \/ request'[r].stage = "resumed" BY <1>1, <2>1,
                           EndedProper, Zenon
  <2> QED BY <1>3, <1>4, <2>2, Zenon
<1>10. CASE EndShutdown
  <2>1. request'[r] = Idle \/ request'[r] = request[r] BY <1>10, Zenon DEF
                           EndShutdown
  <2>2. Idle.sent = "nothing" BY Zenon DEF Idle
  <2> QED BY <2>1, <2>2, Zenon DEF Sends
<1>11. CASE DrainReply \/ StopDraining \/ HandleHangupAndTimers \/ Shutdown \/ FatalExit
  <2>1. \/ UNCHANGED request
        \/ \E S \in SUBSET Waiting, outcome \in {"addresses", "other", "failed"} : EndQueries(S, outcome)
    <3>1. CASE DrainReply
      <4>1. PICK outcome \in {"addresses", "other"} : EndQueries({Head(replies)} \cap Waiting, outcome)
        BY <3>1, Zenon DEF DrainReply
      <4>2. {Head(replies)} \cap Waiting \in SUBSET Waiting BY Zenon
      <4> QED BY <4>1, <4>2, Zenon
    <3>2. CASE StopDraining BY <3>2, Zenon DEF StopDraining
    <3>3. CASE HandleHangupAndTimers BY <3>3, Zenon DEF HandleHangupAndTimers
    <3>4. CASE Shutdown \/ FatalExit
      <4>1. EndQueries(Waiting, "failed") BY <3>4, Zenon DEF Shutdown, FatalExit, LeaveLoop
      <4>2. Waiting \in SUBSET Waiting BY Zenon
      <4> QED BY <4>1, <4>2, Zenon
    <3> QED BY <1>11, <3>1, <3>2, <3>3, <3>4, Zenon
  <2> QED BY <1>5, <1>9, <2>1, Zenon
<1>13. CASE DropDatagram
  <2>1. request' = [request EXCEPT ![Head(socket)] = [Idle EXCEPT !.sent = "lost"]]
    BY <1>13, Zenon DEF DropDatagram
  <2>2. CASE r = Head(socket)
    <3>1. PICK q : q = [Idle EXCEPT !.sent = "lost"] BY Zenon
    <3>2. "lost" \in Outcomes BY Zenon DEF Outcomes
    <3>3. q.sent = "lost" BY <3>1, <3>2, FinishedIsProper, Zenon
    <3>4. request'[r] = q BY <1>2, <2>1, <2>2, <3>1, Zenon
    <3> QED BY <3>3, <3>4, Zenon DEF Sends
  <2>3. CASE r # Head(socket) BY <1>2, <1>3, <2>1, <2>3, Zenon
  <2> QED BY <2>2, <2>3, Zenon
<1>12. CASE \/ HangUp \/ RequestStop \/ StopReceiving \/ ReceiveFails \/ EndIteration
            \/ \E p \in Requests : Reply(p)
            \/ \E rules \in SUBSET Names : Publish(rules)
            \/ \E name \in Names : Forget(name)
            \/ UNCHANGED vars
  <2>1. UNCHANGED request
    BY <1>12, Zenon DEF HangUp, RequestStop, StopReceiving, ReceiveFails,
       EndIteration, Reply, Publish, Forget, vars
  <2> QED BY <1>5, <2>1, Zenon
<1> QED BY <1>6, <1>7, <1>8, <1>10, <1>11, <1>12, <1>13, Zenon DEF Next, ThreadStep

\* What a resumed coroutine sends follows the filter, and nothing answers a response.
LEMMA StepFollows ==
    ASSUME TypeOK, InductiveInvariant, [Next]_vars, NEW r \in Requests
    PROVE  Follows(r)
<1>1. CASE ~ResumeNext
  <2>1. ~Sends(r, {"error", "address"}) BY <1>1, OthersAreSilent, Zenon
  <2>2. ~Sends(r, {"address"}) BY <2>1, Zenon DEF Sends
  <2> QED BY <2>1, <2>2, Zenon DEF Follows
<1>2. CASE ResumeNext /\ r # Head(ready)
  <2>1. request'[r] = request[r]
    <3>1. request \in [Requests -> RequestType] BY Zenon DEF TypeOK, DataType
    <3>2. CASE Head(ready) \notin Requests BY <1>2, <3>2, ResumeElsewhere, Zenon
    <3>3. CASE Head(ready) \in Requests
      <4>1. PICK p \in Requests : p = Head(ready) BY <3>3, Zenon
      <4>2. (\E sent \in Outcomes : Sent(p, sent)) \/ Forwarded(p)
        BY <1>2, <4>1, ResumeSends, Zenon
      <4> QED BY <1>2, <3>1, <4>1, <4>2, Zenon DEF Sent, Forwarded
    <3> QED BY <3>2, <3>3, Zenon
  <2> QED BY <2>1, Zenon DEF Sends, Follows
<1>3. CASE ResumeNext /\ r = Head(ready)
  <2>1. request \in [Requests -> RequestType] BY DEF TypeOK, DataType
  <2>2. CASE Forwarded(r)
    <3>1. PICK q \in RequestType : q = request[r] BY <2>1, Zenon
    <3>2. request'[r] = [q EXCEPT !.stage = "waiting"] BY <2>1, <2>2, <3>1, Zenon
                           DEF Forwarded
    <3>3. request'[r].stage = "waiting" BY <3>2, Zenon DEF RequestType
    <3> QED BY <3>3, Zenon DEF Sends, Follows
  <2>3. CASE \E sent \in Outcomes : Sent(r, sent)
    <3>1. PICK sent \in Outcomes : Sent(r, sent) BY <2>3,
                           Zenon
    <3>2. PICK q : q = [Idle EXCEPT !.sent = sent] BY Zenon
    <3>3. q.sent = sent BY <3>2, FinishedIsProper, Zenon
    <3>4. request'[r].sent = sent BY <2>1, <3>1, <3>2, <3>3, Zenon DEF Sent
    <3>5. "address" # "nothing" /\ "error" # "nothing" BY Zenon
    <3> QED BY <3>1, <3>4, <3>5, Zenon DEF Sends, Follows, Sent
  <2> QED BY <1>3, <2>2, <2>3, ResumeSends, Zenon
<1> QED BY <1>1, <1>2, <1>3, Zenon

\* A blocked name is never answered with an address, and a response never with
\* anything, whichever way evaluate_datagram, the blocklist, the cache and the
\* upstream take.
THEOREM PolicyIsFollowed == Spec => AnswersFollowPolicy
<1>1. TypeOK /\ InductiveInvariant /\ [Next]_vars =>
          [\A r \in Requests :
              /\ Sends(r, {"address"}) => ~request[r].blocked
              /\ Sends(r, {"error", "address"}) =>
                     request[r].content.size < 3 \/ "NotAQuery" \notin request[r].content.flaws]_vars
  BY StepFollows, Zenon DEF Follows
<1> QED BY <1>1, Invariance, PTL DEF Spec, AnswersFollowPolicy

=============================================================================
