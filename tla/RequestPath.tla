----------------------------- MODULE RequestPath -----------------------------
(***************************************************************************)
(* The data plane of a worker (WorkerLoop): the edge-triggered event loop, *)
(* the reception of datagrams, and the coroutine that answers each of them *)
(* from the blocklist, the cache shard or the upstream.                    *)
(*                                                                         *)
(* UpstreamChannel is here what its own module shows it to be: a query     *)
(* ends exactly once, with its own answer or without one.  CacheShard too: *)
(* it remembers an answer until it expires or is replaced.  A ready list   *)
(* of requests stands for the scheduler.  The other threads publish a      *)
(* filter and ask for a stop.                                              *)
(***************************************************************************)
EXTENDS Integers, Sequences, FiniteSets, FiniteSetsExt, Functions

CONSTANTS
    Requests,           \* datagrams under way at once, each used again and again
    Contents,           \* what each of them may hold
    Names,              \* the questions
    Nothing,
    kReceiveBudget, kUpstreamReceiveBudget, kReadyBudget, kShutdownResumeBudget

ASSUME RequestPathAssumption ==
    /\ kReceiveBudget \in Nat \ {0} /\ kUpstreamReceiveBudget \in Nat \ {0}
    /\ kReadyBudget \in Nat \ {0} /\ kShutdownResumeBudget \in Nat

\* a datagram was cut short (MSG_TRUNC), does not parse, or is a message; its size in octets
ASSUME ContentsAssumption ==
    \A r \in Requests : \A c \in Contents[r] :
        c.form \in {"truncated", "malformed", "message"} /\ c.size \in Nat

VARIABLES
    request,     \* per datagram: stage, content, outcome of its query, what was sent
    socket,      \* datagrams in the buffer of listen_fd_
    replies,     \* datagrams in the buffer of upstream_fd_
    event,       \* what epoll has to report
    loop,        \* where the thread is, its budget, and its *_pending_ flags
    ready,       \* requests whose coroutine is ready
    upstream,    \* upstream_usable_, and whether upstream_fd_ is open
    cached,      \* the questions the cache shard has an answer to
    filter,      \* the published rules and the worker's snapshot of them
    stop,        \* the worker's stop source, and whether its scheduler observed it
    misuse       \* a closed descriptor was used

vars == <<request, socket, replies, event, loop, ready, upstream, cached, filter, stop, misuse>>

Idle == [stage |-> "none", content |-> Nothing, blocked |-> FALSE, outcome |-> "none",
         sent |-> "nothing"]

Init ==
    /\ request = [r \in Requests |-> Idle]
    /\ socket = << >> /\ replies = << >> /\ ready = << >>
    /\ event = [listener |-> FALSE, upstream |-> FALSE, hangup |-> FALSE,
                generation |-> FALSE]
    /\ loop = [at |-> "wait", budget |-> 0, listener_pending |-> FALSE, upstream_pending |-> FALSE,
               hangup_pending |-> FALSE, receive_failed |-> FALSE]
    /\ upstream = [usable |-> TRUE, open |-> TRUE]
    /\ cached = {}
    /\ filter = [published |-> {}, snapshot |-> {}]
    /\ stop = [requested |-> FALSE, observed |-> FALSE]
    /\ misuse = FALSE

-----------------------------------------------------------------------------
(* The environment. What other threads, clients and the upstream do has no   *)
(* effect before the loop's thread looks at it, so it happens just there.      *)

Waiting == {r \in Requests : request[r].stage = "waiting"}

Arrive(r, content) ==
    /\ request[r].stage = "none" /\ loop.at \in {"wait", "listener"}
    /\ request' = [request EXCEPT ![r] = [Idle EXCEPT !.stage = "socket", !.content = content,
                                             !.blocked = content.question \in filter.snapshot]]
    /\ socket' = Append(socket, r)
    /\ event' = [event EXCEPT !.listener = TRUE]
    /\ UNCHANGED <<replies, loop, ready, upstream, cached, filter, stop, misuse>>

\* the upstream answers; a query may also never be answered
Reply(r) ==
    /\ request[r].stage = "waiting" /\ upstream.open /\ loop.at \in {"wait", "upstream"}
    /\ r \notin Range(replies) /\ replies' = Append(replies, r)
    /\ event' = [event EXCEPT !.upstream = TRUE]
    /\ UNCHANGED <<request, socket, loop, ready, upstream, cached, filter, stop, misuse>>

HangUp ==
    /\ upstream.open /\ loop.at = "wait" /\ ~event.hangup
    /\ event' = [event EXCEPT !.upstream = TRUE, !.hangup = TRUE]
    /\ UNCHANGED <<request, socket, replies, loop, ready, upstream, cached, filter, stop, misuse>>

\* other rules are published, and request_filter_refresh wakes the worker
Publish(rules) ==
    /\ filter.published # rules /\ loop.at = "wait"
    /\ filter' = [filter EXCEPT !.published = rules]
    /\ event' = [event EXCEPT !.generation = TRUE]
    /\ UNCHANGED <<request, socket, replies, loop, ready, upstream, cached, stop, misuse>>

RequestStop ==
    /\ ~stop.requested /\ loop.at \in {"wait", "listener", "errors", "run"}
    /\ stop' = [stop EXCEPT !.requested = TRUE]
    /\ UNCHANGED <<request, socket, replies, event, loop, ready, upstream, cached, filter, misuse>>

\* an answer expires, or the CLOCK hand replaces it
Forget(name) ==
    /\ loop.at = "run" /\ name \in cached /\ cached' = cached \ {name}
    /\ UNCHANGED <<request, socket, replies, event, loop, ready, upstream, filter, stop, misuse>>

-----------------------------------------------------------------------------
(* The event loop *)

Goto(place, budget) == loop' = [loop EXCEPT !.at = place, !.budget = budget]

\* epoll_wait returns (a waiting query has a timer)
HasEvent ==
    \/ event.listener \/ event.upstream \/ event.generation \/ stop.requested
    \/ loop.listener_pending \/ loop.upstream_pending \/ ready # << >> \/ Waiting # {}

\* The events are taken, and a new generation of the filter is adopted first;
\* blocked remembers that the name was blocked ever since the datagram came.
WaitForEvents ==
    /\ loop.at = "wait" /\ HasEvent /\ ~stop.requested
    /\ event' = [e \in DOMAIN event |-> FALSE]
    /\ filter' = IF event.generation THEN [filter EXCEPT !.snapshot = filter.published] ELSE filter
    /\ request' = [r \in Requests |-> [request[r] EXCEPT
                      !.blocked = @ /\ request[r].content.question \in filter'.snapshot]]
    /\ loop' = [loop EXCEPT !.at = "listener", !.budget = kReceiveBudget,
                            !.listener_pending = @ \/ event.listener,
                            !.receive_failed = @ /\ ~event.listener,
                            !.upstream_pending = @ \/ event.upstream,
                            !.hangup_pending = @ \/ event.hangup]
    /\ UNCHANGED <<socket, replies, ready, upstream, cached, stop, misuse>>

\* drain_listener: receive one datagram and spawn its coroutine
Receive ==
    /\ loop.at = "listener" /\ loop.listener_pending
    /\ loop.budget > 0 /\ ~stop.requested /\ socket # << >>
    /\ request' = [request EXCEPT ![Head(socket)].stage = "spawned"]
    /\ ready' = Append(ready, Head(socket))
    /\ socket' = Tail(socket)
    /\ Goto("listener", loop.budget - 1)
    /\ UNCHANGED <<replies, event, upstream, cached, filter, stop, misuse>>

\* ... but memory runs out, or the scheduler refuses the coroutine: the datagram is
\* counted as an internal error, and that is all
DropDatagram ==
    /\ loop.at = "listener" /\ loop.listener_pending
    /\ loop.budget > 0 /\ ~stop.requested /\ socket # << >>
    /\ request' = [request EXCEPT ![Head(socket)] = [Idle EXCEPT !.sent = "lost"]]
    /\ socket' = Tail(socket)
    /\ Goto("listener", loop.budget - 1)
    /\ UNCHANGED <<replies, event, ready, upstream, cached, filter, stop, misuse>>

\* mutant: listener_pending_ is cleared when the budget is used up
StopReceivingTooEarly ==
    /\ loop.at = "listener"
    /\ ~loop.listener_pending \/ loop.budget = 0 \/ stop.requested \/ socket = << >>
    /\ loop' = [loop EXCEPT !.at = "upstream", !.budget = kUpstreamReceiveBudget,
                            !.listener_pending = FALSE]
    /\ UNCHANGED <<request, socket, replies, event, ready, upstream, cached, filter, stop, misuse>>

\* drain_listener returns: EAGAIN, the budget is used up, or a stop
StopReceiving ==
    /\ loop.at = "listener"
    /\ ~loop.listener_pending \/ loop.budget = 0 \/ stop.requested \/ socket = << >>
    /\ loop' = [loop EXCEPT !.at = "upstream", !.budget = kUpstreamReceiveBudget,
                            !.listener_pending = @ /\ loop.budget = 0 /\ ~stop.requested]
    /\ UNCHANGED <<request, socket, replies, event, ready, upstream, cached, filter, stop, misuse>>

\* recvmsg fails for another reason than EAGAIN; receive_failed marks that the
\* socket was left with datagrams in it, until epoll reports another one
ReceiveFails ==
    /\ loop.at = "listener" /\ loop.listener_pending
    /\ loop.budget > 0 /\ ~stop.requested /\ socket # << >>
    /\ loop' = [loop EXCEPT !.at = "upstream", !.budget = kUpstreamReceiveBudget,
                            !.listener_pending = FALSE, !.receive_failed = TRUE]
    /\ UNCHANGED <<request, socket, replies, event, ready, upstream, cached, filter, stop, misuse>>

\* the queries of S end and their coroutines become ready, in some order
EndQueries(S, outcome) ==
    /\ request' = [r \in Requests |-> IF r \in S
                                      THEN [request[r] EXCEPT !.stage = "resumed", !.outcome = outcome]
                                      ELSE request[r]]
    /\ \E order \in Bijection(1 .. Cardinality(S), S) : ready' = ready \o order

\* upstream_channel_.drain: a reply to a query that has ended is dropped
DrainReply ==
    /\ loop.at = "upstream" /\ loop.upstream_pending /\ loop.budget > 0 /\ replies # << >>
    /\ misuse' = (misuse \/ ~upstream.open)
    /\ \E outcome \in {"addresses", "other"} : EndQueries({Head(replies)} \cap Waiting, outcome)
    /\ replies' = Tail(replies)
    /\ Goto("upstream", loop.budget - 1)
    /\ UNCHANGED <<socket, event, upstream, cached, filter, stop>>

\* ... it returns: EAGAIN, the budget is used up (has_more), or a receive error
StopDraining ==
    /\ loop.at = "upstream"
    /\ misuse' = (misuse \/ (loop.upstream_pending /\ ~upstream.open))
    /\ \/ /\ ~loop.upstream_pending \/ loop.budget = 0 \/ replies = << >>
          /\ loop' = [loop EXCEPT !.at = "errors", !.budget = 0,
                                  !.upstream_pending = @ /\ loop.budget = 0]
          /\ UNCHANGED <<request, ready>>
       \/ /\ loop.upstream_pending /\ loop.budget > 0
          /\ loop' = [loop EXCEPT !.at = "errors", !.budget = 0,
                                  !.upstream_pending = FALSE]
          /\ EndQueries(Waiting, "failed")
    /\ UNCHANGED <<socket, replies, event, upstream, cached, filter, stop>>

\* mutant: upstream_pending_ survives the close of the socket
StalePendingAfterHangup == loop.upstream_pending

PendingAfterHangup == loop.upstream_pending /\ ~loop.hangup_pending

\* A hangup fails the queries and closes the socket for good, which also takes
\* it out of epoll. Then expire ends the queries that are due; EPOLLERR ends all
\* of them, as expire may.
HandleHangupAndTimers ==
    /\ loop.at = "errors"
    /\ loop' = [loop EXCEPT !.at = "run", !.budget = kReadyBudget, !.hangup_pending = FALSE,
                            !.upstream_pending = PendingAfterHangup]
    /\ \/ /\ loop.hangup_pending /\ EndQueries(Waiting, "failed")
          /\ upstream' = [usable |-> FALSE, open |-> FALSE]
          /\ replies' = << >> /\ event' = [event EXCEPT !.upstream = FALSE]
       \/ /\ ~loop.hangup_pending /\ \E S \in SUBSET Waiting : EndQueries(S, "failed")
          /\ UNCHANGED <<upstream, replies, event>>
    /\ stop' = [stop EXCEPT !.observed = stop.requested]
    /\ UNCHANGED <<socket, cached, filter, misuse>>

-----------------------------------------------------------------------------
(* process_datagram *)

\* QueryErrorCode, in the order validate_mvp_query looks for them
QueryErrors == <<"NotAQuery", "UnsupportedOpcode", "InvalidHeaderFlags", "WrongQuestionCount",
                 "UnexpectedAnswerSection", "ExtensionsNotSupported", "UnsupportedClass",
                 "UnsupportedType">>

validate_mvp_query(content) ==
    LET found == {i \in DOMAIN QueryErrors : QueryErrors[i] \in content.flaws}
    IN  IF found = {} THEN "none" ELSE QueryErrors[Min(found)]

response_code_for(error) ==
    IF error \in {"WrongQuestionCount", "UnexpectedAnswerSection", "InvalidHeaderFlags"}
    THEN "FORMERR" ELSE "NOTIMP"

\* make_header_only_error_response: the first two octets are the transaction ID,
\* the third tells a response from a query
make_header_only_error_response(content) ==
    IF content.size < 2 \/ (content.size >= 3 /\ "NotAQuery" \in content.flaws)
    THEN "nothing" ELSE "FORMERR"

\* what is sent without looking further, or "accepted"
evaluate_datagram(content) ==
    LET error == validate_mvp_query(content)
    IN  CASE content.form = "truncated" ->
                 IF content.size < 3 \/ "NotAQuery" \in content.flaws
                 THEN "nothing" ELSE make_header_only_error_response(content)
          [] content.form = "malformed" -> make_header_only_error_response(content)
          [] content.form = "message" /\ error = "none" -> "accepted"
          [] content.form = "message" /\ error = "NotAQuery" -> "nothing"
          [] OTHER -> response_code_for(error)

\* neither AD nor CD is set, and the shard has a capacity
cache_eligible(r) == ~request[r].content.bypass

\* The coroutine ends. Nothing is sent once its scheduler has seen the stop. Of an
\* answer the model keeps whether it brings an address. It is lost, and counted in
\* stats_, when it is oversized, when sendto fails, or when an exception is caught.
Finish(r, kind) ==
    LET silent == kind = "nothing" \/ stop'.observed
        answer == IF kind \in {"cache", "upstream"} THEN "address" ELSE "error"
    IN  /\ \E sent \in IF silent THEN {"nothing"} ELSE {answer, "lost"} :
               request' = [request EXCEPT ![r] = [Idle EXCEPT !.sent = sent]]
        /\ misuse' = (misuse \/ (~silent /\ loop.at = "drain"))

\* co_await upstream_channel_.query, which may fail at once
Forward(r) ==
    \/ Finish(r, "SERVFAIL")
    \/ /\ upstream.usable
       /\ misuse' = (misuse \/ ~upstream.open)
       /\ request' = [request EXCEPT ![r].stage = "waiting"]

\* mutant: the cache is consulted before the blocklist
BeginRequestCacheFirst(r) ==
    LET first == evaluate_datagram(request[r].content)
        name == request[r].content.question
        hit  == cache_eligible(r) /\ name \in cached
    IN  /\ stop' = [stop EXCEPT !.observed = @ \/ stop.requested]
        /\ CASE stop'.observed -> Finish(r, "nothing")
             [] ~stop'.observed /\ first # "accepted" -> Finish(r, first)
             [] ~stop'.observed /\ first = "accepted" /\ hit -> Finish(r, "cache")
             [] ~stop'.observed /\ first = "accepted" /\ ~hit /\ name \in filter.snapshot -> Finish(r, "REFUSED")
             [] OTHER -> Forward(r)
        /\ UNCHANGED cached

\* up to the query to the upstream; what is in the cache was put there because it fits
BeginRequest(r) ==
    LET first == evaluate_datagram(request[r].content)
        name == request[r].content.question
        hit  == cache_eligible(r) /\ name \in cached
    IN  /\ stop' = [stop EXCEPT !.observed = @ \/ stop.requested]
        /\ CASE stop'.observed -> Finish(r, "nothing")
             [] ~stop'.observed /\ first # "accepted" -> Finish(r, first)
             [] ~stop'.observed /\ first = "accepted" /\ name \in filter.snapshot -> Finish(r, "REFUSED")
             [] ~stop'.observed /\ first = "accepted" /\ name \notin filter.snapshot /\ hit -> Finish(r, "cache")
             [] OTHER -> Forward(r)
        /\ UNCHANGED cached

\* after the query: "addresses" is an answer that may be kept and fits when it is rewritten
EndRequest(r) ==
    /\ UNCHANGED stop
    /\ cached' = IF request[r].outcome = "addresses" /\ cache_eligible(r)
                 THEN cached \cup {request[r].content.question} ELSE cached
    /\ Finish(r, IF request[r].outcome = "failed" THEN "SERVFAIL" ELSE "upstream")

\* run_ready resumes the oldest ready coroutine
ResumeNext ==
    /\ loop.at \in {"run", "drain"} /\ loop.budget > 0 /\ ready # << >>
    /\ LET r == Head(ready)
       IN  \/ request[r].stage = "spawned" /\ BeginRequest(r)
           \/ request[r].stage = "resumed" /\ EndRequest(r)
    /\ ready' = Tail(ready)
    /\ Goto(loop.at, loop.budget - 1)
    /\ UNCHANGED <<socket, replies, event, upstream, filter>>

EndIteration ==
    /\ loop.at = "run" /\ (loop.budget = 0 \/ ready = << >>)
    /\ Goto("wait", 0)
    /\ UNCHANGED <<request, socket, replies, event, ready, upstream, cached, filter, stop, misuse>>

\* The loop ends: listen_fd_ is closed, then shutdown_runtime cancels the
\* queries and lets the coroutines unwind. Nobody waits for events any more.
LeaveLoop ==
    /\ EndQueries(Waiting, "failed")
    /\ stop' = [stop EXCEPT !.observed = TRUE]
    /\ socket' = << >> /\ event' = [e \in DOMAIN event |-> FALSE]
    /\ Goto("drain", kShutdownResumeBudget)
    /\ UNCHANGED <<replies, upstream, cached, filter, misuse>>

Shutdown == loop.at = "wait" /\ stop.requested /\ LeaveLoop

\* ... without a stop: epoll_wait or the refresh of the filter fails; an exception left
\* a coroutine, a timer could not be scheduled or an invariant of the runtime broke
FatalExit ==
    /\ loop.at = "wait" \/ (loop.at = "run" /\ (loop.budget = 0 \/ ready = << >>))
    /\ LeaveLoop

\* what is left when the budget is used up is destroyed
EndShutdown ==
    /\ loop.at = "drain" /\ (loop.budget = 0 \/ ready = << >>)
    /\ request' = [r \in Requests |-> IF r \in Range(ready) THEN Idle ELSE request[r]]
    /\ ready' = << >> /\ Goto("off", 0)
    /\ UNCHANGED <<socket, replies, event, upstream, cached, filter, stop, misuse>>

ThreadStep ==
    \/ WaitForEvents \/ Receive \/ StopReceiving \/ DrainReply \/ StopDraining
    \/ HandleHangupAndTimers \/ ResumeNext \/ EndIteration \/ Shutdown \/ EndShutdown

Next ==
    \/ ThreadStep \/ ReceiveFails \/ DropDatagram \/ FatalExit \/ HangUp \/ RequestStop
    \/ \E r \in Requests :
           \/ \E c \in Contents[r] : Arrive(r, c)
           \/ Reply(r)
    \/ \E rules \in SUBSET Names : Publish(rules)
    \/ \E name \in Names : Forget(name)

Spec == Init /\ [][Next]_vars

\* The thread makes progress; a query that stays unanswered times out (UpstreamChannel).
Fairness ==
    /\ WF_vars(ThreadStep)
    /\ \A r \in Requests : SF_vars(HandleHangupAndTimers /\ r \in Waiting /\ r \notin Waiting')

FairSpec == Spec /\ Fairness

-----------------------------------------------------------------------------
(* Properties *)

\* The worker never uses a descriptor it has closed: no query and no drain on
\* the upstream socket after a hangup (the channel keeps its number), and no
\* answer on the listener once the loop has ended, by a stop or a fatal exit.
ClosedSocketsAreUnused == ~misuse

\* what the step sends for r
Sends(r, kinds) == request[r].stage # "none" /\ request'[r].stage = "none" /\ request'[r].sent \in kinds

\* A name that the worker's filter snapshot blocks from the arrival of the
\* datagram on is not answered with an address, even when an answer cached or
\* fetched before the rule came is still there.  A response never gets an answer
\* at all, whichever of the ways of rejecting it is taken, so two servers cannot
\* keep each other busy.
AnswersFollowPolicy ==
    [][\A r \in Requests :
           /\ Sends(r, {"address"}) => ~request[r].blocked
           /\ Sends(r, {"error", "address"}) =>
                  request[r].content.size < 3 \/ "NotAQuery" \notin request[r].content.flaws]_vars

\* Every acceptable query that reaches the socket gets an answer, which is handed to
\* sendto, or its loss is counted, in spite of edge triggering and budgets, unless the
\* loop ends; what a receive error left in the socket waits for the next datagram.
QueriesAreAnswered ==
    \A r \in Requests :
        request[r].stage = "socket" /\ evaluate_datagram(request[r].content) = "accepted"
            ~> \/ request[r].stage = "none" /\ request[r].sent # "nothing"
               \/ loop.at = "off" \/ loop.receive_failed

=============================================================================
