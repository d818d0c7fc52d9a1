--------------------------- MODULE MCDNSLifecycle ---------------------------
(***************************************************************************)
(* Instances of DNSLifecycle.  The owner of the service initialises,       *)
(* starts and waits, as main.cpp does; other threads stop, join or wait    *)
(* at any time.                                                            *)
(***************************************************************************)
EXTENDS DNSLifecycle, TLC

CONSTANTS main, other, third

TwoCallers   == {main, other}
ThreeCallers == {main, other, third}

OwnerCalls == <<"init", "start", "wait">>

\* main initialises twice and runs the service, two threads want it to end
StopAndJoin == main :> (<<"init">> \o OwnerCalls) @@ other :> <<"request_stop">> @@ third :> <<"join">>

\* main runs the service, another thread wants it to end
StopOnly == main :> OwnerCalls @@ other :> <<"request_stop">>

\* a second thread waits for the service
WaitOnly == main :> <<"init", "start">> @@ other :> <<"wait">>
=============================================================================
