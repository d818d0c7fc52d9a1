---------------------------- MODULE MCRequestPath ----------------------------
(* Queries that may or may not use the cache, and responses that are        *)
(* rejected in different ways.                                              *)
EXTENDS RequestPath, TLC

CONSTANTS nameA, r1, r2

Query(bypass) ==
    [form |-> "message", size |-> 3, flaws |-> {}, question |-> nameA, bypass |-> bypass]

Odd(form, size, flaws) ==
    [form |-> form, size |-> size, flaws |-> flaws, question |-> nameA, bypass |-> FALSE]

MCContents ==
    r1 :> {Query(FALSE)} @@
    r2 :> {Query(TRUE), Odd("message", 3, {"NotAQuery", "WrongQuestionCount"}),
           Odd("malformed", 3, {"NotAQuery"}), Odd("truncated", 3, {"NotAQuery"})}

=============================================================================
