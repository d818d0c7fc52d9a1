------------------------- MODULE MCUpstreamChannel -------------------------
(* The instance of UpstreamChannel: two of the queries ask the same question. *)
EXTENDS UpstreamChannel, TLC

CONSTANTS q1, q2, q3, sameName, otherName

Questions == q1 :> sameName @@ q2 :> sameName @@ q3 :> otherName

=============================================================================
