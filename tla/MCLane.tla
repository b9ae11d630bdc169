------------------------------- MODULE MCLane -------------------------------
(***************************************************************************)
(* LaneHost on a small instance: surveys of one line, and plans of three   *)
(* operations.                                                             *)
(***************************************************************************)
EXTENDS LaneHost

Three == <<"ask", "read", "write">>

\* What approvals may say: one that sends the vehicle home, and one that holds
\* it, at the end of the instance's time; and one that outlives it.
Envelope(expires, way) == [expires |-> expires, onExpiry |-> way, onControlLost |-> way]
HomeOrHold == {Envelope(1, "home"), Envelope(1, "hold")}
OnlyHome == {Envelope(1, "home")}
OnlyLong == {Envelope(2, "hold")}
=============================================================================
