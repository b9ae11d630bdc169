------------------------------- MODULE MCHost -------------------------------
(***************************************************************************)
(* Host on a small instance: one group with one setpoint stream.           *)
(***************************************************************************)
EXTENDS Host, TLC

CONSTANTS flight, motion

StickOnly == {flight :> [group |-> motion, intents |-> TRUE, actions |-> TRUE]}
=============================================================================
