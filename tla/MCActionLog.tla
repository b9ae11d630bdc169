---------------------------- MODULE MCActionLog ----------------------------
(* The instance TLC explores: ids 1 to 7, of which half the range is 3.    *)
EXTENDS ActionLog
=============================================================================
