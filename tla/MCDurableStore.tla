--------------------------- MODULE MCDurableStore ---------------------------
(* The instance TLC explores: two contents, two temporary names.           *)
EXTENDS DurableStore, TLC

CONSTANTS t1, t2, slot, object, a, b

MCNames == {slot, object, t1, t2}
MCTemps == {t1, t2}
MCInodes == 1 .. 7
MCValues == {a, b}
MCSymmetry == Permutations(MCTemps) \cup Permutations(MCValues)
=============================================================================
