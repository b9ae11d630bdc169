------------------------------- MODULE Trials -------------------------------
(***************************************************************************)
(* What a tuning campaign promises about its experiments: one condition is *)
(* under trial at a time, a quarantined execution is replaced at most      *)
(* Limit times, and a condition that has a result is never run again, nor  *)
(* its result changed.                                                     *)
(***************************************************************************)
EXTENDS Naturals

CONSTANTS Conditions,  \* what can be tried: a role, a candidate, a suite
          NoCondition,
          Limit        \* replacements one condition may receive

VARIABLES open,     \* the condition under trial
          tries,    \* executions it has had
          results   \* the result of each condition that has one

trialVars == <<open, tries, results>>

Init == open = NoCondition /\ tries = 0 /\ results = [c \in {} |-> c]

Begin(c) ==
    /\ open = NoCondition /\ c \notin DOMAIN results
    /\ open' = c /\ tries' = 1
    /\ UNCHANGED results

Replace ==
    /\ open # NoCondition /\ tries <= Limit
    /\ tries' = tries + 1
    /\ UNCHANGED <<open, results>>

Conclude(r) ==
    /\ open # NoCondition
    /\ results' = [c \in DOMAIN results \cup {open} |->
                     IF c = open THEN r ELSE results[c]]
    /\ open' = NoCondition /\ tries' = 0

Next ==
    \/ \E c \in Conditions : Begin(c)
    \/ Replace
    \/ \E r \in {"passed", "gate", "quarantined"} : Conclude(r)

Spec == Init /\ [][Next]_trialVars
=============================================================================
