------------------------- MODULE PersistentRegister -------------------------
(***************************************************************************)
(* What compare_exchange_file promises its caller: one register, exchanged *)
(* one call at a time, that a power loss may set back only to a value a    *)
(* call still in doubt had replaced.  A call that reports success leaves   *)
(* nothing to lose; a call that reports a definite refusal has not changed *)
(* the register and never will; an ambiguous answer promises neither.      *)
(***************************************************************************)
CONSTANTS Values, Absent, Torn

VARIABLES reg,    \* what a reader sees
          floor,  \* what a power loss may leave of it
          call,   \* the exchange under way: its old and new value, and whether it took
          reply   \* how the last exchange ended

regVars == <<reg, floor, call, reply>>

NoCall == [old |-> Absent, new |-> Absent, took |-> FALSE]
InCall == call # NoCall

\* Durability barriers only ever narrow what a power loss may leave.
Settles == reg' = reg /\ floor' \subseteq floor /\ reg \in floor'

Init ==
    /\ reg = Absent /\ floor = {Absent}
    /\ call = NoCall /\ reply = "none"

Begin(old, new) ==
    /\ ~InCall
    /\ call' = [old |-> old, new |-> new, took |-> FALSE]
    /\ reply' = "none"
    /\ UNCHANGED <<reg, floor>>

\* The one point where the exchange happens.
Commit ==
    /\ InCall /\ ~call.took /\ reg = call.old
    /\ reg' = call.new
    /\ floor' = floor \cup {call.new}
    /\ call' = [call EXCEPT !.took = TRUE]
    /\ UNCHANGED reply

\* A process without the writer lease writes while the caller validates.
Foreign(v) ==
    /\ InCall /\ ~call.took
    /\ reg' = v
    /\ floor' = floor \cup {v, Torn}
    /\ UNCHANGED <<call, reply>>

Succeed ==
    /\ InCall
    /\ Settles /\ reg = call.new /\ floor' = {reg}
    /\ reply' = IF call.took THEN "exchanged" ELSE "alreadyExact"
    /\ call' = NoCall

\* An exchange whose acknowledgement was lost succeeds under the other name.
SucceedLate ==
    /\ InCall /\ call.took
    /\ Settles /\ reg = call.new /\ floor' = {reg}
    /\ reply' = "alreadyExact"
    /\ call' = NoCall

RefuseStale ==
    /\ InCall /\ ~call.took /\ reg \notin {call.old, call.new}
    /\ reply' = "stale" /\ call' = NoCall
    /\ UNCHANGED <<reg, floor>>

RefuseAtOnce(old, new) ==
    /\ ~InCall /\ reg \notin {old, new}
    /\ reply' = "stale"
    /\ UNCHANGED <<reg, floor, call>>

Refuse ==
    /\ InCall /\ ~call.took
    /\ Settles
    /\ reply' \in {"failed", "rejected"} /\ call' = NoCall

Doubt ==
    /\ InCall
    /\ Settles
    /\ reply' = "ambiguous" /\ call' = NoCall

\* Other operations of the store, and the barriers of this one.
Other == Settles /\ reply' \in {reply, "none"} /\ UNCHANGED call

Die == call' = NoCall /\ reply' = "none" /\ UNCHANGED <<reg, floor>>

PowerLoss ==
    /\ reg' \in floor /\ floor' = {reg'}
    /\ call' = NoCall /\ reply' = "none"

Next ==
    \/ \E old \in Values \cup {Absent}, new \in Values :
            Begin(old, new) \/ RefuseAtOnce(old, new)
    \/ \E v \in Values : Foreign(v)
    \/ Commit \/ Succeed \/ SucceedLate \/ RefuseStale \/ Refuse \/ Doubt
    \/ Other \/ Die \/ PowerLoss

Spec == Init /\ [][Next]_regVars
=============================================================================
