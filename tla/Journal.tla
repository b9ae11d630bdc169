------------------------------ MODULE Journal ------------------------------
(***************************************************************************)
(* src/tools/flight-tune/src/journal.rs: a chain of events of which the    *)
(* durable store keeps the head.  Replaying a chain is a function, so each *)
(* chain is represented by the campaign state its replay gives.  An append *)
(* writes the entry, exchanges the head and only then changes the state in *)
(* memory; any error poisons the holder, because the head may already have *)
(* moved (PersistentRegister: an exchange in doubt).                       *)
(***************************************************************************)
VARIABLES saved,     \* replay of the chain the durable head names
          mem,       \* JournalState of the process that holds the writer lease
          poisoned   \* that process may no longer trust or extend it

journalVars == <<saved, mem, poisoned>>

\* How an append ends: "acked", "failed" before the head moved, or "lost":
\* the head moved and the holder was told of an error.
Outcomes == {"acked", "failed", "lost"}

\* Mutant: an append whose acknowledgement was lost counts as not made.
AppendTrusting(state, o) ==
    /\ ~poisoned
    /\ saved' = IF o = "failed" THEN saved ELSE state
    /\ mem' = IF o = "acked" THEN state ELSE mem
    /\ UNCHANGED poisoned

AppendEntry(state, o) ==
    /\ ~poisoned
    /\ saved' = IF o = "failed" THEN saved ELSE state
    /\ mem' = IF o = "acked" THEN state ELSE mem
    /\ poisoned' = (o # "acked")

\* A new holder replays the chain of the durable head.
Load == mem' = saved /\ poisoned' = FALSE /\ UNCHANGED saved

\* verify_live_snapshot fails, or the adapter returned conflicting receipts.
Poison == ~poisoned /\ poisoned' = TRUE /\ UNCHANGED <<saved, mem>>

SameJournal == UNCHANGED journalVars
=============================================================================
