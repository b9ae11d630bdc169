---------------------------- MODULE DurableStore ----------------------------
(***************************************************************************)
(* src/crates/pilotage-durable-storage: one mutable name (Slot) exchanged  *)
(* under the writer lease, one immutable name (Object) published without   *)
(* replacement, and the temporary objects both are built from.  Every      *)
(* system call that changes the directory or the disk is a step, and may   *)
(* succeed, fail without effect or take effect and lose its                *)
(* acknowledgement (fault.rs); the process may die, or the power go,       *)
(* between any two of them.                                                *)
(***************************************************************************)
EXTENDS FileSystem, Naturals

CONSTANTS Slot, Object,  \* the mutable and the immutable name
          Temps,         \* names of temporary objects
          Absent,        \* what an unbound name holds
          NoTemp,        \* no temporary is owned
          SweepLimit,    \* most temporaries one recovery scan removes
          MaxMishaps     \* bound: failed calls, foreign writes and crashes

ASSUME StoreAssumption ==
    /\ Names = {Slot, Object} \cup Temps /\ IsFiniteSet(Temps)
    /\ Slot # Object /\ {Slot, Object} \cap Temps = {}
    /\ NoTemp \notin Names
    /\ Absent \notin Values \cup {Torn}
    /\ SweepLimit \in Nat /\ MaxMishaps \in Nat

VARIABLES leased,    \* a process holds the writer lease
          opener,    \* another that is on its way to it: "none", "synced" the
                     \* root, or "overtaken": the directory changed since, and
                     \* nobody synced it after that
          pc,        \* the next system call of the operation under way
          call,      \* that operation and its values
          tmp,       \* the temporary it owns or removes
          then,      \* what its current removal or barrier is for
          reply,     \* how the last operation ended
          alien,     \* files written without the lease
          doubt,     \* the holder was told "ambiguous", saw a foreign write, or
                     \* was overtaken between its sync and its lock
          published, \* the content a publication has promised
          mishaps    \* how many of them happened so far

ctlVars == <<pc, call, tmp, then, reply, doubt, published>>
vars == <<fsVars, leased, opener, ctlVars, alien, mishaps>>

NoCall == [op |-> "none", old |-> Absent, new |-> Absent]
NoReply == [kind |-> "none", op |-> "none"]
\* A system call is "acked", "failed" without effect, or "lost": done, but with
\* an error for an answer.
Takes(o) == o # "failed"

Content(n) == IF Bound(n) THEN body[dir[n]] ELSE Absent
Alone(n) == Bound(n) /\ Links(dir[n]) = 1
Leftovers == {t \in Temps : Bound(t)}
\* The temporary names a half-finished publication of Object still has.
Twins == {t \in Temps : Bound(Object) /\ dir[t] = dir[Object]}
-----------------------------------------------------------------------------
Init ==
    /\ FsInit
    /\ leased = FALSE /\ opener = "none" /\ pc = "idle" /\ call = NoCall /\ tmp = NoTemp
    /\ then = "none" /\ reply = NoReply /\ alien = {}
    /\ doubt = FALSE /\ published = Absent /\ mishaps = 0

Goto(p) == pc' = p /\ UNCHANGED <<call, tmp, then, reply, doubt, published>>
GotoFor(p, t) == pc' = p /\ then' = t /\ UNCHANGED <<call, tmp, reply, doubt, published>>

Answer(c, kind) ==
    /\ pc' = "idle" /\ call' = NoCall /\ tmp' = NoTemp /\ then' = "none"
    /\ reply' = [kind |-> kind, op |-> c.op]
    /\ doubt' = (doubt \/ kind = "ambiguous")
    /\ published' = IF c.op \in {"put", "repair"}
                       /\ kind \in {"published", "alreadyExact", "repaired"}
                    THEN c.new ELSE published
Return(kind) == Answer(call, kind)

Enter(c, p, t) ==
    /\ pc' = p /\ call' = c /\ then' = t /\ reply' = NoReply
    /\ UNCHANGED <<tmp, doubt, published>>

Ready == leased /\ pc = "idle"
\* A change of the directory is not covered by the sync an opener has made; the
\* holder's own next sync covers both.
Overtake ==
    opener' = IF opener = "none" THEN "none"
              ELSE IF dir' # dir THEN "overtaken"
              ELSE IF disk' # disk THEN "synced" ELSE opener
Same == UNCHANGED <<leased, alien>> /\ Overtake
SameData == UNCHANGED <<body, solid>>
SameFiles == SameDirectory /\ SameData

SyncFileOf(n, o) ==
    /\ solid' = IF Takes(o) THEN solid \cup {dir[n]} ELSE solid
    /\ SameDirectory /\ UNCHANGED body
SyncDirectoryIf(o) ==
    IF Takes(o) THEN SyncDirectory ELSE SameFiles
-----------------------------------------------------------------------------
(* Temporary objects: created exclusively, written, synced.                *)

CreateTemporary(o) ==
    /\ pc = "create"
    /\ \E t \in Temps :
          /\ ~Bound(t)
          /\ Takes(o) => InodeIsFree
          /\ IF Takes(o)
             THEN /\ BindTo(t, FreshInode)
                  /\ body' = [body EXCEPT ![FreshInode] = Torn]
                  /\ solid' = solid \ {FreshInode}
                  /\ alien' = alien \ {FreshInode}
             ELSE SameFiles /\ UNCHANGED alien
          /\ IF o = "acked"
             THEN pc' = "write" /\ tmp' = t
                  /\ UNCHANGED <<call, then, reply, doubt, published>>
             ELSE Return("failed")
    /\ UNCHANGED leased /\ Overtake

TemporaryNamesExhausted ==
    /\ pc = "create" /\ Leftovers = Temps
    /\ Return("failed") /\ SameFiles /\ Same

WriteTemporary(o) ==
    /\ pc = "write"
    /\ IF o = "acked"
       THEN body' = [body EXCEPT ![dir[tmp]] = call.new] /\ Goto("syncData")
       ELSE UNCHANGED body /\ Return("failed")
    /\ SameDirectory /\ UNCHANGED solid /\ Same

\* Mutant: the new object goes on without its data being synced.
SkipSyncTemporary(o) ==
    /\ pc = "syncData"
    /\ IF o # "acked" THEN Return("failed")
       ELSE Goto(IF call.op = "cas" THEN "validate" ELSE "link")
    /\ SameFiles /\ Same

SyncTemporary(o) ==
    /\ pc = "syncData"
    /\ SyncFileOf(tmp, o)
    /\ IF o # "acked" THEN Return("failed")
       ELSE Goto(IF call.op = "cas" THEN "validate" ELSE "link")
    /\ Same
-----------------------------------------------------------------------------
(* Exact removal of one temporary name, retried once, with a barrier.      *)

\* What follows a removal that is on the disk, and what is answered if not.
Onward == [known |-> "stabilizeFile", recovered |-> "recoverBarrier",
           publishing |-> "durableFile", repairing |-> "durableFile",
           sweeping |-> "sweep"]
Verdict == [rejected |-> "rejected", unchanged |-> "failed", unlinked |-> "failed"]

Removed == IF then \in DOMAIN Onward THEN Goto(Onward[then]) ELSE Return(Verdict[then])

NotRemoved(kind) ==
    Return(IF then \in {"known", "recovered"} THEN "ambiguous"
           ELSE IF then = "rejected" THEN "rejected" ELSE kind)

ExpectedLinks == IF then \in {"publishing", "repairing"} THEN 2 ELSE 1

UnlinkTemporary(o) ==
    /\ pc \in {"unlink", "unlinkAgain"}
    /\ IF ~Bound(tmp) \/ Links(dir[tmp]) # ExpectedLinks
       THEN SameDirectory /\ NotRemoved("failed")
       ELSE IF Takes(o) THEN Unbind(tmp) /\ Goto("syncRemoval")
       ELSE /\ SameDirectory
            /\ IF pc = "unlink" THEN Goto("unlinkAgain") ELSE NotRemoved("failed")
    /\ SameData /\ Same

SyncRemoval(o) ==
    /\ pc = "syncRemoval"
    /\ SyncDirectoryIf(o) /\ IF o = "acked" THEN Removed ELSE Goto("removalBarrier")
    /\ Same

RemovalBarrier(o) ==
    /\ pc = "removalBarrier"
    /\ SyncDirectoryIf(o) /\ IF o = "acked" THEN Removed ELSE NotRemoved("ambiguous")
    /\ Same
-----------------------------------------------------------------------------
(* compare_exchange_file.                                                  *)

CompareExchange(old, new) ==
    LET c == [op |-> "cas", old |-> old, new |-> new]
    IN  /\ Ready
        /\ IF Content(Slot) = new THEN Enter(c, "stabilizeFile", "none")
           ELSE IF Content(Slot) = old THEN Enter(c, "create", "none")
           ELSE Answer(c, "stale")
        /\ SameFiles /\ Same

\* Bound: the disk holds at most one file written without the lease.
OneForeignFile == \A i \in alien : Fresh(i)

\* The caller's own check; until it is over, a process without the lease may
\* put another file in the slot.
CallerAccepts == pc = "validate" /\ Goto("recheck") /\ SameFiles /\ Same
CallerRejects == pc = "validate" /\ GotoFor("unlink", "rejected") /\ SameFiles /\ Same

ForeignWrite(v) ==
    /\ pc = "validate" /\ OneForeignFile /\ InodeIsFree
    /\ BindTo(Slot, FreshInode)
    /\ body' = [body EXCEPT ![FreshInode] = v]
    /\ solid' = solid \ {FreshInode}
    /\ alien' = {FreshInode}
    /\ doubt' = TRUE
    /\ Overtake
    /\ UNCHANGED <<leased, pc, call, tmp, then, reply, published>>

Recheck ==
    /\ pc = "recheck"
    /\ IF Content(Slot) = call.old THEN Goto("rename")
       ELSE IF Content(Slot) = call.new THEN GotoFor("unlink", "known")
       ELSE Return("stale")
    /\ SameFiles /\ Same

RenameOver(o) ==
    /\ pc = "rename"
    /\ IF Takes(o) THEN MoveOver(tmp, Slot) ELSE SameDirectory
    /\ Goto(IF o = "acked" THEN "syncParent" ELSE "recover")
    /\ SameData /\ Same

SyncParent(o) ==
    /\ pc = "syncParent"
    /\ SyncDirectoryIf(o)
    /\ IF o = "acked" THEN GotoFor("readback", "exchanged") ELSE Goto("recover")
    /\ Same

ReadBack(o) ==
    /\ pc = "readback"
    /\ Return(IF o # "acked" \/ Content(Slot) # call.new THEN "ambiguous"
              ELSE IF then = "exchanged" THEN "exchanged" ELSE "alreadyExact")
    /\ SameFiles /\ Same

\* Mutant: an unreadable slot is reported as a definite failure.
RecoverFailed(o) ==
    /\ pc = "recover"
    /\ IF o # "acked" THEN Return("failed")
       ELSE IF Content(Slot) = call.new
            THEN IF Bound(tmp) THEN GotoFor("unlink", "recovered") ELSE Goto("recoverBarrier")
       ELSE IF Content(Slot) = call.old
            THEN IF Bound(tmp) THEN GotoFor("unlink", "unchanged") ELSE Return("failed")
       ELSE Return("stale")
    /\ SameFiles /\ Same

Recover(o) ==
    /\ pc = "recover"
    /\ IF o # "acked" THEN Return("ambiguous")
       ELSE IF Content(Slot) = call.new
            THEN IF Bound(tmp) THEN GotoFor("unlink", "recovered") ELSE Goto("recoverBarrier")
       ELSE IF Content(Slot) = call.old
            THEN IF Bound(tmp) THEN GotoFor("unlink", "unchanged") ELSE Return("failed")
       ELSE Return("stale")
    /\ SameFiles /\ Same

RecoverBarrier(o) ==
    /\ pc = "recoverBarrier"
    /\ SyncDirectoryIf(o)
    /\ IF o = "acked" THEN GotoFor("readback", "recovered") ELSE Return("ambiguous")
    /\ Same

StabilizeFile(o) ==
    /\ pc = "stabilizeFile"
    /\ SyncFileOf(Slot, o) /\ IF o = "acked" THEN Goto("stabilizeDir") ELSE Return("ambiguous")
    /\ Same

StabilizeDirectory(o) ==
    /\ pc = "stabilizeDir"
    /\ SyncDirectoryIf(o) /\ Return(IF o = "acked" THEN "alreadyExact" ELSE "ambiguous")
    /\ Same
-----------------------------------------------------------------------------
(* put_immutable_no_replace, repair_immutable_publication and the scan.    *)

\* A name with two links is a publication that stopped before its unlink.
Adopt(c) ==
    IF Links(dir[Object]) = 2 /\ Cardinality(Twins) = 1
    THEN /\ pc' = "unlink" /\ call' = c /\ then' = "repairing" /\ tmp' \in Twins
         /\ reply' = NoReply /\ UNCHANGED <<doubt, published>>
    ELSE Answer(c, "failed")

PutImmutable(v) ==
    LET c == [op |-> "put", old |-> Absent, new |-> v]
    IN  /\ Ready
        /\ IF ~Bound(Object) THEN Enter(c, "create", "none")
           ELSE IF Content(Object) # v THEN Answer(c, "failed")
           ELSE IF Alone(Object) THEN Enter(c, "durableFile", "existing")
           ELSE Adopt(c)
        /\ SameFiles /\ Same

PublishLink(o) ==
    /\ pc = "link"
    /\ IF Takes(o) THEN BindTo(Object, dir[tmp]) ELSE SameDirectory
    /\ IF o = "acked" THEN GotoFor("unlink", "publishing") ELSE Goto("recoverLink")
    /\ SameData /\ Same

RecoverLink(o) ==
    /\ pc = "recoverLink"
    /\ IF o # "acked" THEN Return("ambiguous")
       ELSE IF ~Bound(Object) THEN GotoFor("unlink", "unlinked")
       ELSE IF dir[Object] = dir[tmp] THEN GotoFor("unlink", "publishing")
       ELSE Return("failed")
    /\ SameFiles /\ Same

MakeFileDurable(o) ==
    /\ pc = "durableFile"
    /\ SyncFileOf(Object, o) /\ IF o = "acked" THEN Goto("durableDir") ELSE Return("failed")
    /\ Same

MakeNameDurable(o) ==
    /\ pc = "durableDir"
    /\ SyncDirectoryIf(o)
    /\ Return(IF o # "acked" THEN "failed"
              ELSE IF call.op = "repair" THEN "repaired"
              ELSE IF then = "publishing" THEN "published" ELSE "alreadyExact")
    /\ Same

RepairImmutable ==
    LET c == [op |-> "repair", old |-> Absent, new |-> Content(Object)]
    IN  /\ Ready
        /\ IF ~Bound(Object) THEN Answer(c, "absent")
           ELSE IF Alone(Object) THEN Enter(c, "durableFile", "existing")
           ELSE Adopt(c)
        /\ SameFiles /\ Same

CleanupTemporaries ==
    LET c == [op |-> "sweep", old |-> Absent, new |-> Absent]
    IN  /\ Ready
        /\ IF Cardinality(Leftovers) > SweepLimit THEN Answer(c, "failed")
           ELSE Enter(c, "sweep", "none")
        /\ SameFiles /\ Same

SweepNext ==
    /\ pc = "sweep"
    /\ \/ Leftovers = {} /\ Return("cleaned")
       \/ \E t \in Leftovers :
             IF Alone(t)
             THEN /\ pc' = "unlink" /\ then' = "sweeping" /\ tmp' = t
                  /\ UNCHANGED <<call, reply, doubt, published>>
             ELSE Return("failed")
    /\ SameFiles /\ Same
-----------------------------------------------------------------------------
(* Opening the store: an opener syncs the root, and only then tries the    *)
(* lock, so the holder before it may still be at work in between.  Bound:  *)
(* one process is on its way at a time.                                    *)

\* Mutant: an opener does not sync the root.
SyncRootSkipped(o) ==
    /\ opener = "none"
    /\ SameFiles
    /\ opener' = IF o = "acked" THEN "synced" ELSE opener
    /\ UNCHANGED <<leased, alien, ctlVars>>

SyncRoot(o) ==
    /\ opener = "none"
    /\ SyncDirectoryIf(o)
    /\ opener' = IF o = "acked" THEN "synced" ELSE opener
    /\ UNCHANGED <<leased, alien, ctlVars>>

\* The lock is tried once: it is refused while another holds it.  Nothing is
\* synced or compared after it, so an opener that was overtaken does not know.
TakeLease ==
    /\ opener # "none" /\ opener' = "none"
    /\ leased' = TRUE
    /\ doubt' = IF leased THEN doubt ELSE opener = "overtaken"
    /\ SameFiles
    /\ UNCHANGED <<pc, call, tmp, then, reply, published, alien>>

Stop ==
    /\ leased' = FALSE /\ pc' = "idle" /\ call' = NoCall /\ tmp' = NoTemp
    /\ then' = "none" /\ reply' = NoReply
    /\ UNCHANGED <<doubt, published>>

\* The holder dies, or the opener; a power failure takes both.
ProcessDies == leased /\ Stop /\ SameFiles /\ UNCHANGED <<opener, alien>>
OpenerDies ==
    /\ opener # "none" /\ opener' = "none"
    /\ SameFiles /\ UNCHANGED <<leased, alien, ctlVars>>
PowerFails == PowerLoss /\ Stop /\ opener' = "none" /\ UNCHANGED alien

\* Bound: mishaps counts the calls that fail or lose their acknowledgement, the
\* foreign writes and the crashes.
Smooth == UNCHANGED mishaps
Mishap == mishaps < MaxMishaps /\ mishaps' = mishaps + 1

SystemCall(o) ==
    \/ CreateTemporary(o) \/ WriteTemporary(o) \/ SyncTemporary(o)
    \/ UnlinkTemporary(o) \/ SyncRemoval(o) \/ RemovalBarrier(o)
    \/ RenameOver(o) \/ SyncParent(o) \/ ReadBack(o) \/ Recover(o)
    \/ RecoverBarrier(o) \/ StabilizeFile(o) \/ StabilizeDirectory(o)
    \/ PublishLink(o) \/ RecoverLink(o) \/ MakeFileDurable(o) \/ MakeNameDurable(o)
    \/ SyncRoot(o)

Caller ==
    \/ \E new \in Values :
          PutImmutable(new) \/ \E old \in Values \cup {Absent} : CompareExchange(old, new)
    \/ RepairImmutable \/ CleanupTemporaries
    \/ CallerAccepts \/ CallerRejects

Next ==
    \/ SystemCall("acked") /\ Smooth
    \/ (SystemCall("failed") \/ SystemCall("lost")) /\ Mishap
    \/ (Caller \/ TemporaryNamesExhausted \/ Recheck \/ SweepNext \/ TakeLease) /\ Smooth
    \/ ((\E v \in Values : ForeignWrite(v)) \/ ProcessDies \/ OpenerDies \/ PowerFails)
       /\ Mishap

Spec == Init /\ [][Next]_vars
-----------------------------------------------------------------------------
(* Properties.                                                             *)

\* A name that a reader accepts: the store refuses a file with two links.
Readable(n) == ~Bound(n) \/ Alone(n)

\* Between operations, a holder that was never told "ambiguous" reads nothing a
\* power loss can take back: each readable name is bound alike in every
\* directory the disk may show, and to data already on the disk.  That is why an
\* ambiguous answer poisons the session (cas.rs, objects.rs), and what the sync
\* in acquire_writer does for a restarted owner.  The lease itself does not see
\* to that: the sync comes before the lock, so the owner before may change the
\* directory in between and die before its own sync.  Whoever opens behind it
\* may read a rename that is not on the disk; that one owner is left out here,
\* in doubt, and nothing tells it so.
SettledIsDurable ==
    Ready /\ ~doubt =>
        \A n \in {Slot, Object} : Readable(n) =>
            \A d \in disk :
                d[n] = dir[n] /\ (Bound(n) => dir[n] \in solid \cup alien)

\* Once a publication has been acknowledged, no crash, lost acknowledgement,
\* repair, scan or later publication changes or tears the object: its data is
\* synced before the link and the link before the answer (put_immutable).
PublishedIsKept ==
    published # Absent =>
        \A d \in disk : /\ d[Object] \in solid
                        /\ body[d[Object]] = published

\* A power loss never leaves a partly written object under either name, unless
\* a process without the lease wrote it.
NothingTorn ==
    \A d \in disk : \A n \in {Slot, Object} :
        d[n] # NoFile /\ d[n] \notin alien => d[n] \in solid /\ body[d[n]] # Torn

\* The two together: what may be read after a crash is a whole object, and an
\* acknowledged publication is the same whole object for ever.
ObjectsAreWhole == NothingTorn /\ PublishedIsKept

\* A file with two links is always one half-finished publication: Object and
\* exactly one temporary.  The mutable name is never linked twice, so no crash
\* can make compare_exchange_file refuse it for ever, and every such pair has
\* the one temporary name that recover_linked_publication looks for.
LinksAreRepairable ==
    \A i \in Inodes : Links(i) > 1 =>
        \E t \in Temps : {n \in Names : dir[n] = i} = {Object, t}

\* What a crash leaves can be read or repaired: whole objects, and no link but
\* that of a publication the next open finishes.
CrashesAreRepairable == ObjectsAreWhole /\ LinksAreRepairable

Register == INSTANCE PersistentRegister WITH
    reg <- Content(Slot),
    floor <- UNION {IF d[Slot] = NoFile THEN {Absent}
                    ELSE IF d[Slot] \in solid THEN {body[d[Slot]]}
                    ELSE {body[d[Slot]], Torn} : d \in disk},
    call <- IF call.op = "cas"
            THEN [old |-> call.old, new |-> call.new,
                  took |-> /\ pc \in {"syncParent", "recover", "recoverBarrier", "readback"}
                           /\ Content(Slot) = call.new]
            ELSE [old |-> Absent, new |-> Absent, took |-> FALSE],
    reply <- IF reply.op = "cas" THEN reply.kind ELSE "none"

\* The system calls of compare_exchange_file, with their faults, crashes and
\* recoveries, are one exchange of a persistent register: a success is durable,
\* a definite refusal never takes effect, everything else is ambiguous.
RegisterSpec == Register!Spec
=============================================================================
