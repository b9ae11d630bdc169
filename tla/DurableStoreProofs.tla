-------------------------- MODULE DurableStoreProofs --------------------------
(***************************************************************************)
(* Theorems about DurableStore, for any names of temporaries, files,       *)
(* contents and bounds:                                                    *)
(*                                                                         *)
(*   RepairableHolds     what a crash leaves is whole and repairable;      *)
(*   SettledHolds        a holder in no doubt reads nothing a crash takes  *)
(*                       back;                                             *)
(*   ImplementsRegister  the exchange of the slot is a persistent register.*)
(*                                                                         *)
(* They rest on one inductive invariant, StoreInv: which names share a     *)
(* file, what the object under construction holds, how far the operation   *)
(* under way has come, and where every directory the disk may show agrees  *)
(* with the one the process sees.                                          *)
(***************************************************************************)
EXTENDS DurableStore, FiniteSetTheorems, TLAPS

-----------------------------------------------------------------------------
(* The inductive invariant, in parts.                                      *)

Dirs == [Names -> Inodes \cup {NoFile}]

Removing == pc \in {"unlink", "unlinkAgain", "syncRemoval", "removalBarrier"}
\* Half of a publication is to go: the temporary name of a linked object.
Fixing == then \in {"publishing", "repairing"}
Exchanging ==
    \/ pc \in {"validate", "recheck", "rename", "syncParent", "recover", "recoverBarrier",
               "readback", "stabilizeFile", "stabilizeDir"}
    \/ Removing /\ then \in {"rejected", "known", "unchanged"}
Building == pc \in {"write", "syncData", "validate", "recheck", "rename", "link"}
Linking == pc \in {"create", "write", "syncData", "link"} /\ call.op = "put"
Publishing ==
    \/ pc \in {"durableFile", "durableDir"}
    \/ Removing /\ Fixing

StoreType ==
    /\ dir \in disk /\ disk \subseteq Dirs
    /\ body \in [Inodes -> Values \cup {Torn}]
    /\ doubt \in BOOLEAN /\ leased \in BOOLEAN

\* Which operation each system call belongs to, and what it works on.
CallsFit ==
    /\ pc \in {"idle", "create", "write", "syncData", "validate", "recheck", "rename",
               "syncParent", "recover", "recoverBarrier", "readback", "stabilizeFile",
               "stabilizeDir", "unlink", "unlinkAgain", "syncRemoval", "removalBarrier",
               "link", "recoverLink", "durableFile", "durableDir", "sweep"}
    /\ ~leased => pc = "idle"
    /\ pc = "idle" => call = NoCall
    /\ pc \in {"create", "write", "syncData"} => call.op \in {"cas", "put"}
    /\ Exchanging => call.op = "cas"
    /\ pc \in {"link", "recoverLink"} => call.op = "put"
    /\ Publishing => call.op \in {"put", "repair"}
    /\ pc = "sweep" => call.op = "sweep"
    /\ Removing => then \in {"rejected", "known", "unchanged", "unlinked", "publishing",
                             "repairing", "sweeping"}
    /\ Removing /\ then = "unlinked" => call.op = "put"
    /\ Removing /\ then = "sweeping" => call.op = "sweep"
    /\ pc = "readback" => then \in {"exchanged", "recovered"}
    /\ Building \/ Removing \/ pc \in {"recoverLink", "syncParent", "recover"} => tmp \in Temps
    /\ call.op \in {"cas", "put"} => call.new \in Values
    /\ call.op = "cas" => call.old \in Values \cup {Absent}
    /\ call.op = "cas" /\ pc \notin {"stabilizeFile", "stabilizeDir"} => call.old # call.new

\* A file with two names is Object and a temporary, in every directory the disk
\* may show.
LinksFit ==
    \A d \in disk : \A n, m \in Names :
        n # m /\ d[n] = d[m] /\ d[n] # NoFile =>
            Object \in {n, m} /\ Slot \notin {n, m}

\* The object under construction has one name, and what is written into it.
WorkFits ==
    /\ Building =>
          /\ Bound(tmp)
          /\ \A d \in disk : \A n \in Names \ {tmp} : d[n] # dir[tmp]
    /\ Building /\ pc # "write" => body[dir[tmp]] = call.new
    /\ Building /\ pc \notin {"write", "syncData"} => dir[tmp] \in solid

\* Object is bound once and for all.
ObjectFits ==
    /\ \A d \in disk : d[Object] \in {NoFile, dir[Object]}
    /\ Linking => ~Bound(Object)
    /\ pc = "recoverLink" /\ Bound(Object) =>
          dir[Object] = dir[tmp] /\ body[dir[Object]] = call.new
    /\ Publishing => Bound(Object) /\ body[dir[Object]] = call.new
    /\ pc = "durableDir" => dir[Object] \in solid
    /\ published # Absent =>
          /\ Bound(Object)
          /\ body[dir[Object]] = published
          /\ \A d \in disk : d[Object] = dir[Object]
          /\ dir[Object] \in solid

\* How far the exchange under way has come.
SlotFits ==
    /\ pc = "rename" => Content(Slot) = call.old
    /\ pc = "recover" => \/ Content(Slot) = call.old
                         \/ Content(Slot) = call.new /\ dir[Slot] \in solid /\ ~Bound(tmp)
    /\ pc \in {"syncParent", "recoverBarrier", "readback", "stabilizeDir"} =>
          Content(Slot) = call.new /\ dir[Slot] \in solid
    /\ pc = "stabilizeFile" \/ (Removing /\ then = "known") => Content(Slot) = call.new
    /\ pc = "syncParent" => ~Bound(tmp)
    /\ pc = "readback" => disk = {dir}

\* What a holder who is in no doubt may rely on between the steps.
SettledFits ==
    leased /\ ~doubt =>
        /\ \/ pc \in {"syncParent", "recoverBarrier"}
           \/ pc = "recover" /\ Content(Slot) = call.new
           \/ \A d \in disk : d[Slot] = dir[Slot]
        /\ \/ pc \in {"syncRemoval", "removalBarrier"} /\ Fixing
           \/ \E t \in Temps : dir[t] = dir[Object]
           \/ \A d \in disk : d[Object] = dir[Object]

\* What an opener's own sync has shown, while nothing has changed since.
OpenerFits ==
    /\ opener \in {"none", "synced", "overtaken"}
    /\ opener = "synced" => disk = {dir}

StoreInv == /\ StoreType /\ CallsFit /\ LinksFit /\ NothingTorn
            /\ WorkFits /\ ObjectFits /\ SlotFits /\ SettledFits

-----------------------------------------------------------------------------
(* What the changes of the directory do to the directories the disk may    *)
(* show.                                                                   *)

\* The names, contents and files of the constants are different things.
LEMMA NamesApart ==
    /\ Slot \in Names /\ Object \in Names /\ Temps \subseteq Names
    /\ Slot # Object /\ Slot \notin Temps /\ Object \notin Temps
    /\ NoTemp \notin Temps
    /\ Absent \notin Values /\ Absent # Torn /\ Torn \notin Values
    /\ NoFile \notin Inodes
BY StoreAssumption, FileSystemAssumption

\* Directory e is d with name n bound to i.
Became(e, d, n, i) ==
    /\ e \in Dirs
    /\ e[n] = i
    /\ \A m \in Names \ {n} : e[m] = d[m]

\* Every directory the disk may show after a change is an old one or a changed
\* old one, and what the process sees is its own, changed.
Changed(n, i) ==
    /\ dir' \in disk' /\ disk' \subseteq Dirs
    /\ Became(dir', dir, n, i)
    /\ \A e \in disk' : e \in disk \/ \E d \in disk : Became(e, d, n, i)

\* Binding a name, and taking a name away, are such changes.
LEMMA BindChanges ==
    ASSUME StoreType, NEW n \in Names, NEW i \in Inodes, BindTo(n, i)
    PROVE  Changed(n, i)
<1> DEFINE Put(d) == [d EXCEPT ![n] = i]
<1>1. \A d \in disk : Became(Put(d), d, n, i)
  BY DEF StoreType, Dirs, Became
<1>2. dir' = Put(dir) /\ disk' = disk \cup {Put(d) : d \in disk}
  BY DEF BindTo, Amend
<1>3. dir \in disk /\ disk \subseteq Dirs
  BY DEF StoreType
<1> HIDE DEF Put
<1>4. \A e \in disk' : e \in disk \/ \E d \in disk : e = Put(d)
  BY <1>2
<1>5. dir' \in disk' /\ disk' \subseteq Dirs
  BY <1>1, <1>2, <1>3 DEF Became
<1>6. QED
  BY <1>1, <1>2, <1>3, <1>4, <1>5 DEF Changed

\* Unlinking binds the name to no file.
LEMMA UnbindChanges ==
    ASSUME StoreType, NEW n \in Names, Unbind(n)
    PROVE  Changed(n, NoFile)
<1> DEFINE Put(d) == [d EXCEPT ![n] = NoFile]
<1>1. \A d \in disk : Became(Put(d), d, n, NoFile)
  BY DEF StoreType, Dirs, Became
<1>2. dir' = Put(dir) /\ disk' = disk \cup {Put(d) : d \in disk}
  BY DEF Unbind, Amend
<1>3. dir \in disk /\ disk \subseteq Dirs
  BY DEF StoreType
<1> HIDE DEF Put
<1>4. \A e \in disk' : e \in disk \/ \E d \in disk : e = Put(d)
  BY <1>2
<1>5. dir' \in disk' /\ disk' \subseteq Dirs
  BY <1>1, <1>2, <1>3 DEF Became
<1>6. QED
  BY <1>1, <1>2, <1>3, <1>4, <1>5 DEF Changed

\* Directory e is d with the file i moved from one name over another.
Took(e, d, from, to, i) ==
    /\ e \in Dirs
    /\ e[to] = i /\ e[from] = NoFile
    /\ \A m \in Names \ {from, to} : e[m] = d[m]

\* A rename over another name does that to each of them.
LEMMA MoveChanges ==
    ASSUME StoreType, NEW from \in Names, NEW to \in Names, from # to,
           Bound(from), MoveOver(from, to)
    PROVE  /\ dir' \in disk' /\ disk' \subseteq Dirs
           /\ Took(dir', dir, from, to, dir[from])
           /\ \A e \in disk' : e \in disk \/ \E d \in disk : Took(e, d, from, to, dir[from])
<1> DEFINE i == dir[from]
           Move(d) == [d EXCEPT ![to] = i, ![from] = NoFile]
<1>1. i \in Inodes \cup {NoFile}
  BY DEF StoreType, Dirs
<1>2. \A d \in disk : Took(Move(d), d, from, to, i)
  BY <1>1 DEF StoreType, Dirs, Took
<1>3. dir' = Move(dir) /\ disk' = disk \cup {Move(d) : d \in disk}
  BY DEF MoveOver, Amend
<1>4. dir \in disk /\ disk \subseteq Dirs
  BY DEF StoreType
<1> HIDE DEF Move, i
<1>5. \A e \in disk' : e \in disk \/ \E d \in disk : e = Move(d)
  BY <1>3
<1>6. dir' \in disk' /\ disk' \subseteq Dirs
  BY <1>2, <1>3, <1>4 DEF Took
<1>7. QED
  BY <1>2, <1>3, <1>4, <1>5, <1>6 DEF i

\* A directory sync makes what the process sees all the disk may show, and
\* changes no file that is still named.
LEMMA SyncKeeps ==
    ASSUME StoreType, SyncDirectory
    PROVE  /\ dir' = dir /\ disk' = {dir}
           /\ body' \in [Inodes -> Values \cup {Torn}]
           /\ \A n \in Names : Bound(n) =>
                 /\ body'[dir[n]] = body[dir[n]]
                 /\ dir[n] \in solid => dir[n] \in solid'
           /\ solid' \subseteq solid
BY DEF StoreType, Dirs, SyncDirectory, Keep, Bound

-----------------------------------------------------------------------------
(* Steps that change no file.                                              *)

\* What is said of the files alone goes on to hold.
LEMMA FilesStay ==
    ASSUME StoreInv, SameFiles, UNCHANGED alien, doubt' \in BOOLEAN, leased' \in BOOLEAN
    PROVE  StoreType' /\ LinksFit' /\ NothingTorn'
BY DEF StoreInv, SameFiles, SameDirectory, SameData, StoreType, LinksFit, NothingTorn

\* The end of an operation, of the store's own or of the process.
LEMMA AnswerSteps ==
    ASSUME StoreInv, NEW c, NEW kind, Answer(c, kind), SameFiles, Same,
           leased,
           kind = "ambiguous" \/
              /\ pc \notin {"syncParent", "recoverBarrier"}
              /\ ~ (pc = "recover" /\ Content(Slot) = call.new)
              /\ ~ (pc \in {"syncRemoval", "removalBarrier"} /\ Fixing),
           c.op \notin {"put", "repair"} \/ kind \notin {"published", "alreadyExact", "repaired"}
    PROVE  StoreInv'
<1>1. StoreType' /\ LinksFit' /\ NothingTorn'
  BY FilesStay DEF Answer, Same, StoreInv, StoreType
<1>2. CallsFit' /\ WorkFits'
  BY DEF Answer, CallsFit, WorkFits, Building, Removing, Exchanging, Publishing, NoCall
<1>3. ObjectFits'
  BY DEF StoreInv, Answer, ObjectFits, Linking, Publishing, Removing, SameFiles, SameDirectory,
         SameData, Bound
<1>4. SlotFits'
  BY DEF Answer, SlotFits, Removing
<1>5. SettledFits'
  BY DEF StoreInv, Answer, Same, SettledFits, SameFiles, SameDirectory, Fixing, Content
<1>6. QED
  BY <1>1, <1>2, <1>3, <1>4, <1>5 DEF StoreInv

\* An exchange begins, or finds another value.
LEMMA CompareExchangeSteps ==
    ASSUME StoreInv, NEW old \in Values \cup {Absent}, NEW new \in Values,
           CompareExchange(old, new)
    PROVE  StoreInv'
<1> USE DEF StoreInv, StoreType, CallsFit, WorkFits, ObjectFits, SlotFits, SettledFits, Building,
            Removing, Fixing, Exchanging, Linking, Publishing, SameFiles, SameDirectory, SameData,
            Same, Ready, Bound, Content, Enter, Answer, Return, Goto, GotoFor, NoCall
<1>1. StoreType' /\ LinksFit' /\ NothingTorn'
  BY FilesStay DEF CompareExchange
<1>2. CallsFit' /\ WorkFits'
  BY NamesApart DEF CompareExchange
<1>3. ObjectFits' /\ SlotFits'
  BY NamesApart DEF CompareExchange
<1>4. SettledFits'
  BY NamesApart DEF CompareExchange
<1>5. QED
  BY <1>1, <1>2, <1>3, <1>4

\* The caller's check is over.
LEMMA CallerSteps ==
    ASSUME StoreInv, CallerAccepts \/ CallerRejects
    PROVE  StoreInv'
<1> USE DEF StoreInv, StoreType, CallsFit, WorkFits, ObjectFits, SlotFits, SettledFits, Building,
            Removing, Fixing, Exchanging, Linking, Publishing, SameFiles, SameDirectory, SameData,
            Same, Ready, Bound, Content, Enter, Answer, Return, Goto, GotoFor, NoCall
<1>1. StoreType' /\ LinksFit' /\ NothingTorn'
  BY FilesStay DEF CallerAccepts, CallerRejects
<1>2. CallsFit' /\ WorkFits'
  BY NamesApart DEF CallerAccepts, CallerRejects
<1>3. ObjectFits' /\ SlotFits'
  BY NamesApart DEF CallerAccepts, CallerRejects
<1>4. SettledFits'
  BY NamesApart DEF CallerAccepts, CallerRejects
<1>5. QED
  BY <1>1, <1>2, <1>3, <1>4

\* The slot is read again before the rename.
LEMMA RecheckSteps ==
    ASSUME StoreInv, Recheck
    PROVE  StoreInv'
<1> USE DEF StoreInv, StoreType, CallsFit, WorkFits, ObjectFits, SlotFits, SettledFits, Building,
            Removing, Fixing, Exchanging, Linking, Publishing, SameFiles, SameDirectory, SameData,
            Same, Ready, Bound, Content, Enter, Answer, Return, Goto, GotoFor, NoCall
<1>1. StoreType' /\ LinksFit' /\ NothingTorn'
  BY FilesStay DEF Recheck
<1>2. CallsFit' /\ WorkFits'
  BY NamesApart DEF Recheck
<1>3. ObjectFits' /\ SlotFits'
  BY NamesApart DEF Recheck
<1>4. SettledFits'
  BY NamesApart DEF Recheck
<1>5. QED
  BY <1>1, <1>2, <1>3, <1>4

\* The slot is read after the exchange.
LEMMA ReadBackSteps ==
    ASSUME StoreInv, NEW o, ReadBack(o)
    PROVE  StoreInv'
<1> USE DEF StoreInv, StoreType, CallsFit, WorkFits, ObjectFits, SlotFits, SettledFits, Building,
            Removing, Fixing, Exchanging, Linking, Publishing, SameFiles, SameDirectory, SameData,
            Same, Ready, Bound, Content, Enter, Answer, Return, Goto, GotoFor, NoCall
<1>1. StoreType' /\ LinksFit' /\ NothingTorn'
  BY FilesStay DEF ReadBack
<1>2. CallsFit' /\ WorkFits'
  BY NamesApart DEF ReadBack
<1>3. ObjectFits' /\ SlotFits'
  BY NamesApart DEF ReadBack
<1>4. SettledFits'
  BY NamesApart DEF ReadBack
<1>5. QED
  BY <1>1, <1>2, <1>3, <1>4

\* The outcome of a rename in doubt is read off the names.
LEMMA RecoverSteps ==
    ASSUME StoreInv, NEW o, Recover(o)
    PROVE  StoreInv'
<1> USE DEF StoreInv, StoreType, CallsFit, WorkFits, ObjectFits, SlotFits, SettledFits, Building,
            Removing, Fixing, Exchanging, Linking, Publishing, SameFiles, SameDirectory, SameData,
            Same, Ready, Bound, Content, Enter, Answer, Return, Goto, GotoFor, NoCall
<1>1. StoreType' /\ LinksFit' /\ NothingTorn'
  BY FilesStay DEF Recover
<1>2. CallsFit' /\ WorkFits'
  BY NamesApart DEF Recover
<1>3. ObjectFits' /\ SlotFits'
  BY NamesApart DEF Recover
<1>4. SettledFits'
  BY NamesApart DEF Recover
<1>5. QED
  BY <1>1, <1>2, <1>3, <1>4

\* The outcome of a link in doubt is read off the names.
LEMMA RecoverLinkSteps ==
    ASSUME StoreInv, NEW o, RecoverLink(o)
    PROVE  StoreInv'
<1> USE DEF StoreInv, StoreType, CallsFit, WorkFits, ObjectFits, SlotFits, SettledFits, Building,
            Removing, Fixing, Exchanging, Linking, Publishing, SameFiles, SameDirectory, SameData,
            Same, Ready, Bound, Content, Enter, Answer, Return, Goto, GotoFor, NoCall
<1>1. StoreType' /\ LinksFit' /\ NothingTorn'
  BY FilesStay DEF RecoverLink
<1>2. CallsFit' /\ WorkFits'
  BY NamesApart DEF RecoverLink
<1>3. ObjectFits' /\ SlotFits'
  BY NamesApart DEF RecoverLink
<1>4. SettledFits'
  BY NamesApart DEF RecoverLink
<1>5. QED
  BY <1>1, <1>2, <1>3, <1>4

\* A publication begins, goes on with what an earlier one left, or ends.
LEMMA PutSteps ==
    ASSUME StoreInv, NEW v \in Values, PutImmutable(v)
    PROVE  StoreInv'
<1> USE DEF StoreInv, StoreType, CallsFit, WorkFits, ObjectFits, SlotFits, SettledFits, Building,
            Removing, Fixing, Exchanging, Linking, Publishing, SameFiles, SameDirectory, SameData,
            Same, Ready, Bound, Content, Enter, Answer, Return, Goto, GotoFor, NoCall
<1>1. StoreType' /\ LinksFit' /\ NothingTorn'
  BY FilesStay DEF PutImmutable, Adopt, Twins
<1>2. CallsFit' /\ WorkFits'
  BY NamesApart DEF PutImmutable, Adopt, Twins
<1>3. ObjectFits' /\ SlotFits'
  BY NamesApart DEF PutImmutable, Adopt, Twins
<1>4. SettledFits'
  BY NamesApart DEF PutImmutable, Adopt, Twins
<1>5. QED
  BY <1>1, <1>2, <1>3, <1>4

\* A repair likewise.
LEMMA RepairSteps ==
    ASSUME StoreInv, RepairImmutable
    PROVE  StoreInv'
<1> USE DEF StoreInv, StoreType, CallsFit, WorkFits, ObjectFits, SlotFits, SettledFits, Building,
            Removing, Fixing, Exchanging, Linking, Publishing, SameFiles, SameDirectory, SameData,
            Same, Ready, Bound, Content, Enter, Answer, Return, Goto, GotoFor, NoCall
<1>1. StoreType' /\ LinksFit' /\ NothingTorn'
  BY FilesStay DEF RepairImmutable, Adopt, Twins
<1>2. CallsFit' /\ WorkFits'
  BY NamesApart DEF RepairImmutable, Adopt, Twins
<1>3. ObjectFits' /\ SlotFits'
  BY NamesApart DEF RepairImmutable, Adopt, Twins
<1>4. SettledFits'
  BY NamesApart DEF RepairImmutable, Adopt, Twins
<1>5. QED
  BY <1>1, <1>2, <1>3, <1>4

\* The scan for leftovers.
LEMMA ScanSteps ==
    ASSUME StoreInv, CleanupTemporaries \/ SweepNext
    PROVE  StoreInv'
<1> USE DEF StoreInv, StoreType, CallsFit, WorkFits, ObjectFits, SlotFits, SettledFits, Building,
            Removing, Fixing, Exchanging, Linking, Publishing, SameFiles, SameDirectory, SameData,
            Same, Ready, Bound, Content, Enter, Answer, Return, Goto, GotoFor, NoCall
<1>1. StoreType' /\ LinksFit' /\ NothingTorn'
  BY FilesStay DEF CleanupTemporaries, SweepNext, Leftovers
<1>2. CallsFit' /\ WorkFits'
  BY NamesApart DEF CleanupTemporaries, SweepNext, Leftovers
<1>3. ObjectFits' /\ SlotFits'
  BY NamesApart DEF CleanupTemporaries, SweepNext, Leftovers
<1>4. SettledFits'
  BY NamesApart DEF CleanupTemporaries, SweepNext, Leftovers
<1>5. QED
  BY <1>1, <1>2, <1>3, <1>4

\* No temporary name is left.
LEMMA ExhaustedSteps ==
    ASSUME StoreInv, TemporaryNamesExhausted
    PROVE  StoreInv'
<1> USE DEF StoreInv, StoreType, CallsFit, WorkFits, ObjectFits, SlotFits, SettledFits, Building,
            Removing, Fixing, Exchanging, Linking, Publishing, SameFiles, SameDirectory, SameData,
            Same, Ready, Bound, Content, Enter, Answer, Return, Goto, GotoFor, NoCall
<1>1. StoreType' /\ LinksFit' /\ NothingTorn'
  BY FilesStay DEF TemporaryNamesExhausted
<1>2. CallsFit' /\ WorkFits'
  BY NamesApart DEF TemporaryNamesExhausted
<1>3. ObjectFits' /\ SlotFits'
  BY NamesApart DEF TemporaryNamesExhausted
<1>4. SettledFits'
  BY NamesApart DEF TemporaryNamesExhausted
<1>5. QED
  BY <1>1, <1>2, <1>3, <1>4

\* The process dies.
LEMMA DeathSteps ==
    ASSUME StoreInv, ProcessDies
    PROVE  StoreInv'
<1> USE DEF StoreInv, StoreType, CallsFit, WorkFits, ObjectFits, SlotFits, SettledFits, Building,
            Removing, Fixing, Exchanging, Linking, Publishing, SameFiles, SameDirectory, SameData,
            Same, Ready, Bound, Content, Enter, Answer, Return, Goto, GotoFor, NoCall
<1>1. StoreType' /\ LinksFit' /\ NothingTorn'
  BY FilesStay DEF ProcessDies, Stop
<1>2. CallsFit' /\ WorkFits'
  BY NamesApart DEF ProcessDies, Stop
<1>3. ObjectFits' /\ SlotFits'
  BY NamesApart DEF ProcessDies, Stop
<1>4. SettledFits'
  BY NamesApart DEF ProcessDies, Stop
<1>5. QED
  BY <1>1, <1>2, <1>3, <1>4

-----------------------------------------------------------------------------
(* Steps that put data, or the directory, on the disk.                     *)

\* The data of the temporary is synced.
LEMMA SyncTemporarySteps ==
    ASSUME StoreInv, NEW o, SyncTemporary(o)
    PROVE  StoreInv'
<1> USE DEF StoreInv, StoreType, CallsFit, WorkFits, ObjectFits, SlotFits, SettledFits, Building,
            Removing, Fixing, Exchanging, Linking, Publishing, SameFiles, SameDirectory, SameData,
            Same, Ready, Bound, Content, Enter, Answer, Return, Goto, GotoFor, NoCall
<1>1. StoreType'
  BY NamesApart DEF SyncTemporary, SyncFileOf, Takes
<1>2. LinksFit' /\ NothingTorn'
  BY NamesApart DEF SyncTemporary, SyncFileOf, Takes, LinksFit, NothingTorn
<1>3. CallsFit'
  BY NamesApart DEF SyncTemporary, SyncFileOf, Takes
<1>4. WorkFits'
  BY NamesApart DEF SyncTemporary, SyncFileOf, Takes
<1>5. ObjectFits'
  BY NamesApart DEF SyncTemporary, SyncFileOf, Takes
<1>6. SlotFits'
  BY NamesApart DEF SyncTemporary, SyncFileOf, Takes
<1>7. SettledFits'
  BY NamesApart DEF SyncTemporary, SyncFileOf, Takes
<1>8. QED
  BY <1>1, <1>2, <1>3, <1>4, <1>5, <1>6, <1>7

\* The data of the slot is synced.
LEMMA StabilizeFileSteps ==
    ASSUME StoreInv, NEW o, StabilizeFile(o)
    PROVE  StoreInv'
<1> USE DEF StoreInv, StoreType, CallsFit, WorkFits, ObjectFits, SlotFits, SettledFits, Building,
            Removing, Fixing, Exchanging, Linking, Publishing, SameFiles, SameDirectory, SameData,
            Same, Ready, Bound, Content, Enter, Answer, Return, Goto, GotoFor, NoCall
<1>1. StoreType'
  BY NamesApart DEF StabilizeFile, SyncFileOf, Takes
<1>2. LinksFit' /\ NothingTorn'
  BY NamesApart DEF StabilizeFile, SyncFileOf, Takes, LinksFit, NothingTorn
<1>3. CallsFit'
  BY NamesApart DEF StabilizeFile, SyncFileOf, Takes
<1>4. WorkFits'
  BY NamesApart DEF StabilizeFile, SyncFileOf, Takes
<1>5. ObjectFits'
  BY NamesApart DEF StabilizeFile, SyncFileOf, Takes
<1>6. SlotFits'
  BY NamesApart DEF StabilizeFile, SyncFileOf, Takes
<1>7. SettledFits'
  BY NamesApart DEF StabilizeFile, SyncFileOf, Takes
<1>8. QED
  BY <1>1, <1>2, <1>3, <1>4, <1>5, <1>6, <1>7

\* The data of the object is synced.
LEMMA MakeFileDurableSteps ==
    ASSUME StoreInv, NEW o, MakeFileDurable(o)
    PROVE  StoreInv'
<1> USE DEF StoreInv, StoreType, CallsFit, WorkFits, ObjectFits, SlotFits, SettledFits, Building,
            Removing, Fixing, Exchanging, Linking, Publishing, SameFiles, SameDirectory, SameData,
            Same, Ready, Bound, Content, Enter, Answer, Return, Goto, GotoFor, NoCall
<1>1. StoreType'
  BY NamesApart DEF MakeFileDurable, SyncFileOf, Takes
<1>2. LinksFit' /\ NothingTorn'
  BY NamesApart DEF MakeFileDurable, SyncFileOf, Takes, LinksFit, NothingTorn
<1>3. CallsFit'
  BY NamesApart DEF MakeFileDurable, SyncFileOf, Takes
<1>4. WorkFits'
  BY NamesApart DEF MakeFileDurable, SyncFileOf, Takes
<1>5. ObjectFits'
  BY NamesApart DEF MakeFileDurable, SyncFileOf, Takes
<1>6. SlotFits'
  BY NamesApart DEF MakeFileDurable, SyncFileOf, Takes
<1>7. SettledFits'
  BY NamesApart DEF MakeFileDurable, SyncFileOf, Takes
<1>8. QED
  BY <1>1, <1>2, <1>3, <1>4, <1>5, <1>6, <1>7

\* The rename is put on the disk.
LEMMA SyncParentSteps ==
    ASSUME StoreInv, NEW o, SyncParent(o)
    PROVE  StoreInv'
<1> USE DEF StoreInv, StoreType, CallsFit, WorkFits, ObjectFits, SlotFits, SettledFits, Building,
            Removing, Fixing, Exchanging, Linking, Publishing, SameFiles, SameDirectory, SameData,
            Same, Ready, Bound, Content, Enter, Answer, Return, Goto, GotoFor, NoCall
<1>1. CASE ~ Takes(o)
  <2> SUFFICES ASSUME SameFiles, o = "failed" PROVE StoreInv'
    BY <1>1 DEF SyncParent, SyncDirectoryIf, Takes
  <2>1. StoreType' /\ LinksFit' /\ NothingTorn'
    BY <1>1, FilesStay DEF SyncParent
  <2>2. CallsFit' /\ WorkFits'
    BY <1>1, NamesApart DEF SyncParent
  <2>3. ObjectFits' /\ SlotFits'
    BY <1>1, NamesApart DEF SyncParent
  <2>4. SettledFits'
    BY <1>1, NamesApart DEF SyncParent
  <2>5. QED
    BY <2>1, <2>2, <2>3, <2>4
<1>2. CASE Takes(o)
  <2>1. /\ dir' = dir /\ disk' = {dir}
        /\ body' \in [Inodes -> Values \cup {Torn}]
        /\ \A n \in Names : dir[n] # NoFile =>
              /\ body'[dir[n]] = body[dir[n]]
              /\ dir[n] \in solid => dir[n] \in solid'
        /\ solid' \subseteq solid
    BY <1>2, SyncKeeps DEF SyncParent, SyncDirectoryIf
  <2>2. StoreType'
    BY <2>1 DEF SyncParent
  <2>3. LinksFit' /\ NothingTorn'
    BY <2>1, NamesApart DEF SyncParent, LinksFit, NothingTorn
  <2>4. CallsFit'
    BY <2>1, NamesApart DEF SyncParent
  <2>5. WorkFits'
    BY <2>1, NamesApart DEF SyncParent
  <2>6. ObjectFits'
    BY <2>1, NamesApart DEF SyncParent
  <2>7. SlotFits'
    BY <2>1, NamesApart DEF SyncParent
  <2>8. SettledFits'
    BY <2>1, NamesApart DEF SyncParent
  <2>9. QED
    BY <2>2, <2>3, <2>4, <2>5, <2>6, <2>7, <2>8
<1>3. QED
  BY <1>1, <1>2

\* A rename whose acknowledgement was lost is put on the disk.
LEMMA RecoverBarrierSteps ==
    ASSUME StoreInv, NEW o, RecoverBarrier(o)
    PROVE  StoreInv'
<1> USE DEF StoreInv, StoreType, CallsFit, WorkFits, ObjectFits, SlotFits, SettledFits, Building,
            Removing, Fixing, Exchanging, Linking, Publishing, SameFiles, SameDirectory, SameData,
            Same, Ready, Bound, Content, Enter, Answer, Return, Goto, GotoFor, NoCall
<1>1. CASE ~ Takes(o)
  <2> SUFFICES ASSUME SameFiles, o = "failed" PROVE StoreInv'
    BY <1>1 DEF RecoverBarrier, SyncDirectoryIf, Takes
  <2>1. StoreType' /\ LinksFit' /\ NothingTorn'
    BY <1>1, FilesStay DEF RecoverBarrier
  <2>2. CallsFit' /\ WorkFits'
    BY <1>1, NamesApart DEF RecoverBarrier
  <2>3. ObjectFits' /\ SlotFits'
    BY <1>1, NamesApart DEF RecoverBarrier
  <2>4. SettledFits'
    BY <1>1, NamesApart DEF RecoverBarrier
  <2>5. QED
    BY <2>1, <2>2, <2>3, <2>4
<1>2. CASE Takes(o)
  <2>1. /\ dir' = dir /\ disk' = {dir}
        /\ body' \in [Inodes -> Values \cup {Torn}]
        /\ \A n \in Names : dir[n] # NoFile =>
              /\ body'[dir[n]] = body[dir[n]]
              /\ dir[n] \in solid => dir[n] \in solid'
        /\ solid' \subseteq solid
    BY <1>2, SyncKeeps DEF RecoverBarrier, SyncDirectoryIf
  <2>2. StoreType'
    BY <2>1 DEF RecoverBarrier
  <2>3. LinksFit' /\ NothingTorn'
    BY <2>1, NamesApart DEF RecoverBarrier, LinksFit, NothingTorn
  <2>4. CallsFit'
    BY <2>1, NamesApart DEF RecoverBarrier
  <2>5. WorkFits'
    BY <2>1, NamesApart DEF RecoverBarrier
  <2>6. ObjectFits'
    BY <2>1, NamesApart DEF RecoverBarrier
  <2>7. SlotFits'
    BY <2>1, NamesApart DEF RecoverBarrier
  <2>8. SettledFits'
    BY <2>1, NamesApart DEF RecoverBarrier
  <2>9. QED
    BY <2>2, <2>3, <2>4, <2>5, <2>6, <2>7, <2>8
<1>3. QED
  BY <1>1, <1>2

\* The name of a slot that holds the new value already.
LEMMA StabilizeDirectorySteps ==
    ASSUME StoreInv, NEW o, StabilizeDirectory(o)
    PROVE  StoreInv'
<1> USE DEF StoreInv, StoreType, CallsFit, WorkFits, ObjectFits, SlotFits, SettledFits, Building,
            Removing, Fixing, Exchanging, Linking, Publishing, SameFiles, SameDirectory, SameData,
            Same, Ready, Bound, Content, Enter, Answer, Return, Goto, GotoFor, NoCall
<1>1. CASE ~ Takes(o)
  <2> SUFFICES ASSUME SameFiles, o = "failed" PROVE StoreInv'
    BY <1>1 DEF StabilizeDirectory, SyncDirectoryIf, Takes
  <2>1. StoreType' /\ LinksFit' /\ NothingTorn'
    BY <1>1, FilesStay DEF StabilizeDirectory
  <2>2. CallsFit' /\ WorkFits'
    BY <1>1, NamesApart DEF StabilizeDirectory
  <2>3. ObjectFits' /\ SlotFits'
    BY <1>1, NamesApart DEF StabilizeDirectory
  <2>4. SettledFits'
    BY <1>1, NamesApart DEF StabilizeDirectory
  <2>5. QED
    BY <2>1, <2>2, <2>3, <2>4
<1>2. CASE Takes(o)
  <2>1. /\ dir' = dir /\ disk' = {dir}
        /\ body' \in [Inodes -> Values \cup {Torn}]
        /\ \A n \in Names : dir[n] # NoFile =>
              /\ body'[dir[n]] = body[dir[n]]
              /\ dir[n] \in solid => dir[n] \in solid'
        /\ solid' \subseteq solid
    BY <1>2, SyncKeeps DEF StabilizeDirectory, SyncDirectoryIf
  <2>2. StoreType'
    BY <2>1 DEF StabilizeDirectory
  <2>3. LinksFit' /\ NothingTorn'
    BY <2>1, NamesApart DEF StabilizeDirectory, LinksFit, NothingTorn
  <2>4. CallsFit'
    BY <2>1, NamesApart DEF StabilizeDirectory
  <2>5. WorkFits'
    BY <2>1, NamesApart DEF StabilizeDirectory
  <2>6. ObjectFits'
    BY <2>1, NamesApart DEF StabilizeDirectory
  <2>7. SlotFits'
    BY <2>1, NamesApart DEF StabilizeDirectory
  <2>8. SettledFits'
    BY <2>1, NamesApart DEF StabilizeDirectory
  <2>9. QED
    BY <2>2, <2>3, <2>4, <2>5, <2>6, <2>7, <2>8
<1>3. QED
  BY <1>1, <1>2

\* The name of the object is put on the disk, and the publication answered.
LEMMA MakeNameDurableSteps ==
    ASSUME StoreInv, NEW o, MakeNameDurable(o)
    PROVE  StoreInv'
<1> USE DEF StoreInv, StoreType, CallsFit, WorkFits, ObjectFits, SlotFits, SettledFits, Building,
            Removing, Fixing, Exchanging, Linking, Publishing, SameFiles, SameDirectory, SameData,
            Same, Ready, Bound, Content, Enter, Answer, Return, Goto, GotoFor, NoCall
<1>1. CASE ~ Takes(o)
  <2> SUFFICES ASSUME SameFiles, o = "failed" PROVE StoreInv'
    BY <1>1 DEF MakeNameDurable, SyncDirectoryIf, Takes
  <2>1. StoreType' /\ LinksFit' /\ NothingTorn'
    BY <1>1, FilesStay DEF MakeNameDurable
  <2>2. CallsFit' /\ WorkFits'
    BY <1>1, NamesApart DEF MakeNameDurable
  <2>3. ObjectFits' /\ SlotFits'
    BY <1>1, NamesApart DEF MakeNameDurable
  <2>4. SettledFits'
    BY <1>1, NamesApart DEF MakeNameDurable
  <2>5. QED
    BY <2>1, <2>2, <2>3, <2>4
<1>2. CASE Takes(o)
  <2>1. /\ dir' = dir /\ disk' = {dir}
        /\ body' \in [Inodes -> Values \cup {Torn}]
        /\ \A n \in Names : dir[n] # NoFile =>
              /\ body'[dir[n]] = body[dir[n]]
              /\ dir[n] \in solid => dir[n] \in solid'
        /\ solid' \subseteq solid
    BY <1>2, SyncKeeps DEF MakeNameDurable, SyncDirectoryIf
  <2>2. StoreType'
    BY <2>1 DEF MakeNameDurable
  <2>3. LinksFit' /\ NothingTorn'
    BY <2>1, NamesApart DEF MakeNameDurable, LinksFit, NothingTorn
  <2>4. CallsFit'
    BY <2>1, NamesApart DEF MakeNameDurable
  <2>5. WorkFits'
    BY <2>1, NamesApart DEF MakeNameDurable
  <2>6. ObjectFits'
    BY <2>1, NamesApart DEF MakeNameDurable
  <2>7. SlotFits'
    BY <2>1, NamesApart DEF MakeNameDurable
  <2>8. SettledFits'
    BY <2>1, NamesApart DEF MakeNameDurable
  <2>9. QED
    BY <2>2, <2>3, <2>4, <2>5, <2>6, <2>7, <2>8
<1>3. QED
  BY <1>1, <1>2

\* A removal is put on the disk.
LEMMA SyncRemovalSteps ==
    ASSUME StoreInv, NEW o, SyncRemoval(o)
    PROVE  StoreInv'
<1> USE DEF StoreInv, StoreType, CallsFit, WorkFits, ObjectFits, SlotFits, SettledFits, Building,
            Removing, Fixing, Exchanging, Linking, Publishing, SameFiles, SameDirectory, SameData,
            Same, Ready, Bound, Content, Enter, Answer, Return, Goto, GotoFor, NoCall
<1>1. CASE ~ Takes(o)
  <2> SUFFICES ASSUME SameFiles, o = "failed" PROVE StoreInv'
    BY <1>1 DEF SyncRemoval, Removed, NotRemoved, Onward, Verdict, SyncDirectoryIf, Takes
  <2>1. StoreType' /\ LinksFit' /\ NothingTorn'
    BY <1>1, FilesStay DEF SyncRemoval, Removed, NotRemoved, Onward, Verdict
  <2>2. CallsFit' /\ WorkFits'
    BY <1>1, NamesApart DEF SyncRemoval, Removed, NotRemoved, Onward, Verdict
  <2>3. ObjectFits' /\ SlotFits'
    BY <1>1, NamesApart DEF SyncRemoval, Removed, NotRemoved, Onward, Verdict
  <2>4. SettledFits'
    BY <1>1, NamesApart DEF SyncRemoval, Removed, NotRemoved, Onward, Verdict
  <2>5. QED
    BY <2>1, <2>2, <2>3, <2>4
<1>2. CASE Takes(o)
  <2>1. /\ dir' = dir /\ disk' = {dir}
        /\ body' \in [Inodes -> Values \cup {Torn}]
        /\ \A n \in Names : dir[n] # NoFile =>
              /\ body'[dir[n]] = body[dir[n]]
              /\ dir[n] \in solid => dir[n] \in solid'
        /\ solid' \subseteq solid
    BY <1>2, SyncKeeps DEF SyncRemoval, Removed, NotRemoved, Onward, Verdict, SyncDirectoryIf
  <2>2. StoreType'
    BY <2>1 DEF SyncRemoval, Removed, NotRemoved, Onward, Verdict
  <2>3. LinksFit' /\ NothingTorn'
    BY <2>1, NamesApart DEF SyncRemoval, Removed, NotRemoved, Onward, Verdict, LinksFit,
                              NothingTorn
  <2>4. CallsFit'
    BY <2>1, NamesApart DEF SyncRemoval, Removed, NotRemoved, Onward, Verdict
  <2>5. WorkFits'
    BY <2>1, NamesApart DEF SyncRemoval, Removed, NotRemoved, Onward, Verdict
  <2>6. ObjectFits'
    BY <2>1, NamesApart DEF SyncRemoval, Removed, NotRemoved, Onward, Verdict
  <2>7. SlotFits'
    BY <2>1, NamesApart DEF SyncRemoval, Removed, NotRemoved, Onward, Verdict
  <2>8. SettledFits'
    BY <2>1, NamesApart DEF SyncRemoval, Removed, NotRemoved, Onward, Verdict
  <2>9. QED
    BY <2>2, <2>3, <2>4, <2>5, <2>6, <2>7, <2>8
<1>3. QED
  BY <1>1, <1>2

\* It is tried once more.
LEMMA RemovalBarrierSteps ==
    ASSUME StoreInv, NEW o, RemovalBarrier(o)
    PROVE  StoreInv'
<1> USE DEF StoreInv, StoreType, CallsFit, WorkFits, ObjectFits, SlotFits, SettledFits, Building,
            Removing, Fixing, Exchanging, Linking, Publishing, SameFiles, SameDirectory, SameData,
            Same, Ready, Bound, Content, Enter, Answer, Return, Goto, GotoFor, NoCall
<1>1. CASE ~ Takes(o)
  <2> SUFFICES ASSUME SameFiles, o = "failed" PROVE StoreInv'
    BY <1>1 DEF RemovalBarrier, Removed, NotRemoved, Onward, Verdict, SyncDirectoryIf, Takes
  <2>1. StoreType' /\ LinksFit' /\ NothingTorn'
    BY <1>1, FilesStay DEF RemovalBarrier, Removed, NotRemoved, Onward, Verdict
  <2>2. CallsFit' /\ WorkFits'
    BY <1>1, NamesApart DEF RemovalBarrier, Removed, NotRemoved, Onward, Verdict
  <2>3. ObjectFits' /\ SlotFits'
    BY <1>1, NamesApart DEF RemovalBarrier, Removed, NotRemoved, Onward, Verdict
  <2>4. SettledFits'
    BY <1>1, NamesApart DEF RemovalBarrier, Removed, NotRemoved, Onward, Verdict
  <2>5. QED
    BY <2>1, <2>2, <2>3, <2>4
<1>2. CASE Takes(o)
  <2>1. /\ dir' = dir /\ disk' = {dir}
        /\ body' \in [Inodes -> Values \cup {Torn}]
        /\ \A n \in Names : dir[n] # NoFile =>
              /\ body'[dir[n]] = body[dir[n]]
              /\ dir[n] \in solid => dir[n] \in solid'
        /\ solid' \subseteq solid
    BY <1>2, SyncKeeps DEF RemovalBarrier, Removed, NotRemoved, Onward, Verdict, SyncDirectoryIf
  <2>2. StoreType'
    BY <2>1 DEF RemovalBarrier, Removed, NotRemoved, Onward, Verdict
  <2>3. LinksFit' /\ NothingTorn'
    BY <2>1, NamesApart DEF RemovalBarrier, Removed, NotRemoved, Onward, Verdict, LinksFit,
                              NothingTorn
  <2>4. CallsFit'
    BY <2>1, NamesApart DEF RemovalBarrier, Removed, NotRemoved, Onward, Verdict
  <2>5. WorkFits'
    BY <2>1, NamesApart DEF RemovalBarrier, Removed, NotRemoved, Onward, Verdict
  <2>6. ObjectFits'
    BY <2>1, NamesApart DEF RemovalBarrier, Removed, NotRemoved, Onward, Verdict
  <2>7. SlotFits'
    BY <2>1, NamesApart DEF RemovalBarrier, Removed, NotRemoved, Onward, Verdict
  <2>8. SettledFits'
    BY <2>1, NamesApart DEF RemovalBarrier, Removed, NotRemoved, Onward, Verdict
  <2>9. QED
    BY <2>2, <2>3, <2>4, <2>5, <2>6, <2>7, <2>8
<1>3. QED
  BY <1>1, <1>2

\* An opener syncs the root, whoever holds the lease meanwhile.
LEMMA SyncRootSteps ==
    ASSUME StoreInv, NEW o, SyncRoot(o)
    PROVE  StoreInv'
<1> USE DEF StoreInv, StoreType, CallsFit, WorkFits, ObjectFits, SlotFits, SettledFits, Building,
            Removing, Fixing, Exchanging, Linking, Publishing, SameFiles, SameDirectory, SameData,
            Same, Ready, Bound, Content, Enter, Answer, Return, Goto, GotoFor, NoCall
<1>1. CASE ~ Takes(o)
  <2> SUFFICES ASSUME SameFiles, o = "failed" PROVE StoreInv'
    BY <1>1 DEF SyncRoot, ctlVars, SyncDirectoryIf, Takes
  <2>1. StoreType' /\ LinksFit' /\ NothingTorn'
    BY <1>1, FilesStay DEF SyncRoot, ctlVars
  <2>2. CallsFit' /\ WorkFits'
    BY <1>1, NamesApart DEF SyncRoot, ctlVars
  <2>3. ObjectFits' /\ SlotFits'
    BY <1>1, NamesApart DEF SyncRoot, ctlVars
  <2>4. SettledFits'
    BY <1>1, NamesApart DEF SyncRoot, ctlVars
  <2>5. QED
    BY <2>1, <2>2, <2>3, <2>4
<1>2. CASE Takes(o)
  <2>1. /\ dir' = dir /\ disk' = {dir}
        /\ body' \in [Inodes -> Values \cup {Torn}]
        /\ \A n \in Names : dir[n] # NoFile =>
              /\ body'[dir[n]] = body[dir[n]]
              /\ dir[n] \in solid => dir[n] \in solid'
        /\ solid' \subseteq solid
    BY <1>2, SyncKeeps DEF SyncRoot, ctlVars, SyncDirectoryIf
  <2>2. StoreType'
    BY <2>1 DEF SyncRoot, ctlVars
  <2>3. LinksFit' /\ NothingTorn'
    BY <2>1, NamesApart DEF SyncRoot, ctlVars, LinksFit, NothingTorn
  <2>4. CallsFit'
    BY <2>1, NamesApart DEF SyncRoot, ctlVars
  <2>5. WorkFits'
    BY <2>1, NamesApart DEF SyncRoot, ctlVars
  <2>6. ObjectFits'
    BY <2>1, NamesApart DEF SyncRoot, ctlVars
  <2>7. SlotFits'
    BY <2>1, NamesApart DEF SyncRoot, ctlVars
  <2>8. SettledFits'
    BY <2>1, NamesApart DEF SyncRoot, ctlVars
  <2>9. QED
    BY <2>2, <2>3, <2>4, <2>5, <2>6, <2>7, <2>8
<1>3. QED
  BY <1>1, <1>2

\* The opener gets the lease, or is refused, or dies: a new holder in no doubt
\* sees what its sync put on the disk.
LEMMA TakeLeaseSteps ==
    ASSUME StoreInv, OpenerFits, TakeLease \/ OpenerDies
    PROVE  StoreInv'
<1> USE DEF StoreInv, StoreType, CallsFit, WorkFits, ObjectFits, SlotFits, SettledFits, Building,
            Removing, Fixing, Exchanging, Linking, Publishing, SameFiles, SameDirectory, SameData,
            Bound, Content, NoCall, TakeLease, OpenerDies, OpenerFits, ctlVars
<1>1. StoreType' /\ LinksFit' /\ NothingTorn'
  BY FilesStay
<1>2. CallsFit' /\ WorkFits'
  OBVIOUS
<1>3. ObjectFits' /\ SlotFits'
  OBVIOUS
<1>4. SettledFits'
  OBVIOUS
<1>5. QED
  BY <1>1, <1>2, <1>3, <1>4

-----------------------------------------------------------------------------
(* Steps that change the directory, or write.                              *)

\* A new file is one that no directory names.
LEMMA NewFile ==
    ASSUME InodeIsFree
    PROVE  FreshInode \in Inodes /\ \A d \in disk : \A n \in Names : d[n] # FreshInode
BY DEF InodeIsFree, FreshInode, Fresh

\* A temporary is created.
LEMMA CreateTemporarySteps ==
    ASSUME StoreInv, NEW o, CreateTemporary(o)
    PROVE  StoreInv'
<1> USE DEF StoreInv, StoreType, CallsFit, WorkFits, ObjectFits, SlotFits, SettledFits, Building,
            Removing, Fixing, Exchanging, Linking, Publishing, SameFiles, SameDirectory, SameData,
            Same, Ready, Bound, Content, Enter, Answer, Return, Goto, GotoFor, NoCall, Takes
<1>1. CASE ~ Takes(o)
<2> SUFFICES ASSUME SameFiles, UNCHANGED alien PROVE StoreInv'
    BY <1>1 DEF CreateTemporary
<2>1. StoreType' /\ LinksFit' /\ NothingTorn'
    BY <1>1, FilesStay DEF CreateTemporary
<2>2. CallsFit' /\ WorkFits'
    BY <1>1, NamesApart DEF CreateTemporary
<2>3. ObjectFits' /\ SlotFits'
    BY <1>1, NamesApart DEF CreateTemporary
<2>4. SettledFits'
    BY <1>1, NamesApart DEF CreateTemporary
<2>5. QED
    BY <2>1, <2>2, <2>3, <2>4
<1>2. CASE Takes(o)
  <2> DEFINE i == FreshInode
  <2> PICK t \in Temps :
         /\ ~ Bound(t) /\ InodeIsFree
         /\ BindTo(t, i)
         /\ body' = [body EXCEPT ![i] = Torn]
         /\ solid' = solid \ {i}
         /\ alien' = alien \ {i}
         /\ \/ /\ o = "acked"
               /\ pc' = "write" /\ tmp' = t
               /\ UNCHANGED <<call, then, reply, doubt, published>>
            \/ Return("failed")
    BY <1>2 DEF CreateTemporary
  <2>1. /\ i \in Inodes /\ (\A d \in disk : \A n \in Names : d[n] # i)
        /\ Changed(t, i)
    BY NewFile, BindChanges, NamesApart
  <2> HIDE DEF i
<2>2. StoreType'
    BY <1>2, <2>1, NamesApart DEF CreateTemporary, Changed, Became, Dirs
<2>3. LinksFit'
    BY <1>2, <2>1, NamesApart DEF CreateTemporary, Changed, Became, Dirs, LinksFit
<2>4. NothingTorn'
    BY <1>2, <2>1, NamesApart DEF CreateTemporary, Changed, Became, Dirs, NothingTorn
<2>5. CallsFit'
    BY <1>2, <2>1, NamesApart DEF CreateTemporary, Changed, Became, Dirs
<2>6. WorkFits'
    BY <1>2, <2>1, NamesApart DEF CreateTemporary, Changed, Became, Dirs
<2>7. ObjectFits'
    BY <1>2, <2>1, NamesApart DEF CreateTemporary, Changed, Became, Dirs
<2>8. SlotFits'
    BY <1>2, <2>1, NamesApart DEF CreateTemporary, Changed, Became, Dirs, NothingTorn
<2>9. SettledFits'
    BY <1>2, <2>1, NamesApart DEF CreateTemporary, Changed, Became, Dirs
<2>10. QED
    BY <2>2, <2>3, <2>4, <2>5, <2>6, <2>7, <2>8, <2>9
<1>3. QED
  BY <1>1, <1>2

\* It is written.
LEMMA WriteTemporarySteps ==
    ASSUME StoreInv, NEW o, WriteTemporary(o)
    PROVE  StoreInv'
<1> USE DEF StoreInv, StoreType, CallsFit, WorkFits, ObjectFits, SlotFits, SettledFits, Building,
            Removing, Fixing, Exchanging, Linking, Publishing, SameFiles, SameDirectory, SameData,
            Same, Ready, Bound, Content, Enter, Answer, Return, Goto, GotoFor, NoCall, Takes
<1>1. CASE o # "acked"
<2> SUFFICES ASSUME SameFiles, UNCHANGED alien PROVE StoreInv'
    BY <1>1 DEF WriteTemporary
<2>1. StoreType' /\ LinksFit' /\ NothingTorn'
    BY <1>1, FilesStay DEF WriteTemporary
<2>2. CallsFit' /\ WorkFits'
    BY <1>1, NamesApart DEF WriteTemporary
<2>3. ObjectFits' /\ SlotFits'
    BY <1>1, NamesApart DEF WriteTemporary
<2>4. SettledFits'
    BY <1>1, NamesApart DEF WriteTemporary
<2>5. QED
    BY <2>1, <2>2, <2>3, <2>4
<1>2. CASE o = "acked"
<2>2. StoreType'
    BY <1>2, NamesApart DEF WriteTemporary, Dirs
<2>3. LinksFit'
    BY <1>2, NamesApart DEF WriteTemporary, Dirs, LinksFit
<2>4. NothingTorn'
    BY <1>2, NamesApart DEF WriteTemporary, Dirs, NothingTorn
<2>5. CallsFit'
    BY <1>2, NamesApart DEF WriteTemporary, Dirs
<2>6. WorkFits'
    BY <1>2, NamesApart DEF WriteTemporary, Dirs
<2>7. ObjectFits'
    BY <1>2, NamesApart DEF WriteTemporary, Dirs
<2>8. SlotFits'
    BY <1>2, NamesApart DEF WriteTemporary, Dirs, NothingTorn
<2>9. SettledFits'
    BY <1>2, NamesApart DEF WriteTemporary, Dirs
<2>10. QED
    BY <2>2, <2>3, <2>4, <2>5, <2>6, <2>7, <2>8, <2>9
<1>3. QED
  BY <1>1, <1>2

\* A process without the lease writes the slot.
LEMMA ForeignWriteSteps ==
    ASSUME StoreInv, NEW v \in Values, ForeignWrite(v)
    PROVE  StoreInv'
<1> USE DEF StoreInv, StoreType, CallsFit, WorkFits, ObjectFits, SlotFits, SettledFits, Building,
            Removing, Fixing, Exchanging, Linking, Publishing, SameFiles, SameDirectory, SameData,
            Same, Ready, Bound, Content, Enter, Answer, Return, Goto, GotoFor, NoCall, Takes
<1> DEFINE i == FreshInode
<1>1. /\ i \in Inodes /\ (\A d \in disk : \A n \in Names : d[n] # i)
      /\ Changed(Slot, i)
      /\ body' = [body EXCEPT ![i] = v]
      /\ solid' = solid \ {i}
      /\ alien' = {i}
      /\ \A j \in alien : \A d \in disk : \A n \in Names : d[n] # j
  BY NewFile, BindChanges, NamesApart DEF ForeignWrite, OneForeignFile, Fresh
<1> HIDE DEF i
<1>2. StoreType'
  BY <1>1, NamesApart DEF ForeignWrite, Changed, Became, Dirs
<1>3. LinksFit'
  BY <1>1, NamesApart DEF ForeignWrite, Changed, Became, Dirs, LinksFit
<1>4. NothingTorn'
  <2>1. SUFFICES ASSUME NEW e \in disk', NEW n \in {Slot, Object},
                        e[n] # NoFile, e[n] # i
                 PROVE  e[n] \in solid' /\ body'[e[n]] # Torn
    BY <1>1 DEF NothingTorn
  <2>2. PICK d \in disk : e[n] = d[n]
    BY <1>1, <2>1, NamesApart DEF Changed, Became
  <2>3. d[n] \notin alien /\ d[n] \in Inodes
    BY <1>1, <2>1, <2>2, NamesApart DEF Dirs
  <2>4. d[n] \in solid /\ body[d[n]] # Torn
    BY <2>1, <2>2, <2>3 DEF NothingTorn
  <2>5. QED
    BY <1>1, <2>1, <2>2, <2>3, <2>4
<1>5. CallsFit'
  BY <1>1, NamesApart DEF ForeignWrite, Changed, Became, Dirs
<1>6. WorkFits'
  BY <1>1, NamesApart DEF ForeignWrite, Changed, Became, Dirs
<1>7. ObjectFits'
  BY <1>1, NamesApart DEF ForeignWrite, Changed, Became, Dirs
<1>8. SlotFits'
  BY <1>1, NamesApart DEF ForeignWrite, Changed, Became, Dirs, NothingTorn
<1>9. SettledFits'
  BY <1>1, NamesApart DEF ForeignWrite, Changed, Became, Dirs
<1>10. QED
  BY <1>2, <1>3, <1>4, <1>5, <1>6, <1>7, <1>8, <1>9

\* The temporary is renamed over the slot.
LEMMA RenameOverSteps ==
    ASSUME StoreInv, NEW o, RenameOver(o)
    PROVE  StoreInv'
<1> USE DEF StoreInv, StoreType, CallsFit, WorkFits, ObjectFits, SlotFits, SettledFits, Building,
            Removing, Fixing, Exchanging, Linking, Publishing, SameFiles, SameDirectory, SameData,
            Same, Ready, Bound, Content, Enter, Answer, Return, Goto, GotoFor, NoCall, Takes
<1>1. CASE ~ Takes(o)
<2> SUFFICES ASSUME SameFiles, UNCHANGED alien PROVE StoreInv'
    BY <1>1 DEF RenameOver
<2>1. StoreType' /\ LinksFit' /\ NothingTorn'
    BY <1>1, FilesStay DEF RenameOver
<2>2. CallsFit' /\ WorkFits'
    BY <1>1, NamesApart DEF RenameOver
<2>3. ObjectFits' /\ SlotFits'
    BY <1>1, NamesApart DEF RenameOver
<2>4. SettledFits'
    BY <1>1, NamesApart DEF RenameOver
<2>5. QED
    BY <2>1, <2>2, <2>3, <2>4
<1>2. CASE Takes(o)
  <2> DEFINE i == dir[tmp]
  <2>1. /\ dir' \in disk' /\ disk' \subseteq Dirs
        /\ Took(dir', dir, tmp, Slot, i)
        /\ \A e \in disk' : e \in disk \/ \E d \in disk : Took(e, d, tmp, Slot, i)
        /\ tmp \in Temps /\ i \in Inodes
        /\ i \in solid /\ body[i] = call.new /\ i # NoFile /\ call.new \in Values
        /\ \A d \in disk : \A n \in Names \ {tmp} : d[n] # i
    BY <1>2, MoveChanges, NamesApart DEF RenameOver, Dirs
  <2> HIDE DEF i
<2>2. StoreType'
    BY <1>2, <2>1, NamesApart DEF RenameOver, Took, Dirs
<2>3. LinksFit'
    BY <1>2, <2>1, NamesApart DEF RenameOver, Took, Dirs, LinksFit
<2>4. NothingTorn'
    BY <1>2, <2>1, NamesApart DEF RenameOver, Took, Dirs, NothingTorn
<2>5. CallsFit'
    BY <1>2, <2>1, NamesApart DEF RenameOver, Took, Dirs
<2>6. WorkFits'
    BY <1>2, <2>1, NamesApart DEF RenameOver, Took, Dirs
<2>7. ObjectFits'
    BY <1>2, <2>1, NamesApart DEF RenameOver, Took, Dirs
<2>8. SlotFits'
    BY <1>2, <2>1, NamesApart DEF RenameOver, Took, Dirs, NothingTorn
<2>9. SettledFits'
    BY <1>2, <2>1, NamesApart DEF RenameOver, Took, Dirs
<2>10. QED
    BY <2>2, <2>3, <2>4, <2>5, <2>6, <2>7, <2>8, <2>9
<1>3. QED
  BY <1>1, <1>2

\* The temporary is linked to the immutable name.
LEMMA PublishLinkSteps ==
    ASSUME StoreInv, NEW o, PublishLink(o)
    PROVE  StoreInv'
<1> USE DEF StoreInv, StoreType, CallsFit, WorkFits, ObjectFits, SlotFits, SettledFits, Building,
            Removing, Fixing, Exchanging, Linking, Publishing, SameFiles, SameDirectory, SameData,
            Same, Ready, Bound, Content, Enter, Answer, Return, Goto, GotoFor, NoCall, Takes
<1>1. CASE ~ Takes(o)
<2> SUFFICES ASSUME SameFiles, UNCHANGED alien PROVE StoreInv'
    BY <1>1 DEF PublishLink
<2>1. StoreType' /\ LinksFit' /\ NothingTorn'
    BY <1>1, FilesStay DEF PublishLink
<2>2. CallsFit' /\ WorkFits'
    BY <1>1, NamesApart DEF PublishLink
<2>3. ObjectFits' /\ SlotFits'
    BY <1>1, NamesApart DEF PublishLink
<2>4. SettledFits'
    BY <1>1, NamesApart DEF PublishLink
<2>5. QED
    BY <2>1, <2>2, <2>3, <2>4
<1>2. CASE Takes(o)
  <2> DEFINE i == dir[tmp]
  <2>1. /\ Changed(Object, i)
        /\ tmp \in Temps /\ i \in Inodes
        /\ i \in solid /\ body[i] = call.new /\ i # NoFile /\ call.new \in Values
        /\ \A d \in disk : \A n \in Names \ {tmp} : d[n] # i
        /\ \A d \in disk : d[Object] = NoFile
        /\ published = Absent
    <3>1. tmp \in Temps /\ i \in Inodes
      BY <1>2, NamesApart DEF PublishLink, Dirs
    <3>2. BindTo(Object, i)
      BY <1>2 DEF PublishLink
    <3>3. Changed(Object, i)
      BY <3>1, <3>2, BindChanges, NamesApart
    <3>4. QED
      BY <1>2, <3>1, <3>3, NamesApart DEF PublishLink
  <2> HIDE DEF i
<2>2. StoreType'
    BY <1>2, <2>1, NamesApart DEF PublishLink, Changed, Became, Dirs
<2>3. LinksFit'
    BY <1>2, <2>1, NamesApart DEF PublishLink, Changed, Became, Dirs, LinksFit
<2>4. NothingTorn'
    BY <1>2, <2>1, NamesApart DEF PublishLink, Changed, Became, Dirs, NothingTorn
<2>5. CallsFit'
    BY <1>2, <2>1, NamesApart DEF PublishLink, Changed, Became, Dirs
<2>6. WorkFits'
    BY <1>2, <2>1, NamesApart DEF PublishLink, Changed, Became, Dirs
<2>7. ObjectFits'
    <3>1. /\ \A e \in disk' : e[Object] \in {NoFile, i}
          /\ dir'[Object] = i /\ dir'[tmp] = i
      BY <2>1, NamesApart DEF Changed, Became, PublishLink, i
    <3>2. /\ UNCHANGED <<body, solid, tmp, call, published>>
          /\ pc' = "recoverLink" \/ (pc' = "unlink" /\ then' = "publishing")
      BY <1>2 DEF PublishLink
    <3>3. QED
      BY <2>1, <3>1, <3>2, NamesApart
<2>8. SlotFits'
    BY <1>2, <2>1, NamesApart DEF PublishLink, Changed, Became, Dirs, NothingTorn
<2>9. SettledFits'
    <3>1. dir'[Object] = i /\ dir'[tmp] = i
      BY <2>1, NamesApart DEF Changed, Became, PublishLink, i
    <3>2. leased /\ ~doubt => \A d \in disk : d[Slot] = dir[Slot]
      BY <1>2 DEF PublishLink
    <3>3. leased /\ ~doubt => \A e \in disk' : e[Slot] = dir'[Slot]
      BY <2>1, <3>2, NamesApart DEF Changed, Became
    <3>4. QED
      BY <1>2, <2>1, <3>1, <3>3 DEF PublishLink
<2>10. QED
    BY <2>2, <2>3, <2>4, <2>5, <2>6, <2>7, <2>8, <2>9
<1>3. QED
  BY <1>1, <1>2

\* The set of names is finite.
LEMMA NamesFinite == IsFiniteSet(Names)
<1>1. IsFiniteSet({Slot, Object})
  <2>1. IsFiniteSet({Slot})
    BY FS_Singleton
  <2>2. IsFiniteSet({Slot} \cup {Object})
    BY <2>1, FS_AddElement
  <2>3. {Slot} \cup {Object} = {Slot, Object}
    OBVIOUS
  <2>4. QED
    BY <2>2, <2>3
<1>2. QED
  BY <1>1, FS_Union, StoreAssumption

\* A file with one link has one name.
LEMMA OneName ==
    ASSUME NEW i, Links(i) = 1, NEW n \in Names, NEW m \in Names, dir[n] = i, dir[m] = i
    PROVE  n = m
<1> DEFINE S == {k \in Names : dir[k] = i}
<1>1. IsFiniteSet(S)
  BY NamesFinite, FS_Subset
<1>2. Cardinality(S) = 1
  BY DEF Links
<1>3. PICK k : S = {k}
  BY <1>1, <1>2, FS_Singleton
<1>4. n \in S /\ m \in S
  OBVIOUS
<1>5. QED
  BY <1>3, <1>4

\* The temporary name is removed.
LEMMA UnlinkSteps ==
    ASSUME StoreInv, NEW o, UnlinkTemporary(o)
    PROVE  StoreInv'
<1> USE DEF StoreInv, StoreType, CallsFit, WorkFits, ObjectFits, SlotFits, SettledFits, Building,
            Removing, Fixing, Exchanging, Linking, Publishing, SameFiles, SameDirectory, SameData,
            Same, Ready, Bound, Content, Enter, Answer, Return, Goto, GotoFor, NoCall, Takes
<1>1. CASE SameFiles
<2>1. StoreType' /\ LinksFit' /\ NothingTorn'
    BY <1>1, FilesStay DEF UnlinkTemporary, NotRemoved
<2>2. CallsFit' /\ WorkFits'
    BY <1>1, NamesApart DEF UnlinkTemporary, NotRemoved
<2>3. ObjectFits' /\ SlotFits'
    BY <1>1, NamesApart DEF UnlinkTemporary, NotRemoved
<2>4. SettledFits'
    BY <1>1, NamesApart DEF UnlinkTemporary, NotRemoved
<2>5. QED
    BY <2>1, <2>2, <2>3, <2>4
<1>2. CASE ~ SameFiles
  <2>1. /\ Bound(tmp) /\ Links(dir[tmp]) = ExpectedLinks
        /\ Unbind(tmp) /\ tmp \in Temps
        /\ pc' = "syncRemoval" /\ pc \in {"unlink", "unlinkAgain"}
        /\ UNCHANGED <<body, solid, alien, leased, call, tmp, then, reply, doubt, published>>
    BY <1>2 DEF UnlinkTemporary, NotRemoved
  <2>2. Changed(tmp, NoFile)
    BY <2>1, UnbindChanges, NamesApart
  <2>3. ~ Fixing => dir[Object] # dir[tmp]
    BY <2>1, OneName, NamesApart DEF ExpectedLinks
<2>4. StoreType'
    BY <2>1, <2>2, NamesApart DEF Changed, Became, Dirs
<2>5. LinksFit'
    BY <2>1, <2>2, NamesApart DEF Changed, Became, Dirs, LinksFit
<2>6. NothingTorn'
    BY <2>1, <2>2, NamesApart DEF Changed, Became, Dirs, NothingTorn
<2>7. CallsFit'
    BY <2>1, <2>2, NamesApart DEF Changed, Became, Dirs
<2>8. WorkFits'
    BY <2>1, <2>2, NamesApart DEF Changed, Became, Dirs
<2>9. ObjectFits'
    BY <2>1, <2>2, NamesApart DEF Changed, Became, Dirs
<2>10. SlotFits'
    BY <2>1, <2>2, NamesApart DEF Changed, Became, Dirs, NothingTorn
<2>11. SettledFits'
    <3>1. leased /\ ~doubt => \A d \in disk : d[Slot] = dir[Slot]
      BY <2>1
    <3>2. leased /\ ~doubt => \A e \in disk' : e[Slot] = dir'[Slot]
      BY <2>1, <2>2, <3>1, NamesApart DEF Changed, Became
    <3>3. CASE Fixing
      BY <2>1, <3>2, <3>3
    <3>4. CASE ~ Fixing
      <4>1. CASE \E t \in Temps : dir[t] = dir[Object]
        BY <2>1, <2>2, <2>3, <3>2, <4>1, NamesApart DEF Changed, Became
      <4>2. CASE \A d \in disk : d[Object] = dir[Object]
        BY <2>1, <2>2, <3>2, <4>2, NamesApart DEF Changed, Became
      <4>3. QED
        BY <2>1, <3>2, <3>4, <4>1, <4>2
    <3>5. QED
      BY <3>3, <3>4
<2>12. QED
    BY <2>4, <2>5, <2>6, <2>7, <2>8, <2>9, <2>10, <2>11
<1>3. QED
  BY <1>1, <1>2

\* The power goes: one of the directories is left, and of its files what was
\* synced.
LEMMA PowerSteps ==
    ASSUME StoreInv, PowerFails
    PROVE  StoreInv'
<1> USE DEF StoreInv, StoreType, CallsFit, WorkFits, ObjectFits, SlotFits, SettledFits, Building,
            Removing, Fixing, Exchanging, Linking, Publishing, SameFiles, SameDirectory, SameData,
            Same, Ready, Bound, Content, Enter, Answer, Return, Goto, GotoFor, NoCall, Takes
<1>1. /\ dir' \in disk /\ disk' = {dir'}
      /\ body' \in [Inodes -> Values \cup {Torn}]
      /\ \A n \in Names : dir'[n] # NoFile =>
            /\ dir'[n] \in solid'
            /\ dir'[n] \in solid => body'[dir'[n]] = body[dir'[n]]
  BY DEF PowerFails, PowerLoss, Dirs
<1>2. StoreType'
  BY <1>1, NamesApart DEF PowerFails, Stop
<1>3. LinksFit'
  BY <1>1, NamesApart DEF PowerFails, Stop, LinksFit
<1>4. NothingTorn'
  BY <1>1, NamesApart DEF PowerFails, Stop, NothingTorn
<1>5. CallsFit'
  BY <1>1, NamesApart DEF PowerFails, Stop
<1>6. WorkFits'
  BY <1>1, NamesApart DEF PowerFails, Stop
<1>7. ObjectFits'
  BY <1>1, NamesApart DEF PowerFails, Stop
<1>8. SlotFits'
  BY <1>1, NamesApart DEF PowerFails, Stop, NothingTorn
<1>9. SettledFits'
  BY <1>1, NamesApart DEF PowerFails, Stop
<1>10. QED
  BY <1>2, <1>3, <1>4, <1>5, <1>6, <1>7, <1>8, <1>9

\* The store starts out empty.
LEMMA StoreInit == Init => StoreInv
<1> SUFFICES ASSUME Init PROVE StoreInv
  OBVIOUS
<1> USE DEF Init, FsInit, NoCall
<1>1. StoreType
  BY NamesApart DEF StoreType, Dirs
<1>2. CallsFit /\ LinksFit /\ NothingTorn
  BY NamesApart DEF CallsFit, LinksFit, NothingTorn, Building, Removing, Exchanging, Publishing
<1>3. WorkFits /\ ObjectFits /\ SlotFits /\ SettledFits
  BY NamesApart DEF WorkFits, ObjectFits, SlotFits, SettledFits, Building, Removing, Linking,
                    Publishing, Bound
<1>4. QED
  BY <1>1, <1>2, <1>3 DEF StoreInv

\* Every system call, whatever its outcome, keeps the invariant.
LEMMA SystemCallSteps ==
    ASSUME StoreInv, NEW o, SystemCall(o)
    PROVE  StoreInv'
BY CreateTemporarySteps, WriteTemporarySteps, SyncTemporarySteps, UnlinkSteps,
   SyncRemovalSteps, RemovalBarrierSteps, RenameOverSteps, SyncParentSteps, ReadBackSteps,
   RecoverSteps, RecoverBarrierSteps, StabilizeFileSteps, StabilizeDirectorySteps,
   PublishLinkSteps, RecoverLinkSteps, MakeFileDurableSteps, MakeNameDurableSteps,
   SyncRootSteps
   DEF SystemCall

\* So does every step.
LEMMA StoreStep == StoreInv /\ OpenerFits /\ [Next]_vars => StoreInv'
<1> SUFFICES ASSUME StoreInv, OpenerFits, [Next]_vars PROVE StoreInv'
  OBVIOUS
<1>1. CASE \E o \in {"acked", "failed", "lost"} : SystemCall(o)
  BY <1>1, SystemCallSteps
<1>2. CASE Caller
  BY <1>2, PutSteps, CompareExchangeSteps, RepairSteps, ScanSteps, CallerSteps DEF Caller
<1>3. CASE TemporaryNamesExhausted \/ Recheck \/ SweepNext
  BY <1>3, ExhaustedSteps, RecheckSteps, ScanSteps
<1>4. CASE \E v \in Values : ForeignWrite(v)
  BY <1>4, ForeignWriteSteps
<1>5. CASE ProcessDies \/ OpenerDies \/ PowerFails \/ TakeLease
  BY <1>5, DeathSteps, PowerSteps, TakeLeaseSteps
<1>6. CASE UNCHANGED vars
  BY <1>6, FilesStay
     DEF vars, ctlVars, fsVars, StoreInv, StoreType, CallsFit, WorkFits, ObjectFits, SlotFits,
         SettledFits, Building, Removing, Fixing, Exchanging, Linking, Publishing, Content,
         Bound, SameFiles, SameDirectory, SameData
<1>7. QED
  BY <1>1, <1>2, <1>3, <1>4, <1>5, <1>6 DEF Next

\* A step that changes the directory overtakes the opener; one that does not
\* leaves the disk alone or syncs it.
LEMMA NotOvertaken ==
    ASSUME OpenerFits, Overtake, dir' # dir \/ disk' \in {disk, {dir'}}
    PROVE  OpenerFits'
BY DEF Overtake, OpenerFits

\* Creating, removing, moving and linking a name do change the directory.
LEMMA NamesChange ==
    ASSUME StoreInv, NEW o, NEW v,
           \/ CreateTemporary(o) \/ UnlinkTemporary(o) \/ RenameOver(o) \/ PublishLink(o)
           \/ ForeignWrite(v)
    PROVE  dir' # dir \/ disk' = disk
<1> USE NamesApart DEF StoreInv, StoreType, Dirs, Amend, SameFiles, SameDirectory
<1>1. CASE CreateTemporary(o)
  BY <1>1, NewFile DEF CreateTemporary, BindTo, Bound
<1>2. CASE UnlinkTemporary(o)
  BY <1>2 DEF UnlinkTemporary, Unbind, Bound, CallsFit, Removing
<1>3. CASE RenameOver(o)
  <2>1. tmp \in Temps /\ dir[tmp] # NoFile
    BY <1>3 DEF RenameOver, CallsFit, WorkFits, Building, Bound
  <2>2. QED
    BY <1>3, <2>1 DEF RenameOver, MoveOver
<1>4. CASE PublishLink(o)
  <2>1. dir[tmp] # NoFile /\ dir[Object] = NoFile
    BY <1>4 DEF PublishLink, CallsFit, WorkFits, ObjectFits, Linking, Building, Bound
  <2>2. QED
    BY <1>4, <2>1 DEF PublishLink, BindTo
<1>5. CASE ForeignWrite(v)
  BY <1>5, NewFile DEF ForeignWrite, BindTo
<1>6. QED
  BY <1>1, <1>2, <1>3, <1>4, <1>5

\* What an opener has synced stays so until the directory changes.
LEMMA OpenerStep == StoreInv /\ OpenerFits /\ [Next]_vars => OpenerFits'
<1> SUFFICES ASSUME StoreInv, OpenerFits, [Next]_vars PROVE OpenerFits'
  OBVIOUS
<1> USE DEF SyncDirectoryIf, SyncFileOf, SyncDirectory, SameFiles, SameDirectory, Same
<1>1. ASSUME NEW o,
             \/ WriteTemporary(o) \/ SyncTemporary(o) \/ SyncRemoval(o) \/ RemovalBarrier(o)
             \/ SyncParent(o) \/ ReadBack(o) \/ Recover(o) \/ RecoverBarrier(o)
             \/ StabilizeFile(o) \/ StabilizeDirectory(o) \/ RecoverLink(o)
             \/ MakeFileDurable(o) \/ MakeNameDurable(o)
      PROVE  OpenerFits'
  <2>1. Overtake /\ disk' \in {disk, {dir'}}
    BY <1>1 DEF WriteTemporary, SyncTemporary, SyncRemoval, RemovalBarrier, SyncParent, ReadBack,
                Recover, RecoverBarrier, StabilizeFile, StabilizeDirectory, RecoverLink,
                MakeFileDurable, MakeNameDurable
  <2>2. QED
    BY <2>1, NotOvertaken
<1>2. ASSUME NEW o,
             CreateTemporary(o) \/ UnlinkTemporary(o) \/ RenameOver(o) \/ PublishLink(o)
      PROVE  OpenerFits'
  <2>1. Overtake
    BY <1>2 DEF CreateTemporary, UnlinkTemporary, RenameOver, PublishLink
  <2>2. QED
    BY <1>2, <2>1, NotOvertaken, NamesChange
<1>3. ASSUME NEW o, SyncRoot(o)
      PROVE  OpenerFits'
  BY <1>3 DEF SyncRoot, Takes, OpenerFits
<1>4. ASSUME Caller \/ TemporaryNamesExhausted \/ Recheck \/ SweepNext
      PROVE  OpenerFits'
  <2>1. Overtake /\ dir' = dir /\ disk' = disk
    BY <1>4 DEF Caller, TemporaryNamesExhausted, Recheck, SweepNext, PutImmutable,
                CompareExchange, RepairImmutable, CleanupTemporaries, CallerAccepts, CallerRejects
  <2>2. QED
    BY <2>1, NotOvertaken
<1>5. ASSUME NEW v, ForeignWrite(v)
      PROVE  OpenerFits'
  <2>1. Overtake
    BY <1>5 DEF ForeignWrite
  <2>2. QED
    BY <1>5, <2>1, NotOvertaken, NamesChange
<1>6. CASE TakeLease \/ OpenerDies \/ ProcessDies \/ PowerFails
  BY <1>6 DEF TakeLease, OpenerDies, ProcessDies, PowerFails, OpenerFits
<1>7. CASE UNCHANGED vars
  BY <1>7 DEF vars, fsVars, OpenerFits
<1>8. QED
  BY <1>1, <1>2, <1>3, <1>4, <1>5, <1>6, <1>7 DEF Next, SystemCall

\* The invariant holds in every state of the store.
LEMMA StoreInvariant == Spec => [](StoreInv /\ OpenerFits)
<1>1. Init => OpenerFits
  BY DEF Init, FsInit, OpenerFits
<1>2. QED
  BY <1>1, StoreInit, StoreStep, OpenerStep, PTL DEF Spec

-----------------------------------------------------------------------------
(* What a crash leaves, and what a holder may rely on.                     *)

\* A file with more than one link has the two names of a publication.
LEMMA LinksRepairable ==
    ASSUME StoreInv
    PROVE  LinksAreRepairable
<1>1. SUFFICES ASSUME NEW i \in Inodes, Links(i) > 1
               PROVE  \E t \in Temps : {n \in Names : dir[n] = i} = {Object, t}
  BY DEF LinksAreRepairable
<1> DEFINE S == {n \in Names : dir[n] = i}
<1>2. IsFiniteSet(S)
  BY NamesFinite, FS_Subset
<1>3. Cardinality(S) > 1
  BY <1>1 DEF Links
<1>4. PICK n : n \in S
  <2>1. S # {}
    BY <1>2, <1>3, FS_EmptySet
  <2>2. QED
    BY <2>1
<1>5. PICK m : m \in S /\ m # n
  <2>1. S # {n}
    BY <1>2, <1>3, FS_Singleton
  <2>2. QED
    BY <1>4, <2>1
<1>6. \A k, l \in S : k # l => Object \in {k, l} /\ Slot \notin {k, l}
  BY NamesApart DEF StoreInv, StoreType, LinksFit
<1>7. PICK t \in S : t # Object
  BY <1>4, <1>5
<1>8. Object \in S
  BY <1>4, <1>5, <1>6
<1>9. t \in Temps
  BY <1>6, <1>7, <1>8, StoreAssumption
<1>10. S = {Object, t}
  BY <1>6, <1>7, <1>8
<1>11. QED
  BY <1>9, <1>10

\* An acknowledged publication is on the disk, whole, in every directory.
LEMMA PublishedKept ==
    ASSUME StoreInv
    PROVE  PublishedIsKept
BY DEF StoreInv, ObjectFits, PublishedIsKept

\* Whatever system calls fail or lose their acknowledgement, whenever the
\* process dies or the power goes, and whoever writes without the lease: no
\* crash leaves a partly written object, takes back or changes an acknowledged
\* publication, or leaves a link that recover_linked_publication cannot finish.
THEOREM RepairableHolds == Spec => []CrashesAreRepairable
<1>1. StoreInv => CrashesAreRepairable
  BY LinksRepairable, PublishedKept DEF CrashesAreRepairable, ObjectsAreWhole, StoreInv
<1>2. QED
  BY <1>1, StoreInvariant, PTL

\* A name with one link has no twin among the temporaries.
LEMMA AloneIsUntwinned ==
    ASSUME Links(dir[Object]) = 1, NEW t \in Temps
    PROVE  dir[t] # dir[Object]
BY OneName, NamesApart

\* A holder of the lease who was never told "ambiguous", and behind whose sync of
\* the root the holder before left no unsynced change, reads, between two
\* operations, only what no power loss can take back.
THEOREM SettledHolds == Spec => []SettledIsDurable
<1>1. ASSUME StoreInv, Ready, ~ doubt, NEW n \in {Slot, Object}, Readable(n), NEW d \in disk
      PROVE  d[n] = dir[n] /\ (Bound(n) => dir[n] \in solid \cup alien)
  <2>1. dir \in disk /\ NothingTorn
    BY <1>1 DEF StoreInv, StoreType
  <2>2. Bound(n) => dir[n] \in solid \cup alien
    BY <2>1 DEF NothingTorn, Bound
  <2>3. d[Slot] = dir[Slot]
    BY <1>1 DEF StoreInv, SettledFits, Ready
  <2>4. CASE n = Object
    <3>1. CASE ~ Bound(Object)
      BY <1>1, <2>2, <2>4, <3>1 DEF StoreInv, ObjectFits, Bound
    <3>2. CASE Alone(Object)
      <4>1. \A t \in Temps : dir[t] # dir[Object]
        BY <3>2, AloneIsUntwinned DEF Alone
      <4>2. QED
        BY <1>1, <2>2, <2>4, <4>1 DEF StoreInv, SettledFits, Ready
    <3>3. QED
      BY <1>1, <2>4, <3>1, <3>2 DEF Readable
  <2>5. QED
    BY <1>1, <2>2, <2>3, <2>4
<1>2. StoreInv => SettledIsDurable
  BY <1>1 DEF SettledIsDurable
<1>3. QED
  BY <1>2, StoreInvariant, PTL

-----------------------------------------------------------------------------
(* The register the store implements.                                      *)

Reg == Content(Slot)
Leaves(d) == IF d[Slot] = NoFile THEN {Absent}
             ELSE IF d[Slot] \in solid THEN {body[d[Slot]]}
             ELSE {body[d[Slot]], Torn}
Floor == UNION {Leaves(d) : d \in disk}
NoExchange == [old |-> Absent, new |-> Absent, took |-> FALSE]
Midway == pc \in {"syncParent", "recover", "recoverBarrier", "readback"}
HasTaken == Midway /\ Content(Slot) = call.new
RegCall == IF call.op = "cas"
           THEN [old |-> call.old, new |-> call.new, took |-> HasTaken]
           ELSE NoExchange
RegReply == IF reply.op = "cas" THEN reply.kind ELSE "none"

RegSettles == Reg' = Reg /\ Floor' \subseteq Floor /\ Reg \in Floor'
RegInCall == RegCall # NoExchange

(* The steps of the register in these terms.                               *)

\* A barrier, or another operation of the store.
LEMMA RegisterOther ==
    ASSUME RegSettles, RegReply' \in {RegReply, "none"}, RegCall' = RegCall
    PROVE  Register!Next
<1>1. Register!Other
  BY DEF Register!Other, Register!InCall, Register!NoCall, Register!Settles,
         RegSettles, RegInCall, Reg, Floor, Leaves, NoExchange, Midway, HasTaken, RegCall,
         RegReply
<1>2. QED
  BY <1>1 DEF Register!Next

\* An exchange begins.
LEMMA RegisterBegin ==
    ASSUME NEW old \in Values \cup {Absent}, NEW new \in Values, 
           ~RegInCall, RegCall' = [old |-> old, new |-> new, took |-> FALSE],
           RegReply' = "none", Reg' = Reg, Floor' = Floor
    PROVE  Register!Next
<1>1. Register!Begin(old, new)
  BY DEF Register!Begin, Register!InCall, Register!NoCall, Register!Settles,
         RegSettles, RegInCall, Reg, Floor, Leaves, NoExchange, Midway, HasTaken, RegCall,
         RegReply
<1>2. QED
  BY <1>1 DEF Register!Next

\* An exchange is refused at once.
LEMMA RegisterRefuseAtOnce ==
    ASSUME NEW old \in Values \cup {Absent}, NEW new \in Values, 
           ~RegInCall, Reg \notin {old, new}, RegReply' = "stale",
           Reg' = Reg, Floor' = Floor, RegCall' = RegCall
    PROVE  Register!Next
<1>1. Register!RefuseAtOnce(old, new)
  BY DEF Register!RefuseAtOnce, Register!InCall, Register!NoCall, Register!Settles,
         RegSettles, RegInCall, Reg, Floor, Leaves, NoExchange, Midway, HasTaken, RegCall,
         RegReply
<1>2. QED
  BY <1>1 DEF Register!Next

\* An exchange takes effect.
LEMMA RegisterCommit ==
    ASSUME RegInCall, ~RegCall.took, Reg = RegCall.old, Reg' = RegCall.new,
           Floor' = Floor \cup {RegCall.new}, RegCall' = [RegCall EXCEPT !.took = TRUE],
           RegReply' = RegReply
    PROVE  Register!Next
<1>1. Register!Commit
  BY DEF Register!Commit, Register!InCall, Register!NoCall, Register!Settles,
         RegSettles, RegInCall, Reg, Floor, Leaves, NoExchange, Midway, HasTaken, RegCall,
         RegReply
<1>2. QED
  BY <1>1 DEF Register!Next

\* The register is written without the lease.
LEMMA RegisterForeign ==
    ASSUME NEW v \in Values, RegInCall, ~RegCall.took, Reg' = v,
           Floor' = Floor \cup {v, Torn}, RegCall' = RegCall, RegReply' = RegReply
    PROVE  Register!Next
<1>1. Register!Foreign(v)
  BY DEF Register!Foreign, Register!InCall, Register!NoCall, Register!Settles,
         RegSettles, RegInCall, Reg, Floor, Leaves, NoExchange, Midway, HasTaken, RegCall,
         RegReply
<1>2. QED
  BY <1>1 DEF Register!Next

\* An exchange succeeds.
LEMMA RegisterSucceed ==
    ASSUME RegInCall, RegSettles, Reg = RegCall.new, Floor' = {Reg},
           RegReply' = IF RegCall.took THEN "exchanged" ELSE "alreadyExact",
           RegCall' = NoExchange
    PROVE  Register!Next
<1>1. Register!Succeed
  BY DEF Register!Succeed, Register!InCall, Register!NoCall, Register!Settles,
         RegSettles, RegInCall, Reg, Floor, Leaves, NoExchange, Midway, HasTaken, RegCall,
         RegReply
<1>2. QED
  BY <1>1 DEF Register!Next

\* It succeeds after a lost acknowledgement.
LEMMA RegisterSucceedLate ==
    ASSUME RegInCall, RegCall.took, RegSettles, Reg = RegCall.new, Floor' = {Reg},
           RegReply' = "alreadyExact", RegCall' = NoExchange
    PROVE  Register!Next
<1>1. Register!SucceedLate
  BY DEF Register!SucceedLate, Register!InCall, Register!NoCall, Register!Settles,
         RegSettles, RegInCall, Reg, Floor, Leaves, NoExchange, Midway, HasTaken, RegCall,
         RegReply
<1>2. QED
  BY <1>1 DEF Register!Next

\* An exchange is refused as stale.
LEMMA RegisterRefuseStale ==
    ASSUME RegInCall, ~RegCall.took, Reg \notin {RegCall.old, RegCall.new},
           RegReply' = "stale", RegCall' = NoExchange, Reg' = Reg, Floor' = Floor
    PROVE  Register!Next
<1>1. Register!RefuseStale
  BY DEF Register!RefuseStale, Register!InCall, Register!NoCall, Register!Settles,
         RegSettles, RegInCall, Reg, Floor, Leaves, NoExchange, Midway, HasTaken, RegCall,
         RegReply
<1>2. QED
  BY <1>1 DEF Register!Next

\* An exchange is refused without effect.
LEMMA RegisterRefuse ==
    ASSUME RegInCall, ~RegCall.took, RegSettles, RegReply' \in {"failed", "rejected"},
           RegCall' = NoExchange
    PROVE  Register!Next
<1>1. Register!Refuse
  BY DEF Register!Refuse, Register!InCall, Register!NoCall, Register!Settles,
         RegSettles, RegInCall, Reg, Floor, Leaves, NoExchange, Midway, HasTaken, RegCall,
         RegReply
<1>2. QED
  BY <1>1 DEF Register!Next

\* An exchange ends in doubt.
LEMMA RegisterDoubt ==
    ASSUME RegInCall, RegSettles, RegReply' = "ambiguous", RegCall' = NoExchange
    PROVE  Register!Next
<1>1. Register!Doubt
  BY DEF Register!Doubt, Register!InCall, Register!NoCall, Register!Settles,
         RegSettles, RegInCall, Reg, Floor, Leaves, NoExchange, Midway, HasTaken, RegCall,
         RegReply
<1>2. QED
  BY <1>1 DEF Register!Next

\* The process dies.
LEMMA RegisterDie ==
    ASSUME RegCall' = NoExchange, RegReply' = "none", Reg' = Reg, Floor' = Floor
    PROVE  Register!Next
<1>1. Register!Die
  BY DEF Register!Die, Register!InCall, Register!NoCall, Register!Settles,
         RegSettles, RegInCall, Reg, Floor, Leaves, NoExchange, Midway, HasTaken, RegCall,
         RegReply
<1>2. QED
  BY <1>1 DEF Register!Next

\* The power goes.
LEMMA RegisterPowerLoss ==
    ASSUME Reg' \in Floor, Floor' = {Reg'}, RegCall' = NoExchange, RegReply' = "none"
    PROVE  Register!Next
<1>1. Register!PowerLoss
  BY DEF Register!PowerLoss, Register!InCall, Register!NoCall, Register!Settles,
         RegSettles, RegInCall, Reg, Floor, Leaves, NoExchange, Midway, HasTaken, RegCall,
         RegReply
<1>2. QED
  BY <1>1 DEF Register!Next

-----------------------------------------------------------------------------
(* What the steps do to the register.                                      *)

\* What the disk may show of a file that keeps its data, and of the slot where
\* every directory has it from an old one: no more than before.
LEMMA SlotSettles ==
    ASSUME StoreType, dir' \in disk', disk' \subseteq Dirs, dir'[Slot] = dir[Slot],
           \A e \in disk' : \E d \in disk : e[Slot] = d[Slot],
           \A e \in disk' : e[Slot] # NoFile =>
               /\ body'[e[Slot]] = body[e[Slot]]
               /\ e[Slot] \in solid => e[Slot] \in solid'
    PROVE  RegSettles
<1>1. Reg' = Reg
  BY DEF Reg, Content, Bound
<1>2. \A e \in disk' : \E d \in disk : Leaves(e)' \subseteq Leaves(d)
  BY DEF Leaves
<1>3. Floor' \subseteq Floor
  <2>1. Floor' = UNION {Leaves(e)' : e \in disk'}
    BY DEF Floor, Leaves
  <2>2. QED
    BY <1>2, <2>1 DEF Floor
<1>4. Reg' \in Floor'
  <2>1. \A e \in disk' : e[Slot] = dir'[Slot] => Reg' \in Leaves(e)'
    BY DEF Reg, Content, Bound, Leaves
  <2>2. Floor' = UNION {Leaves(e)' : e \in disk'}
    BY DEF Floor, Leaves
  <2>3. QED
    BY <2>1, <2>2
<1>5. QED
  BY <1>1, <1>3, <1>4 DEF RegSettles

\* A step that changes no file leaves the register and its floor alone.
LEMMA FilesStill ==
    ASSUME StoreInv, SameFiles
    PROVE  RegSettles /\ Reg' = Reg /\ Floor' = Floor
<1>1. RegSettles
  BY SlotSettles DEF StoreInv, StoreType, SameFiles, SameDirectory, SameData
<1>2. QED
  BY <1>1 DEF RegSettles, Floor, Leaves, SameFiles, SameDirectory, SameData

\* A directory sync likewise, and then only what is seen may be left.
LEMMA SyncStill ==
    ASSUME StoreInv, NEW o, SyncDirectoryIf(o)
    PROVE  RegSettles /\ (Takes(o) => disk' = {dir})
<1>1. CASE ~ Takes(o)
  BY <1>1, FilesStill DEF SyncDirectoryIf
<1>2. CASE Takes(o)
  <2>1. SyncDirectory
    BY <1>2 DEF SyncDirectoryIf
  <2>2. /\ dir' = dir /\ disk' = {dir}
        /\ \A n \in Names : dir[n] # NoFile =>
              /\ body'[dir[n]] = body[dir[n]]
              /\ dir[n] \in solid => dir[n] \in solid'
    BY <2>1, SyncKeeps DEF StoreInv, Bound
  <2>3. RegSettles
    BY <2>2, SlotSettles, NamesApart DEF StoreInv, StoreType
  <2>4. QED
    BY <2>2, <2>3
<1>3. QED
  BY <1>1, <1>2

\* So does a sync of one file.
LEMMA SyncFileStill ==
    ASSUME StoreInv, NEW n, NEW o, SyncFileOf(n, o)
    PROVE  RegSettles
BY SlotSettles DEF StoreInv, StoreType, SyncFileOf, SameDirectory

\* The names but the slot come and go without effect on it.
LEMMA OtherNameStill ==
    ASSUME StoreInv, NEW n \in Names \ {Slot}, NEW i, Changed(n, i),
           \A d \in disk : d[Slot] # NoFile =>
               /\ body'[d[Slot]] = body[d[Slot]]
               /\ d[Slot] \in solid => d[Slot] \in solid'
    PROVE  RegSettles
<1>1. /\ dir' \in disk' /\ disk' \subseteq Dirs
      /\ dir'[Slot] = dir[Slot]
      /\ \A e \in disk' : \E d \in disk : e[Slot] = d[Slot]
  BY NamesApart DEF Changed, Became
<1>2. \A e \in disk' : e[Slot] # NoFile =>
         /\ body'[e[Slot]] = body[e[Slot]]
         /\ e[Slot] \in solid => e[Slot] \in solid'
  BY <1>1
<1>3. QED
  BY <1>1, <1>2, SlotSettles DEF StoreInv

-----------------------------------------------------------------------------
(* What the steps do to the exchange under way.                            *)

\* A step that goes on with the operation, on the same side of the rename.
LEMMA GoingOn ==
    ASSUME StoreInv, RegSettles, UNCHANGED <<call, reply>>,
           call.op = "cas" => (HasTaken' <=> HasTaken)
    PROVE  Register!Next
<1>1. RegReply' = RegReply
  BY DEF RegReply
<1>2. CASE call.op = "cas"
  <2>1. (HasTaken' <=> HasTaken) /\ HasTaken \in BOOLEAN /\ HasTaken' \in BOOLEAN
    BY <1>2 DEF HasTaken, Midway
  <2>2. HasTaken' = HasTaken
    BY <2>1
  <2>3. RegCall' = RegCall
    BY <2>2 DEF RegCall
  <2>4. QED
    BY <1>1, <2>3, RegisterOther
<1>3. CASE call.op # "cas"
  <2>1. RegCall' = RegCall
    BY <1>3 DEF RegCall, NoExchange
  <2>2. QED
    BY <1>1, <2>1, RegisterOther
<1>4. QED
  BY <1>2, <1>3

\* Where the operation is an exchange, the register has a call.
LEMMA InExchange ==
    ASSUME StoreInv, call.op = "cas"
    PROVE  /\ RegInCall
           /\ RegCall.old = call.old /\ RegCall.new = call.new
           /\ RegCall.took = HasTaken
<1>1. RegCall = [old |-> call.old, new |-> call.new, took |-> HasTaken]
  BY DEF RegCall
<1>2. call.new # Absent
  BY NamesApart DEF StoreInv, CallsFit
<1>3. QED
  BY <1>1, <1>2 DEF RegInCall, NoExchange

\* A return ends the call of the register too.
LEMMA Ended ==
    ASSUME NEW kind, Return(kind)
    PROVE  /\ RegCall' = NoExchange
           /\ RegReply' = IF call.op = "cas" THEN kind ELSE "none"
BY DEF Return, Answer, RegCall, NoCall, RegReply

\* An operation that is no exchange ends, and one that is, in doubt or refused.
LEMMA Returning ==
    ASSUME StoreInv, RegSettles, NEW kind, Return(kind),
           \/ call.op # "cas"
           \/ kind = "ambiguous"
           \/ kind \in {"failed", "rejected"} /\ ~HasTaken
    PROVE  Register!Next
<1>1. CASE call.op # "cas"
  <2>1. RegCall' = RegCall /\ RegReply' = "none"
    BY <1>1, Ended DEF RegCall
  <2>2. QED
    BY <2>1, RegisterOther
<1>2. CASE call.op = "cas" /\ kind = "ambiguous"
  BY <1>2, Ended, InExchange, RegisterDoubt
<1>3. CASE call.op = "cas" /\ kind \in {"failed", "rejected"} /\ ~HasTaken
  BY <1>3, Ended, InExchange, RegisterRefuse
<1>4. QED
  BY <1>1, <1>2, <1>3

\* An exchange finds another value than it asked for.
LEMMA ReturningStale ==
    ASSUME StoreInv, SameFiles, Return("stale"), call.op = "cas", ~HasTaken,
           Content(Slot) \notin {call.old, call.new}
    PROVE  Register!Next
BY FilesStill, Ended, InExchange, RegisterRefuseStale DEF Reg

\* Between operations, nothing is under way.
LEMMA IdleHasNoCall ==
    ASSUME StoreInv, Ready
    PROVE  RegCall = NoExchange /\ ~RegInCall
BY DEF StoreInv, CallsFit, Ready, NoCall, RegCall, RegInCall

-----------------------------------------------------------------------------
(* Every step of the store is a step of the register.                      *)

\* Removing a temporary.
LEMMA RemovalRefines ==
    ASSUME StoreInv, NEW o,
           UnlinkTemporary(o) \/ SyncRemoval(o) \/ RemovalBarrier(o)
    PROVE  Register!Next
<1>1. RegSettles
  <2>1. CASE SameFiles
    BY <2>1, FilesStill
  <2>2. CASE UnlinkTemporary(o) /\ ~ SameFiles
    <3>1. Unbind(tmp) /\ tmp \in Temps /\ UNCHANGED <<body, solid>>
      BY <2>2 DEF UnlinkTemporary, NotRemoved, SameFiles, SameData, StoreInv, CallsFit, Removing
    <3>2. Changed(tmp, NoFile)
      BY <3>1, UnbindChanges, NamesApart DEF StoreInv
    <3>3. QED
      BY <3>1, <3>2, OtherNameStill, NamesApart
  <2>3. CASE SyncRemoval(o) \/ RemovalBarrier(o)
    BY <2>3, SyncStill DEF SyncRemoval, RemovalBarrier
  <2>4. QED
    BY <2>1, <2>2, <2>3
<1>2. Removing /\ pc \notin {"syncParent", "recover", "recoverBarrier", "readback"} /\ ~HasTaken
  BY DEF UnlinkTemporary, SyncRemoval, RemovalBarrier, Removing, HasTaken, Midway
<1>3. /\ then \in {"rejected", "known", "unchanged", "unlinked", "publishing", "repairing",
                  "sweeping"}
      /\ call.op = "cas" => then \in {"rejected", "known", "unchanged"}
  BY <1>2 DEF StoreInv, CallsFit, Exchanging, Publishing, Fixing
<1>4. \/ /\ UNCHANGED <<call, reply>>
         /\ call.op = "cas" => pc' \in {"unlinkAgain", "syncRemoval", "removalBarrier",
                                        "stabilizeFile"}
      \/ \E kind \in {"ambiguous", "failed", "rejected"} : Return(kind)
  BY <1>2, <1>3 DEF UnlinkTemporary, SyncRemoval, RemovalBarrier, NotRemoved, Removed, Onward,
                    Verdict, Goto
<1>5. CASE UNCHANGED <<call, reply>> /\
           (call.op = "cas" => pc' \in {"unlinkAgain", "syncRemoval", "removalBarrier",
                                         "stabilizeFile"})
  <2>1. call.op = "cas" => (HasTaken' <=> HasTaken)
    BY <1>2, <1>5 DEF HasTaken, Midway
  <2>2. QED
    BY <1>1, <1>5, <2>1, GoingOn
<1>6. CASE \E kind \in {"ambiguous", "failed", "rejected"} : Return(kind)
  BY <1>1, <1>2, <1>6, Returning
<1>7. QED
  BY <1>4, <1>5, <1>6

\* Building a temporary, and syncing the files and their names.
LEMMA BuildingRefines ==
    ASSUME StoreInv, NEW o,
           CreateTemporary(o) \/ WriteTemporary(o) \/ SyncTemporary(o) \/ StabilizeFile(o)
    PROVE  Register!Next
<1> USE DEF CreateTemporary, WriteTemporary, SyncTemporary, StabilizeFile
<1>1. RegSettles
  <2>1. CASE SameFiles
    BY <2>1, FilesStill
  <2>2. CASE CreateTemporary(o) /\ ~ SameFiles
    <3> DEFINE i == FreshInode
    <3>1. PICK t \in Temps :
             /\ InodeIsFree /\ BindTo(t, i)
             /\ body' = [body EXCEPT ![i] = Torn]
             /\ solid' = solid \ {i}
      BY <2>2
    <3>2. i \in Inodes /\ \A d \in disk : \A n \in Names : d[n] # i
      BY <3>1, NewFile
    <3>3. Changed(t, i)
      BY <3>1, <3>2, BindChanges, NamesApart DEF StoreInv
    <3> HIDE DEF i
    <3>4. \A d \in disk : d[Slot] # NoFile =>
             /\ body'[d[Slot]] = body[d[Slot]]
             /\ d[Slot] \in solid => d[Slot] \in solid'
      BY <3>1, <3>2, NamesApart DEF StoreInv, StoreType, Dirs
    <3>5. QED
      BY <3>3, <3>4, OtherNameStill, NamesApart
  <2>3. CASE WriteTemporary(o) /\ ~ SameFiles
    <3>1. /\ body' = [body EXCEPT ![dir[tmp]] = call.new]
          /\ UNCHANGED <<dir, disk, solid>>
          /\ \A d \in disk : d[Slot] # dir[tmp] /\ d[Slot] \in Inodes \cup {NoFile}
      BY <2>3, NamesApart
         DEF SameFiles, SameData, SameDirectory, StoreInv, StoreType, Dirs, WorkFits, Building,
             CallsFit
    <3>2. \A d \in disk : d[Slot] # NoFile => body'[d[Slot]] = body[d[Slot]]
      BY <3>1 DEF StoreInv, StoreType
    <3>3. QED
      BY <3>1, <3>2, SlotSettles DEF StoreInv, StoreType
  <2>4. CASE SyncTemporary(o) \/ StabilizeFile(o)
    BY <2>4, SyncFileStill
  <2>5. QED
    BY <2>1, <2>2, <2>3, <2>4
<1>2. ~HasTaken
  BY DEF HasTaken, Midway
<1>3. \/ UNCHANGED <<call, reply>> /\ pc' \in {"write", "syncData", "validate", "link",
                                             "stabilizeDir"}
      \/ \E kind \in {"ambiguous", "failed"} : Return(kind)
  BY DEF Goto
<1>4. CASE UNCHANGED <<call, reply>> /\ pc' \in {"write", "syncData", "validate", "link",
                                                "stabilizeDir"}
  BY <1>1, <1>2, <1>4, GoingOn DEF HasTaken, Midway
<1>5. CASE \E kind \in {"ambiguous", "failed"} : Return(kind)
  BY <1>1, <1>2, <1>5, Returning
<1>6. QED
  BY <1>3, <1>4, <1>5

\* Publishing an object, and its recovery.
LEMMA PublishingRefines ==
    ASSUME StoreInv, NEW o,
           \/ PublishLink(o) \/ RecoverLink(o)
           \/ MakeFileDurable(o) \/ MakeNameDurable(o)
    PROVE  Register!Next
<1> USE DEF PublishLink, RecoverLink, MakeFileDurable, MakeNameDurable
<1>1. RegSettles
  <2>1. CASE SameFiles
    BY <2>1, FilesStill
  <2>2. CASE PublishLink(o) /\ ~ SameFiles
    <3>1. /\ BindTo(Object, dir[tmp]) /\ dir[tmp] \in Inodes
          /\ UNCHANGED <<body, solid>>
      BY <2>2, NamesApart
         DEF SameFiles, SameData, StoreInv, StoreType, Dirs, CallsFit, WorkFits, Building, Bound
    <3>2. Changed(Object, dir[tmp])
      BY <3>1, BindChanges, NamesApart DEF StoreInv
    <3>3. QED
      BY <3>1, <3>2, OtherNameStill, NamesApart
  <2>3. CASE MakeFileDurable(o)
    BY <2>3, SyncFileStill
  <2>4. CASE MakeNameDurable(o)
    BY <2>4, SyncStill
  <2>5. QED
    BY <2>1, <2>2, <2>3, <2>4
<1>2. call.op # "cas"
  BY DEF StoreInv, CallsFit, Publishing
<1>3. UNCHANGED <<call, reply>> \/ \E kind : Return(kind)
  BY DEF Goto, GotoFor
<1>4. QED
  BY <1>1, <1>2, <1>3, GoingOn, Returning

\* A call that took effect is the same call.
LEMMA TookEffect ==
    ASSUME NEW a, NEW b, NEW c, c = [old |-> a, new |-> b, took |-> FALSE]
    PROVE  [c EXCEPT !.took = TRUE] = [old |-> a, new |-> b, took |-> TRUE]
<1>1. ASSUME NEW x, NEW y, NEW r, r = [old |-> a, new |-> b, took |-> x]
      PROVE  [r EXCEPT !.took = y] = [old |-> a, new |-> b, took |-> y]
  BY <1>1
<1>2. QED
  BY <1>1, Zenon

\* The rename is the point where the exchange takes effect.
LEMMA RenameRefines ==
    ASSUME StoreInv, NEW o, RenameOver(o)
    PROVE  Register!Next
<1> DEFINE i == dir[tmp]
<1>1. /\ pc = "rename" /\ call.op = "cas" /\ tmp \in Temps /\ Bound(tmp)
      /\ i \in solid /\ body[i] = call.new /\ i # NoFile
      /\ Reg = call.old /\ call.old # call.new
      /\ UNCHANGED <<body, solid, call, reply>>
      /\ pc' \in {"syncParent", "recover"}
  BY DEF RenameOver, SameData, Goto, StoreInv, CallsFit, Exchanging, WorkFits, Building, SlotFits,
         Bound, Reg
<1>2. ~HasTaken /\ RegReply' = RegReply
  BY <1>1 DEF HasTaken, Midway, RegReply
<1>3. CASE ~ Takes(o)
  <2>1. SameFiles
    BY <1>3 DEF RenameOver, SameFiles
  <2>2. ~HasTaken'
    BY <1>1, <2>1, FilesStill DEF HasTaken, Reg
  <2>3. QED
    BY <1>1, <1>2, <2>1, <2>2, FilesStill, GoingOn
<1>4. CASE Takes(o)
  <2>1. /\ dir' \in disk' /\ disk' \subseteq Dirs
        /\ Took(dir', dir, tmp, Slot, i)
        /\ \A e \in disk' : e \in disk \/ \E d \in disk : Took(e, d, tmp, Slot, i)
        /\ disk \subseteq disk'
    BY <1>1, <1>4, MoveChanges, NamesApart DEF RenameOver, StoreInv, MoveOver, Amend
  <2> HIDE DEF i
  <2>2. Reg' = call.new
    BY <1>1, <2>1 DEF Reg, Content, Bound, Took
  <2>3. Floor' = Floor \cup {call.new}
    <3>1. Floor' = UNION {Leaves(e)' : e \in disk'}
      BY DEF Floor, Leaves
    <3>2. \A e \in disk' : (e \in disk /\ Leaves(e)' = Leaves(e)) \/ Leaves(e)' = {call.new}
      BY <1>1, <2>1 DEF Took, Leaves
    <3>3. \A e \in disk : Leaves(e)' = Leaves(e) /\ e \in disk'
      BY <1>1, <2>1 DEF Leaves
    <3>4. \A e \in disk' : e[Slot] = i => Leaves(e)' = {call.new}
      BY <1>1 DEF Leaves
    <3>5. dir' \in disk' /\ dir'[Slot] = i
      BY <2>1 DEF Took
    <3>6. QED
      BY <3>1, <3>2, <3>3, <3>4, <3>5 DEF Floor
  <2>4. HasTaken'
    BY <1>1, <2>2 DEF HasTaken, Midway, Reg
  <2>5. RegCall' = [RegCall EXCEPT !.took = TRUE]
    <3>1. HasTaken' = TRUE /\ HasTaken = FALSE
      BY <1>2, <2>4 DEF HasTaken
    <3>2. RegCall = [old |-> call.old, new |-> call.new, took |-> FALSE]
      BY <1>1, <3>1 DEF RegCall
    <3>3. RegCall' = [old |-> call.old, new |-> call.new, took |-> TRUE]
      BY <1>1, <3>1 DEF RegCall
    <3>4. QED
      BY <3>2, <3>3, TookEffect
  <2>6. RegInCall /\ ~RegCall.took /\ RegCall.old = call.old /\ RegCall.new = call.new
    BY <1>1, <1>2, InExchange
  <2>7. QED
    BY <1>1, <1>2, <2>2, <2>3, <2>5, <2>6, RegisterCommit
<1>5. QED
  BY <1>3, <1>4

\* The steps of an exchange after its rename.
LEMMA ExchangeRefines ==
    ASSUME StoreInv, NEW o,
           \/ SyncParent(o) \/ Recover(o) \/ RecoverBarrier(o)
           \/ ReadBack(o) \/ StabilizeDirectory(o)
    PROVE  Register!Next
<1> USE DEF SyncParent, Recover, RecoverBarrier, ReadBack, StabilizeDirectory
<1>1. RegSettles /\ Reg' = Reg
  <2>1. CASE SameFiles
    BY <2>1, FilesStill
  <2>2. CASE SyncParent(o) \/ RecoverBarrier(o) \/ StabilizeDirectory(o)
    BY <2>2, SyncStill DEF RegSettles
  <2>3. QED
    BY <2>1, <2>2
<1>2. call.op = "cas" /\ call.new \in Values
  BY DEF StoreInv, CallsFit, Exchanging
<1>3. CASE SyncParent(o)
  <2>1. HasTaken /\ HasTaken'
    BY <1>1, <1>3 DEF StoreInv, SlotFits, HasTaken, Midway, Reg, Goto, GotoFor
  <2>2. QED
    BY <1>1, <1>3, <2>1, GoingOn DEF Goto, GotoFor
<1>4. CASE Recover(o)
  <2>1. CASE o # "acked"
    BY <1>1, <1>4, <2>1, Returning
  <2>2. CASE o = "acked" /\ Content(Slot) = call.new
    <3>1. call.old # call.new
      BY <1>2, <1>4 DEF StoreInv, CallsFit
    <3>2. ~Bound(tmp) /\ Goto("recoverBarrier")
      BY <1>4, <2>2, <3>1 DEF StoreInv, SlotFits
    <3>3. HasTaken /\ HasTaken'
      BY <1>1, <1>4, <2>2, <3>2 DEF HasTaken, Midway, Reg, Goto
    <3>4. QED
      BY <1>1, <3>2, <3>3, GoingOn DEF Goto
  <2>3. CASE o = "acked" /\ Content(Slot) = call.old /\ Content(Slot) # call.new
    <3>1. ~HasTaken
      BY <2>3 DEF HasTaken
    <3>2. CASE Return("failed")
      BY <1>1, <3>1, <3>2, Returning
    <3>3. CASE GotoFor("unlink", "unchanged")
      BY <1>1, <3>1, <3>3, GoingOn DEF GotoFor, HasTaken, Midway
    <3>4. QED
      BY <1>4, <2>3, <3>2, <3>3
  <2>4. CASE o = "acked" /\ Content(Slot) \notin {call.old, call.new}
    BY <1>2, <1>4, <2>4, ReturningStale DEF HasTaken
  <2>5. QED
    BY <2>1, <2>2, <2>3, <2>4
<1>5. CASE RecoverBarrier(o)
  <2>1. CASE o = "acked"
    <3>1. HasTaken /\ HasTaken'
      BY <1>1, <1>5, <2>1 DEF StoreInv, SlotFits, HasTaken, Midway, Reg, Goto, GotoFor
    <3>2. QED
      BY <1>1, <1>5, <2>1, <3>1, GoingOn DEF GotoFor
  <2>2. CASE o # "acked"
    BY <1>1, <1>5, <2>2, Returning
  <2>3. QED
    BY <2>1, <2>2
<1>6. ASSUME ReadBack(o) \/ (StabilizeDirectory(o) /\ o = "acked")
      PROVE  Floor' = {Reg} /\ Reg = call.new
  <2>1. Reg = call.new /\ dir[Slot] \in solid
    BY <1>6 DEF StoreInv, SlotFits, Reg
  <2>2. dir[Slot] # NoFile
    BY <1>2, <2>1, NamesApart DEF Reg, Content, Bound
  <2>3. dir' = dir /\ disk' = {dir} /\ dir[Slot] \in solid' /\ body'[dir[Slot]] = body[dir[Slot]]
    <3>1. CASE ReadBack(o)
      BY <2>1, <3>1 DEF StoreInv, SlotFits, SameFiles, SameDirectory, SameData
    <3>2. CASE StabilizeDirectory(o) /\ o = "acked"
      BY <2>1, <2>2, <3>2, SyncKeeps, NamesApart DEF SyncDirectoryIf, Takes, StoreInv, Bound
    <3>3. QED
      BY <1>6, <3>1, <3>2
  <2>4. Leaves(dir)' = {body[dir[Slot]]}
    <3>1. \A e : e = dir => Leaves(e)' = {body[dir[Slot]]}
      BY <2>2, <2>3 DEF Leaves
    <3>2. QED
      BY <2>3, <3>1 DEF Leaves
  <2>5. QED
    BY <2>1, <2>2, <2>3 DEF Floor, Leaves, Reg, Content, Bound
<1>7. CASE ReadBack(o)
  <2>1. HasTaken /\ then \in {"exchanged", "recovered"}
    BY <1>7 DEF StoreInv, SlotFits, CallsFit, HasTaken, Midway
  <2>2. CASE o # "acked"
    BY <1>1, <1>7, <2>2, Returning
  <2>3. CASE o = "acked" /\ then = "exchanged"
    <3>1. Return("exchanged")
      BY <1>7, <2>1, <2>3 DEF HasTaken
    <3>2. QED
      BY <1>1, <1>2, <1>6, <1>7, <2>1, <3>1, Ended, InExchange, RegisterSucceed
  <2>4. CASE o = "acked" /\ then = "recovered"
    <3>1. Return("alreadyExact")
      BY <1>7, <2>1, <2>4 DEF HasTaken
    <3>2. QED
      BY <1>1, <1>2, <1>6, <1>7, <2>1, <3>1, Ended, InExchange, RegisterSucceedLate
  <2>5. QED
    BY <2>1, <2>2, <2>3, <2>4
<1>8. CASE StabilizeDirectory(o)
  <2>1. ~HasTaken
    BY <1>8 DEF HasTaken, Midway
  <2>2. CASE o # "acked"
    BY <1>1, <1>8, <2>2, Returning
  <2>3. CASE o = "acked"
    <3>1. Return("alreadyExact")
      BY <1>8, <2>3
    <3>2. QED
      BY <1>1, <1>2, <1>6, <1>8, <2>1, <2>3, <3>1, Ended, InExchange, RegisterSucceed
  <2>4. QED
    BY <2>2, <2>3
<1>9. QED
  BY <1>3, <1>4, <1>5, <1>7, <1>8

\* The calls of the caller, and the steps that only look.
LEMMA CallerRefines ==
    ASSUME StoreInv,
           \/ Caller \/ TemporaryNamesExhausted \/ Recheck \/ SweepNext
    PROVE  Register!Next
<1>1. SameFiles
  BY DEF Caller, TemporaryNamesExhausted, Recheck, SweepNext, PutImmutable, CompareExchange,
         RepairImmutable, CleanupTemporaries, CallerAccepts, CallerRejects
<1>2. RegSettles /\ Reg' = Reg /\ Floor' = Floor
  BY <1>1, FilesStill
<1>3. CASE \E new \in Values, old \in Values \cup {Absent} : CompareExchange(old, new)
  <2> PICK new \in Values, old \in Values \cup {Absent} : CompareExchange(old, new)
    BY <1>3
  <2> DEFINE c == [op |-> "cas", old |-> old, new |-> new]
  <2>1. RegCall = NoExchange /\ ~RegInCall
    BY IdleHasNoCall DEF CompareExchange
  <2>2. CASE Content(Slot) \notin {old, new} /\ Answer(c, "stale")
    <3>1. RegCall' = NoExchange /\ RegReply' = "stale"
      BY <2>2 DEF Answer, NoCall, RegCall, RegReply
    <3>2. QED
      BY <1>2, <2>1, <2>2, <3>1, RegisterRefuseAtOnce DEF Reg
  <2>3. CASE Enter(c, "stabilizeFile", "none") \/ Enter(c, "create", "none")
    <3>1. call' = c /\ HasTaken' = FALSE /\ RegReply' = "none"
      BY <2>3 DEF Enter, HasTaken, Midway, RegReply, NoReply
    <3>2. RegCall' = [old |-> old, new |-> new, took |-> FALSE]
      BY <3>1 DEF RegCall
    <3>3. QED
      BY <1>2, <2>1, <3>1, <3>2, RegisterBegin
  <2>4. QED
    BY <2>2, <2>3 DEF CompareExchange
<1>4. CASE (\E v \in Values : PutImmutable(v)) \/ RepairImmutable \/ CleanupTemporaries
  <2>1. RegCall = NoExchange
    BY <1>4, IdleHasNoCall DEF PutImmutable, RepairImmutable, CleanupTemporaries
  <2>2. call'.op # "cas" /\ reply'.op # "cas"
    BY <1>4 DEF PutImmutable, RepairImmutable, CleanupTemporaries, Enter, Answer, Adopt, NoReply,
                NoCall
  <2>3. RegCall' = NoExchange /\ RegReply' = "none"
    BY <2>2 DEF RegCall, NoExchange, RegReply
  <2>4. QED
    BY <1>2, <2>1, <2>3, RegisterOther
<1>5. CASE CallerAccepts \/ CallerRejects
  BY <1>2, <1>5, GoingOn DEF CallerAccepts, CallerRejects, Goto, GotoFor, HasTaken, Midway
<1>6. CASE TemporaryNamesExhausted
  BY <1>2, <1>6, Returning DEF TemporaryNamesExhausted, HasTaken, Midway
<1>7. CASE Recheck
  <2>1. ~HasTaken /\ call.op = "cas"
    BY <1>7 DEF Recheck, HasTaken, Midway, StoreInv, CallsFit, Exchanging
  <2>2. CASE Return("stale") /\ Content(Slot) \notin {call.old, call.new}
    BY <1>1, <2>1, <2>2, ReturningStale
  <2>3. CASE Goto("rename") \/ GotoFor("unlink", "known")
    BY <1>2, <2>1, <2>3, GoingOn DEF Goto, GotoFor, HasTaken, Midway
  <2>4. QED
    BY <1>7, <2>2, <2>3 DEF Recheck
<1>8. CASE SweepNext
  <2>1. call.op # "cas"
    BY <1>8 DEF SweepNext, StoreInv, CallsFit
  <2>2. UNCHANGED <<call, reply>> \/ \E kind : Return(kind)
    BY <1>8 DEF SweepNext
  <2>3. QED
    BY <1>2, <2>1, <2>2, GoingOn, Returning
<1>9. QED
  BY <1>3, <1>4, <1>5, <1>6, <1>7, <1>8 DEF Caller

\* A process without the lease writes the register.
LEMMA ForeignRefines ==
    ASSUME StoreInv, NEW v \in Values, ForeignWrite(v)
    PROVE  Register!Next
<1> DEFINE i == FreshInode
<1>1. /\ i \in Inodes /\ i # NoFile /\ (\A d \in disk : \A n \in Names : d[n] # i)
      /\ BindTo(Slot, i) /\ Changed(Slot, i)
      /\ body' = [body EXCEPT ![i] = v]
      /\ solid' = solid \ {i}
      /\ UNCHANGED <<call, reply, pc>> /\ pc = "validate"
  BY NewFile, BindChanges, NamesApart DEF ForeignWrite, StoreInv
<1>2. /\ body'[i] = v /\ i \notin solid' /\ disk \subseteq disk'
      /\ \A e \in disk : e[Slot] # NoFile => body'[e[Slot]] = body[e[Slot]]
      /\ \A e \in disk : e[Slot] \in solid <=> e[Slot] \in solid'
  BY <1>1, NamesApart DEF StoreInv, StoreType, Dirs, BindTo, Amend
<1> HIDE DEF i
<1>3. Reg' = v
  BY <1>1, <1>2 DEF Changed, Became, Reg, Content, Bound
<1>4. Floor' = Floor \cup {v, Torn}
  <2>1. Floor' = UNION {Leaves(e)' : e \in disk'}
    BY DEF Floor, Leaves
  <2>2. \A e \in disk' : (e \in disk) \/ e[Slot] = i
    BY <1>1 DEF Changed, Became
  <2>3. \A e \in disk : Leaves(e)' = Leaves(e) /\ e \in disk'
    BY <1>2 DEF Leaves
  <2>4. \A e \in disk' : e[Slot] = i => Leaves(e)' = {v, Torn}
    BY <1>1, <1>2 DEF Leaves
  <2>5. dir' \in disk' /\ dir'[Slot] = i
    BY <1>1 DEF Changed, Became
  <2>6. QED
    BY <2>1, <2>2, <2>3, <2>4, <2>5 DEF Floor
<1>5. call.op = "cas" /\ ~HasTaken /\ ~HasTaken'
  BY <1>1 DEF StoreInv, CallsFit, Exchanging, HasTaken, Midway
<1>6. RegCall' = RegCall /\ RegReply' = RegReply
  <2>1. HasTaken' = HasTaken
    BY <1>5 DEF HasTaken
  <2>2. QED
    BY <1>1, <2>1 DEF RegCall, RegReply, NoExchange
<1>7. QED
  BY <1>3, <1>4, <1>5, <1>6, InExchange, RegisterForeign

\* The process dies, the power goes, a new owner opens the store.
LEMMA CrashRefines ==
    ASSUME StoreInv, ProcessDies \/ PowerFails \/ TakeLease \/ OpenerDies \/ \E o : SyncRoot(o)
    PROVE  Register!Next
<1>1. CASE ProcessDies
  <2>1. RegCall' = NoExchange /\ RegReply' = "none"
    BY <1>1 DEF ProcessDies, Stop, NoCall, NoReply, RegCall, NoExchange, RegReply
  <2>2. QED
    BY <1>1, <2>1, FilesStill, RegisterDie DEF ProcessDies
<1>2. CASE PowerFails
  <2>1. RegCall' = NoExchange /\ RegReply' = "none"
    BY <1>2 DEF PowerFails, Stop, NoCall, NoReply, RegCall, NoExchange, RegReply
  <2>2. /\ dir' \in disk /\ disk' = {dir'}
        /\ dir'[Slot] # NoFile =>
              /\ dir'[Slot] \in solid'
              /\ \/ body'[dir'[Slot]] = body[dir'[Slot]]
                 \/ body'[dir'[Slot]] = Torn /\ dir'[Slot] \notin solid
    BY <1>2, NamesApart DEF PowerFails, PowerLoss, StoreInv, StoreType, Dirs
  <2>3. \A d \in disk : d = dir' => Reg' \in Leaves(d)
    BY <2>2 DEF Reg, Content, Bound, Leaves
  <2>4. \A d : d = dir' => Leaves(d)' = {Reg'}
    BY <2>2 DEF Reg, Content, Bound, Leaves
  <2>5. Floor' = {Reg'}
    <3>1. Floor' = UNION {Leaves(e)' : e \in disk'}
      BY DEF Floor, Leaves
    <3>2. QED
      BY <2>2, <2>4, <3>1
  <2>6. Reg' \in Floor
    BY <2>2, <2>3 DEF Floor
  <2>7. QED
    BY <2>1, <2>5, <2>6, RegisterPowerLoss
<1>3. CASE \E o : SyncRoot(o)
  <2>1. PICK o : SyncRoot(o)
    BY <1>3
  <2>2. SyncDirectoryIf(o) /\ UNCHANGED ctlVars
    BY <2>1 DEF SyncRoot
  <2>3. RegSettles
    BY <2>2, SyncStill
  <2>4. RegCall' = RegCall /\ RegReply' = RegReply
    BY <2>2, <2>3 DEF ctlVars, RegSettles, Reg, RegCall, RegReply, HasTaken, Midway
  <2>5. QED
    BY <2>3, <2>4, RegisterOther
<1>4. CASE TakeLease \/ OpenerDies
  <2>1. SameFiles /\ UNCHANGED <<pc, call, reply>>
    BY <1>4 DEF TakeLease, OpenerDies, ctlVars
  <2>2. RegSettles
    BY <2>1, FilesStill
  <2>3. RegCall' = RegCall /\ RegReply' = RegReply
    BY <2>1, <2>2 DEF RegSettles, Reg, RegCall, RegReply, HasTaken, Midway
  <2>4. QED
    BY <2>2, <2>3, RegisterOther
<1>5. QED
  BY <1>1, <1>2, <1>3, <1>4

\* The system calls of compare_exchange_file, with their failures, crashes and
\* recoveries, exchange one persistent register: what it answers for a success
\* is durable, a definite refusal never takes effect, and only an answer in
\* doubt, or a crash, leaves the caller with two values to expect.
THEOREM ImplementsRegister == Spec => RegisterSpec
<1>1. Init => Register!Init
  BY NamesApart DEF Init, FsInit, NoCall, NoReply, Register!Init, Register!NoCall, Content, Bound
<1>2. StoreInv /\ [Next]_vars => [Register!Next]_(Register!regVars)
  <2> SUFFICES ASSUME StoreInv, [Next]_vars PROVE [Register!Next]_(Register!regVars)
    OBVIOUS
  <2>1. CASE \E o : SystemCall(o)
    BY <2>1, BuildingRefines, RemovalRefines, PublishingRefines, RenameRefines, ExchangeRefines,
       CrashRefines DEF SystemCall
  <2>2. CASE Caller \/ TemporaryNamesExhausted \/ Recheck \/ SweepNext
    BY <2>2, CallerRefines
  <2>3. CASE \E v \in Values : ForeignWrite(v)
    BY <2>3, ForeignRefines
  <2>4. CASE ProcessDies \/ PowerFails \/ TakeLease \/ OpenerDies
    BY <2>4, CrashRefines
  <2>5. CASE UNCHANGED vars
    BY <2>5 DEF vars, fsVars, ctlVars, Register!regVars, Content, Bound
  <2>6. QED
    BY <2>1, <2>2, <2>3, <2>4, <2>5 DEF Next
<1>3. QED
  BY <1>1, <1>2, StoreInvariant, PTL DEF Spec, RegisterSpec, Register!Spec
=============================================================================
