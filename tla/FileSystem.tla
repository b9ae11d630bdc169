----------------------------- MODULE FileSystem -----------------------------
(***************************************************************************)
(* One private directory of a POSIX file system, as far as                 *)
(* src/crates/pilotage-durable-storage relies on it: names bound to files, *)
(* data that a sync puts on the disk, entries that a directory sync puts   *)
(* there.  Between two directory syncs the disk may hold any subset of the *)
(* changes made since, each change (a create, a link, an unlink, a rename) *)
(* whole or not at all.  The kernel is external: it is modelled from how   *)
(* the store uses it.                                                      *)
(***************************************************************************)
EXTENDS FiniteSets

CONSTANTS Names,    \* the names a directory can bind
          Inodes,   \* file identities
          Values,   \* contents the store writes
          Torn,     \* a content nobody wrote: an empty or partial file
          NoFile    \* the name is not bound

ASSUME FileSystemAssumption ==
    /\ Torn \notin Values
    /\ NoFile \notin Inodes

VARIABLES dir,    \* what a process sees: names to files
          disk,   \* the directories a power loss may leave
          body,   \* what a read of each file returns
          solid   \* files whose data is on the disk

fsVars == <<dir, disk, body, solid>>

FsInit ==
    /\ dir = [n \in Names |-> NoFile]
    /\ disk = {dir}
    /\ body = [i \in Inodes |-> Torn]
    /\ solid = {}
-----------------------------------------------------------------------------
Bound(n) == dir[n] # NoFile

\* st_nlink of a file.
Links(i) == Cardinality({n \in Names : dir[n] = i})

\* A file no entry can reach any more, whatever the disk kept.
Fresh(i) == \A d \in disk : \A n \in Names : d[n] # i
FreshInode == CHOOSE i \in Inodes : Fresh(i)
InodeIsFree == \E i \in Inodes : Fresh(i)

\* One change of the directory: the process sees it, the disk may or may not.
Amend(Change(_)) ==
    /\ dir' = Change(dir)
    /\ disk' = disk \cup {Change(d) : d \in disk}

BindTo(n, i) == Amend(LAMBDA d : [d EXCEPT ![n] = i])
Unbind(n) == Amend(LAMBDA d : [d EXCEPT ![n] = NoFile])
MoveOver(from, to) ==
    LET i == dir[from]
    IN  Amend(LAMBDA d : [d EXCEPT ![to] = i, ![from] = NoFile])

\* A file that no directory can reach is freed.
Keep(d) ==
    LET kept == {i \in Inodes : \E n \in Names : d[n] = i}
    IN  /\ body' = [i \in Inodes |-> IF i \in kept THEN body[i] ELSE Torn]
        /\ solid' = solid \cap kept

SyncDirectory == disk' = {dir} /\ UNCHANGED dir /\ Keep(dir)
SameDirectory == UNCHANGED <<dir, disk>>

\* The power goes: the disk shows one of its directories, and data that was
\* never synced may be gone.
PowerLoss ==
    /\ dir' \in disk
    /\ disk' = {dir'}
    /\ LET kept == {i \in Inodes : \E n \in Names : dir'[n] = i}
       IN  /\ \E lost \in SUBSET (kept \ solid) :
                body' = [i \in Inodes |-> IF i \in lost \/ i \notin kept
                                          THEN Torn ELSE body[i]]
           /\ solid' = kept
=============================================================================
