--------------------------- MODULE SessionStorage ---------------------------
(***************************************************************************)
(* SessionManager.checkpoint() (plainbox/impl/session/manager.py) on a     *)
(* SessionStorage (plainbox/impl/session/storage.py, the code for Python   *)
(* 3.3 and later), one system call at a time: I/O that fails, processes    *)
(* that are killed and machines that lose power in between.                *)
(*                                                                         *)
(* Calls of checkpoint() are numbered; the file that one creates bears its *)
(* number, as do the data it is to hold.  A directory entry is the number  *)
(* of the file it names, or 0 when there is none.  A file is "empty" until *)
(* all data are written, "written" then, and "synced" after fsync().       *)
(* Until the directory is synced, an entry may be found after a crash of   *)
(* the machine to be any of those it was since the last time it was, and   *)
(* what is lost of a file that was not synced is up to the file system.    *)
(***************************************************************************)
EXTENDS Integers

CONSTANTS
  Processes,       \* that have this storage open
  Faults,          \* the system calls that may fail
  MaxCheckpoints   \* bound: how often checkpoint() is called

ASSUME FaultsAssumption ==
  Faults \subseteq {"open", "write", "fsync", "rename", "unlink", "fsyncdir"}

ASSUME MaxCheckpointsAssumption == MaxCheckpoints \in Nat

VARIABLES
  session, next,            \* the entries _SESSION_FILE, _SESSION_FILE_NEXT
  session_disk, next_disk,  \* what each may be after a crash of the machine
  file,                     \* the state of each file
  pc,                       \* the system call a process is about to make
  saving,                   \* the number of its call of checkpoint()
  status                    \* history: how each call has ended

directory == <<session, next, session_disk, next_disk>>
vars == <<directory, file, pc, saving, status>>

Checkpoints == 1..MaxCheckpoints

Entry == 0..MaxCheckpoints

TypeOK ==
  /\ session \in Entry /\ next \in Entry
  /\ session_disk \in SUBSET Entry /\ next_disk \in SUBSET Entry
  /\ file \in [Checkpoints -> {"none", "empty", "written", "synced"}]
  /\ pc \in [Processes -> {"idle", "open", "break_lock", "reopen", "write",
                           "unlink unwritten", "fsync", "rename",
                           "unlink unrenamed", "fsyncdir"}]
  /\ saving \in [Processes -> Entry]
  /\ status \in [Checkpoints -> {"new", "running", "returned", "raised"}]

Init ==
  /\ session = 0 /\ next = 0
  /\ session_disk = {0} /\ next_disk = {0}
  /\ file = [c \in Checkpoints |-> "none"]
  /\ pc = [p \in Processes |-> "idle"]
  /\ saving = [p \in Processes |-> 0]
  /\ status = [c \in Checkpoints |-> "new"]

-----------------------------------------------------------------------------
(* Steps that system calls share.                                          *)

GoTo(p, call) == pc' = [pc EXCEPT ![p] = call] /\ UNCHANGED <<saving, status>>

\* The call of checkpoint() ends.
End(p, how) ==
  /\ pc' = [pc EXCEPT ![p] = "idle"]
  /\ saving' = [saving EXCEPT ![p] = 0]
  /\ status' = [status EXCEPT ![saving[p]] = how]

Link(entry) ==
  /\ next' = entry
  /\ next_disk' = next_disk \cup {entry}

\* A system call fails and the exception leaves checkpoint().
Raise(p, call) ==
  /\ call \in Faults
  /\ End(p, "raised")
  /\ UNCHANGED <<directory, file>>

\* os.unlink() of the next file; FileNotFoundError leaves checkpoint().
UnlinkNext(p, then) ==
  \/ /\ next # 0
     /\ Link(0)
     /\ GoTo(p, then)
     /\ UNCHANGED <<session, session_disk, file>>
  \/ /\ next = 0
     /\ End(p, "raised")
     /\ UNCHANGED <<directory, file>>
  \/ Raise(p, "unlink")

-----------------------------------------------------------------------------
(* checkpoint() and save_checkpoint().                                     *)

Checkpoint(p) ==
  /\ pc[p] = "idle"
  /\ \E c \in Checkpoints :
       /\ status[c] = "new"
       /\ \A d \in 1..(c - 1) : status[d] # "new"
       /\ saving' = [saving EXCEPT ![p] = c]
       /\ status' = [status EXCEPT ![c] = "running"]
  /\ pc' = [pc EXCEPT ![p] = "open"]
  /\ UNCHANGED <<directory, file>>

\* O_CREAT | O_EXCL: FileExistsError becomes LockedStorageError, for which
\* checkpoint() breaks the lock, but only the first time.
OpenNext(p) ==
  /\ pc[p] \in {"open", "reopen"}
  /\ \/ /\ next = 0
        /\ Link(saving[p])
        /\ file' = [file EXCEPT ![saving[p]] = "empty"]
        /\ GoTo(p, "write")
        /\ UNCHANGED <<session, session_disk>>
     \/ /\ next # 0 /\ pc[p] = "open"
        /\ GoTo(p, "break_lock")
        /\ UNCHANGED <<directory, file>>
     \/ /\ next # 0 /\ pc[p] = "reopen"
        /\ End(p, "raised")
        /\ UNCHANGED <<directory, file>>
     \/ Raise(p, "open")

\* Mutant of BreakLock: the lock is not broken.
RetryOnly(p) ==
  /\ pc[p] = "break_lock"
  /\ GoTo(p, "reopen")
  /\ UNCHANGED <<directory, file>>

BreakLock(p) == pc[p] = "break_lock" /\ UnlinkNext(p, "reopen")

\* Mutant of Write: the kernel buffers are not flushed.
WriteUnsynced(p) ==
  /\ pc[p] = "write"
  /\ \/ /\ file' = [file EXCEPT ![saving[p]] = "written"]
        /\ GoTo(p, "rename")
     \/ /\ "write" \in Faults
        /\ GoTo(p, "unlink unwritten")
        /\ UNCHANGED file
  /\ UNCHANGED directory

\* A write that fails is noted nowhere: the next file is removed, and
\* save_checkpoint() goes on to rename it.
Write(p) ==
  /\ pc[p] = "write"
  /\ \/ /\ file' = [file EXCEPT ![saving[p]] = "written"]
        /\ GoTo(p, "fsync")
     \/ /\ "write" \in Faults
        /\ GoTo(p, "unlink unwritten")
        /\ UNCHANGED file
  /\ UNCHANGED directory

UnlinkUnwritten(p) == pc[p] = "unlink unwritten" /\ UnlinkNext(p, "rename")

\* Mutant of Fsync: an error is noted nowhere.
FsyncIgnored(p) ==
  /\ pc[p] = "fsync"
  /\ \/ file' = [file EXCEPT ![saving[p]] = "synced"]
     \/ "fsync" \in Faults /\ UNCHANGED file
  /\ GoTo(p, "rename")
  /\ UNCHANGED directory

Fsync(p) ==
  /\ pc[p] = "fsync"
  /\ \/ /\ file' = [file EXCEPT ![saving[p]] = "synced"]
        /\ GoTo(p, "rename")
        /\ UNCHANGED directory
     \/ Raise(p, "fsync")

\* A rename that fails is noted nowhere either.
Rename(p) ==
  /\ pc[p] = "rename"
  /\ \/ /\ next # 0
        /\ session' = next
        /\ session_disk' = session_disk \cup {next}
        /\ Link(0)
        /\ GoTo(p, "fsyncdir")
     \/ /\ next = 0 \/ "rename" \in Faults
        /\ GoTo(p, "unlink unrenamed")
        /\ UNCHANGED directory
  /\ UNCHANGED file

\* Mutant of UnlinkUnrenamed: the wrong one of the two files is removed.
UnlinkSession(p) ==
  /\ pc[p] = "unlink unrenamed"
  /\ session' = 0
  /\ session_disk' = session_disk \cup {0}
  /\ GoTo(p, "fsyncdir")
  /\ UNCHANGED <<next, next_disk, file>>

UnlinkUnrenamed(p) == pc[p] = "unlink unrenamed" /\ UnlinkNext(p, "fsyncdir")

FsyncDirectory(p) ==
  /\ pc[p] = "fsyncdir"
  /\ \/ /\ session_disk' = {session}
        /\ next_disk' = {next}
        /\ End(p, "returned")
        /\ UNCHANGED <<session, next, file>>
     \/ Raise(p, "fsyncdir")

-----------------------------------------------------------------------------
(* Crashes.                                                                *)

Kill(p) ==
  /\ pc[p] # "idle"
  /\ End(p, "raised")
  /\ UNCHANGED <<directory, file>>

PowerLoss ==
  /\ session' \in session_disk /\ session_disk' = {session'}
  /\ next' \in next_disk /\ next_disk' = {next'}
  /\ \E lost \in SUBSET {c \in Checkpoints : file[c] = "written"} :
       file' = [c \in Checkpoints |-> IF c \in lost THEN "empty"
                                      ELSE IF file[c] = "written" THEN "synced"
                                      ELSE file[c]]
  /\ pc' = [p \in Processes |-> "idle"]
  /\ saving' = [p \in Processes |-> 0]
  /\ status' = [c \in Checkpoints |->
                  IF status[c] = "running" THEN "raised" ELSE status[c]]

-----------------------------------------------------------------------------
SaveStep(p) ==
  \/ OpenNext(p) \/ BreakLock(p) \/ Write(p) \/ UnlinkUnwritten(p) \/ Fsync(p)
  \/ Rename(p) \/ UnlinkUnrenamed(p) \/ FsyncDirectory(p)

Next ==
  \/ \E p \in Processes : Checkpoint(p) \/ SaveStep(p) \/ Kill(p)
  \/ PowerLoss

Spec == Init /\ [][Next]_vars

-----------------------------------------------------------------------------
(* Correctness.                                                            *)

\* Whatever load_checkpoint() finds, now or after a crash of the machine at
\* this very moment, is a whole checkpoint ("we want to be sure this data is
\* really on disk by now as we may crash the machine", storage.py:573-574).
CheckpointsAreWhole ==
  \A c \in (session_disk \cup {session}) \ {0} : file[c] = "synced"

\* "After calling this method you can later reopen the same session"
\* (manager.py:219): a call of checkpoint() that has returned is on disk, or
\* what a later call has put in its place.
AcknowledgedIsDurable ==
  \A c \in Checkpoints :
    status[c] = "returned" => \A d \in session_disk : d >= c

\* A next file that a crash or a failure left behind is in the way of no
\* later checkpoint: once broken, the lock is open (storage.py:326-329).
LockIsBroken == \A p \in Processes : pc[p] = "reopen" => next = 0

\* What every later process finds: a session that was saved as a whole, or none,
\* and a storage that it can save to.
CheckpointsAreSafe == CheckpointsAreWhole /\ LockIsBroken

\* A session does not go back to an older checkpoint, nor to none at all,
\* but for a crash of the machine: no leftover is ever renamed over it.
NeverOlder == [][session' >= session \/ PowerLoss]_vars

\* checkpoint() implements a register that is overwritten as a whole and that
\* is durable once a write has returned.  A file that is not on disk counts
\* as one that no call has asked to save.
Content(c) == IF c = 0 \/ file[c] = "synced" THEN c ELSE MaxCheckpoints + 1

Register == INSTANCE CheckpointRegister WITH
  visible <- Content(session),
  candidates <- {Content(c) : c \in session_disk},
  acknowledged <- {c \in Checkpoints : status[c] = "returned"}

IsRegister == Register!Spec

-----------------------------------------------------------------------------
(* The inductive invariant behind the theorems of SessionStorageProofs,    *)
(* for storage that no two processes have open.                            *)

OneProcess == \A p, q \in Processes : p = q

Begun(c) == c # 0 => status[c] # "new"

\* Calls begin in order, and nothing on disk is from one that has not begun.
NumbersInOrder ==
  /\ session \in session_disk /\ next \in next_disk
  /\ \A c \in session_disk \cup next_disk : Begun(c)
  /\ \A c, d \in Checkpoints : status[c] = "new" /\ c <= d => status[d] = "new"

\* What a call knows, between two of its system calls, of the next file.
SavingKnows(p) ==
  /\ saving[p] \in Checkpoints
  /\ status[saving[p]] = "running"
  /\ \A d \in Checkpoints : saving[p] < d => status[d] = "new"
  /\ pc[p] \in {"open", "break_lock", "reopen", "write", "fsync"} =>
       saving[p] \notin session_disk
  /\ pc[p] \in {"write", "fsync"} => next = saving[p]
  /\ pc[p] = "rename" /\ next # 0 => next = saving[p] /\ file[next] = "synced"
  /\ pc[p] = "unlink unrenamed" => next = 0 \/ "rename" \in Faults
  /\ pc[p] = "fsyncdir" /\ "rename" \notin Faults => session = saving[p]

IInv ==
  /\ TypeOK
  /\ NumbersInOrder
  /\ \A p \in Processes : pc[p] # "idle" => SavingKnows(p)
  /\ CheckpointsAreWhole
  /\ LockIsBroken
  /\ "rename" \notin Faults => AcknowledgedIsDurable
=============================================================================
