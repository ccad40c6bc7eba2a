---------------------------- MODULE InstanceLock ----------------------------
(***************************************************************************)
(* How checkbox sees to it that only one of it runs: plugins/lock_prompt.py*)
(* with contrib/glock.py.  A process opens the lock file, creating it if it*)
(* is not there, and locks what it has opened.  It then watches the        *)
(* directory, and stops when it is told of a deletion and the file is gone.*)
(* At its end it unlocks the file and deletes whatever has its name.       *)
(*                                                                         *)
(* A file is a number, its inode: a file that is created again is another  *)
(* one, and a deleted one stays locked as long as its owner has it open.   *)
(***************************************************************************)
EXTENDS Naturals, FiniteSets

CONSTANTS
  Processes,  \* each one runs once
  MaxFiles    \* bound: how often the lock file is created

VARIABLES
  file,      \* the lock file in the directory, or 0
  files,     \* how many were created
  owner,     \* who holds the lock of each file
  place,     \* where each process is
  opened,    \* the file it opened
  notified,  \* a signal is pending: something was deleted
  robbed     \* history: the processes whose file another one deleted

lock_vars == <<file, files, owner, place, opened, notified, robbed>>

Nobody == "nobody"

LockAssumption == Nobody \notin Processes /\ MaxFiles \in Nat

Init ==
  /\ file = 0 /\ files = 0
  /\ owner = [f \in 1..MaxFiles |-> Nobody]
  /\ place = [p \in Processes |-> "new"] /\ opened = [p \in Processes |-> 0]
  /\ notified = [p \in Processes |-> FALSE] /\ robbed = {}

Goes(p, where) == place' = [place EXCEPT ![p] = where]

\* GlobalLock.__init__
Open(p) ==
  /\ place[p] = "new"
  /\ Goes(p, "opened")
  /\ IF file # 0 THEN opened' = [opened EXCEPT ![p] = file] /\ UNCHANGED <<file, files>>
     ELSE /\ files < MaxFiles /\ files' = files + 1
          /\ file' = files' /\ opened' = [opened EXCEPT ![p] = files']
  /\ UNCHANGED <<owner, notified, robbed>>

CanAlwaysLock(f) == TRUE

CanLock(f) == owner[f] = Nobody

\* acquire, without waiting
Acquire(p) ==
  /\ place[p] = "opened" /\ CanLock(opened[p])
  /\ owner' = [owner EXCEPT ![opened[p]] = p]
  /\ Goes(p, "locked")
  /\ UNCHANGED <<file, files, opened, notified, robbed>>

\* LockAlreadyAcquired: stop_all, and the handler of stop fails since no lock
\* was ever held (an AttributeError): the other's file stays.
Refused(p) ==
  /\ place[p] = "opened" /\ ~CanLock(opened[p])
  /\ Goes(p, "ended")
  /\ UNCHANGED <<file, files, owner, opened, notified, robbed>>

\* F_NOTIFY: from now on deletions are signalled.
Watch(p) ==
  /\ place[p] = "locked" /\ Goes(p, "running")
  /\ UNCHANGED <<file, files, owner, opened, notified, robbed>>

\* The handler of SIGIO
Handle(p) ==
  /\ notified[p] /\ place[p] = "running"
  /\ notified' = [notified EXCEPT ![p] = FALSE]
  /\ Goes(p, IF file = 0 THEN "stopping" ELSE "running")
  /\ UNCHANGED <<file, files, owner, opened, robbed>>

End(p) ==
  /\ place[p] = "running" /\ Goes(p, "stopping")
  /\ UNCHANGED <<file, files, owner, opened, notified, robbed>>

\* release: first the lock, then the file
Unlock(p) ==
  /\ place[p] = "stopping" /\ Goes(p, "unlinking")
  /\ owner' = [owner EXCEPT ![opened[p]] = Nobody]
  /\ UNCHANGED <<file, files, opened, notified, robbed>>

Unlink(p) ==
  /\ place[p] = "unlinking" /\ Goes(p, "ended")
  /\ file' = 0
  /\ notified' = [q \in Processes |-> notified[q] \/ (file # 0 /\ place[q] = "running")]
  /\ robbed' = robbed \cup {q \in Processes : q # p /\ file # 0 /\ opened[q] = file}
  /\ UNCHANGED <<files, owner, opened>>

\* The system drops the locks of a process that dies, and nothing else.
Die(p) ==
  /\ place[p] \notin {"new", "ended"} /\ Goes(p, "ended")
  /\ owner' = [f \in DOMAIN owner |-> IF owner[f] = p THEN Nobody ELSE owner[f]]
  /\ UNCHANGED <<file, files, opened, notified, robbed>>

Next ==
  \E p \in Processes :
    \/ Open(p) \/ Acquire(p) \/ Refused(p) \/ Watch(p) \/ Handle(p)
    \/ End(p) \/ Unlock(p) \/ Unlink(p) \/ Die(p)

Spec ==
  Init /\ [][Next]_lock_vars /\ \A p \in Processes : WF_lock_vars(Handle(p))

-----------------------------------------------------------------------------
(* Properties *)

Holding == {p \in Processes : place[p] \in {"locked", "running"}}

TypeOK ==
  /\ file \in 0..files /\ files \in 0..MaxFiles
  /\ owner \in [1..MaxFiles -> Processes \cup {Nobody}]
  /\ place \in [Processes -> {"new", "opened", "locked", "running", "stopping",
                              "unlinking", "ended"}]
  /\ opened \in [Processes -> 0..files]

\* Two processes run at the same time only if the file of one of them was
\* deleted by a third one, which had unlocked it before (lock_prompt.py:80-84).
\* Crashes, and processes that are refused, never lead to it.
OneRuns ==
  \A p, q \in Holding : p # q => {p, q} \cap robbed # {}

\* The file that a process deletes at its end is the one it had locked, unless
\* its own was deleted before it could watch it: it then deletes that of the
\* process that runs (lock_prompt.py:80-84).
DeletesItsOwn ==
  \A p \in Processes :
    place[p] = "unlinking" /\ file # 0 => opened[p] = file \/ p \in robbed

\* What makes it so: a process that has a lock is its owner, and one whose own
\* file is no longer the lock file was robbed.
HoldsLock ==
  \A p \in Processes :
    /\ place[p] # "new" => opened[p] # 0
    /\ place[p] \in {"locked", "running", "stopping"} => owner[opened[p]] = p

KeepsFile ==
  \A p \in Processes :
    place[p] \notin {"new", "ended"} => opened[p] = file \/ p \in robbed

IInv == TypeOK /\ HoldsLock /\ KeepsFile

\* A process is told of the deletion of the file, and has not looked yet.
Robbed == file = 0 /\ \E p \in Processes : notified[p] /\ place[p] = "running"

\* A process that is running when its file is deleted stops, unless the file was
\* created again before it looked (lock_prompt.py:69-76).
RobbedStops == Robbed ~> ~Robbed
=============================================================================
