------------------------ MODULE SessionStorageProofs ------------------------
(***************************************************************************)
(* Theorems about SessionStorage, for any number of checkpoints, any set   *)
(* of system calls that may fail, and storage that one process has open.   *)
(***************************************************************************)
EXTENDS SessionStorage, TLAPS

LEMMA Numbers ==
  /\ \A c \in Entry : c \in Nat /\ (c # 0 => c \in Checkpoints)
  /\ \A c \in Checkpoints : c \in Entry /\ c # 0 /\ c \in Nat
  /\ 0 \in Entry
BY MaxCheckpointsAssumption DEF Checkpoints, Entry

LEMMA Before ==
  ASSUME NEW c \in Checkpoints, NEW d \in Checkpoints, d < c
  PROVE  d \in 1..(c - 1)
BY MaxCheckpointsAssumption DEF Checkpoints

LEMMA InvariantInit == Init => IInv
<1> SUFFICES ASSUME Init PROVE IInv
  OBVIOUS
<1>1. TypeOK
  BY Numbers DEF Init, TypeOK
<1>2. NumbersInOrder
  BY Numbers DEF Init, NumbersInOrder, Begun
<1>3. QED
  BY <1>1, <1>2
  DEF Init, IInv, CheckpointsAreWhole, LockIsBroken, AcknowledgedIsDurable

\* checkpoint() begins a call.
LEMMA CheckpointStep ==
  ASSUME IInv, OneProcess, NEW p \in Processes, Checkpoint(p)
  PROVE  IInv'
<1> USE DEF Checkpoint, directory
<1>1. PICK c \in Checkpoints :
        /\ status[c] = "new"
        /\ \A d \in 1..(c - 1) : status[d] # "new"
        /\ saving' = [saving EXCEPT ![p] = c]
        /\ status' = [status EXCEPT ![c] = "running"]
  OBVIOUS
<1>a. /\ session' = session /\ next' = next /\ file' = file
      /\ session_disk' = session_disk /\ next_disk' = next_disk
  OBVIOUS
<1>b. saving' \in [Processes -> Entry]
  BY <1>1, Numbers DEF IInv, TypeOK
<1>c. status' \in [Checkpoints -> {"new", "running", "returned", "raised"}]
  BY <1>1 DEF IInv, TypeOK
<1>d. pc' = [pc EXCEPT ![p] = "open"]
  OBVIOUS
<1> HIDE DEF Checkpoint
<1>2. TypeOK'
  BY <1>a, <1>b, <1>c, <1>d DEF IInv, TypeOK
<1>3. \A d \in Checkpoints : status'[d] = IF d = c THEN "running" ELSE status[d]
  BY <1>1 DEF IInv, TypeOK
<1>4. \A d \in Checkpoints : status[d] = "new" => d >= c
  BY <1>1, Numbers, Before
<1>5. NumbersInOrder'
  <2>1. \A d \in session_disk \cup next_disk : Begun(d)'
    BY <1>a, <1>3, Numbers DEF IInv, TypeOK, NumbersInOrder, Begun
  <2>2. \A d, e \in Checkpoints : status'[d] = "new" /\ d <= e => status'[e] = "new"
    BY <1>3, <1>4, Numbers DEF IInv, NumbersInOrder
  <2>3. QED
    BY <1>a, <2>1, <2>2 DEF IInv, NumbersInOrder
<1>6. \A q \in Processes : SavingKnows(q)'
  <2>1. c \notin session_disk
    BY <1>1, Numbers DEF IInv, NumbersInOrder, Begun
  <2>2. \A d \in Checkpoints : c < d => status'[d] = "new"
    BY <1>1, <1>3, Numbers DEF IInv, NumbersInOrder
  <2>3. saving'[p] = c /\ pc'[p] = "open"
    BY <1>1, <1>d DEF IInv, TypeOK
  <2>4. QED
    BY <1>a, <1>3, <2>1, <2>2, <2>3 DEF OneProcess, SavingKnows
<1>7. \A q \in Processes : pc'[q] = "open"
  BY <1>d DEF IInv, TypeOK, OneProcess
<1>8. CheckpointsAreWhole' /\ LockIsBroken'
  BY <1>a, <1>7 DEF IInv, CheckpointsAreWhole, LockIsBroken
<1>9. AcknowledgedIsDurable => AcknowledgedIsDurable'
  BY <1>a, <1>3 DEF AcknowledgedIsDurable
<1>10. QED
  BY <1>2, <1>5, <1>6, <1>7, <1>8, <1>9 DEF IInv

Calls == {"open", "break_lock", "reopen", "write", "unlink unwritten", "fsync",
          "rename", "unlink unrenamed", "fsyncdir"}

\* No later call has begun.
LEMMA SavingIsLatest ==
  ASSUME IInv, NEW p \in Processes, pc[p] # "idle"
  PROVE  \A c \in Checkpoints : status[c] # "new" => saving[p] >= c
<1>1. saving[p] \in Checkpoints
      /\ \A d \in Checkpoints : saving[p] < d => status[d] = "new"
  BY DEF IInv, SavingKnows
<1>2. QED
  BY <1>1, Numbers

\* A call goes on to its next system call.
LEMMA GoesOn ==
  ASSUME IInv, OneProcess, NEW p \in Processes, pc[p] # "idle",
         NEW call \in Calls, GoTo(p, call),
         session' \in session_disk', next' \in next_disk',
         session_disk' \subseteq session_disk \cup {saving[p]},
         next_disk' \subseteq next_disk \cup {0, saving[p]},
         file' \in [Checkpoints -> {"none", "empty", "written", "synced"}],
         CheckpointsAreWhole',
         call \in {"open", "break_lock", "reopen", "write", "fsync"} =>
           saving[p] \notin session_disk',
         call \in {"write", "fsync"} => next' = saving[p],
         call = "reopen" => next' = 0,
         call = "rename" /\ next' # 0 => next' = saving[p] /\ file'[next'] = "synced",
         call = "unlink unrenamed" => next' = 0 \/ "rename" \in Faults,
         call = "fsyncdir" /\ "rename" \notin Faults => session' = saving[p]
  PROVE  IInv'
<1>1. SavingKnows(p)
  BY DEF IInv
<1>2. saving' = saving /\ status' = status
  BY DEF GoTo
<1>3. pc' \in [Processes -> {"idle"} \cup Calls] /\ pc'[p] = call
  <2>1. pc \in [Processes -> {"idle"} \cup Calls]
    BY DEF IInv, TypeOK, Calls
  <2>2. QED
    BY <2>1 DEF GoTo
<1>4. TypeOK'
  <2>1. saving[p] \in Entry /\ 0 \in Entry
    BY <1>1, Numbers DEF SavingKnows
  <2>2. /\ session_disk' \in SUBSET Entry
        /\ next_disk' \in SUBSET Entry
    BY <2>1 DEF IInv, TypeOK
  <2>3. saving' \in [Processes -> Entry]
        /\ status' \in [Checkpoints -> {"new", "running", "returned", "raised"}]
    BY <1>2 DEF IInv, TypeOK
  <2>4. QED
    BY <1>3, <2>2, <2>3 DEF TypeOK, Calls
<1>5. NumbersInOrder'
  <2>1. \A d \in session_disk' \cup next_disk' : Begun(d)'
    BY <1>1, <1>2, Numbers DEF IInv, NumbersInOrder, Begun, SavingKnows
  <2>2. QED
    BY <1>2, <2>1 DEF IInv, NumbersInOrder
<1>6. SavingKnows(p)'
  BY <1>1, <1>2, <1>3 DEF SavingKnows, Calls
<1>7. \A q \in Processes : q = p
  BY DEF OneProcess
<1>8. LockIsBroken'
  BY <1>3, <1>7 DEF LockIsBroken
<1>9. "rename" \notin Faults => AcknowledgedIsDurable'
  <2>1. \A c \in Checkpoints : status[c] = "returned" => saving[p] >= c
    BY SavingIsLatest
  <2>2. QED
    BY <1>2, <2>1 DEF IInv, AcknowledgedIsDurable
<1>10. pc'[p] # "idle"
  BY <1>3 DEF Calls
<1>11. QED
  BY <1>4, <1>5, <1>6, <1>7, <1>8, <1>9, <1>10 DEF IInv

\* A call ends; what has been synced by then is all that is left on disk.
LEMMA Ends ==
  ASSUME IInv, OneProcess, NEW p \in Processes, pc[p] # "idle",
         NEW how \in {"returned", "raised"}, End(p, how),
         session' = session, next' = next, file' = file,
         session \in session_disk', session_disk' \subseteq session_disk,
         next \in next_disk', next_disk' \subseteq next_disk,
         how = "returned" /\ "rename" \notin Faults => session_disk' = {saving[p]}
  PROVE  IInv'
<1>1. SavingKnows(p)
  BY DEF IInv
<1>2. pc' \in [Processes -> {"idle"} \cup Calls] /\ pc'[p] = "idle"
  <2>1. pc \in [Processes -> {"idle"} \cup Calls]
    BY DEF IInv, TypeOK, Calls
  <2>2. QED
    BY <2>1 DEF End
<1>3. saving' \in [Processes -> Entry]
  BY Numbers DEF IInv, TypeOK, End
<1>4. /\ status' \in [Checkpoints -> {"new", "running", "returned", "raised"}]
      /\ \A c \in Checkpoints :
           status'[c] = IF c = saving[p] THEN how ELSE status[c]
  <2>1. status \in [Checkpoints -> {"new", "running", "returned", "raised"}]
    BY DEF IInv, TypeOK
  <2>2. saving[p] \in Checkpoints
    BY <1>1 DEF SavingKnows
  <2>3. status' = [status EXCEPT ![saving[p]] = how]
    BY DEF End
  <2>4. QED
    BY <2>1, <2>2, <2>3
<1>5. TypeOK'
  <2>1. /\ session_disk' \in SUBSET Entry
        /\ next_disk' \in SUBSET Entry
    BY DEF IInv, TypeOK
  <2>2. session' \in Entry /\ next' \in Entry
        /\ file' \in [Checkpoints -> {"none", "empty", "written", "synced"}]
    BY DEF IInv, TypeOK
  <2>3. QED
    BY <1>2, <1>3, <1>4, <2>1, <2>2 DEF TypeOK, Calls
<1>6. NumbersInOrder'
  <2>1. \A d \in session_disk' \cup next_disk' : Begun(d)'
    <3>1. \A d \in session_disk \cup next_disk : d # 0 => d \in Checkpoints
      BY Numbers DEF IInv, TypeOK
    <3>2. QED
      BY <1>4, <3>1 DEF IInv, NumbersInOrder, Begun
  <2>2. \A c, d \in Checkpoints : status'[c] = "new" /\ c <= d => status'[d] = "new"
    <3>1. \A c \in Checkpoints : status'[c] = "new" <=> status[c] = "new"
      BY <1>1, <1>4 DEF SavingKnows
    <3>2. QED
      BY <3>1 DEF IInv, NumbersInOrder
  <2>3. QED
    BY <2>1, <2>2 DEF NumbersInOrder
<1>7. \A q \in Processes : pc'[q] = "idle"
  BY <1>2 DEF OneProcess
<1>9. CheckpointsAreWhole' /\ LockIsBroken'
  BY <1>7 DEF IInv, CheckpointsAreWhole, LockIsBroken
<1>10. "rename" \notin Faults => AcknowledgedIsDurable'
  <2>1. \A c \in Checkpoints : status[c] # "new" => saving[p] >= c
    BY SavingIsLatest
  <2>2. CASE how = "returned"
    BY <1>1, <1>4, <2>1, <2>2, Numbers DEF AcknowledgedIsDurable, SavingKnows
  <2>3. CASE how = "raised"
    BY <1>4, <2>3 DEF IInv, AcknowledgedIsDurable
  <2>4. QED
    BY <2>2, <2>3
<1>11. QED
  BY <1>5, <1>6, <1>7, <1>9, <1>10 DEF IInv

-----------------------------------------------------------------------------
(* The steps.                                                              *)

\* An exception of the operating system leaves the call.
LEMMA RaiseStep ==
  ASSUME IInv, OneProcess, NEW p \in Processes, pc[p] # "idle",
         End(p, "raised"), UNCHANGED <<directory, file>>
  PROVE  IInv'
<1>1. /\ session' = session /\ next' = next /\ file' = file
      /\ session_disk' = session_disk /\ next_disk' = next_disk
  BY DEF directory
<1>2. session \in session_disk /\ next \in next_disk
  BY DEF IInv, NumbersInOrder
<1>3. QED
  BY <1>1, <1>2, Ends

\* What an invariant leaves to say of a step that stays off the session file.
LEMMA NextOnly ==
  ASSUME IInv, NEW p \in Processes, pc[p] # "idle",
         session' = session, session_disk' = session_disk
  PROVE  /\ session' \in session_disk'
         /\ session_disk' \subseteq session_disk \cup {saving[p]}
         /\ file' = file => CheckpointsAreWhole'
         /\ saving[p] \notin session_disk
            /\ file' \in [Checkpoints -> {"none", "empty", "written", "synced"}] /\
            (\A c \in Checkpoints \ {saving[p]} : file'[c] = file[c])
              => CheckpointsAreWhole'
<1>1. session \in session_disk
  BY DEF IInv, NumbersInOrder
<1>2. \A c \in session_disk : c # 0 => c \in Checkpoints
  BY Numbers DEF IInv, TypeOK
<1>3. QED
  BY <1>1, <1>2 DEF IInv, CheckpointsAreWhole

LEMMA UnlinkStep ==
  ASSUME IInv, OneProcess, NEW p \in Processes, pc[p] # "idle",
         NEW then \in {"reopen", "rename", "fsyncdir"}, UnlinkNext(p, then),
         then = "reopen" => saving[p] \notin session_disk,
         then = "fsyncdir" => next = 0 \/ "rename" \in Faults
  PROVE  IInv'
<1>1. CASE /\ next # 0
           /\ Link(0)
           /\ GoTo(p, then)
           /\ UNCHANGED <<session, session_disk, file>>
  <2>1. /\ session' = session /\ session_disk' = session_disk /\ file' = file
        /\ next' = 0 /\ next_disk' = next_disk \cup {0}
    BY <1>1 DEF Link
  <2>2. /\ session' \in session_disk'
        /\ session_disk' \subseteq session_disk \cup {saving[p]}
        /\ CheckpointsAreWhole'
    BY <2>1, NextOnly
  <2>3. then \in Calls /\ then \notin {"open", "break_lock", "write", "fsync"}
    BY DEF Calls
  <2>4. file' \in [Checkpoints -> {"none", "empty", "written", "synced"}]
    BY <2>1 DEF IInv, TypeOK
  <2>5. QED
    BY <1>1, <2>1, <2>2, <2>3, <2>4, GoesOn
<1>2. CASE \/ /\ next = 0
              /\ End(p, "raised")
              /\ UNCHANGED <<directory, file>>
           \/ Raise(p, "unlink")
  BY <1>2, RaiseStep DEF Raise
<1>3. QED
  BY <1>1, <1>2 DEF UnlinkNext

LEMMA OpenStep ==
  ASSUME IInv, OneProcess, NEW p \in Processes, OpenNext(p)
  PROVE  IInv'
<1>1. pc[p] \in {"open", "reopen"} /\ pc[p] # "idle"
  BY DEF OpenNext
<1>2. SavingKnows(p) /\ saving[p] \notin session_disk
  BY <1>1 DEF IInv, SavingKnows
<1>3. CASE /\ next = 0
           /\ Link(saving[p])
           /\ file' = [file EXCEPT ![saving[p]] = "empty"]
           /\ GoTo(p, "write")
           /\ UNCHANGED <<session, session_disk>>
  <2>1. /\ session' = session /\ session_disk' = session_disk
        /\ next' = saving[p] /\ next_disk' = next_disk \cup {saving[p]}
    BY <1>3 DEF Link
  <2>2. /\ file' \in [Checkpoints -> {"none", "empty", "written", "synced"}]
        /\ \A c \in Checkpoints \ {saving[p]} : file'[c] = file[c]
    <3>1. file \in [Checkpoints -> {"none", "empty", "written", "synced"}]
      BY DEF IInv, TypeOK
    <3>2. saving[p] \in Checkpoints
      BY <1>2 DEF SavingKnows
    <3>3. file' = [file EXCEPT ![saving[p]] = "empty"]
      BY <1>3
    <3>4. QED
      BY <3>1, <3>2, <3>3
  <2>4. /\ session' \in session_disk'
        /\ session_disk' \subseteq session_disk \cup {saving[p]}
        /\ CheckpointsAreWhole'
    BY <1>1, <1>2, <2>1, <2>2, NextOnly
  <2>5. "write" \in Calls
    BY DEF Calls
  <2>6. QED
    BY <1>1, <1>2, <1>3, <2>1, <2>2, <2>4, <2>5, GoesOn
<1>4. CASE next # 0 /\ pc[p] = "open" /\ GoTo(p, "break_lock")
           /\ UNCHANGED <<directory, file>>
  <2>1. /\ session' = session /\ session_disk' = session_disk
        /\ next' = next /\ next_disk' = next_disk /\ file' = file
    BY <1>4 DEF directory
  <2>2. /\ session' \in session_disk'
        /\ session_disk' \subseteq session_disk \cup {saving[p]}
        /\ CheckpointsAreWhole'
    BY <1>1, <2>1, NextOnly
  <2>3. next' \in next_disk'
    BY <2>1 DEF IInv, NumbersInOrder
  <2>4. file' \in [Checkpoints -> {"none", "empty", "written", "synced"}]
    BY <2>1 DEF IInv, TypeOK
  <2>5. "break_lock" \in Calls
    BY DEF Calls
  <2>6. QED
    BY <1>1, <1>2, <1>4, <2>1, <2>2, <2>3, <2>4, <2>5, GoesOn
<1>5. CASE \/ /\ next # 0 /\ pc[p] = "reopen"
              /\ End(p, "raised")
              /\ UNCHANGED <<directory, file>>
           \/ Raise(p, "open")
  BY <1>1, <1>5, RaiseStep DEF Raise
<1>6. QED
  BY <1>3, <1>4, <1>5 DEF OpenNext

LEMMA WriteStep ==
  ASSUME IInv, OneProcess, NEW p \in Processes, Write(p)
  PROVE  IInv'
<1>1. pc[p] = "write"
  BY DEF Write
<1>2. SavingKnows(p) /\ saving[p] \notin session_disk /\ next = saving[p]
  BY <1>1 DEF IInv, SavingKnows
<1>3. /\ session' = session /\ session_disk' = session_disk
      /\ next' = next /\ next_disk' = next_disk
  BY DEF Write, directory
<1>4. next' \in next_disk'
  BY <1>3 DEF IInv, NumbersInOrder
<1>5. PICK call \in {"fsync", "unlink unwritten"} : GoTo(p, call)
  BY DEF Write
<1>6. /\ file' \in [Checkpoints -> {"none", "empty", "written", "synced"}]
      /\ \A c \in Checkpoints \ {saving[p]} : file'[c] = file[c]
  <2>1. /\ saving[p] \in Checkpoints
        /\ file \in [Checkpoints -> {"none", "empty", "written", "synced"}]
    BY <1>2 DEF IInv, TypeOK, SavingKnows
  <2>2. file' = file \/ file' = [file EXCEPT ![saving[p]] = "written"]
    BY DEF Write
  <2>3. QED
    BY <2>1, <2>2
<1>8. /\ session' \in session_disk'
      /\ session_disk' \subseteq session_disk \cup {saving[p]}
      /\ CheckpointsAreWhole'
  BY <1>1, <1>2, <1>3, <1>6, NextOnly
<1>9. call \in Calls
  BY DEF Calls
<1>10. QED
  BY <1>1, <1>2, <1>3, <1>4, <1>5, <1>6, <1>8, <1>9, GoesOn

LEMMA FsyncStep ==
  ASSUME IInv, OneProcess, NEW p \in Processes, Fsync(p)
  PROVE  IInv'
<1>1. pc[p] = "fsync"
  BY DEF Fsync
<1>2. SavingKnows(p) /\ saving[p] \notin session_disk /\ next = saving[p]
  BY <1>1 DEF IInv, SavingKnows
<1>3. CASE /\ file' = [file EXCEPT ![saving[p]] = "synced"]
           /\ GoTo(p, "rename")
           /\ UNCHANGED directory
  <2>1. /\ session' = session /\ session_disk' = session_disk
        /\ next' = next /\ next_disk' = next_disk
    BY <1>3 DEF directory
  <2>2. next' \in next_disk'
    BY <2>1 DEF IInv, NumbersInOrder
  <2>3. /\ file' \in [Checkpoints -> {"none", "empty", "written", "synced"}]
        /\ file'[saving[p]] = "synced"
        /\ \A c \in Checkpoints \ {saving[p]} : file'[c] = file[c]
    <3>1. file \in [Checkpoints -> {"none", "empty", "written", "synced"}]
      BY DEF IInv, TypeOK
    <3>2. saving[p] \in Checkpoints
      BY <1>2 DEF SavingKnows
    <3>3. file' = [file EXCEPT ![saving[p]] = "synced"]
      BY <1>3
    <3>4. QED
      BY <3>1, <3>2, <3>3
  <2>5. /\ session' \in session_disk'
        /\ session_disk' \subseteq session_disk \cup {saving[p]}
        /\ CheckpointsAreWhole'
    BY <1>1, <1>2, <2>1, <2>3, NextOnly
  <2>6. "rename" \in Calls
    BY DEF Calls
  <2>7. QED
    BY <1>1, <1>2, <1>3, <2>1, <2>2, <2>3, <2>5, <2>6, GoesOn
<1>4. CASE Raise(p, "fsync")
  BY <1>1, <1>4, RaiseStep DEF Raise
<1>5. QED
  BY <1>3, <1>4 DEF Fsync

LEMMA RenameStep ==
  ASSUME IInv, OneProcess, NEW p \in Processes, Rename(p)
  PROVE  IInv'
<1>1. pc[p] = "rename"
  BY DEF Rename
<1>2. SavingKnows(p) /\ (next # 0 => next = saving[p] /\ file[next] = "synced")
  BY <1>1 DEF IInv, SavingKnows
<1>3. file' = file
      /\ file' \in [Checkpoints -> {"none", "empty", "written", "synced"}]
  BY DEF Rename, IInv, TypeOK
<1>4. CASE /\ next # 0
           /\ session' = next
           /\ session_disk' = session_disk \cup {next}
           /\ Link(0)
           /\ GoTo(p, "fsyncdir")
  <2>1. /\ session' = saving[p] /\ session_disk' = session_disk \cup {saving[p]}
        /\ next' = 0 /\ next_disk' = next_disk \cup {0}
    BY <1>2, <1>4 DEF Link
  <2>2. CheckpointsAreWhole'
    BY <1>2, <1>3, <1>4, <2>1 DEF IInv, CheckpointsAreWhole
  <2>3. "fsyncdir" \in Calls
    BY DEF Calls
  <2>4. QED
    BY <1>1, <1>3, <1>4, <2>1, <2>2, <2>3, GoesOn
<1>5. CASE /\ next = 0 \/ "rename" \in Faults
           /\ GoTo(p, "unlink unrenamed")
           /\ UNCHANGED directory
  <2>1. /\ session' = session /\ session_disk' = session_disk
        /\ next' = next /\ next_disk' = next_disk
    BY <1>5 DEF directory
  <2>2. next' \in next_disk'
    BY <2>1 DEF IInv, NumbersInOrder
  <2>3. /\ session' \in session_disk'
        /\ session_disk' \subseteq session_disk \cup {saving[p]}
        /\ CheckpointsAreWhole'
    BY <1>1, <1>3, <2>1, NextOnly
  <2>4. "unlink unrenamed" \in Calls
    BY DEF Calls
  <2>5. QED
    BY <1>1, <1>3, <1>5, <2>1, <2>2, <2>3, <2>4, GoesOn
<1>6. QED
  BY <1>4, <1>5 DEF Rename

LEMMA FsyncDirectoryStep ==
  ASSUME IInv, OneProcess, NEW p \in Processes, FsyncDirectory(p)
  PROVE  IInv'
<1>1. pc[p] = "fsyncdir"
  BY DEF FsyncDirectory
<1>2. CASE /\ session_disk' = {session}
           /\ next_disk' = {next}
           /\ End(p, "returned")
           /\ UNCHANGED <<session, next, file>>
  <2>1. "rename" \notin Faults => session = saving[p]
    BY <1>1 DEF IInv, SavingKnows
  <2>2. session \in session_disk /\ next \in next_disk
    BY DEF IInv, NumbersInOrder
  <2>3. QED
    BY <1>1, <1>2, <2>1, <2>2, Ends
<1>3. CASE Raise(p, "fsyncdir")
  BY <1>1, <1>3, RaiseStep DEF Raise
<1>4. QED
  BY <1>2, <1>3 DEF FsyncDirectory

LEMMA PowerLossStep ==
  ASSUME IInv, PowerLoss
  PROVE  IInv'
<1>1. PICK lost \in SUBSET {c \in Checkpoints : file[c] = "written"} :
        file' = [c \in Checkpoints |-> IF c \in lost THEN "empty"
                                       ELSE IF file[c] = "written" THEN "synced"
                                       ELSE file[c]]
  BY DEF PowerLoss
<1>2. /\ file' \in [Checkpoints -> {"none", "empty", "written", "synced"}]
      /\ \A c \in Checkpoints : file[c] = "synced" => file'[c] = "synced"
  BY <1>1 DEF IInv, TypeOK
<1>3. /\ session' \in session_disk /\ session_disk' = {session'}
      /\ next' \in next_disk /\ next_disk' = {next'}
      /\ \A q \in Processes : pc'[q] = "idle"
      /\ pc' \in [Processes -> {"idle"}]
      /\ saving' \in [Processes -> {0}]
  BY DEF PowerLoss
<1>4. /\ status' \in [Checkpoints -> {"new", "running", "returned", "raised"}]
      /\ \A c \in Checkpoints :
           /\ status'[c] = "new" <=> status[c] = "new"
           /\ status'[c] = "returned" <=> status[c] = "returned"
  BY DEF PowerLoss, IInv, TypeOK
<1>5. TypeOK'
  <2>1. saving' \in [Processes -> Entry]
    BY <1>3, Numbers
  <2>2. QED
    BY <1>2, <1>3, <1>4, <2>1 DEF IInv, TypeOK
<1>6. NumbersInOrder'
  <2>1. \A d \in session_disk \cup next_disk : d # 0 => d \in Checkpoints
    BY Numbers DEF IInv, TypeOK
  <2>2. \A d \in session_disk' \cup next_disk' : Begun(d)'
    BY <1>3, <1>4, <2>1 DEF IInv, NumbersInOrder, Begun
  <2>3. QED
    BY <1>3, <1>4, <2>2 DEF IInv, NumbersInOrder
<1>7. CheckpointsAreWhole' /\ LockIsBroken'
  <2>1. \A d \in session_disk : d # 0 => d \in Checkpoints
    BY Numbers DEF IInv, TypeOK
  <2>2. QED
    BY <1>2, <1>3, <2>1 DEF IInv, CheckpointsAreWhole, LockIsBroken
<1>8. "rename" \notin Faults => AcknowledgedIsDurable'
  BY <1>3, <1>4 DEF IInv, AcknowledgedIsDurable
<1>9. QED
  BY <1>3, <1>5, <1>6, <1>7, <1>8 DEF IInv

LEMMA InvariantStep ==
  ASSUME IInv, OneProcess, [Next]_vars
  PROVE  IInv'
<1>1. ASSUME NEW p \in Processes, Checkpoint(p) PROVE IInv'
  BY <1>1, CheckpointStep
<1>2. ASSUME NEW p \in Processes, SaveStep(p) PROVE IInv'
  <2>1. CASE OpenNext(p)
    BY <2>1, OpenStep
  <2>2. CASE BreakLock(p)
    BY <2>2, UnlinkStep DEF BreakLock, IInv, SavingKnows
  <2>3. CASE Write(p)
    BY <2>3, WriteStep
  <2>4. CASE UnlinkUnwritten(p)
    BY <2>4, UnlinkStep DEF UnlinkUnwritten
  <2>5. CASE Fsync(p)
    BY <2>5, FsyncStep
  <2>6. CASE Rename(p)
    BY <2>6, RenameStep
  <2>7. CASE UnlinkUnrenamed(p)
    BY <2>7, UnlinkStep DEF UnlinkUnrenamed, IInv, SavingKnows
  <2>8. CASE FsyncDirectory(p)
    BY <2>8, FsyncDirectoryStep
  <2>9. QED
    BY <1>2, <2>1, <2>2, <2>3, <2>4, <2>5, <2>6, <2>7, <2>8 DEF SaveStep
<1>3. ASSUME NEW p \in Processes, Kill(p) PROVE IInv'
  BY <1>3, RaiseStep DEF Kill
<1>4. CASE PowerLoss
  BY <1>4, PowerLossStep
<1>5. CASE UNCHANGED vars
  <2>1. /\ session' = session /\ next' = next /\ file' = file /\ pc' = pc
        /\ session_disk' = session_disk /\ next_disk' = next_disk
        /\ saving' = saving /\ status' = status
    BY <1>5 DEF vars, directory
  <2>2. QED
    BY <2>1 DEF IInv, TypeOK, NumbersInOrder, Begun, SavingKnows,
                CheckpointsAreWhole, LockIsBroken, AcknowledgedIsDurable
<1>6. QED
  BY <1>1, <1>2, <1>3, <1>4, <1>5 DEF Next

-----------------------------------------------------------------------------
(* The theorems.                                                           *)

\* The inductive invariant holds in every state that is reached.
THEOREM InvariantHolds == ASSUME OneProcess PROVE Spec => []IInv
<1>1. IInv /\ [Next]_vars => IInv'
  BY InvariantStep
<1>2. QED
  BY <1>1, InvariantInit, PTL DEF Spec

\* Checkpointing keeps to its types: every system call is followed by one
\* that the code has, and every entry names a file that was made.
THEOREM TypeCorrect == ASSUME OneProcess PROVE Spec => []TypeOK
<1>1. IInv => TypeOK
  BY DEF IInv
<1>2. QED
  BY <1>1, InvariantHolds, PTL

\* Whatever system calls fail and whenever a crash comes, what is loaded is a
\* whole checkpoint.
THEOREM CheckpointsWhole == ASSUME OneProcess PROVE Spec => []CheckpointsAreWhole
<1>1. IInv => CheckpointsAreWhole
  BY DEF IInv
<1>2. QED
  BY <1>1, InvariantHolds, PTL

\* No leftover of a crash or a failure locks the storage for good.
THEOREM LockOpens == ASSUME OneProcess PROVE Spec => []LockIsBroken
<1>1. IInv => LockIsBroken
  BY DEF IInv
<1>2. QED
  BY <1>1, InvariantHolds, PTL

\* A later process finds a whole session, or none, and can save.
THEOREM CheckpointsSafe == ASSUME OneProcess PROVE Spec => []CheckpointsAreSafe
<1>1. CheckpointsAreWhole /\ LockIsBroken => CheckpointsAreSafe
  BY DEF CheckpointsAreSafe
<1>2. QED
  BY <1>1, CheckpointsWhole, LockOpens, PTL

\* As long as no rename fails, a checkpoint that has returned survives any
\* crash, with every other system call failing as it likes.
THEOREM AcknowledgedDurable ==
  ASSUME OneProcess, "rename" \notin Faults
  PROVE  Spec => []AcknowledgedIsDurable
<1>1. IInv => AcknowledgedIsDurable
  BY DEF IInv
<1>2. QED
  BY <1>1, InvariantHolds, PTL

\* What the steps do to the session file and to what has returned.
LEMMA SessionChange ==
  ASSUME IInv, OneProcess, [Next]_vars
  PROVE  \/ PowerLoss
         \/ \E p \in Processes :
              /\ pc[p] = "rename" /\ saving[p] \in Checkpoints
              /\ file[saving[p]] = "synced"
              /\ session' = saving[p]
              /\ session_disk' = session_disk \cup {saving[p]}
              /\ status' = status
         \/ \E p \in Processes :
              /\ pc[p] = "fsyncdir" /\ saving[p] \in Checkpoints
              /\ session' = session /\ session_disk' = {session}
              /\ status' = [status EXCEPT ![saving[p]] = "returned"]
         \/ /\ session' = session /\ session_disk' = session_disk
            /\ \A c \in Checkpoints : status'[c] = "returned" <=> status[c] = "returned"
<1> DEFINE Unchanged ==
      /\ session' = session /\ session_disk' = session_disk
      /\ \A c \in Checkpoints : status'[c] = "returned" <=> status[c] = "returned"
<1>1. ASSUME NEW p \in Processes, Checkpoint(p) PROVE Unchanged
  <2>1. PICK c \in Checkpoints :
          status[c] = "new" /\ status' = [status EXCEPT ![c] = "running"]
    BY <1>1 DEF Checkpoint
  <2>2. session' = session /\ session_disk' = session_disk
    BY <1>1 DEF Checkpoint, directory
  <2>3. QED
    BY <2>1, <2>2 DEF IInv, TypeOK
<1>2. ASSUME NEW p \in Processes, pc[p] # "idle", End(p, "raised"),
             UNCHANGED directory
      PROVE  Unchanged
  <2>1. session' = session /\ session_disk' = session_disk
    BY <1>2 DEF directory
  <2>2. saving[p] \in Checkpoints /\ status[saving[p]] = "running"
    BY <1>2 DEF IInv, SavingKnows
  <2>3. QED
    BY <1>2, <2>1, <2>2 DEF End, IInv, TypeOK
<1>3. ASSUME NEW p \in Processes, NEW call, GoTo(p, call),
             session' = session, session_disk' = session_disk
      PROVE  Unchanged
  BY <1>3 DEF GoTo
<1>4. ASSUME NEW p \in Processes, NEW call, pc[p] # "idle", UnlinkNext(p, call)
      PROVE  Unchanged
  BY <1>2, <1>3, <1>4 DEF UnlinkNext, Raise, directory
<1>5. ASSUME NEW p \in Processes, OpenNext(p) \/ Write(p) \/ Fsync(p)
      PROVE  Unchanged
  <2>1. session' = session /\ session_disk' = session_disk
    BY <1>5 DEF OpenNext, Write, Fsync, Raise, directory
  <2>2. \/ \E call \in Calls : GoTo(p, call)
        \/ pc[p] # "idle" /\ End(p, "raised") /\ UNCHANGED directory
    BY <1>5 DEF OpenNext, Write, Fsync, Raise, Calls
  <2>3. QED
    BY <1>2, <1>3, <2>1, <2>2
<1>6. ASSUME NEW p \in Processes, Kill(p) PROVE Unchanged
  BY <1>2, <1>6 DEF Kill
<1>7. ASSUME NEW p \in Processes, Rename(p)
      PROVE  \/ Unchanged
             \/ /\ pc[p] = "rename" /\ saving[p] \in Checkpoints
                /\ file[saving[p]] = "synced"
                /\ session' = saving[p]
                /\ session_disk' = session_disk \cup {saving[p]}
                /\ status' = status
  <2>1. pc[p] = "rename" /\ pc[p] # "idle"
    BY <1>7 DEF Rename
  <2>2. /\ saving[p] \in Checkpoints
        /\ next # 0 => next = saving[p] /\ file[next] = "synced"
    BY <2>1 DEF IInv, SavingKnows
  <2>3. CASE next # 0 /\ session' = next /\ GoTo(p, "fsyncdir")
             /\ session_disk' = session_disk \cup {next}
    BY <2>1, <2>2, <2>3 DEF GoTo
  <2>4. CASE GoTo(p, "unlink unrenamed") /\ UNCHANGED directory
    BY <1>3, <2>4 DEF directory
  <2>5. QED
    BY <1>7, <2>3, <2>4 DEF Rename
<1>8. ASSUME NEW p \in Processes, FsyncDirectory(p)
      PROVE  \/ Unchanged
             \/ /\ pc[p] = "fsyncdir" /\ saving[p] \in Checkpoints
                /\ session' = session /\ session_disk' = {session}
                /\ status' = [status EXCEPT ![saving[p]] = "returned"]
  <2>1. pc[p] = "fsyncdir" /\ pc[p] # "idle"
    BY <1>8 DEF FsyncDirectory
  <2>2. saving[p] \in Checkpoints
    BY <2>1 DEF IInv, SavingKnows
  <2>3. CASE session_disk' = {session} /\ End(p, "returned") /\ session' = session
    BY <2>1, <2>2, <2>3 DEF End
  <2>4. CASE Raise(p, "fsyncdir")
    BY <1>2, <2>1, <2>4 DEF Raise, directory
  <2>5. QED
    BY <1>8, <2>3, <2>4 DEF FsyncDirectory
<1>9. ASSUME NEW p \in Processes, BreakLock(p) \/ UnlinkUnwritten(p) \/ UnlinkUnrenamed(p)
      PROVE  Unchanged
  BY <1>4, <1>9 DEF BreakLock, UnlinkUnwritten, UnlinkUnrenamed
<1>10. UNCHANGED vars => Unchanged
  BY DEF vars, directory
<1>11. QED
  BY <1>1, <1>5, <1>6, <1>7, <1>8, <1>9, <1>10 DEF Next, SaveStep

\* No step but a crash of the machine goes back to an older checkpoint.
THEOREM NeverGoesBack == ASSUME OneProcess PROVE Spec => NeverOlder
<1>1. ASSUME IInv, [Next]_vars PROVE session' >= session \/ PowerLoss
  <2>1. session \in Nat /\ session \in session_disk
    BY <1>1, Numbers DEF IInv, TypeOK, NumbersInOrder
  <2>2. ASSUME NEW p \in Processes, pc[p] = "rename", saving[p] \in Checkpoints
        PROVE  saving[p] >= session
    <3>1. CASE session = 0
      BY <2>2, <3>1, Numbers
    <3>2. CASE session # 0
      <4>1. session \in Checkpoints /\ status[session] # "new"
        BY <1>1, <2>1, <3>2, Numbers DEF IInv, TypeOK, NumbersInOrder, Begun
      <4>2. pc[p] # "idle"
        BY <2>2
      <4>3. QED
        BY <1>1, <4>1, <4>2, SavingIsLatest
    <3>3. QED
      BY <3>1, <3>2
  <2>3. CASE session' = session
    BY <2>1, <2>3
  <2>4. QED
    BY <1>1, <2>2, <2>3, SessionChange
<1>2. QED
  BY <1>1, InvariantHolds, PTL DEF Spec, NeverOlder

-----------------------------------------------------------------------------
(* Refinement of CheckpointRegister.                                       *)

Acknowledged == {c \in Checkpoints : status[c] = "returned"}

\* What is on disk is synced, so that content and number are the same.
LEMMA ContentIsNumber ==
  ASSUME IInv
  PROVE  /\ \A c \in session_disk : Content(c) = c
         /\ Content(session) = session
         /\ {Content(c) : c \in session_disk} = session_disk
BY DEF IInv, NumbersInOrder, CheckpointsAreWhole, Content

LEMMA ContentIsNumberNext ==
  ASSUME IInv'
  PROVE  /\ Content(session)' = session'
         /\ {Content(c) : c \in session_disk}' = session_disk'
BY DEF IInv, NumbersInOrder, CheckpointsAreWhole, Content

LEMMA RegisterInit == Init => Register!Init
BY DEF Init, Register!Init, Content

LEMMA RegisterStep ==
  ASSUME IInv, IInv', OneProcess, "rename" \notin Faults, [Next]_vars
  PROVE  [Register!Next]_<<Content(session), {Content(c) : c \in session_disk},
                           {c \in Checkpoints : status[c] = "returned"}>>
<1>1. /\ Content(session) = session /\ Content(session)' = session'
      /\ {Content(c) : c \in session_disk} = session_disk
      /\ {Content(c) : c \in session_disk}' = session_disk'
  BY ContentIsNumber, ContentIsNumberNext
<1>2. CASE PowerLoss
  <2>1. session' \in session_disk /\ session_disk' = {session'}
    BY <1>2 DEF PowerLoss
  <2>2. Acknowledged' = Acknowledged
    BY <1>2 DEF PowerLoss, Acknowledged, IInv, TypeOK
  <2>3. Register!Crash
    BY <1>1, <2>1, <2>2 DEF Register!Crash, Acknowledged
  <2>4. QED
    BY <2>3 DEF Register!Next
<1>3. ASSUME NEW p \in Processes, pc[p] = "rename", saving[p] \in Checkpoints,
             session' = saving[p], session_disk' = session_disk \cup {saving[p]},
             status' = status
      PROVE  Register!Next
  <2>1. pc[p] # "idle" /\ status[saving[p]] = "running"
    BY <1>3 DEF IInv, SavingKnows
  <2>2. \A d \in Acknowledged : d < saving[p]
    <3>1. \A d \in Acknowledged : d \in Checkpoints /\ status[d] = "returned"
      BY DEF Acknowledged
    <3>2. \A d \in Acknowledged : saving[p] >= d /\ saving[p] # d
      BY <2>1, <3>1, SavingIsLatest
    <3>3. QED
      BY <1>3, <3>1, <3>2, Numbers
  <2>3. Register!Replace(saving[p])
    BY <1>1, <1>3, <2>2 DEF Register!Replace, Acknowledged
  <2>4. QED
    BY <1>3, <2>3 DEF Register!Next
<1>4. ASSUME NEW p \in Processes, pc[p] = "fsyncdir", saving[p] \in Checkpoints,
             session' = session, session_disk' = {session},
             status' = [status EXCEPT ![saving[p]] = "returned"]
      PROVE  Register!Next
  <2>1. session = saving[p]
    BY <1>4 DEF IInv, SavingKnows
  <2>2. Acknowledged' = Acknowledged \cup {saving[p]}
    <3>1. \A c \in Checkpoints :
            status'[c] = "returned" <=> (status[c] = "returned" \/ c = saving[p])
      BY <1>4 DEF IInv, TypeOK
    <3>2. QED
      BY <1>4, <3>1 DEF Acknowledged
  <2>3. PICK c \in Checkpoints : c = saving[p]
    BY <1>4
  <2>4. /\ Content(session) = c /\ Content(session)' = Content(session)
        /\ {Content(d) : d \in session_disk}' = {c}
        /\ Acknowledged' = Acknowledged \cup {c}
    BY <1>1, <1>4, <2>1, <2>2, <2>3
  <2>5. Register!Acknowledge(c)
    BY <2>4 DEF Register!Acknowledge, Acknowledged
  <2>6. QED
    BY <2>5 DEF Register!Next
<1>5. CASE /\ session' = session /\ session_disk' = session_disk
           /\ \A c \in Checkpoints : status'[c] = "returned" <=> status[c] = "returned"
  <2>1. Acknowledged' = Acknowledged
    BY <1>5 DEF Acknowledged
  <2>2. QED
    BY <1>1, <1>5, <2>1 DEF Acknowledged
<1>6. QED
  BY <1>2, <1>3, <1>4, <1>5, SessionChange

\* As long as no rename fails, checkpoint() implements a durable register
\* that is overwritten as a whole, with all its other failures and crashes.
THEOREM ImplementsRegister ==
  ASSUME OneProcess, "rename" \notin Faults
  PROVE  Spec => IsRegister
<1>1. IInv /\ IInv' /\ [Next]_vars =>
        [Register!Next]_<<Content(session), {Content(c) : c \in session_disk},
                          {c \in Checkpoints : status[c] = "returned"}>>
  BY RegisterStep
<1>2. QED
  BY <1>1, RegisterInit, InvariantHolds, PTL DEF Spec, IsRegister, Register!Spec
=============================================================================
