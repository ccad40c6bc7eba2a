--------------------------- MODULE CheckboxProofs ---------------------------
(***************************************************************************)
(* Proofs about the components of checkbox, for every number of processes, *)
(* files, devices and changes, every tree of tests and all jobs.           *)
(***************************************************************************)
EXTENDS MCCheckbox, FiniteSetTheorems, WellFoundedInduction, TLAPS

-----------------------------------------------------------------------------
(* The lock on a running checkbox.                                         *)

LEMMA InitLock == Lock!Init => Lock!IInv
<1> SUFFICES ASSUME Lock!Init
             PROVE  Lock!IInv
  OBVIOUS
<1>1. Lock!TypeOK
  BY PartsAssumption DEF Lock!Init, Lock!TypeOK, Lock!LockAssumption
<1>2. Lock!HoldsLock /\ Lock!KeepsFile
  BY DEF Lock!Init, Lock!HoldsLock, Lock!KeepsFile
<1>3. QED
  BY <1>1, <1>2 DEF Lock!IInv

LEMMA NextLock == Lock!IInv /\ [Lock!Next]_lock_vars => Lock!IInv'
<1> SUFFICES ASSUME Lock!IInv, [Lock!Next]_lock_vars
             PROVE  Lock!IInv'
  OBVIOUS
<1>0. Lock!Nobody \notin Processes /\ MaxFiles \in Nat
  BY PartsAssumption DEF Lock!LockAssumption
<1> USE <1>0 DEF Lock!IInv, Lock!TypeOK, Lock!HoldsLock,
      Lock!KeepsFile, Lock!Goes
<1>1. CASE UNCHANGED lock_vars
  BY <1>1 DEF lock_vars
<1>2. ASSUME NEW p \in Processes, Lock!Open(p)
      PROVE  Lock!IInv'
  <2>1. /\ place[p] = "new" /\ place' = [place EXCEPT ![p] = "opened"]
        /\ UNCHANGED <<owner, notified, robbed>>
        /\ files \in Nat /\ files' \in {files, files + 1} /\ files' <= MaxFiles
        /\ file' = (IF file # 0 THEN file ELSE files + 1) /\ file' # 0 /\ file' \in 1..files'
        /\ opened' = [opened EXCEPT ![p] = file']
    BY <1>2 DEF Lock!Open
  <2>2. Lock!TypeOK'
    BY <2>1
  <2>3. Lock!HoldsLock'
    BY <2>1
  <2>4. Lock!KeepsFile'
    BY <2>1
  <2>5. QED
    BY <2>2, <2>3, <2>4
<1>3. ASSUME NEW p \in Processes, Lock!Acquire(p)
      PROVE  Lock!IInv'
  BY <1>3 DEF Lock!Acquire, Lock!CanLock
<1>4. ASSUME NEW p \in Processes, Lock!Refused(p)
      PROVE  Lock!IInv'
  BY <1>4 DEF Lock!Refused
<1>5. ASSUME NEW p \in Processes, Lock!Watch(p)
      PROVE  Lock!IInv'
  BY <1>5 DEF Lock!Watch
<1>6. ASSUME NEW p \in Processes, Lock!Handle(p)
      PROVE  Lock!IInv'
  BY <1>6 DEF Lock!Handle
<1>7. ASSUME NEW p \in Processes, Lock!End(p)
      PROVE  Lock!IInv'
  BY <1>7 DEF Lock!End
<1>8. ASSUME NEW p \in Processes, Lock!Unlock(p)
      PROVE  Lock!IInv'
  BY <1>8 DEF Lock!Unlock
<1>9. ASSUME NEW p \in Processes, Lock!Unlink(p)
      PROVE  Lock!IInv'
  BY <1>9 DEF Lock!Unlink
<1>10. ASSUME NEW p \in Processes, Lock!Die(p)
       PROVE  Lock!IInv'
  BY <1>10 DEF Lock!Die
<1>11. QED
  BY <1>1, <1>2, <1>3, <1>4, <1>5, <1>6, <1>7, <1>8, <1>9, <1>10 DEF Lock!Next

LEMMA LockIsKept == Lock!IInv => Lock!OneRuns /\ Lock!DeletesItsOwn
BY DEF Lock!IInv, Lock!HoldsLock, Lock!KeepsFile, Lock!TypeOK, Lock!OneRuns,
       Lock!DeletesItsOwn, Lock!Holding

-----------------------------------------------------------------------------
(* The command of a job.                                                   *)

LEMMA InitCommand == Command!Init => Command!IInv
BY DEF Command!Init, Command!IInv, Command!TypeOK, Command!LimitIsActedOn,
       Command!StatusIsOfShell

LEMMA NextCommand == Command!IInv /\ [Command!Next]_command_vars => Command!IInv'
<1> SUFFICES ASSUME Command!IInv, [Command!Next]_command_vars
             PROVE  Command!IInv'
  OBVIOUS
<1> USE DEF Command!IInv, Command!TypeOK, Command!LimitIsActedOn, Command!StatusIsOfShell
<1>1. CASE UNCHANGED command_vars
  BY <1>1 DEF command_vars
<1>2. /\ Command!Fork => Command!IInv'
      /\ Command!PrintOutput => Command!IInv'
      /\ Command!ChildEnds => Command!IInv'
      /\ \A who \in {"shell", "child"} : Command!Close(who) => Command!IInv'
  <2> DEFINE Same == /\ UNCHANGED <<shell, over, execute, timed_out, signalled, late, status>>
                     /\ child' \in {"none", "runs", "ended"} /\ writers' \subseteq {"shell", "child"}
  <2>1. ASSUME Same
        PROVE  Command!IInv'
    <3>1. Command!TypeOK'
      BY <2>1
    <3>2. Command!LimitIsActedOn' /\ Command!StatusIsOfShell'
      BY <2>1
    <3>3. QED
      BY <3>1, <3>2
  <2>2. Command!Fork => Same
    BY DEF Command!Fork, Command!UNCHANGED_PROGRAM
  <2>3. Command!PrintOutput => Same
    BY DEF Command!PrintOutput, Command!UNCHANGED_PROGRAM
  <2>4. Command!ChildEnds => Same
    BY DEF Command!ChildEnds, Command!UNCHANGED_PROGRAM
  <2>5. ASSUME NEW who \in {"shell", "child"}, Command!Close(who)
        PROVE  Same
    BY <2>5 DEF Command!Close, Command!UNCHANGED_PROGRAM
  <2> HIDE DEF Same
  <2>6. QED
    BY ONLY <2>1, <2>2, <2>3, <2>4, <2>5
<1>3. ASSUME NEW how \in {"zero", "nonzero", "notfound", "killed"}, Command!ShellEnds(how)
      PROVE  Command!IInv'
  BY <1>3 DEF Command!ShellEnds, Command!UNCHANGED_PROGRAM
<1>4. CASE Command!TimePasses
  BY <1>4 DEF Command!TimePasses, Command!UNCHANGED_COMMAND
<1>5. /\ Command!Read => Command!IInv'
      /\ Command!ReadAll => Command!IInv'
      /\ Command!ReadNothing => Command!IInv'
  <2>1. CASE Command!Read
    BY <2>1 DEF Command!Read, Command!UNCHANGED_COMMAND
  <2>2. CASE Command!ReadAll
    BY <2>2 DEF Command!ReadAll, Command!UNCHANGED_COMMAND
  <2>3. CASE Command!ReadNothing
    BY <2>3 DEF Command!ReadNothing, Command!UNCHANGED_COMMAND
  <2>4. QED
    BY <2>1, <2>2, <2>3
<1>6. CASE Command!Kill
  BY <1>6 DEF Command!Kill, Command!UNCHANGED_COMMAND
<1>7. CASE Command!Cleanup
  BY <1>7 DEF Command!Cleanup, Command!UNCHANGED_COMMAND, Command!StatusOf
<1>8. QED
  BY <1>1, <1>2, <1>3, <1>4, <1>5, <1>6, <1>7 DEF Command!Next, Command!Program

LEMMA CommandIsKept == Command!IInv => Command!LimitKeepsResult /\ Command!PassIsZero
BY DEF Command!IInv, Command!TypeOK, Command!LimitIsActedOn, Command!StatusIsOfShell,
       Command!StatusOf, Command!LimitKeepsResult, Command!PassIsZero

-----------------------------------------------------------------------------
(* The test for a storage device.                                          *)

LEMMA AppendFacts ==
  ASSUME NEW S, NEW s \in Seq(S), NEW e \in S
  PROVE  /\ Append(s, e) \in Seq(S) /\ Len(Append(s, e)) = Len(s) + 1
         /\ Len(s) \in Nat /\ DOMAIN s = 1..Len(s)
         /\ DOMAIN Append(s, e) = 1..(Len(s) + 1)
         /\ \A k \in 1..Len(s) : Append(s, e)[k] = s[k]
         /\ Append(s, e)[Len(s) + 1] = e
OBVIOUS

LEMMA TailFacts ==
  ASSUME NEW S, NEW s \in Seq(S), s # <<>>
  PROVE  /\ Tail(s) \in Seq(S) /\ Len(Tail(s)) = Len(s) - 1
         /\ Len(s) \in Nat /\ Len(s) >= 1 /\ DOMAIN s = 1..Len(s)
         /\ DOMAIN Tail(s) = 1..(Len(s) - 1)
         /\ \A k \in 1..(Len(s) - 1) : Tail(s)[k] = s[k + 1]
         /\ Head(s) = s[1] /\ Head(s) \in S
OBVIOUS

LEMMA InitWatcher == Watcher!Init => Watcher!IInv
<1> SUFFICES ASSUME Watcher!Init
             PROVE  Watcher!IInv
  OBVIOUS
<1>1. world \subseteq Watcher!Facts
  BY DEF Watcher!Init, Watcher!Facts, Watcher!Fact, Watcher!Mounted
<1>2. signals = <<>> /\ DOMAIN signals = {}
  BY DEF Watcher!Init
<1>3. \A S : <<>> \in Seq(S)
  OBVIOUS
<1>4. Watcher!TypeOK
  BY <1>1, <1>2, <1>3 DEF Watcher!Init, Watcher!TypeOK
<1>5. QED
  BY <1>2, <1>4 DEF Watcher!Init, Watcher!IInv, Watcher!EarlySignals,
       Watcher!SignalsTellTheWorld, Watcher!OthersWereThere, Watcher!OthersStayed,
       Watcher!NothingIsOverlooked, Watcher!PassIsReal

Signal == [kind : {"added", "removed", "changed"}, facts : SUBSET Watcher!Facts]

\* What a change does to the signals.
LEMMA EmitFacts ==
  ASSUME Watcher!TypeOK, NEW kind, NEW facts, Watcher!Emit(kind, facts),
         [kind |-> kind, facts |-> facts] \in Signal
  PROVE  LET n == Len(signals)
         IN  \/ /\ signals' = signals /\ missed' \in BOOLEAN
                /\ watch = "connecting" \/ (watch = "fetched" /\ missed')
             \/ /\ missed' = missed /\ signals' \in Seq(Signal)
                /\ kind = "changed" \/ watch \in {"running", "ended"}
                /\ n \in Nat /\ DOMAIN signals = 1..n /\ DOMAIN signals' = 1..(n + 1)
                /\ \A k \in 1..n : signals'[k] = signals[k]
                /\ signals'[n + 1] = [kind |-> kind, facts |-> facts]
<1>1. signals \in Seq(Signal) /\ missed \in BOOLEAN
      /\ watch \in {"connecting", "fetched", "running", "ended"}
  BY DEF Watcher!TypeOK, Signal
<1>2. CASE kind # "changed" /\ watch \in {"connecting", "fetched"}
  BY <1>1, <1>2 DEF Watcher!Emit
<1>3. CASE ~(kind # "changed" /\ watch \in {"connecting", "fetched"})
  <2> DEFINE s == [kind |-> kind, facts |-> facts]
  <2>1. signals' = Append(signals, s) /\ missed' = missed
    BY <1>3 DEF Watcher!Emit
  <2>2. s \in Signal
    OBVIOUS
  <2> HIDE DEF s
  <2>3. QED
    BY <1>1, <1>3, <2>1, <2>2, AppendFacts DEF s
<1>4. QED
  BY <1>2, <1>3

\* A change keeps the invariant: what it does to the facts is what its signal
\* says, and it does nothing to other devices.
LEMMA ChangeKeeps ==
  ASSUME Watcher!IInv,
         NEW d \in Devices, NEW now \in SUBSET Watcher!Facts,
         NEW kind \in {"added", "removed", "changed"}, NEW facts \in SUBSET Watcher!Facts,
         Watcher!Change(now, kind, facts, d),
         kind # "changed" =>
           \A x \in Watcher!Facts : IF x \in facts THEN kind = "added" <=> x \in now
                                    ELSE x \in now <=> x \in world,
         kind = "added" => \A e \in Devices : Watcher!Fact("mounted", e) \notin facts,
         \A e \in Devices :
           Watcher!Fact("mounted", e) \in now \ world => e = d /\ kind = "changed",
         \A e \in Devices :
           /\ Watcher!Fact("partition", e) \in world \ now => e = d /\ kind = "removed"
           /\ kind = "removed" /\ Watcher!Fact("partition", e) \in facts => e = d
  PROVE  Watcher!IInv'
<1> DEFINE n == Len(signals)
           s == [kind |-> kind, facts |-> facts]
<1>1. s \in Signal /\ s.kind = kind /\ s.facts = facts
  BY DEF Signal
<1>2. /\ changes' = changes + 1 /\ world' = now /\ watch # "ended"
      /\ Watcher!Emit(kind, facts)
      /\ done_to' = IF kind # (IF action = "insert" THEN "changed" ELSE "removed")
                    THEN done_to ELSE done_to \cup {d}
      /\ UNCHANGED <<action, managed, hollow, reference, ignored, watch, verdict>>
  BY DEF Watcher!Change
<1>3. Watcher!TypeOK
  BY DEF Watcher!IInv
<1>4. \/ /\ signals' = signals /\ missed' \in BOOLEAN
         /\ watch = "connecting" \/ (watch = "fetched" /\ missed')
      \/ /\ missed' = missed /\ signals' \in Seq(Signal)
         /\ kind = "changed" \/ watch \in {"running", "ended"}
         /\ n \in Nat /\ DOMAIN signals = 1..n /\ DOMAIN signals' = 1..(n + 1)
         /\ \A k \in 1..n : signals'[k] = signals[k]
         /\ signals'[n + 1] = s
  BY <1>1, <1>2, <1>3, EmitFacts
<1> HIDE DEF n, s
<1>12. \A k \in DOMAIN signals' :
        \/ k \in DOMAIN signals /\ signals'[k] = signals[k]
        \/ signals'[k] = s /\ (kind = "changed" \/ watch \in {"running", "ended"})
  BY ONLY <1>4
<1>5. Watcher!TypeOK'
  <2>1. signals' \in Seq(Signal) /\ missed' \in BOOLEAN
    BY <1>3, <1>4 DEF Watcher!TypeOK, Signal
  <2>2. \A k \in DOMAIN signals' :
          signals'[k].kind = "added" =>
            \A e \in Devices : Watcher!Fact("mounted", e) \notin signals'[k].facts
    BY <1>1, <1>3, <1>12 DEF Watcher!TypeOK
  <2>3. QED
    BY <1>2, <1>3, <2>1, <2>2 DEF Watcher!TypeOK, Signal
<1>6. Watcher!EarlySignals'
  BY <1>1, <1>2, <1>12 DEF Watcher!IInv, Watcher!EarlySignals
<1>7. Watcher!SignalsTellTheWorld'
  <2> SUFFICES ASSUME watch \in {"fetched", "running"}, ~missed', NEW x \in Watcher!Facts
               PROVE
      /\ \A k \in DOMAIN signals' :
           /\ Watcher!Touches(signals'[k], x)
           /\ \A j \in DOMAIN signals' : j > k => ~Watcher!Touches(signals'[j], x)
           => signals'[k].kind = "changed" \/ (signals'[k].kind = "added" <=> x \in now)
      /\ (\A k \in DOMAIN signals' : ~Watcher!Touches(signals'[k], x)) =>
           (x \in managed <=> x \in now)
    BY <1>2 DEF Watcher!SignalsTellTheWorld
  <2>1. /\ missed' = missed /\ n \in Nat
        /\ DOMAIN signals = 1..n /\ DOMAIN signals' = 1..(n + 1)
        /\ \A k \in 1..n : signals'[k] = signals[k]
        /\ signals'[n + 1] = s
    BY <1>4
  <2>2. CASE Watcher!Touches(s, x)
    <3>1. s.kind = "changed" \/ (s.kind = "added" <=> x \in now)
      BY <1>1, <2>2 DEF Watcher!Touches
    <3>2. QED
      BY <2>1, <2>2, <3>1
  <2>3. CASE ~Watcher!Touches(s, x)
    <3>1. x \in now <=> x \in world
      BY <1>1, <2>3 DEF Watcher!Touches
    <3>2. QED
      BY <2>1, <2>3, <3>1 DEF Watcher!IInv, Watcher!SignalsTellTheWorld
  <2>4. QED
    BY <2>2, <2>3
<1>8. Watcher!OthersWereThere'
  BY <1>2 DEF Watcher!IInv, Watcher!OthersWereThere
<1>9. Watcher!OthersStayed'
  <2> SUFFICES ASSUME action = "remove", NEW e \in Devices \ done_to'
               PROVE
      /\ watch = "fetched" /\ Watcher!Fact("partition", e) \in managed =>
           Watcher!Fact("partition", e) \in now
      /\ watch = "running" /\ Watcher!Fact("partition", e) \in reference =>
           /\ Watcher!Fact("partition", e) \in now \cap managed
           /\ \A k \in DOMAIN signals' : signals'[k].kind = "removed" =>
                Watcher!Fact("partition", e) \notin signals'[k].facts
    BY <1>2 DEF Watcher!OthersStayed
  <2>1. e \in Devices \ done_to /\ (kind = "removed" => e # d)
    BY <1>2
  <2>2. Watcher!Fact("partition", e) \in world => Watcher!Fact("partition", e) \in now
    BY <2>1
  <2>3. /\ watch = "fetched" /\ Watcher!Fact("partition", e) \in managed =>
             Watcher!Fact("partition", e) \in world
        /\ watch = "running" /\ Watcher!Fact("partition", e) \in reference =>
             /\ Watcher!Fact("partition", e) \in world \cap managed
             /\ \A k \in DOMAIN signals : signals[k].kind = "removed" =>
                  Watcher!Fact("partition", e) \notin signals[k].facts
    BY <2>1 DEF Watcher!IInv, Watcher!OthersStayed
  <2>4. s.kind = "removed" => Watcher!Fact("partition", e) \notin s.facts
    BY <1>1, <2>1
  <2>5. QED
    BY <1>12, <2>2, <2>3, <2>4
<1>10. Watcher!NothingIsOverlooked' /\ Watcher!PassIsReal'
  BY <1>2 DEF Watcher!IInv, Watcher!NothingIsOverlooked, Watcher!PassIsReal,
       Watcher!Candidates, Watcher!Delta, Watcher!FindDrive
<1>11. QED
  BY <1>5, <1>6, <1>7, <1>8, <1>9, <1>10 DEF Watcher!IInv

\* The objects of a device are different facts.
LEMMA FactsDiffer ==
  ASSUME NEW d, NEW e, NEW a, NEW b
  PROVE  Watcher!Fact(a, d) = Watcher!Fact(b, e) <=> a = b /\ d = e
BY DEF Watcher!Fact

LEMMA FactIsFact ==
  ASSUME NEW d \in Devices, NEW what \in {"drive", "partition", "mounted"}
  PROVE  Watcher!Fact(what, d) \in Watcher!Facts
BY DEF Watcher!Fact, Watcher!Facts

\* A signal that the program handles keeps the invariant.
LEMMA HandleKeeps == Watcher!IInv /\ Watcher!Handle => Watcher!IInv'
<1> SUFFICES ASSUME Watcher!IInv, Watcher!Handle
             PROVE  Watcher!IInv'
  OBVIOUS
<1> DEFINE h == Head(signals)
           n == Len(signals)
<1>1. /\ watch = "running" /\ signals # <<>> /\ signals' = Tail(signals) /\ Watcher!Apply(h)
      /\ UNCHANGED <<action, world, reference, changes, done_to, missed>>
  BY DEF Watcher!Handle
<1>2. Watcher!TypeOK /\ signals \in Seq(Signal)
  BY DEF Watcher!IInv, Watcher!TypeOK, Signal
<1>3. /\ signals' \in Seq(Signal)
      /\ n \in Nat /\ n >= 1 /\ DOMAIN signals = 1..n /\ DOMAIN signals' = 1..(n - 1)
      /\ \A k \in 1..(n - 1) : signals'[k] = signals[k + 1]
      /\ h = signals[1] /\ h \in Signal
  BY <1>1, <1>2, TailFacts
<1> HIDE DEF h, n
\* The model that is compared with the reference.
<1>4. PICK now, empty :
        /\ Watcher!OnChange(now, empty)
        /\ \/ h.kind = "added" /\ now = managed \cup h.facts /\ empty \subseteq hollow
           \/ /\ h.kind = "removed" /\ now = managed \ h.facts
              /\ empty \subseteq hollow \cup Devices
           \/ h.kind = "changed" /\ now = world /\ empty = {}
  <2>1. CASE h.kind = "added"
    BY <1>1, <2>1 DEF Watcher!Apply, Watcher!Drives
  <2>2. CASE h.kind = "removed"
    BY <1>1, <2>2 DEF Watcher!Apply, Watcher!Drives
  <2>3. CASE h.kind = "changed"
    BY <1>1, <2>3 DEF Watcher!Apply, Watcher!Drives
  <2>4. h.kind \in {"added", "removed", "changed"}
    BY <1>3 DEF Signal
  <2>5. QED
    BY <2>1, <2>2, <2>3, <2>4
<1> DEFINE found == Watcher!Candidates(now, empty)
<1>5. /\ managed' = now /\ hollow' = empty /\ ignored' = ignored \cup (found \ Wanted)
      /\ IF found \cap Wanted # {} THEN watch' = "ended" /\ verdict' = "pass"
         ELSE watch' = watch /\ verdict' = verdict
      /\ found \subseteq Devices
  BY <1>4 DEF Watcher!OnChange, Watcher!Candidates
<1>6. h.facts \subseteq Watcher!Facts
      /\ (h.kind = "added" => \A e \in Devices : Watcher!Fact("mounted", e) \notin h.facts)
  BY <1>2, <1>3 DEF Signal, Watcher!TypeOK
<1>7. Watcher!TypeOK'
  <2>1. managed' \subseteq Watcher!Facts /\ hollow' \subseteq Devices
    BY <1>2, <1>4, <1>5, <1>6 DEF Watcher!TypeOK
  <2>2. \A k \in DOMAIN signals' :
          signals'[k].kind = "added" =>
            \A e \in Devices : Watcher!Fact("mounted", e) \notin signals'[k].facts
    <3>1. \A k \in DOMAIN signals' : k + 1 \in DOMAIN signals /\ signals'[k] = signals[k + 1]
      BY ONLY <1>3
    <3>2. QED
      BY <1>2, <3>1 DEF Watcher!TypeOK
  <2> HIDE DEF found
  <2>3. ignored' \subseteq Devices \ Wanted
    BY <1>2, <1>5 DEF Watcher!TypeOK
  <2>4. watch' \in {"connecting", "fetched", "running", "ended"}
        /\ verdict' \in {"none", "pass", "fail"}
    BY <1>2, <1>5 DEF Watcher!TypeOK
  <2>5. QED
    BY <1>1, <1>2, <1>3, <2>1, <2>2, <2>3, <2>4 DEF Watcher!TypeOK, Signal
<1>8. Watcher!EarlySignals'
  BY <1>1, <1>5 DEF Watcher!EarlySignals
<1>9. Watcher!SignalsTellTheWorld'
  <2> SUFFICES ASSUME ~missed, NEW x \in Watcher!Facts
               PROVE
      /\ \A k \in DOMAIN signals' :
           /\ Watcher!Touches(signals'[k], x)
           /\ \A j \in DOMAIN signals' : j > k => ~Watcher!Touches(signals'[j], x)
           => signals'[k].kind = "changed" \/ (signals'[k].kind = "added" <=> x \in world)
      /\ (\A k \in DOMAIN signals' : ~Watcher!Touches(signals'[k], x)) =>
           (x \in now <=> x \in world)
    BY <1>1, <1>5 DEF Watcher!SignalsTellTheWorld
  <2> DEFINE T(k) == Watcher!Touches(signals[k], x)
             Says(k) == signals[k].kind = "changed" \/ (signals[k].kind = "added" <=> x \in world)
  <2>1. /\ \A k \in 1..n : T(k) /\ (\A j \in 1..n : j > k => ~T(j)) => Says(k)
        /\ (\A k \in 1..n : ~T(k)) => (x \in managed <=> x \in world)
    BY <1>1, <1>3 DEF Watcher!IInv, Watcher!SignalsTellTheWorld
  <2>2. \A k \in 1..(n - 1) :
          /\ Watcher!Touches(signals'[k], x) <=> T(k + 1)
          /\ (signals'[k].kind = "changed" \/ (signals'[k].kind = "added" <=> x \in world))
             <=> Says(k + 1)
    BY <1>3
  <2>3. (\A k \in 2..n : ~T(k)) => (x \in now <=> x \in world)
    <3>1. T(1) /\ Says(1) => (x \in now <=> x \in world)
      BY <1>3, <1>4 DEF Watcher!Touches
    <3>2. ~T(1) => (x \in now <=> x \in managed)
      BY <1>3, <1>4 DEF Watcher!Touches
    <3> HIDE DEF T, Says
    <3>3. QED
      BY <1>3, <2>1, <3>1, <3>2
  <2> HIDE DEF T, Says
  <2>4. ASSUME NEW k \in 1..(n - 1), T(k + 1), \A j \in 1..(n - 1) : j > k => ~T(j + 1)
        PROVE  Says(k + 1)
    <3>1. k + 1 \in 1..n /\ \A j \in 1..n : j > k + 1 => j - 1 \in 1..(n - 1) /\ j - 1 > k /\ (j - 1) + 1 = j
      BY <1>3
    <3>2. \A j \in 1..n : j > k + 1 => ~T(j)
      BY <2>4, <3>1
    <3>3. QED
      BY <2>1, <2>4, <3>1, <3>2
  <2>5. (\A k \in 1..(n - 1) : ~T(k + 1)) => \A k \in 2..n : ~T(k)
    <3>1. \A k \in 2..n : k - 1 \in 1..(n - 1) /\ (k - 1) + 1 = k
      BY <1>3
    <3>2. QED
      BY <3>1
  <2>6. QED
    BY <1>3, <2>2, <2>3, <2>4, <2>5
<1>10. Watcher!OthersWereThere'
  BY <1>1, <1>4, <1>5, <1>6 DEF Watcher!IInv, Watcher!OthersWereThere
<1>11. Watcher!OthersStayed'
  <2> SUFFICES ASSUME action = "remove", NEW e \in Devices \ done_to,
                      Watcher!Fact("partition", e) \in reference
               PROVE
         /\ Watcher!Fact("partition", e) \in world \cap now
         /\ \A k \in DOMAIN signals' : signals'[k].kind = "removed" =>
              Watcher!Fact("partition", e) \notin signals'[k].facts
    BY <1>1, <1>5 DEF Watcher!OthersStayed
  <2>1. /\ Watcher!Fact("partition", e) \in world \cap managed
        /\ \A k \in DOMAIN signals : signals[k].kind = "removed" =>
             Watcher!Fact("partition", e) \notin signals[k].facts
    BY <1>1 DEF Watcher!IInv, Watcher!OthersStayed
  <2>2. \A k \in DOMAIN signals' : k + 1 \in DOMAIN signals /\ signals'[k] = signals[k + 1]
    BY ONLY <1>3
  <2>3. h.kind = "removed" => Watcher!Fact("partition", e) \notin h.facts
    BY <1>3, <2>1
  <2>4. QED
    BY <1>4, <2>1, <2>2, <2>3
<1>12. Watcher!NothingIsOverlooked'
  BY <1>1, <1>5 DEF Watcher!NothingIsOverlooked, Watcher!Candidates, Watcher!Delta,
       Watcher!FindDrive
<1>13. Watcher!PassIsReal'
  <2>1. CASE found \cap Wanted = {}
    BY <1>1, <1>5, <2>1 DEF Watcher!IInv, Watcher!PassIsReal
  <2>2. CASE found \cap Wanted # {}
    <3>1. PICK d \in Wanted : d \in Devices /\ Watcher!Mounted(d) \subseteq Watcher!Delta(now)
      BY <2>2 DEF Watcher!Candidates
    <3>2. /\ Watcher!Fact("partition", d) \in Watcher!Delta(now)
          /\ Watcher!Fact("mounted", d) \in Watcher!Delta(now)
      BY <3>1 DEF Watcher!Mounted
    <3>3. CASE action = "insert"
      <4>1. Watcher!Fact("mounted", d) \in now /\ Watcher!Fact("mounted", d) \notin reference
        BY <3>2, <3>3 DEF Watcher!Delta
      <4>2. Watcher!Fact("mounted", d) \in world \cup managed
        BY <1>4, <1>6, <3>1, <4>1
      <4>3. d \in done_to
        BY <1>1, <3>1, <3>3, <4>1, <4>2 DEF Watcher!IInv, Watcher!OthersWereThere
      <4>4. QED
        BY <1>1, <4>3 DEF Watcher!PassIsReal
    <3>4. CASE action = "remove"
      <4>1. Watcher!Fact("partition", d) \in reference /\ Watcher!Fact("partition", d) \notin now
        BY <3>2, <3>4 DEF Watcher!Delta
      <4>2. ASSUME d \notin done_to
            PROVE  FALSE
        <5>1. /\ Watcher!Fact("partition", d) \in world \cap managed
              /\ \A k \in DOMAIN signals : signals[k].kind = "removed" =>
                   Watcher!Fact("partition", d) \notin signals[k].facts
          BY <1>1, <3>1, <3>4, <4>1, <4>2 DEF Watcher!IInv, Watcher!OthersStayed
        <5>2. h.kind = "removed" => Watcher!Fact("partition", d) \notin h.facts
          BY <1>3, <5>1
        <5>3. QED
          BY <1>4, <4>1, <5>1, <5>2
      <4>3. QED
        BY <1>1, <4>2 DEF Watcher!PassIsReal
    <3>5. QED
      BY <1>2, <3>3, <3>4 DEF Watcher!TypeOK
  <2>3. QED
    BY <2>1, <2>2
<1>14. QED
  BY <1>7, <1>8, <1>9, <1>10, <1>11, <1>12, <1>13 DEF Watcher!IInv

LEMMA NextWatcher == Watcher!IInv /\ [Watcher!Next]_watch_vars => Watcher!IInv'
<1> SUFFICES ASSUME Watcher!IInv, [Watcher!Next]_watch_vars
             PROVE  Watcher!IInv'
  OBVIOUS
<1>1. CASE UNCHANGED watch_vars
  <2>1. /\ UNCHANGED <<action, world, signals, managed, hollow, reference>>
        /\ UNCHANGED <<ignored, watch, verdict, changes, done_to, missed>>
    BY <1>1 DEF watch_vars
  <2>2. Watcher!TypeOK'
    BY <2>1 DEF Watcher!IInv, Watcher!TypeOK
  <2>3. Watcher!EarlySignals' /\ Watcher!SignalsTellTheWorld'
    BY <2>1 DEF Watcher!IInv, Watcher!EarlySignals, Watcher!SignalsTellTheWorld
  <2>4. Watcher!OthersWereThere' /\ Watcher!OthersStayed'
    BY <2>1 DEF Watcher!IInv, Watcher!OthersWereThere, Watcher!OthersStayed
  <2>5. Watcher!NothingIsOverlooked' /\ Watcher!PassIsReal'
    BY <2>1 DEF Watcher!IInv, Watcher!NothingIsOverlooked, Watcher!PassIsReal,
         Watcher!Candidates, Watcher!Delta, Watcher!FindDrive
  <2>6. QED
    BY <2>2, <2>3, <2>4, <2>5 DEF Watcher!IInv
<1>2. ASSUME NEW d \in Devices, Watcher!Mount(d)
      PROVE  Watcher!IInv'
  <2> DEFINE now == world \cup {Watcher!Fact("mounted", d)}
  <2>1. Watcher!Change(now, "changed", {}, d)
    BY <1>2 DEF Watcher!Mount
  <2>2. now \in SUBSET Watcher!Facts
    BY FactIsFact DEF Watcher!IInv, Watcher!TypeOK
  <2>3. \A e \in Devices : /\ Watcher!Fact("mounted", e) \in now \ world => e = d
                           /\ Watcher!Fact("partition", e) \notin world \ now
    BY FactsDiffer
  <2> HIDE DEF now
  <2>4. QED
    BY <2>1, <2>2, <2>3, ChangeKeeps
<1>3. ASSUME NEW d \in Devices, NEW what \in {"drive", "partition"}, Watcher!Plug(d, what)
      PROVE  Watcher!IInv'
  <2> DEFINE facts == {Watcher!Fact(what, d)}
             now == world \cup facts
  <2>1. Watcher!Change(now, "added", facts, d)
    BY <1>3 DEF Watcher!Plug
  <2>2. facts \in SUBSET Watcher!Facts
    BY FactIsFact
  <2>3. now \in SUBSET Watcher!Facts
    BY <2>2 DEF Watcher!IInv, Watcher!TypeOK
  <2>4. \A e \in Devices : Watcher!Fact("mounted", e) \notin facts
    BY FactsDiffer
  <2>5. \A x \in Watcher!Facts : /\ x \in facts => x \in now
                                 /\ x \notin facts => (x \in now <=> x \in world)
    OBVIOUS
  <2>6. \A e \in Devices : /\ Watcher!Fact("mounted", e) \notin now \ world
                           /\ Watcher!Fact("partition", e) \notin world \ now
    BY <2>4
  <2> HIDE DEF now, facts
  <2>7. QED
    BY <2>1, <2>2, <2>3, <2>4, <2>5, <2>6, ChangeKeeps
<1>4. ASSUME NEW d \in Devices, NEW what \in {"drive", "partition"}, Watcher!Unplug(d, what)
      PROVE  Watcher!IInv'
  <2> DEFINE gone == IF what = "drive" THEN {Watcher!Fact("drive", d)} ELSE Watcher!Mounted(d)
             now == world \ gone
  <2>1. Watcher!Change(now, "removed", gone, d)
    BY <1>4 DEF Watcher!Unplug
  <2>2. gone \in SUBSET Watcher!Facts
    BY FactIsFact DEF Watcher!Mounted
  <2>3. now \in SUBSET Watcher!Facts
    BY DEF Watcher!IInv, Watcher!TypeOK
  <2>4. \A e \in Devices : Watcher!Fact("partition", e) \in gone => e = d
    BY FactsDiffer DEF Watcher!Mounted
  <2>5. \A x \in Watcher!Facts : /\ x \in gone => x \notin now
                                 /\ x \notin gone => (x \in now <=> x \in world)
    OBVIOUS
  <2>6. \A e \in Devices : /\ Watcher!Fact("mounted", e) \notin now \ world
                           /\ Watcher!Fact("partition", e) \in world \ now => e = d
    BY <2>4
  <2> HIDE DEF now, gone
  <2>7. QED
    BY <2>1, <2>2, <2>3, <2>4, <2>5, <2>6, ChangeKeeps
<1>5. CASE Watcher!Fetch
  <2>1. /\ watch = "connecting" /\ managed' = world /\ watch' = "fetched"
        /\ UNCHANGED <<action, world, signals, hollow, reference>>
        /\ UNCHANGED <<ignored, verdict, changes, done_to, missed>>
    BY <1>5 DEF Watcher!Fetch
  <2>2. Watcher!TypeOK'
    BY <2>1 DEF Watcher!IInv, Watcher!TypeOK
  <2>3. Watcher!EarlySignals' /\ Watcher!SignalsTellTheWorld'
    BY <2>1 DEF Watcher!IInv, Watcher!EarlySignals, Watcher!SignalsTellTheWorld
  <2>4. Watcher!OthersWereThere' /\ Watcher!OthersStayed'
    BY <2>1 DEF Watcher!OthersWereThere, Watcher!OthersStayed
  <2>5. Watcher!NothingIsOverlooked' /\ Watcher!PassIsReal'
    BY <2>1 DEF Watcher!IInv, Watcher!NothingIsOverlooked, Watcher!PassIsReal
  <2>6. QED
    BY <2>2, <2>3, <2>4, <2>5 DEF Watcher!IInv
<1>6. CASE Watcher!Connect
  <2>1. /\ watch = "fetched" /\ reference' = managed /\ watch' = "running"
        /\ UNCHANGED <<action, world, signals, managed, hollow>>
        /\ UNCHANGED <<ignored, verdict, changes, done_to, missed>>
    BY <1>6 DEF Watcher!Connect
  <2>2. Watcher!TypeOK'
    BY <2>1 DEF Watcher!IInv, Watcher!TypeOK
  <2>3. Watcher!EarlySignals' /\ Watcher!SignalsTellTheWorld'
    BY <2>1 DEF Watcher!IInv, Watcher!EarlySignals, Watcher!SignalsTellTheWorld
  <2>4. Watcher!OthersWereThere' /\ Watcher!OthersStayed'
    BY <2>1 DEF Watcher!IInv, Watcher!OthersWereThere, Watcher!OthersStayed,
                Watcher!EarlySignals
  <2>5. Watcher!NothingIsOverlooked' /\ Watcher!PassIsReal'
    BY <2>1 DEF Watcher!IInv, Watcher!NothingIsOverlooked, Watcher!PassIsReal,
         Watcher!Candidates, Watcher!Delta, Watcher!Mounted
  <2>6. QED
    BY <2>2, <2>3, <2>4, <2>5 DEF Watcher!IInv
<1>7. CASE Watcher!TimeOut
  <2>1. /\ watch' = "ended" /\ verdict' = "fail"
        /\ UNCHANGED <<action, world, signals, managed, hollow, reference>>
        /\ UNCHANGED <<ignored, changes, done_to, missed>>
    BY <1>7 DEF Watcher!TimeOut
  <2>2. Watcher!TypeOK'
    BY <2>1 DEF Watcher!IInv, Watcher!TypeOK
  <2>3. QED
    BY <2>1, <2>2 DEF Watcher!IInv, Watcher!EarlySignals, Watcher!SignalsTellTheWorld,
         Watcher!OthersWereThere, Watcher!OthersStayed, Watcher!NothingIsOverlooked,
         Watcher!PassIsReal
<1>8. QED
  BY <1>1, <1>2, <1>3, <1>4, <1>5, <1>6, <1>7, HandleKeeps DEF Watcher!Next

LEMMA WatcherIsKept ==
  Watcher!IInv => Watcher!ModelIsWorld /\ Watcher!PassIsReal /\ Watcher!ManipulationIsSeen
<1> SUFFICES ASSUME Watcher!IInv
             PROVE  Watcher!ModelIsWorld /\ Watcher!ManipulationIsSeen
  BY DEF Watcher!IInv
<1>1. world \subseteq Watcher!Facts /\ managed \subseteq Watcher!Facts
      /\ reference \subseteq Watcher!Facts /\ ignored \cap Wanted = {}
      /\ action \in {"insert", "remove"}
  BY DEF Watcher!IInv, Watcher!TypeOK
<1>2. ASSUME watch = "running", signals = <<>>, ~missed
      PROVE  managed = world
  <2>1. \A x \in Watcher!Facts : x \in managed <=> x \in world
    BY <1>2 DEF Watcher!IInv, Watcher!SignalsTellTheWorld
  <2>2. QED
    BY <1>1, <2>1
<1>3. Watcher!ModelIsWorld
  BY <1>2 DEF Watcher!ModelIsWorld
<1>4. Watcher!ManipulationIsSeen
  <2> SUFFICES ASSUME watch = "running", signals = <<>>, ~missed, NEW d \in Wanted,
                      Watcher!Mounted(d) \subseteq Watcher!Delta(world)
               PROVE  IF action = "insert" THEN Watcher!Fact("drive", d) \notin world
                      ELSE \/ d \in hollow
                           \/ Watcher!Fact("drive", d) \notin reference \cup world
    BY DEF Watcher!ManipulationIsSeen
  <2>1. managed = world
    BY <1>2
  <2>2. d \in Devices
    <3>1. Watcher!Fact("mounted", d) \in Watcher!Facts
      BY <1>1 DEF Watcher!Mounted, Watcher!Delta
    <3>2. QED
      BY <3>1 DEF Watcher!Fact, Watcher!Facts
  <2>3. ~Watcher!FindDrive(d, managed, hollow)
    BY <1>1, <2>1, <2>2 DEF Watcher!IInv, Watcher!NothingIsOverlooked, Watcher!Candidates
  <2>4. QED
    BY <2>1, <2>3 DEF Watcher!FindDrive
<1>5. QED
  BY <1>3, <1>4

-----------------------------------------------------------------------------
(* The backend.                                                            *)

LEMMA AppendTwo ==
  ASSUME NEW S, NEW s \in Seq(S), NEW a \in S, NEW b \in S
  PROVE  LET t == s \o <<a, b>>
             n == Len(s)
         IN  /\ t \in Seq(S) /\ n \in Nat /\ DOMAIN s = 1..n
             /\ DOMAIN t = 1..(n + 2)
             /\ \A k \in 1..n : t[k] = s[k]
             /\ t[n + 1] = a /\ t[n + 2] = b
OBVIOUS

LEMMA DropTwo ==
  ASSUME NEW S, NEW s \in Seq(S), Len(s) >= 2
  PROVE  LET t == SubSeq(s, 3, Len(s))
         IN  /\ t \in Seq(S)
             /\ \A k \in DOMAIN t : k + 2 \in DOMAIN s /\ t[k] = s[k + 2]
             /\ 1 \in DOMAIN s /\ 2 \in DOMAIN s
             /\ SubSeq(s, 1, 2)[1] = s[1] /\ SubSeq(s, 1, 2)[2] = s[2]
OBVIOUS

LEMMA TakeOne ==
  ASSUME NEW S, NEW s \in Seq(S), s # <<>>
  PROVE  /\ Tail(s) \in Seq(S)
         /\ \A k \in DOMAIN Tail(s) : k + 1 \in DOMAIN s /\ k + 1 # 1 /\ Tail(s)[k] = s[k + 1]
         /\ 1 \in DOMAIN s /\ Head(s) = s[1] /\ Head(s) \in S
OBVIOUS

LEMMA ReplaceFirst ==
  ASSUME NEW S, NEW s \in Seq(S), s # <<>>, NEW e \in S
  PROVE  LET t == [s EXCEPT ![1] = e]
         IN  /\ t \in Seq(S) /\ DOMAIN t = DOMAIN s /\ 1 \in DOMAIN s
             /\ t[1] = e /\ \A k \in DOMAIN s : k # 1 => t[k] = s[k]
OBVIOUS

LEMMA JobsFacts ==
  /\ Attempts \in Nat /\ Len(BackendJobs) \in Nat /\ DOMAIN BackendJobs = 1..Len(BackendJobs)
  /\ \A k \in DOMAIN BackendJobs : BackendJobs[k] \in Backend!Names
  /\ \A k, l \in DOMAIN BackendJobs : BackendJobs[k] = BackendJobs[l] => k = l
  /\ \A j \in Backend!Names :
       j \notin {"ping", "pong", "stop", "none", "refused", "nothing"}
<1>1. Backend!JobsAssumption
  BY PartsAssumption
<1>2. Attempts \in Nat /\ BackendJobs \in Seq(Backend!Names)
  BY <1>1 DEF Backend!JobsAssumption
<1>3. \A S : \A s \in Seq(S) :
        Len(s) \in Nat /\ DOMAIN s = 1..Len(s) /\ \A k \in DOMAIN s : s[k] \in S
  OBVIOUS
<1>4. \A k, l \in DOMAIN BackendJobs : BackendJobs[k] = BackendJobs[l] => k = l
  BY <1>1 DEF Backend!JobsAssumption, Backend!IsInjective
<1>5. \A j \in Backend!Names :
        j \notin {"ping", "pong", "stop", "none", "refused", "nothing"}
  BY <1>1 DEF Backend!JobsAssumption
<1>6. QED
  BY <1>2, <1>3, <1>4, <1>5

LEMMA InitBackend == Backend!Init => Backend!IInv
<1> SUFFICES ASSUME Backend!Init
             PROVE  Backend!IInv
  OBVIOUS
<1>1. \A S : <<>> \in Seq(S)
  OBVIOUS
<1>2. DOMAIN input = {} /\ DOMAIN output = {}
  BY DEF Backend!Init
<1>3. Backend!TypeOK
  BY <1>1, <1>2, JobsFacts DEF Backend!Init, Backend!TypeOK
<1>4. Backend!NumberedInOrder /\ Backend!NumbersAreAnswered /\ Backend!ReadOnce
      /\ Backend!UnsentIsUnknown /\ Backend!ResultIsOfJob
  BY <1>2 DEF Backend!Init, Backend!NumberedInOrder, Backend!NumbersAreAnswered,
       Backend!ReadOnce, Backend!UnsentIsUnknown, Backend!ResultIsOfJob, Backend!Holds,
       Backend!Asks, Backend!Body
<1>5. QED
  BY <1>3, <1>4 DEF Backend!IInv

\* What the parent writes.
LEMMA WriteFacts ==
  ASSUME Backend!TypeOK, NEW text \in Backend!Texts, Backend!Write(text)
  PROVE  /\ input' \in Seq(Backend!Message)
         /\ expected_sequence' = next_sequence /\ next_sequence' = next_sequence + 1
         /\ \A k \in DOMAIN input :
              k \in DOMAIN input' /\ input'[k] = input[k] /\ input[k] \in Backend!Message
         /\ \E last \in Nat \ DOMAIN input :
              \A k \in DOMAIN input' \ DOMAIN input :
                /\ input'[k].seq = next_sequence /\ input'[k].text = text
                /\ input'[k].part = IF k = last THEN "body" ELSE "length"
<1> DEFINE a == [part |-> "length", seq |-> next_sequence, text |-> text]
           b == [part |-> "body", seq |-> next_sequence, text |-> text]
           n == Len(input)
<1>1. input \in Seq(Backend!Message) /\ next_sequence \in Nat
  BY DEF Backend!TypeOK
<1>2. a \in Backend!Message /\ b \in Backend!Message
  BY <1>1 DEF Backend!Message
<1>3. /\ a.part = "length" /\ a.seq = next_sequence /\ a.text = text
      /\ b.part = "body" /\ b.seq = next_sequence /\ b.text = text
  OBVIOUS
<1>4. input' = input \o <<a, b>>
      /\ expected_sequence' = next_sequence /\ next_sequence' = next_sequence + 1
  BY DEF Backend!Write, Backend!Parts
<1> HIDE DEF a, b
<1>5. /\ input' \in Seq(Backend!Message) /\ n \in Nat /\ DOMAIN input = 1..n
      /\ DOMAIN input' = 1..(n + 2)
      /\ \A k \in 1..n : input'[k] = input[k]
      /\ input'[n + 1] = a /\ input'[n + 2] = b
  BY <1>1, <1>2, <1>4, AppendTwo
<1>6. \A k \in DOMAIN input : input[k] \in Backend!Message
  BY <1>1
<1> HIDE DEF n
<1>7. n + 2 \in Nat \ DOMAIN input
      /\ \A k \in DOMAIN input : k \in DOMAIN input'
      /\ \A m \in DOMAIN input' \ DOMAIN input : m \in {n + 1, n + 2}
  BY <1>5
<1>8. \A k \in DOMAIN input' \ DOMAIN input :
                /\ input'[k].seq = next_sequence /\ input'[k].text = text
                /\ input'[k].part = IF k = n + 2 THEN "body" ELSE "length"
  BY <1>3, <1>5, <1>7
<1>9. QED
  BY <1>4, <1>5, <1>6, <1>7, <1>8

\* A step of the parent that writes a message keeps what holds of messages.  The
\* body of a job is written only if the job was not sent before.
LEMMA WriteKeeps ==
  ASSUME Backend!IInv, NEW text \in Backend!Texts, Backend!Write(text),
         UNCHANGED <<output, hand, results, executed>>,
         \A b \in Backend!Backends : Backend!Holds(b)' => Backend!Holds(b),
         Backend!Asks' => Backend!Asked' = text,
         text \in Backend!Names => Backend!Unsent(text),
         \A j \in Backend!Names :
           /\ Backend!Unsent(j)' \/ (parent' = "executing" /\ BackendJobs[job'] = j) =>
                Backend!Unsent(j)
           /\ Backend!Unsent(j)' => j # text
  PROVE  /\ Backend!NumberedInOrder' /\ Backend!NumbersAreAnswered' /\ Backend!UnsentIsUnknown'
         /\ Backend!ReadOnce' /\ Backend!ResultIsOfJob'
<1>1. /\ input' \in Seq(Backend!Message)
      /\ expected_sequence' = next_sequence /\ next_sequence' = next_sequence + 1
      /\ \A k \in DOMAIN input :
           k \in DOMAIN input' /\ input'[k] = input[k] /\ input[k] \in Backend!Message
  BY WriteFacts DEF Backend!IInv
<1>2. PICK last \in Nat \ DOMAIN input :
        \A k \in DOMAIN input' \ DOMAIN input :
          /\ input'[k].seq = next_sequence /\ input'[k].text = text
          /\ input'[k].part = IF k = last THEN "body" ELSE "length"
  BY WriteFacts DEF Backend!IInv
<1>3. next_sequence \in Nat
  BY DEF Backend!IInv, Backend!TypeOK
<1>4. /\ \A k \in DOMAIN input : input[k].seq < next_sequence
      /\ \A b \in Backend!Backends : Backend!Holds(b) =>
           hand[b] \in Backend!Message /\ hand[b].seq < next_sequence
      /\ \A k \in DOMAIN output : output[k].seq < next_sequence
  BY DEF Backend!IInv, Backend!NumberedInOrder
<1>5. \A k \in DOMAIN input : input[k].seq \in Nat
  BY <1>1 DEF Backend!Message
<1>6. \A k \in DOMAIN output : output[k].seq \in Nat
  <2>1. output \in Seq(Backend!Message)
    BY DEF Backend!IInv, Backend!TypeOK
  <2>2. \A k \in DOMAIN output : output[k] \in Backend!Message
    BY <2>1
  <2>3. QED
    BY <2>2 DEF Backend!Message
<1>7. \A b \in Backend!Backends :
        /\ Backend!Holds(b)' => Backend!Holds(b)
        /\ Backend!Holds(b) => hand[b].seq \in Nat
  BY <1>4 DEF Backend!Message
<1>8. Backend!NumberedInOrder'
  <2>1. \A k \in DOMAIN input' : input'[k].seq < next_sequence + 1
    BY <1>1, <1>2, <1>3, <1>4, <1>5
  <2>2. \A b \in Backend!Backends : Backend!Holds(b)' =>
          hand[b] \in Backend!Message /\ hand[b].seq < next_sequence + 1
    BY <1>3, <1>4, <1>7
  <2>3. \A k \in DOMAIN output : output[k].seq < next_sequence + 1
    BY <1>3, <1>4, <1>6
  <2>4. QED
    BY <1>1, <2>1, <2>2, <2>3 DEF Backend!NumberedInOrder
<1>9. Backend!NumbersAreAnswered'
  <2> SUFFICES ASSUME Backend!Asks'
               PROVE
         /\ \A k \in DOMAIN input' : input'[k].seq = next_sequence => input'[k].text = text
         /\ \A b \in Backend!Backends :
              Backend!Holds(b) /\ hand[b].seq = next_sequence => hand[b].text = text
         /\ \A k \in DOMAIN output :
              output[k].seq = next_sequence => output[k].text = Backend!AnswerTo(text)
    BY <1>1, <1>7 DEF Backend!NumbersAreAnswered, Backend!IsExpected
  <2>1. \A k \in DOMAIN input' : input'[k].seq = next_sequence => input'[k].text = text
    BY <1>1, <1>2, <1>3, <1>4, <1>5
  <2>2. \A b \in Backend!Backends :
              Backend!Holds(b) /\ hand[b].seq = next_sequence => hand[b].text = text
    BY <1>3, <1>4, <1>7
  <2>3. \A k \in DOMAIN output :
              output[k].seq = next_sequence => output[k].text = Backend!AnswerTo(text)
    BY <1>3, <1>4, <1>6
  <2>4. QED
    BY <2>1, <2>2, <2>3
\* The bodies of a job are those that were there and the new one.
<1>10. \A j \in Backend!Names : \A k \in DOMAIN input' : Backend!Body(k, j)' =>
         \/ k \in DOMAIN input /\ Backend!Body(k, j)
         \/ k = last /\ j = text
  BY <1>1, <1>2 DEF Backend!Body
<1>11. \A j \in Backend!Names : Backend!Unsent(j) \/ results[j] = "refused" =>
         executed[j] = 0 /\ \A k \in DOMAIN input : ~Backend!Body(k, j)
  BY DEF Backend!IInv, Backend!UnsentIsUnknown
<1>12. \A j \in Backend!Names : Backend!Unsent(j) => results[j] = "none"
  BY DEF Backend!IInv, Backend!UnsentIsUnknown
<1>13. Backend!UnsentIsUnknown'
  <2> SUFFICES ASSUME NEW j \in Backend!Names
               PROVE
        /\ Backend!Unsent(j)' \/ (parent' = "executing" /\ BackendJobs[job'] = j) =>
             results[j] = "none"
        /\ Backend!Unsent(j)' \/ results[j] = "refused" =>
             executed[j] = 0 /\ \A k \in DOMAIN input' : ~Backend!Body(k, j)'
    BY DEF Backend!UnsentIsUnknown
  <2>1. Backend!Unsent(j)' \/ (parent' = "executing" /\ BackendJobs[job'] = j) =>
             results[j] = "none"
    BY <1>12
  <2>2. results[j] = "refused" => j # text
    BY <1>12
  <2>3. Backend!Unsent(j)' \/ results[j] = "refused" =>
             executed[j] = 0 /\ \A k \in DOMAIN input' : ~Backend!Body(k, j)'
    BY <1>10, <1>11, <2>2
  <2>4. QED
    BY <2>1, <2>3
<1>14. Backend!ReadOnce'
  <2> SUFFICES ASSUME NEW j \in Backend!Names
               PROVE
        /\ executed[j] <= 1
        /\ \A k \in DOMAIN input' : Backend!Body(k, j)' =>
             executed[j] = 0 /\ \A m \in DOMAIN input' : Backend!Body(m, j)' => m = k
    BY DEF Backend!ReadOnce
  <2>1. /\ executed[j] <= 1
        /\ \A k \in DOMAIN input : Backend!Body(k, j) =>
             executed[j] = 0 /\ \A m \in DOMAIN input : Backend!Body(m, j) => m = k
    BY DEF Backend!IInv, Backend!ReadOnce
  <2>2. CASE j = text
    <3>1. executed[j] = 0 /\ \A k \in DOMAIN input : ~Backend!Body(k, j)
      BY <1>11, <2>2
    <3>2. QED
      BY <1>10, <2>1, <3>1
  <2>3. CASE j # text
    BY <1>10, <2>1, <2>3
  <2>4. QED
    BY <2>2, <2>3
<1>15. Backend!ResultIsOfJob'
  BY DEF Backend!IInv, Backend!ResultIsOfJob
<1>16. QED
  BY <1>8, <1>9, <1>13, <1>14, <1>15

\* t is s without what was taken from its front.
Shortened(s, t) ==
  \E d \in Nat : \A k \in DOMAIN t : k + d \in DOMAIN s /\ t[k] = s[k + d]

LEMMA ShortenedFacts ==
  ASSUME NEW S, NEW s \in Seq(S)
  PROVE  /\ Shortened(s, s)
         /\ s # <<>> => Shortened(s, Tail(s))
         /\ Len(s) >= 2 => Shortened(s, SubSeq(s, 3, Len(s)))
<1>1. \A k \in DOMAIN s : k + 0 \in DOMAIN s /\ s[k] = s[k + 0]
  OBVIOUS
<1>2. s # <<>> => \A k \in DOMAIN Tail(s) : k + 1 \in DOMAIN s /\ Tail(s)[k] = s[k + 1]
  BY TakeOne
<1>3. Len(s) >= 2 => \A k \in DOMAIN SubSeq(s, 3, Len(s)) :
        k + 2 \in DOMAIN s /\ SubSeq(s, 3, Len(s))[k] = s[k + 2]
  BY DropTwo
<1>4. 0 \in Nat /\ 1 \in Nat /\ 2 \in Nat
  OBVIOUS
<1>5. QED
  BY ONLY <1>1, <1>2, <1>3, <1>4 DEF Shortened

\* A step that takes messages away, or none, keeps what holds of them.
LEMMA TakeKeeps ==
  ASSUME Backend!IInv,
         Shortened(input, input'), DOMAIN input' \subseteq Nat, Shortened(output, output'),
         UNCHANGED <<next_sequence, expected_sequence, executed>>,
         \A b \in Backend!Backends : Backend!Holds(b)' =>
           \/ Backend!Holds(b) /\ hand'[b] = hand[b]
           \/ \E k \in DOMAIN input : hand'[b] = input[k],
         Backend!Asks' => Backend!Asks /\ Backend!Asked' = Backend!Asked,
         \A j \in Backend!Names :
           /\ Backend!Unsent(j)' => Backend!Unsent(j) /\ results'[j] = results[j]
           /\ parent' = "executing" /\ BackendJobs[job'] = j =>
                parent = "executing" /\ BackendJobs[job] = j /\ results'[j] = results[j]
           /\ results'[j] = "refused" => results[j] = "refused" \/ Backend!Unsent(j)
  PROVE  /\ Backend!NumberedInOrder' /\ Backend!NumbersAreAnswered' /\ Backend!UnsentIsUnknown'
         /\ Backend!ReadOnce'
<1>10. PICK d \in Nat :
        \A k \in DOMAIN input' : k + d \in DOMAIN input /\ input'[k] = input[k + d]
  BY DEF Shortened
<1>11. PICK e \in Nat :
        \A k \in DOMAIN output' : k + e \in DOMAIN output /\ output'[k] = output[k + e]
  BY DEF Shortened
<1>1. input \in Seq(Backend!Message) /\ \A k \in DOMAIN input : input[k] \in Backend!Message
  BY DEF Backend!IInv, Backend!TypeOK
<1>2. Backend!NumberedInOrder'
  BY <1>10, <1>11, <1>1 DEF Backend!IInv, Backend!NumberedInOrder
<1>3. Backend!NumbersAreAnswered'
  BY <1>10, <1>11 DEF Backend!IInv, Backend!NumbersAreAnswered, Backend!IsExpected,
       Backend!AnswerTo
<1>4. \A j \in Backend!Names : \A k \in DOMAIN input' :
        Backend!Body(k, j)' => k + d \in DOMAIN input /\ Backend!Body(k + d, j)
  BY <1>10 DEF Backend!Body
<1>5. Backend!UnsentIsUnknown'
  BY <1>4 DEF Backend!IInv, Backend!UnsentIsUnknown
<1>6. Backend!ReadOnce'
  <2> SUFFICES ASSUME NEW j \in Backend!Names
               PROVE
        /\ executed[j] <= 1
        /\ \A k \in DOMAIN input' : Backend!Body(k, j)' =>
             executed[j] = 0 /\ \A m \in DOMAIN input' : Backend!Body(m, j)' => m = k
    BY DEF Backend!ReadOnce
  <2>1. /\ executed[j] <= 1
        /\ \A k \in DOMAIN input : Backend!Body(k, j) =>
             executed[j] = 0 /\ \A m \in DOMAIN input : Backend!Body(m, j) => m = k
    BY DEF Backend!IInv, Backend!ReadOnce
  <2>2. \A k, m \in DOMAIN input' : k + d = m + d => k = m
    BY <1>10
  <2>3. QED
    BY <1>4, <2>1, <2>2
<1>7. QED
  BY <1>2, <1>3, <1>5, <1>6

\* The answer that was waited for is taken from the output.
LEMMA ReceivedFacts ==
  ASSUME Backend!TypeOK, Len(output) >= 2, output' = SubSeq(output, 3, Len(output))
  PROVE  /\ Shortened(output, output') /\ output' \in Seq(Backend!Message)
         /\ 2 \in DOMAIN output /\ Backend!Received[2] = output[2]
<1>1. output \in Seq(Backend!Message)
  BY DEF Backend!TypeOK
<1>2. QED
  BY <1>1, ShortenedFacts, DropTwo DEF Backend!Received

LEMMA InputStays ==
  ASSUME Backend!TypeOK
  PROVE  Shortened(input, input) /\ Shortened(output, output) /\ DOMAIN input \subseteq Nat
         /\ DOMAIN output \subseteq Nat
<1>1. input \in Seq(Backend!Message) /\ output \in Seq(Backend!Message)
  BY DEF Backend!TypeOK
<1>2. \A S : \A s \in Seq(S) : DOMAIN s \subseteq Nat
  OBVIOUS
<1>3. QED
  BY <1>1, <1>2, ShortenedFacts

\* The steps of the parent that write.
LEMMA ParentWrites ==
  ASSUME Backend!IInv,
         Backend!Spawn \/ (Backend!Exec /\ backend_is_alive) \/ Backend!Send \/ Backend!Stop
  PROVE  Backend!IInv'
<1>1. Backend!TypeOK
  BY DEF Backend!IInv
<1>2. /\ results \in [Backend!Names -> Backend!Names \cup {"none", "refused"}]
      /\ job \in 0..Len(BackendJobs) /\ Len(BackendJobs) \in Nat
      /\ at \in [Backend!Backends ->
                   {"none", "starting", "idle", "length", "answering", "body", "ended"}]
      /\ spawned \in 0..Attempts
  BY <1>1, JobsFacts DEF Backend!TypeOK
<1>3. "ping" \in Backend!Texts /\ "stop" \in Backend!Texts
      /\ "ping" \notin Backend!Names /\ "stop" \notin Backend!Names
  BY JobsFacts DEF Backend!Texts
<1>0. UNCHANGED at => \A b \in Backend!Backends : Backend!Holds(b)' => Backend!Holds(b)
  BY DEF Backend!Holds
<1> DEFINE Kept == /\ Backend!NumberedInOrder' /\ Backend!NumbersAreAnswered'
                   /\ Backend!UnsentIsUnknown' /\ Backend!ReadOnce' /\ Backend!ResultIsOfJob'
\* The types, when a text was written.
<1>4. ASSUME NEW text \in Backend!Texts, Backend!Write(text),
             UNCHANGED <<output, hand, results, executed>>,
             at' \in [Backend!Backends ->
                        {"none", "starting", "idle", "length", "answering", "body", "ended"}],
             parent' \in {"gathering", "pinged", "ready", "checking", "sending", "executing",
                          "refusing", "reaping", "stopped"},
             spawned' \in 0..Attempts, job' \in 0..Len(BackendJobs),
             parent' \in {"checking", "sending", "executing", "refusing"} => job' > 0
      PROVE  Backend!TypeOK'
  <2>1. /\ input' \in Seq(Backend!Message)
        /\ expected_sequence' = next_sequence /\ next_sequence' = next_sequence + 1
        /\ \A k \in DOMAIN input : k \in DOMAIN input' /\ input'[k] = input[k]
        /\ \A k \in DOMAIN input' \ DOMAIN input : input'[k].text = text
    BY <1>1, <1>4, WriteFacts
  <2>2. \A k \in DOMAIN input' : input'[k].text \in Backend!Texts
    BY <1>1, <1>4, <2>1 DEF Backend!TypeOK
  <2>3. next_sequence' \in Nat /\ expected_sequence' \in 0..next_sequence'
    BY <1>1, <2>1 DEF Backend!TypeOK
  <2>4. QED
    BY <1>1, <1>4, <2>1, <2>2, <2>3 DEF Backend!TypeOK
<1>5. CASE Backend!Spawn
  <2>1. /\ parent = "gathering" /\ spawned < Attempts /\ spawned' = spawned + 1
        /\ at' = [at EXCEPT ![spawned + 1] = "starting"]
        /\ Backend!Write("ping") /\ parent' = "pinged"
        /\ UNCHANGED <<output, hand, job, results, executed>>
    BY <1>5 DEF Backend!Spawn
  <2>2. Backend!TypeOK'
    <3>1. spawned' \in 0..Attempts
      BY <1>2, <2>1, JobsFacts
    <3>2. at' \in [Backend!Backends ->
                     {"none", "starting", "idle", "length", "answering", "body", "ended"}]
      BY <1>2, <2>1
    <3>3. QED
      BY <1>2, <1>3, <1>4, <2>1, <3>1, <3>2
  <2>3. \A b \in Backend!Backends : Backend!Holds(b)' => Backend!Holds(b)
    BY <1>2, <2>1, JobsFacts DEF Backend!Holds, Backend!Backends
  <2>4. \A j \in Backend!Names : Backend!Unsent(j)' => Backend!Unsent(j)
    BY <2>1 DEF Backend!Unsent
  <2>5. Backend!Asked' = "ping"
    BY <2>1 DEF Backend!Asked
  <2>6. Kept
    BY <1>3, <2>1, <2>3, <2>4, <2>5, WriteKeeps
  <2>7. QED
    BY <2>2, <2>6 DEF Backend!IInv
<1>6. CASE Backend!Exec /\ backend_is_alive
  <2>1. /\ parent = "ready" /\ job < Len(BackendJobs) /\ job' = job + 1
        /\ Backend!Write("ping") /\ parent' = "checking"
        /\ UNCHANGED <<output, at, hand, spawned, results, executed>>
    BY <1>6 DEF Backend!Exec
  <2>2. Backend!TypeOK'
    <3>1. job' \in 0..Len(BackendJobs) /\ job' > 0
      BY <1>2, <2>1
    <3>2. QED
      BY <1>2, <1>3, <1>4, <2>1, <3>1
  <2>3. \A j \in Backend!Names : Backend!Unsent(j)' => Backend!Unsent(j)
    BY <1>2, <2>1, JobsFacts DEF Backend!Unsent
  <2>4. Backend!Asked' = "ping"
    BY <2>1 DEF Backend!Asked
  <2>5. Kept
    BY <1>0, <1>3, <2>1, <2>3, <2>4, WriteKeeps
  <2>6. QED
    BY <2>2, <2>5 DEF Backend!IInv
<1>7. CASE Backend!Send
  <2>1. /\ parent = "sending" /\ Backend!Write(BackendJobs[job]) /\ parent' = "executing"
        /\ UNCHANGED <<output, at, hand, spawned, job, results, executed>>
    BY <1>7 DEF Backend!Send
  <2>2. job \in DOMAIN BackendJobs /\ BackendJobs[job] \in Backend!Names
        /\ BackendJobs[job] \in Backend!Texts
    BY <1>1, <1>2, <2>1, JobsFacts DEF Backend!TypeOK, Backend!Texts
  <2>3. Backend!TypeOK'
    <3>1. job > 0
      BY <1>1, <2>1 DEF Backend!TypeOK
    <3>2. QED
      BY <1>2, <1>4, <2>1, <2>2, <3>1
  <2>4. Backend!Unsent(BackendJobs[job])
    BY <2>1 DEF Backend!Unsent
  <2>5. \A j \in Backend!Names :
          /\ Backend!Unsent(j)' => Backend!Unsent(j) /\ j # BackendJobs[job]
          /\ BackendJobs[job] = j => Backend!Unsent(j)
    BY <1>2, <2>1, <2>2, <2>4, JobsFacts DEF Backend!Unsent
  <2>6. Backend!Asked' = BackendJobs[job]
    BY <2>1 DEF Backend!Asked
  <2>7. Kept
    BY <1>0, <2>1, <2>2, <2>4, <2>5, <2>6, WriteKeeps
  <2>8. QED
    BY <2>3, <2>7 DEF Backend!IInv
<1>8. CASE Backend!Stop
  <2>1. /\ parent = "ready" /\ Backend!Write("stop") /\ parent' \in {"reaping", "stopped"}
        /\ UNCHANGED <<output, at, hand, spawned, job, results, executed>>
    BY <1>8 DEF Backend!Stop
  <2>2. Backend!TypeOK'
    BY <1>2, <1>3, <1>4, <2>1
  <2>3. \A j \in Backend!Names : Backend!Unsent(j)' => Backend!Unsent(j)
    BY <2>1 DEF Backend!Unsent
  <2>4. ~Backend!Asks'
    BY <2>1 DEF Backend!Asks
  <2>5. Kept
    BY <1>0, <1>3, <2>1, <2>3, <2>4, WriteKeeps
  <2>6. QED
    BY <2>2, <2>5 DEF Backend!IInv
<1>9. QED
  BY <1>5, <1>6, <1>7, <1>8

\* A step of the parent that does not write: what it asks, and what is not sent,
\* stays or becomes less.
LEMMA ParentKeeps ==
  ASSUME Backend!IInv,
         UNCHANGED <<input, at, hand, next_sequence, expected_sequence, spawned, executed>>,
         Shortened(output, output'), output' \in Seq(Backend!Message),
         parent' \in {"gathering", "pinged", "ready", "checking", "sending", "executing",
                      "refusing", "reaping", "stopped"},
         job' \in 0..Len(BackendJobs),
         parent' \in {"checking", "sending", "executing", "refusing"} => job' > 0,
         parent' \in {"pinged", "checking", "executing"} => parent' = parent /\ job' = job,
         \A j \in Backend!Names :
           /\ results'[j] \in {results[j], "refused", j}
           /\ Backend!Unsent(j)' => Backend!Unsent(j)
           /\ Backend!Unsent(j)' \/ parent' = "executing" => results'[j] = results[j]
           /\ results'[j] = "refused" => results[j] = "refused" \/ Backend!Unsent(j),
         DOMAIN results' = Backend!Names, results' \in [Backend!Names -> Backend!Names \cup {"none", "refused"}]
  PROVE  Backend!IInv'
<1>1. Backend!TypeOK
  BY DEF Backend!IInv
<1>2. Backend!TypeOK'
  BY <1>1 DEF Backend!TypeOK
<1>3. Backend!ResultIsOfJob'
  BY DEF Backend!IInv, Backend!ResultIsOfJob
<1>4. Shortened(input, input') /\ DOMAIN input' \subseteq Nat
  BY <1>1, InputStays
<1>5. Backend!Asks' => Backend!Asks /\ Backend!Asked' = Backend!Asked
  BY DEF Backend!Asks, Backend!Asked
<1>6. \A b \in Backend!Backends : Backend!Holds(b)' => Backend!Holds(b) /\ hand'[b] = hand[b]
  BY DEF Backend!Holds
<1>7. \A j \in Backend!Names :
        /\ Backend!Unsent(j)' => Backend!Unsent(j) /\ results'[j] = results[j]
        /\ parent' = "executing" /\ BackendJobs[job'] = j =>
             parent = "executing" /\ BackendJobs[job] = j /\ results'[j] = results[j]
        /\ results'[j] = "refused" => results[j] = "refused" \/ Backend!Unsent(j)
  OBVIOUS
<1>8. /\ Backend!NumberedInOrder' /\ Backend!NumbersAreAnswered' /\ Backend!UnsentIsUnknown'
      /\ Backend!ReadOnce'
  BY <1>4, <1>5, <1>6, <1>7, TakeKeeps
<1>9. QED
  BY <1>2, <1>3, <1>8 DEF Backend!IInv

\* The steps of the parent that do not write.
LEMMA ParentReads ==
  ASSUME Backend!IInv,
         \/ Backend!Discard \/ Backend!Pong \/ Backend!NoPong \/ Backend!GiveUp
         \/ Backend!Exec /\ ~backend_is_alive
         \/ Backend!Refuse \/ Backend!Result \/ Backend!NoResult \/ Backend!Garbage \/ Backend!Reap
  PROVE  Backend!IInv'
<1>1. Backend!TypeOK
  BY DEF Backend!IInv
<1>2. /\ results \in [Backend!Names -> Backend!Names \cup {"none", "refused"}]
      /\ job \in 0..Len(BackendJobs) /\ Len(BackendJobs) \in Nat
      /\ parent \in {"gathering", "pinged", "ready", "checking", "sending", "executing",
                      "refusing", "reaping", "stopped"}
      /\ parent \in {"checking", "sending", "executing", "refusing"} => job > 0
      /\ output \in Seq(Backend!Message)
  BY <1>1, JobsFacts DEF Backend!TypeOK
<1>3. Shortened(output, output)
  BY <1>1, InputStays
\* The parent goes on, and the results stay.
<1>4. ASSUME UNCHANGED <<input, at, hand, next_sequence, expected_sequence, spawned, executed>>,
             UNCHANGED <<job, results>>,
             Shortened(output, output'), output' \in Seq(Backend!Message),
             \/ parent' = parent \/ parent' \in {"gathering", "ready", "reaping", "stopped"}
             \/ parent \in {"checking", "sending", "refusing"}
                /\ parent' \in {"sending", "refusing"}
      PROVE  Backend!IInv'
  <2>1. \A j \in Backend!Names : Backend!Unsent(j)' => Backend!Unsent(j)
    BY <1>4 DEF Backend!Unsent
  <2>2. QED
    BY <1>2, <1>4, <2>1, ParentKeeps
<1>5. CASE Backend!Discard
  BY <1>1, <1>4, <1>5, ReceivedFacts DEF Backend!Discard
<1>6. CASE Backend!Pong
  <2>1. /\ UNCHANGED <<input, at, hand, next_sequence, expected_sequence, spawned, executed>>
        /\ UNCHANGED <<job, results>>
        /\ Len(output) >= 2 /\ output' = SubSeq(output, 3, Len(output))
        /\ \/ parent' \in {"gathering", "ready"}
           \/ parent = "checking" /\ parent' \in {"sending", "refusing"}
    BY <1>6 DEF Backend!Pong
  <2>2. QED
    BY <1>1, <1>4, <2>1, ReceivedFacts
<1>7. CASE Backend!NoPong
  BY <1>2, <1>3, <1>4, <1>7 DEF Backend!NoPong
<1>8. CASE Backend!GiveUp
  BY <1>2, <1>3, <1>4, <1>8 DEF Backend!GiveUp
<1>9. CASE Backend!Exec /\ ~backend_is_alive
  <2>1. /\ parent = "ready" /\ job < Len(BackendJobs) /\ job' = job + 1 /\ parent' = "refusing"
        /\ UNCHANGED <<input, at, hand, next_sequence, expected_sequence, spawned, executed>>
        /\ UNCHANGED <<output, results>>
    BY <1>9 DEF Backend!Exec
  <2>2. \A j \in Backend!Names : Backend!Unsent(j)' => Backend!Unsent(j)
    BY <1>2, <2>1, JobsFacts DEF Backend!Unsent
  <2>3. job' \in 0..Len(BackendJobs) /\ job' > 0
    BY <1>2, <2>1
  <2>4. QED
    BY <1>2, <1>3, <2>1, <2>2, <2>3, ParentKeeps
<1>10. CASE Backend!Refuse
  <2>1. /\ parent = "refusing" /\ parent' = "ready"
        /\ results' = [results EXCEPT ![BackendJobs[job]] = "refused"]
        /\ UNCHANGED <<input, at, hand, next_sequence, expected_sequence, spawned, executed>>
        /\ UNCHANGED <<output, job>>
    BY <1>10 DEF Backend!Refuse
  <2>2. job \in DOMAIN BackendJobs /\ BackendJobs[job] \in Backend!Names
    BY <1>2, <2>1, JobsFacts
  <2>3. \A j \in Backend!Names :
          results'[j] = IF j = BackendJobs[job] THEN "refused" ELSE results[j]
    BY <1>2, <2>1, <2>2
  <2>4. results' \in [Backend!Names -> Backend!Names \cup {"none", "refused"}]
    BY <1>2, <2>1
  <2>5. \A j \in Backend!Names : Backend!Unsent(j)' => Backend!Unsent(j) /\ j # BackendJobs[job]
    BY <1>2, <2>1, <2>2, JobsFacts DEF Backend!Unsent
  <2>6. Backend!Unsent(BackendJobs[job])
    BY <2>1 DEF Backend!Unsent
  <2>7. QED
    BY <1>2, <1>3, <2>1, <2>3, <2>4, <2>5, <2>6, ParentKeeps
<1>11. CASE Backend!Result
  <2>1. /\ parent = "executing" /\ parent' = "ready"
        /\ Len(output) >= 2 /\ Backend!IsExpected(Backend!Received[2])
        /\ output' = SubSeq(output, 3, Len(output))
        /\ results' = [results EXCEPT ![BackendJobs[job]] = Backend!Received[2].text]
        /\ UNCHANGED <<input, at, hand, next_sequence, expected_sequence, spawned, executed>>
        /\ UNCHANGED job
    BY <1>11 DEF Backend!Result
  <2>2. job \in DOMAIN BackendJobs /\ BackendJobs[job] \in Backend!Names
    BY <1>2, <2>1, JobsFacts
  <2>3. /\ Shortened(output, output') /\ output' \in Seq(Backend!Message)
        /\ 2 \in DOMAIN output /\ Backend!Received[2] = output[2]
    BY <1>1, <2>1, ReceivedFacts
  <2>4. output[2].text = Backend!AnswerTo(BackendJobs[job])
    BY <2>1, <2>3 DEF Backend!IInv, Backend!NumbersAreAnswered, Backend!Asks, Backend!Asked
  <2>5. Backend!Received[2].text = BackendJobs[job]
    BY <2>2, <2>3, <2>4, JobsFacts DEF Backend!AnswerTo
  <2>6. \A j \in Backend!Names :
          results'[j] = IF j = BackendJobs[job] THEN j ELSE results[j]
    BY <1>2, <2>1, <2>2, <2>5
  <2>7. results' \in [Backend!Names -> Backend!Names \cup {"none", "refused"}]
    BY <1>2, <2>1, <2>2, <2>5
  <2>8. \A j \in Backend!Names : Backend!Unsent(j)' => Backend!Unsent(j) /\ j # BackendJobs[job]
    BY <1>2, <2>1, <2>2, JobsFacts DEF Backend!Unsent
  <2>9. \A j \in Backend!Names : j # "refused"
    BY JobsFacts
  <2>10. QED
    BY <1>2, <2>1, <2>3, <2>6, <2>7, <2>8, <2>9, ParentKeeps
<1>12. CASE Backend!NoResult
  BY <1>2, <1>3, <1>4, <1>12 DEF Backend!NoResult, Backend!WaitOn
<1>13. CASE Backend!Garbage
  BY <1>1, <1>4, <1>13, ReceivedFacts DEF Backend!Garbage
<1>14. CASE Backend!Reap
  BY <1>2, <1>3, <1>4, <1>14 DEF Backend!Reap
<1>15. QED
  BY <1>5, <1>6, <1>7, <1>8, <1>9, <1>10, <1>11, <1>12, <1>13, <1>14

\* A step of a backend moves messages on: from the input to its hand, and from its
\* hand, as an answer, to the output.  A job is counted when its body is gone.
LEMMA BackendKeeps ==
  ASSUME Backend!IInv,
         UNCHANGED <<parent, next_sequence, expected_sequence, job, results>>,
         \A k \in DOMAIN input' : \E m \in DOMAIN input :
           input'[k].seq = input[m].seq /\ input'[k].text = input[m].text,
         \A b \in Backend!Backends : Backend!Holds(b)' =>
           \/ Backend!Holds(b) /\ hand'[b] = hand[b]
           \/ \E m \in DOMAIN input : hand'[b] = input[m],
         \A k \in DOMAIN output' :
           \/ \E m \in DOMAIN output : output'[k] = output[m]
           \/ \E b \in Backend!Backends :
                /\ Backend!Holds(b) /\ output'[k].seq = hand[b].seq
                /\ output'[k].text = Backend!AnswerTo(hand[b].text),
         \A j \in Backend!Names :
           /\ \A k \in DOMAIN input' : Backend!Body(k, j)' =>
                executed'[j] = executed[j] /\ \E m \in DOMAIN input : Backend!Body(m, j)
           /\ \A k, m \in DOMAIN input' : Backend!Body(k, j)' /\ Backend!Body(m, j)' => k = m
           /\ \/ executed'[j] = executed[j]
              \/ executed'[j] = executed[j] + 1 /\ \E m \in DOMAIN input : Backend!Body(m, j)
  PROVE  /\ Backend!NumberedInOrder' /\ Backend!NumbersAreAnswered' /\ Backend!UnsentIsUnknown'
         /\ Backend!ReadOnce' /\ Backend!ResultIsOfJob'
<1>1. \A k \in DOMAIN input : input[k] \in Backend!Message
  <2>1. input \in Seq(Backend!Message)
    BY DEF Backend!IInv, Backend!TypeOK
  <2>2. QED
    BY <2>1
<1>2. \A j \in Backend!Names : executed[j] \in Nat
  BY DEF Backend!IInv, Backend!TypeOK
<1>3. Backend!NumberedInOrder'
  BY <1>1 DEF Backend!IInv, Backend!NumberedInOrder
<1>4. Backend!NumbersAreAnswered'
  <2> SUFFICES ASSUME Backend!Asks
               PROVE
         /\ \A k \in DOMAIN input' :
              input'[k].seq = expected_sequence => input'[k].text = Backend!Asked
         /\ \A b \in Backend!Backends :
              Backend!Holds(b)' /\ hand'[b].seq = expected_sequence =>
                hand'[b].text = Backend!Asked
         /\ \A k \in DOMAIN output' : output'[k].seq = expected_sequence =>
              output'[k].text = Backend!AnswerTo(Backend!Asked)
    BY DEF Backend!NumbersAreAnswered, Backend!IsExpected, Backend!Asks, Backend!Asked,
           Backend!AnswerTo
  <2>1. /\ \A k \in DOMAIN input :
              input[k].seq = expected_sequence => input[k].text = Backend!Asked
        /\ \A b \in Backend!Backends :
              Backend!Holds(b) /\ hand[b].seq = expected_sequence => hand[b].text = Backend!Asked
        /\ \A k \in DOMAIN output : output[k].seq = expected_sequence =>
              output[k].text = Backend!AnswerTo(Backend!Asked)
    BY DEF Backend!IInv, Backend!NumbersAreAnswered, Backend!IsExpected
  <2>2. QED
    BY <2>1
<1>5. \A j \in Backend!Names : Backend!Unsent(j)' <=> Backend!Unsent(j)
  BY DEF Backend!Unsent
<1>6. Backend!UnsentIsUnknown'
  BY <1>5 DEF Backend!IInv, Backend!UnsentIsUnknown
<1>7. Backend!ReadOnce'
  BY <1>2 DEF Backend!IInv, Backend!ReadOnce
<1>8. Backend!ResultIsOfJob'
  BY DEF Backend!IInv, Backend!ResultIsOfJob
<1>9. QED
  BY <1>3, <1>4, <1>6, <1>7, <1>8

LEMMA BackendSteps ==
  ASSUME Backend!IInv, NEW b \in Backend!Backends,
         Backend!BackendStarts(b) \/ Backend!BackendStep(b) \/ Backend!BackendDies(b)
  PROVE  Backend!IInv'
<1> DEFINE Kept == /\ Backend!NumberedInOrder' /\ Backend!NumbersAreAnswered'
                   /\ Backend!UnsentIsUnknown' /\ Backend!ReadOnce' /\ Backend!ResultIsOfJob'
           Places == {"none", "starting", "idle", "length", "answering", "body", "ended"}
<1>1. Backend!TypeOK
  BY DEF Backend!IInv
<1>2. /\ input \in Seq(Backend!Message) /\ output \in Seq(Backend!Message)
      /\ at \in [Backend!Backends -> Places]
      /\ hand \in [Backend!Backends -> Backend!Message \cup {Backend!Nothing}]
      /\ executed \in [Backend!Names -> Nat]
  BY <1>1 DEF Backend!TypeOK
<1>3. /\ \A k \in DOMAIN input : input[k] \in Backend!Message
      /\ \A k \in DOMAIN output : output[k] \in Backend!Message
  BY <1>2
<1>4. \A k \in DOMAIN input : input[k].text \in Backend!Texts
  BY <1>1 DEF Backend!TypeOK
\* Where the backends go, nobody but b holds another message.
<1>5. ASSUME NEW spot \in Places, at' = [at EXCEPT ![b] = spot],
             \A c \in Backend!Backends \ {b} : hand'[c] = hand[c]
      PROVE  /\ at' \in [Backend!Backends -> Places]
             /\ \A c \in Backend!Backends : Backend!Holds(c)' =>
                  \/ Backend!Holds(c) /\ hand'[c] = hand[c]
                  \/ c = b /\ spot \in {"length", "answering", "body"}
  <2>1. at' \in [Backend!Backends -> Places]
    BY <1>2, <1>5
  <2>2. at'[b] = spot /\ \A c \in Backend!Backends \ {b} : at'[c] = at[c]
    BY <1>2, <1>5
  <2>3. QED
    BY <1>5, <2>1, <2>2 DEF Backend!Holds
<1>6.
      \A j \in Backend!Names : \A k, m \in DOMAIN input :
        Backend!Body(k, j) /\ Backend!Body(m, j) => k = m
  BY DEF Backend!IInv, Backend!ReadOnce
<1>7. \A j \in Backend!Names : \A k \in DOMAIN input :
        Backend!Body(k, j) => \E m \in DOMAIN input : Backend!Body(m, j)
  OBVIOUS
\* A step that leaves the FIFOs as they are.
<1>8. ASSUME UNCHANGED <<input, output, hand, parent, next_sequence, expected_sequence>>,
             UNCHANGED <<spawned, job, results, executed>>,
             NEW spot \in {"idle", "ended"}, at' = [at EXCEPT ![b] = spot]
      PROVE  Backend!IInv'
  <2>1. /\ at' \in [Backend!Backends -> Places]
        /\ \A c \in Backend!Backends : Backend!Holds(c)' => Backend!Holds(c) /\ hand'[c] = hand[c]
    BY <1>5, <1>8
  <2>2. Backend!TypeOK'
    BY <1>1, <1>8, <2>1 DEF Backend!TypeOK
  <2>3. \A j \in Backend!Names : \A k \in DOMAIN input :
          Backend!Body(k, j)' <=> Backend!Body(k, j)
    BY <1>8 DEF Backend!Body
  <2>4. Kept
    BY <1>6, <1>7, <1>8, <2>1, <2>3, BackendKeeps
  <2>5. QED
    BY <2>2, <2>4 DEF Backend!IInv
<1>9. CASE Backend!BackendStarts(b)
  BY <1>8, <1>9 DEF Backend!BackendStarts, Backend!Goes
<1>10. CASE Backend!BackendDies(b)
  BY <1>8, <1>10 DEF Backend!BackendDies, Backend!Goes
<1>11. CASE Backend!ReadLength(b) /\ Head(input).part = "length"
  <2>1. /\ input # <<>> /\ at' = [at EXCEPT ![b] = "length"]
        /\ hand' = [hand EXCEPT ![b] = Head(input)] /\ input' = Tail(input)
        /\ UNCHANGED <<output, parent, next_sequence, expected_sequence>>
        /\ UNCHANGED <<spawned, job, results, executed>>
    BY <1>11 DEF Backend!ReadLength, Backend!Goes
  <2>2. /\ input' \in Seq(Backend!Message)
        /\ \A k \in DOMAIN input' : k + 1 \in DOMAIN input /\ input'[k] = input[k + 1]
        /\ 1 \in DOMAIN input /\ Head(input) = input[1] /\ Head(input) \in Backend!Message
    BY <1>2, <2>1, TakeOne
  <2>3. hand'[b] = input[1] /\ (\A c \in Backend!Backends \ {b} : hand'[c] = hand[c])
        /\ hand' \in [Backend!Backends -> Backend!Message \cup {Backend!Nothing}]
    BY <1>2, <2>1, <2>2
  <2>4. /\ at' \in [Backend!Backends -> Places]
        /\ \A c \in Backend!Backends : Backend!Holds(c)' =>
             \/ Backend!Holds(c) /\ hand'[c] = hand[c]
             \/ \E m \in DOMAIN input : hand'[c] = input[m]
    BY <1>5, <2>1, <2>2, <2>3
  <2>5. \A j \in Backend!Names : \A k \in DOMAIN input' :
          Backend!Body(k, j)' <=> Backend!Body(k + 1, j)
    BY <2>2 DEF Backend!Body
  <2>6. Backend!TypeOK'
    BY <1>1, <1>4, <2>1, <2>2, <2>3, <2>4 DEF Backend!TypeOK
  <2>7. \A k, m \in DOMAIN input' : k + 1 = m + 1 => k = m
    BY <2>2
  <2>8. Kept
    BY <1>6, <2>1, <2>2, <2>4, <2>5, <2>7, BackendKeeps
  <2>9. QED
    BY <2>6, <2>8 DEF Backend!IInv
<1>12. CASE Backend!ReadLength(b) /\ Head(input).part # "length"
  <2> DEFINE rest == [input[1] EXCEPT !.part = "rest"]
  <2>1. /\ input # <<>> /\ at' = [at EXCEPT ![b] = "ended"]
        /\ input' = [input EXCEPT ![1].part = "rest"] /\ UNCHANGED hand
        /\ UNCHANGED <<output, parent, next_sequence, expected_sequence>>
        /\ UNCHANGED <<spawned, job, results, executed>>
    BY <1>12 DEF Backend!ReadLength, Backend!Goes
  <2>2. 1 \in DOMAIN input /\ input # <<>> /\ input \in Seq(Backend!Message)
    BY <1>2, <2>1, TakeOne
  <2>3. /\ rest \in Backend!Message /\ rest.part = "rest"
        /\ rest.seq = input[1].seq /\ rest.text = input[1].text
    BY <1>3, <2>2 DEF Backend!Message
  <2>4. input' = [input EXCEPT ![1] = rest]
    BY <2>1
  <2> HIDE DEF rest
  <2>5. /\ input' \in Seq(Backend!Message) /\ DOMAIN input' = DOMAIN input
        /\ input'[1] = rest /\ \A k \in DOMAIN input : k # 1 => input'[k] = input[k]
    BY <2>2, <2>3, <2>4, ReplaceFirst
  <2>6. /\ at' \in [Backend!Backends -> Places]
        /\ \A c \in Backend!Backends : Backend!Holds(c)' => Backend!Holds(c) /\ hand'[c] = hand[c]
    BY <1>5, <2>1
  <2>7. \A k \in DOMAIN input' : input'[k].seq = input[k].seq /\ input'[k].text = input[k].text
    BY <2>3, <2>5
  <2>8. \A j \in Backend!Names : \A k \in DOMAIN input' :
          Backend!Body(k, j)' => Backend!Body(k, j)
    BY <2>3, <2>5 DEF Backend!Body
  <2>9. Backend!TypeOK'
    BY <1>1, <1>4, <2>1, <2>5, <2>6, <2>7 DEF Backend!TypeOK
  <2>10. Kept
    BY <1>6, <2>1, <2>5, <2>6, <2>7, <2>8, BackendKeeps
  <2>11. QED
    BY <2>9, <2>10 DEF Backend!IInv
<1>13. CASE Backend!ReadBody(b)
  <2> DEFINE whole == Head(input).part = "body" /\ Head(input).seq = hand[b].seq
             text == Head(input).text
             runs == whole /\ text \notin {"stop", "ping"}
  <2>1. /\ input # <<>> /\ input' = Tail(input) /\ hand' = [hand EXCEPT ![b] = Head(input)]
        /\ UNCHANGED <<output, parent, next_sequence, expected_sequence>>
        /\ UNCHANGED <<spawned, job, results>>
    BY <1>13 DEF Backend!ReadBody
  <2>2. \E spot \in Places : at' = [at EXCEPT ![b] = spot]
    BY <1>13 DEF Backend!ReadBody, Backend!Goes
  <2>3. executed' = IF runs THEN [executed EXCEPT ![text] = @ + 1] ELSE executed
    BY <1>13 DEF Backend!ReadBody
  <2>4. /\ input' \in Seq(Backend!Message)
        /\ \A k \in DOMAIN input' :
             k + 1 \in DOMAIN input /\ k + 1 # 1 /\ input'[k] = input[k + 1]
        /\ 1 \in DOMAIN input /\ Head(input) = input[1] /\ Head(input) \in Backend!Message
    BY <1>2, <2>1, TakeOne
  <2>5. text \in Backend!Texts
    BY <1>4, <2>4
  <2>6. runs => text \in Backend!Names /\ Backend!Body(1, text)
    BY <2>4, <2>5 DEF Backend!Texts, Backend!Body
  <2>7. executed' \in [Backend!Names -> Nat]
        /\ \A j \in Backend!Names :
             executed'[j] = IF runs /\ j = text THEN executed[j] + 1 ELSE executed[j]
    <3> HIDE DEF runs, text
    <3>1. QED
      BY <1>2, <2>3, <2>6
  <2> HIDE DEF runs, text, whole
  <2>8. hand'[b] = input[1] /\ (\A c \in Backend!Backends \ {b} : hand'[c] = hand[c])
        /\ hand' \in [Backend!Backends -> Backend!Message \cup {Backend!Nothing}]
    BY <1>2, <2>1, <2>4
  <2>9. /\ at' \in [Backend!Backends -> Places]
        /\ \A c \in Backend!Backends : Backend!Holds(c)' =>
             \/ Backend!Holds(c) /\ hand'[c] = hand[c]
             \/ \E m \in DOMAIN input : hand'[c] = input[m]
    BY <1>5, <2>2, <2>4, <2>8
  <2>10. \A j \in Backend!Names : \A k \in DOMAIN input' :
          Backend!Body(k, j)' <=> Backend!Body(k + 1, j)
    BY <2>4 DEF Backend!Body
  <2>11. \A k, m \in DOMAIN input' : k + 1 = m + 1 => k = m
    BY <2>4
  <2>12. ASSUME NEW j \in Backend!Names
         PROVE
           /\ \A k \in DOMAIN input' : Backend!Body(k, j)' =>
                executed'[j] = executed[j] /\ \E m \in DOMAIN input : Backend!Body(m, j)
           /\ \A k, m \in DOMAIN input' : Backend!Body(k, j)' /\ Backend!Body(m, j)' => k = m
           /\ \/ executed'[j] = executed[j]
              \/ executed'[j] = executed[j] + 1 /\ \E m \in DOMAIN input : Backend!Body(m, j)
    <3>1. \A k \in DOMAIN input' : Backend!Body(k, j)' =>
            /\ k + 1 \in DOMAIN input /\ Backend!Body(k + 1, j) /\ k + 1 # 1
      BY <2>4, <2>10
    <3>2. \A k \in DOMAIN input' : Backend!Body(k, j)' => ~(runs /\ j = text)
      BY <1>6, <2>4, <2>6, <3>1
    <3>3. QED
      BY <1>6, <2>4, <2>6, <2>7, <2>11, <3>1, <3>2
  <2>13. Backend!TypeOK'
    BY <1>1, <1>4, <2>1, <2>4, <2>7, <2>8, <2>9 DEF Backend!TypeOK
  <2>14. Kept
    BY <2>1, <2>4, <2>9, <2>12, BackendKeeps
  <2>15. QED
    BY <2>13, <2>14 DEF Backend!IInv
\* The answer is to what b holds.
<1>14. ASSUME NEW part_of \in {"length", "body"}, Backend!Holds(b),
              NEW spot \in {"body", "idle"}, at' = [at EXCEPT ![b] = spot],
              output' = Append(output, [part |-> part_of, seq |-> hand[b].seq,
                                        text |-> Backend!AnswerTo(hand[b].text)]),
              UNCHANGED <<input, hand, parent, next_sequence, expected_sequence>>,
              UNCHANGED <<spawned, job, results, executed>>
       PROVE  Backend!IInv'
  <2> DEFINE m == [part |-> part_of, seq |-> hand[b].seq, text |-> Backend!AnswerTo(hand[b].text)]
  <2>1. hand[b] \in Backend!Message
    BY <1>14 DEF Backend!IInv, Backend!NumberedInOrder
  <2>2. hand[b].seq \in Nat /\ hand[b].text \in Backend!Texts \cup {"pong"}
    BY <2>1 DEF Backend!Message
  <2>3. Backend!AnswerTo(hand[b].text) \in Backend!Texts \cup {"pong"}
    BY <2>2 DEF Backend!AnswerTo
  <2>4. m \in Backend!Message /\ m.seq = hand[b].seq
        /\ m.text = Backend!AnswerTo(hand[b].text)
    BY <2>2, <2>3 DEF Backend!Message
  <2>5. output' = Append(output, m)
    BY <1>14
  <2> HIDE DEF m
  <2>6. output' \in Seq(Backend!Message)
        /\ \A k \in DOMAIN output' :
             \/ k \in DOMAIN output /\ output'[k] = output[k]
             \/ output'[k] = m
    <3>1. \A k \in 1..(Len(output) + 1) : k \in 1..Len(output) \/ k = Len(output) + 1
      BY <1>2
    <3>2. QED
      BY <1>2, <2>4, <2>5, <3>1, AppendFacts
  <2>7. /\ at' \in [Backend!Backends -> Places]
        /\ \A c \in Backend!Backends : Backend!Holds(c)' => Backend!Holds(c) /\ hand'[c] = hand[c]
    BY <1>5, <1>14
  <2>8. Backend!TypeOK'
    BY <1>1, <1>14, <2>6, <2>7 DEF Backend!TypeOK
  <2>9. \A j \in Backend!Names : \A k \in DOMAIN input :
          Backend!Body(k, j)' <=> Backend!Body(k, j)
    BY <1>14 DEF Backend!Body
  <2>10. \A k \in DOMAIN output' :
           \/ \E q \in DOMAIN output : output'[k] = output[q]
           \/ \E c \in Backend!Backends :
                /\ Backend!Holds(c) /\ output'[k].seq = hand[c].seq
                /\ output'[k].text = Backend!AnswerTo(hand[c].text)
    BY <1>14, <2>4, <2>6
  <2>11. Kept
    BY <1>6, <1>7, <1>14, <2>7, <2>9, <2>10, BackendKeeps
  <2>12. QED
    BY <2>8, <2>11 DEF Backend!IInv
<1>15. CASE Backend!AnswerLength(b)
  BY <1>14, <1>15 DEF Backend!AnswerLength, Backend!Goes, Backend!Holds
<1>16. CASE Backend!AnswerBody(b)
  BY <1>14, <1>16 DEF Backend!AnswerBody, Backend!Goes, Backend!Holds
<1>17. QED
  BY <1>9, <1>10, <1>11, <1>12, <1>13, <1>15, <1>16 DEF Backend!BackendStep

LEMMA NextBackend == Backend!IInv /\ [Backend!Next]_backend_vars => Backend!IInv'
<1> SUFFICES ASSUME Backend!IInv, [Backend!Next]_backend_vars
             PROVE  Backend!IInv'
  OBVIOUS
<1>1. CASE UNCHANGED backend_vars
  <2>1. /\ UNCHANGED <<input, output, at, hand, parent, next_sequence, expected_sequence>>
        /\ UNCHANGED <<spawned, job, results, executed>>
    BY <1>1 DEF backend_vars
  <2>2. Backend!TypeOK'
    BY <2>1 DEF Backend!IInv, Backend!TypeOK
  <2>3. Backend!NumberedInOrder' /\ Backend!NumbersAreAnswered'
    BY <2>1 DEF Backend!IInv, Backend!NumberedInOrder, Backend!NumbersAreAnswered,
         Backend!Holds, Backend!Asks, Backend!Asked, Backend!IsExpected
  <2>4. Backend!UnsentIsUnknown' /\ Backend!ReadOnce' /\ Backend!ResultIsOfJob'
    BY <2>1 DEF Backend!IInv, Backend!UnsentIsUnknown, Backend!ReadOnce, Backend!ResultIsOfJob,
         Backend!Unsent, Backend!Body
  <2>5. QED
    BY <2>2, <2>3, <2>4 DEF Backend!IInv
<1>2. CASE \/ Backend!Spawn \/ (Backend!Exec /\ backend_is_alive)
           \/ Backend!Send \/ Backend!Stop
  BY <1>2, ParentWrites
<1>3. CASE \/ Backend!Discard \/ Backend!Pong \/ Backend!NoPong \/ Backend!GiveUp
           \/ Backend!Exec /\ ~backend_is_alive
           \/ Backend!Refuse \/ Backend!Result \/ Backend!NoResult \/ Backend!Garbage
           \/ Backend!Reap
  BY <1>3, ParentReads
<1>4. ASSUME NEW b \in Backend!Backends,
             Backend!BackendStarts(b) \/ Backend!BackendStep(b) \/ Backend!BackendDies(b)
      PROVE  Backend!IInv'
  BY <1>4, BackendSteps
<1>5. QED
  BY <1>1, <1>2, <1>3, <1>4 DEF Backend!Next, Backend!ParentStep

LEMMA BackendIsKept == Backend!IInv => Backend!ResultIsOfJob /\ Backend!RunOnceOrRefused
<1> SUFFICES ASSUME Backend!IInv
             PROVE  Backend!RunOnceOrRefused
  BY DEF Backend!IInv
<1>1. \A j \in Backend!Names : executed[j] <= 1 /\ (results[j] = "refused" => executed[j] = 0)
  BY DEF Backend!IInv, Backend!ReadOnce, Backend!UnsentIsUnknown
<1>2. QED
  BY <1>1 DEF Backend!RunOnceOrRefused

-----------------------------------------------------------------------------
(* The persist file.                                                       *)

LEMMA InitPersist == Persist!Init => Persist!IInv
BY PartsAssumption DEF Persist!SavesAssumption, Persist!Init, Persist!IInv, Persist!TypeOK,
   Persist!WholeIsNotOlder, Persist!SaveGoesOn, Persist!SyncedIsThere,
   Persist!LoadedIsNotOlder, Persist!UnloadedForAReason, Persist!Absent, Persist!File,
   Persist!Kinds

FileType == [kind : Persist!Kinds, value : 0..MaxSaves, synced : BOOLEAN]

\* The invariant, written over values: f and o are the two files, v what the
\* plugins have, and s, d and b the numbers of saves.
Persisted(f, o, v, phase, s, d, b) ==
  /\ v \in Nat /\ v <= MaxSaves /\ s \in Nat /\ s <= MaxSaves
  /\ d \in Nat /\ d <= s /\ b = s - d
  /\ f.value \in Nat /\ o.value \in Nat
  /\ f.kind = "whole" => d <= f.value /\ f.value <= s
  /\ o.kind = "whole" /\ o.value < d => f.kind = "whole" /\ f.synced
  /\ f.kind # "whole" => f.value = 0 /\ f.synced
  /\ o.kind # "whole" => o.value = 0 /\ o.synced
  /\ phase \in {"renamed", "opened", "written"} => v = s /\ b > 0
  /\ phase = "renamed" => f.kind = "absent"
  /\ phase = "opened" => f.kind = "empty"
  /\ phase = "written" => f.kind = "whole" /\ f.value = s
  /\ b = 0 /\ d = 0 => f.kind = "absent"
  /\ b = 0 /\ d # 0 => f.kind = "whole" /\ f.value = d /\ f.synced
  /\ b = 1 /\ d > 0 => o.kind = "whole" /\ o.value = d /\ o.synced
  /\ phase = "idle" /\ v # 0 => v >= d
  /\ phase = "unloaded" => b >= 2 \/ d = 0

Phases == {"down", "idle", "renamed", "opened", "written", "unloaded"}

LEMMA FileFields ==
  ASSUME NEW f \in FileType
  PROVE  /\ f.kind \in Persist!Kinds /\ f.value \in Nat /\ f.value <= MaxSaves
         /\ f.synced \in BOOLEAN
<1>1. MaxSaves \in Nat
  BY PartsAssumption DEF Persist!SavesAssumption
<1>2. QED
  BY <1>1 DEF FileType

LEMMA PersistedIsIInv ==
  /\ Persist!IInv => /\ persist_file \in FileType /\ old \in FileType
                     /\ persist_pc \in Phases /\ safe \in BOOLEAN
                     /\ Persisted(persist_file, old, value, persist_pc, saves, durable, bad)
  /\ (/\ persist_file \in FileType /\ old \in FileType
      /\ persist_pc \in Phases /\ safe \in BOOLEAN
      /\ Persisted(persist_file, old, value, persist_pc, saves, durable, bad))
     => Persist!IInv
<1>0. MaxSaves \in Nat
  BY PartsAssumption DEF Persist!SavesAssumption
<1>1. Persist!TypeOK <=> /\ persist_file \in FileType /\ old \in FileType
                         /\ persist_pc \in Phases /\ safe \in BOOLEAN
                         /\ value \in Nat /\ value <= MaxSaves
                         /\ saves \in Nat /\ saves <= MaxSaves
                         /\ durable \in Nat /\ durable <= saves /\ bad = saves - durable
  BY <1>0 DEF Persist!TypeOK, FileType, Phases
<1>2. ASSUME persist_file \in FileType, old \in FileType,
             saves \in Nat, durable \in Nat, durable <= saves, bad = saves - durable
      PROVE  /\ persist_file.value \in Nat /\ old.value \in Nat
             /\ Persist!WholeIsNotOlder <=>
                  /\ persist_file.kind = "whole" => durable <= persist_file.value /\ persist_file.value <= saves
                  /\ old.kind = "whole" /\ old.value < durable => persist_file.kind = "whole" /\ persist_file.synced
                  /\ persist_file.kind # "whole" => persist_file.value = 0 /\ persist_file.synced
                  /\ old.kind # "whole" => old.value = 0 /\ old.synced
             /\ Persist!SyncedIsThere <=>
                  /\ bad = 0 /\ durable = 0 => persist_file.kind = "absent"
                  /\ bad = 0 /\ durable # 0 => persist_file.kind = "whole" /\ persist_file.value = durable /\ persist_file.synced
                  /\ bad = 1 /\ durable > 0 => old.kind = "whole" /\ old.value = durable /\ old.synced
  <2>1. persist_file.value \in Nat /\ old.value \in Nat
    BY <1>2, FileFields
  <2>2. QED
    BY <1>2, <2>1 DEF Persist!WholeIsNotOlder, Persist!SyncedIsThere, Persist!Keeps
<1>3. QED
  BY <1>1, <1>2 DEF Persist!IInv, Persisted, Persist!SaveGoesOn, Persist!LoadedIsNotOlder,
     Persist!UnloadedForAReason

LEMMA StepsPersist ==
  ASSUME NEW f, NEW o, NEW v, NEW s, NEW d, NEW b, NEW g, NEW h, MaxSaves \in Nat
  PROVE  /\ Persisted(f, o, v, "idle", s, d, b) /\ s < MaxSaves /\ g.kind = "absent" /\ g.value = 0 /\ g.synced
            => Persisted(g, f, s + 1, "renamed", s + 1, d, b + 1)
         /\ Persisted(f, o, v, "idle", s, d, b) /\ s < MaxSaves /\ f.kind = "absent"
            => Persisted(f, o, s + 1, "renamed", s + 1, d, b + 1)
         /\ Persisted(f, o, v, "renamed", s, d, b) /\ g.kind = "empty" /\ g.value = 0 /\ g.synced
            => Persisted(g, o, v, "opened", s, d, b)
         /\ Persisted(f, o, v, "opened", s, d, b) /\ g.kind = "whole" /\ g.value = v
            => Persisted(g, o, v, "written", s, d, b)
         /\ Persisted(f, o, v, "opened", s, d, b) /\ g.kind \in {"empty", "broken"} /\ g.value = 0 /\ g.synced
            => Persisted(g, o, v, "idle", s, d, b)
<1>1. Persisted(f, o, v, "idle", s, d, b) /\ s < MaxSaves /\ g.kind = "absent" /\ g.value = 0 /\ g.synced
      => Persisted(g, f, s + 1, "renamed", s + 1, d, b + 1)
  BY DEF Persisted
<1>2. Persisted(f, o, v, "idle", s, d, b) /\ s < MaxSaves /\ f.kind = "absent"
      => Persisted(f, o, s + 1, "renamed", s + 1, d, b + 1)
  BY DEF Persisted
<1>3. Persisted(f, o, v, "renamed", s, d, b) /\ g.kind = "empty" /\ g.value = 0 /\ g.synced
      => Persisted(g, o, v, "opened", s, d, b)
  BY DEF Persisted
<1>4. Persisted(f, o, v, "opened", s, d, b) /\ g.kind = "whole" /\ g.value = v
      => Persisted(g, o, v, "written", s, d, b)
  BY DEF Persisted
<1>5. Persisted(f, o, v, "opened", s, d, b) /\ g.kind \in {"empty", "broken"} /\ g.value = 0 /\ g.synced
      => Persisted(g, o, v, "idle", s, d, b)
  BY DEF Persisted
<1>6. QED
  BY <1>1, <1>2, <1>3, <1>4, <1>5

\* What a loss of power may leave.
LeftOf(f, g) ==
  /\ f.synced => g = f
  /\ \/ g = f
     \/ g.kind \in {"empty", "broken"} /\ g.value = 0 /\ g.synced
     \/ g.kind = "whole" /\ g.value = f.value /\ g.synced

LEMMA PowerLossPersist ==
  ASSUME NEW f, NEW o, NEW v, NEW phase, NEW s, NEW d, NEW b, NEW g, NEW h, MaxSaves \in Nat,
         Persisted(f, o, v, phase, s, d, b), LeftOf(f, g), LeftOf(o, h)
  PROVE  Persisted(g, h, 0, "down", s, d, b)
<1>1. CASE f.synced
  <2>1. g = f
    BY <1>1 DEF LeftOf
  <2>2. QED
    BY <1>1, <2>1 DEF LeftOf, Persisted
<1>2. CASE ~f.synced
  <2>1. f.kind = "whole" /\ d <= f.value /\ f.value <= s /\ b # 0 /\ o.value \in Nat
    BY <1>2 DEF Persisted
  <2>2. /\ g.value \in Nat
        /\ \/ g.kind = "whole" /\ d <= g.value /\ g.value <= s
           \/ g.kind # "whole" /\ g.value = 0 /\ g.synced
    BY <1>2, <2>1 DEF LeftOf, Persisted
  <2>3. CASE o.synced
    <3>1. h = o
      BY <2>3 DEF LeftOf
    <3>2. QED
      BY <1>2, <2>1, <2>2, <3>1 DEF Persisted
  <2>4. CASE ~o.synced
    <3>1. o.kind = "whole" /\ d <= o.value
      BY <1>2, <2>4 DEF Persisted
    <3>2. /\ h.value \in Nat
          /\ \/ h.kind = "whole" /\ h.value = o.value
             \/ h.kind # "whole" /\ h.value = 0 /\ h.synced
      BY <2>1, <2>4, <3>1 DEF LeftOf
    <3>3. QED
      BY <1>2, <2>1, <2>2, <2>4, <3>1, <3>2 DEF Persisted
  <2>5. QED
    BY <2>3, <2>4
<1>3. QED
  BY <1>1, <1>2

LEMMA NextPersist == Persist!IInv /\ [Persist!Next]_persist_vars => Persist!IInv'
<1> SUFFICES ASSUME Persist!IInv, [Persist!Next]_persist_vars
             PROVE  Persist!IInv'
  OBVIOUS
<1>1. /\ persist_file \in FileType /\ old \in FileType
      /\ persist_pc \in Phases /\ safe \in BOOLEAN
      /\ Persisted(persist_file, old, value, persist_pc, saves, durable, bad)
  BY PersistedIsIInv
<1>2. ASSUME persist_file' \in FileType, old' \in FileType,
             persist_pc' \in Phases, safe' \in BOOLEAN,
             Persisted(persist_file', old', value', persist_pc', saves', durable', bad')
      PROVE  Persist!IInv'
  <2>1. (/\ persist_file \in FileType /\ old \in FileType
         /\ persist_pc \in Phases /\ safe \in BOOLEAN
         /\ Persisted(persist_file, old, value, persist_pc, saves, durable, bad))'
    BY <1>2
  <2>2. QED
    BY <2>1, PersistedIsIInv, PTL
<1>3. /\ persist_file.kind \in Persist!Kinds /\ old.kind \in Persist!Kinds
      /\ persist_file.value \in Nat /\ persist_file.value <= MaxSaves
      /\ old.value \in Nat /\ old.value <= MaxSaves
  BY <1>1, FileFields
<1>4. /\ Persist!Kinds = {"absent", "empty", "broken", "whole"} /\ MaxSaves \in Nat
      /\ 0 \in Nat /\ 0 <= MaxSaves
  BY PartsAssumption DEF Persist!Kinds, Persist!SavesAssumption
<1>5. value \in Nat /\ value <= MaxSaves /\ saves \in Nat /\ saves <= MaxSaves /\ durable \in Nat
  BY <1>1 DEF Persisted
<1>6. \A p \in {"down", "idle", "renamed", "opened", "written", "unloaded"} : p \in Phases
  BY DEF Phases
<1>7. CASE UNCHANGED persist_vars
  <2>1. UNCHANGED <<persist_file, old, value, persist_pc, safe, saves, durable, bad>>
    BY <1>7 DEF persist_vars
  <2>2. QED
    BY <1>1, <1>2, <2>1
<1>8. CASE Persist!Load
  <2>1. /\ persist_pc = "down" /\ safe' = TRUE
        /\ UNCHANGED <<persist_file, old, saves, durable, bad>>
        /\ \/ persist_file.kind # "broken" /\ value' = persist_file.value /\ persist_pc' = "idle"
           \/ /\ persist_file.kind = "broken" /\ old.kind = "whole"
              /\ value' = old.value /\ persist_pc' = "idle"
           \/ /\ persist_file.kind = "broken" /\ old.kind # "whole"
              /\ value' = 0 /\ persist_pc' = "unloaded"
    BY <1>8 DEF Persist!Load, Persist!CanLoad, Persist!LoadedFrom, Persist!files
  <2>2. Persisted(persist_file, old, value', persist_pc', saves, durable, bad)
    BY <1>1, <1>3, <1>4, <2>1 DEF Persisted
  <2>3. persist_pc' \in Phases
    BY <1>6, <2>1
  <2>4. QED
    BY <1>1, <1>2, <2>1, <2>2, <2>3
<1>9. CASE Persist!BeginGather \/ Persist!EndGather
  <2>1. /\ persist_pc = "idle" /\ safe' \in BOOLEAN
        /\ UNCHANGED <<persist_file, old, value, persist_pc, saves, durable, bad>>
    BY <1>9 DEF Persist!BeginGather, Persist!EndGather, Persist!files
  <2>2. QED
    BY <1>1, <1>2, <2>1
<1>10. CASE Persist!Rename
  <2>1. /\ persist_pc = "idle" /\ saves < MaxSaves
        /\ saves' = saves + 1 /\ value' = saves + 1 /\ bad' = bad + 1
        /\ persist_pc' = "renamed" /\ UNCHANGED <<safe, durable>>
        /\ \/ persist_file.kind # "absent" /\ old' = persist_file
              /\ persist_file' = Persist!File("absent", 0, TRUE)
           \/ persist_file.kind = "absent" /\ UNCHANGED <<persist_file, old>>
    BY <1>10 DEF Persist!Rename, Persist!Absent, Persist!files
  <2>2. /\ Persist!File("absent", 0, TRUE) \in FileType
        /\ Persist!File("absent", 0, TRUE).kind = "absent"
        /\ Persist!File("absent", 0, TRUE).value = 0
        /\ Persist!File("absent", 0, TRUE).synced
    BY <1>4 DEF FileType, Persist!File
  <2>3. CASE persist_file.kind # "absent"
    <3>1. Persisted(Persist!File("absent", 0, TRUE), persist_file, saves + 1, "renamed",
                    saves + 1, durable, bad + 1)
      BY <1>1, <1>4, <2>1, <2>2, StepsPersist
    <3>2. QED
      BY <1>1, <1>2, <1>6, <2>1, <2>2, <2>3, <3>1
  <2>4. CASE persist_file.kind = "absent"
    <3>1. Persisted(persist_file, old, saves + 1, "renamed", saves + 1, durable, bad + 1)
      BY <1>1, <1>4, <2>1, <2>4, StepsPersist
    <3>2. QED
      BY <1>1, <1>2, <1>6, <2>1, <2>4, <3>1
  <2>5. QED
    BY <2>3, <2>4
<1>11. CASE Persist!Open
  <2>1. /\ persist_pc = "renamed" /\ persist_file' = Persist!File("empty", 0, TRUE)
        /\ persist_pc' = "opened" /\ UNCHANGED <<old, value, safe, saves, durable, bad>>
    BY <1>11 DEF Persist!Open
  <2>2. /\ Persist!File("empty", 0, TRUE) \in FileType
        /\ Persist!File("empty", 0, TRUE).kind = "empty"
        /\ Persist!File("empty", 0, TRUE).value = 0
        /\ Persist!File("empty", 0, TRUE).synced
    BY <1>4 DEF FileType, Persist!File
  <2>3. Persisted(Persist!File("empty", 0, TRUE), old, value, "opened", saves, durable, bad)
    BY <1>1, <1>4, <2>1, <2>2, StepsPersist
  <2>4. QED
    BY <1>1, <1>2, <1>6, <2>1, <2>2, <2>3
<1>12. CASE Persist!Write
  <2>1. /\ persist_pc = "opened" /\ persist_file' = Persist!File("whole", value, FALSE)
        /\ persist_pc' = "written" /\ UNCHANGED <<old, value, safe, saves, durable, bad>>
    BY <1>12 DEF Persist!Write
  <2>2. /\ Persist!File("whole", value, FALSE) \in FileType
        /\ Persist!File("whole", value, FALSE).kind = "whole"
        /\ Persist!File("whole", value, FALSE).value = value
    BY <1>4, <1>5 DEF FileType, Persist!File
  <2>3. Persisted(Persist!File("whole", value, FALSE), old, value, "written", saves, durable, bad)
    BY <1>1, <1>4, <2>1, <2>2, StepsPersist
  <2>4. QED
    BY <1>1, <1>2, <1>6, <2>1, <2>2, <2>3
<1>13. ASSUME NEW kind \in {"empty", "broken"}, Persist!WriteFails(kind)
       PROVE  Persist!IInv'
  <2>1. /\ persist_pc = "opened" /\ persist_file' = Persist!File(kind, 0, TRUE)
        /\ persist_pc' = "idle" /\ UNCHANGED <<old, value, safe, saves, durable, bad>>
    BY <1>13 DEF Persist!WriteFails
  <2>2. /\ Persist!File(kind, 0, TRUE) \in FileType
        /\ Persist!File(kind, 0, TRUE).kind = kind
        /\ Persist!File(kind, 0, TRUE).value = 0
        /\ Persist!File(kind, 0, TRUE).synced
    BY <1>4 DEF FileType, Persist!File
  <2>3. Persisted(Persist!File(kind, 0, TRUE), old, value, "idle", saves, durable, bad)
    BY <1>1, <1>4, <2>1, <2>2, StepsPersist
  <2>4. QED
    BY <1>1, <1>2, <1>6, <2>1, <2>2, <2>3
<1>14. CASE Persist!Close
  <2>1. /\ persist_pc = "written" /\ persist_pc' = "idle" /\ UNCHANGED <<old, value, safe, saves>>
        /\ \/ /\ persist_file' = [persist_file EXCEPT !.synced = TRUE]
              /\ durable' = saves /\ bad' = 0
           \/ UNCHANGED <<persist_file, durable, bad>>
    BY <1>14 DEF Persist!Close
  <2>2. /\ [persist_file EXCEPT !.synced = TRUE] \in FileType
        /\ [persist_file EXCEPT !.synced = TRUE].kind = persist_file.kind
        /\ [persist_file EXCEPT !.synced = TRUE].value = persist_file.value
        /\ [persist_file EXCEPT !.synced = TRUE].synced
    BY <1>1 DEF FileType
  <2>3. CASE persist_file' = [persist_file EXCEPT !.synced = TRUE] /\ durable' = saves /\ bad' = 0
    <3>1. /\ persist_file' \in FileType /\ persist_file'.kind = persist_file.kind
          /\ persist_file'.value = persist_file.value /\ persist_file'.synced
      BY <2>2, <2>3
    <3>2. Persisted(persist_file', old, value, "idle", saves, saves, 0)
      BY <1>1, <1>5, <2>1, <3>1 DEF Persisted
    <3>3. QED
      BY <1>1, <1>2, <1>6, <2>1, <2>3, <3>1, <3>2
  <2>4. CASE UNCHANGED <<persist_file, durable, bad>>
    <3>1. Persisted(persist_file, old, value, "idle", saves, durable, bad)
      BY <1>1, <1>5, <2>1 DEF Persisted
    <3>2. QED
      BY <1>1, <1>2, <1>6, <2>1, <2>4, <3>1
  <2>5. QED
    BY <2>1, <2>3, <2>4
<1>15. CASE Persist!Killed
  <2>1. /\ persist_pc' = "down" /\ value' = 0 /\ safe' = TRUE
        /\ UNCHANGED <<persist_file, old, saves, durable, bad>>
    BY <1>15 DEF Persist!Killed, Persist!Die, Persist!files
  <2>2. Persisted(persist_file, old, 0, "down", saves, durable, bad)
    BY <1>1, <1>4 DEF Persisted
  <2>3. QED
    BY <1>1, <1>2, <1>6, <2>1, <2>2
<1>16. CASE Persist!PowerFails
  <2>1. /\ persist_pc' = "down" /\ value' = 0 /\ safe' = TRUE
        /\ UNCHANGED <<saves, durable, bad>>
        /\ persist_file' \in Persist!Left(persist_file) /\ old' \in Persist!Left(old)
    BY <1>16 DEF Persist!PowerFails, Persist!Die
  <2>2. ASSUME NEW f \in FileType, NEW g \in Persist!Left(f)
        PROVE  g \in FileType /\ LeftOf(f, g)
    <3>1. f.synced \in BOOLEAN /\ f.value \in Nat /\ f.value <= MaxSaves
      BY FileFields
    <3>2. CASE f.synced
      BY <2>2, <3>2 DEF Persist!Left, LeftOf
    <3>3. CASE ~f.synced
      <4>1. \/ g = Persist!File("empty", 0, TRUE)
            \/ g = Persist!File("broken", 0, TRUE)
            \/ g = Persist!File("whole", f.value, TRUE)
        BY <2>2, <3>3 DEF Persist!Left
      <4>2. CASE g = Persist!File("empty", 0, TRUE)
        <5>1. g \in FileType /\ g.kind = "empty" /\ g.value = 0 /\ g.synced
          BY <1>4, <4>2 DEF FileType, Persist!File
        <5>2. QED
          BY <3>3, <5>1 DEF LeftOf
      <4>3. CASE g = Persist!File("broken", 0, TRUE)
        <5>1. g \in FileType /\ g.kind = "broken" /\ g.value = 0 /\ g.synced
          BY <1>4, <4>3 DEF FileType, Persist!File
        <5>2. QED
          BY <3>3, <5>1 DEF LeftOf
      <4>4. CASE g = Persist!File("whole", f.value, TRUE)
        <5>1. g \in FileType /\ g.kind = "whole" /\ g.value = f.value /\ g.synced
          BY <1>4, <3>1, <4>4 DEF FileType, Persist!File
        <5>2. QED
          BY <3>3, <5>1 DEF LeftOf
      <4>5. QED
        BY <4>1, <4>2, <4>3, <4>4
    <3>4. QED
      BY <3>1, <3>2, <3>3
  <2>3. /\ persist_file' \in FileType /\ LeftOf(persist_file, persist_file')
        /\ old' \in FileType /\ LeftOf(old, old')
    BY <1>1, <2>1, <2>2
  <2>4. Persisted(persist_file', old', 0, "down", saves, durable, bad)
    BY <1>1, <1>4, <2>3, PowerLossPersist
  <2>5. QED
    BY <1>2, <1>6, <2>1, <2>3, <2>4
<1>17. QED
  BY <1>7, <1>8, <1>9, <1>10, <1>11, <1>12, <1>13, <1>14, <1>15, <1>16 DEF Persist!Next

LEMMA SyncedLoads ==
  Persist!IInv /\ Persist!Load /\ bad = 0 => value' = durable
<1> SUFFICES ASSUME Persist!IInv, Persist!Load, bad = 0
             PROVE  value' = durable
  OBVIOUS
<1>1. /\ persist_file \in FileType
      /\ Persisted(persist_file, old, value, persist_pc, saves, durable, bad)
  BY PersistedIsIInv
<1>2. \/ durable = 0 /\ persist_file.kind = "absent" /\ persist_file.value = 0
      \/ persist_file.kind = "whole" /\ persist_file.value = durable
  BY <1>1 DEF Persisted
<1>3. value' = persist_file.value
  BY <1>2 DEF Persist!Load, Persist!CanLoad, Persist!LoadedFrom
<1>4. QED
  BY <1>2, <1>3

LEMMA PersistIsKept ==
  /\ Persist!IInv => Persist!LoadedIsNotOlder /\ Persist!UnloadedForAReason
  /\ Persist!IInv /\ [Persist!Next]_persist_vars =>
       (persist_pc = "down" /\ persist_pc' # "down" /\ bad = 0 => value' = durable)
<1>1. Persist!IInv => Persist!LoadedIsNotOlder /\ Persist!UnloadedForAReason
  BY DEF Persist!IInv
<1>2. [Persist!Next]_persist_vars /\ persist_pc = "down" /\ persist_pc' # "down" => Persist!Load
  BY DEF Persist!Next, Persist!BeginGather, Persist!EndGather, Persist!Rename, Persist!Open,
     Persist!Write, Persist!WriteFails, Persist!Close, Persist!Killed, Persist!PowerFails,
     Persist!Die, persist_vars
<1>3. QED
  BY <1>1, <1>2, SyncedLoads

-----------------------------------------------------------------------------
(* The store of jobs.                                                      *)

\* An instance has operators of its own, which are the same.
LEMMA SameOperators ==
  /\ \A S : Messages!Cardinality(S) = Cardinality(S)
  /\ \A s : Messages!ToSet(s) = ToSet(s)
  /\ \A s : Messages!IsInjective(s) <=> IsInjective(s)
<1>1. \A S : Messages!Cardinality(S) = Cardinality(S)
  BY DEF Messages!Cardinality, Cardinality
<1>2. \A s : Messages!ToSet(s) = ToSet(s)
  BY DEF Messages!ToSet, ToSet
<1>3. \A s : Messages!IsInjective(s) <=> IsInjective(s)
  BY DEF Messages!IsInjective, IsInjective
<1>4. QED
  BY <1>1, <1>2, <1>3

LEMMA CountFacts ==
  ASSUME NEW n \in Int, NEW S \in SUBSET (1..n), NEW T \in SUBSET S
  PROVE  /\ IsFiniteSet(S) /\ Cardinality(S) \in Nat
         /\ IsFiniteSet(T) /\ Cardinality(T) \in Nat
         /\ Cardinality(T) <= Cardinality(S)
<1>1. IsFiniteSet(1..n)
  BY FS_Interval
<1>2. IsFiniteSet(S)
  BY <1>1, FS_Subset
<1>3. IsFiniteSet(T) /\ Cardinality(T) <= Cardinality(S)
  BY <1>2, FS_Subset
<1>4. QED
  BY <1>2, <1>3, FS_CardinalityType

MessageType == [name : ToSet(StoredJobs), updated : BOOLEAN, file : Messages!FileStates]

UpdatedOf(s, m) == {k \in 1..m-1 : s[k].updated}

PassedOf(s, n) ==
  \A m \in 1..Len(s)+1 :
    \/ m \in DOMAIN s /\ (s[m].file = "flagged" \/ s[m].updated)
    \/ Cardinality(UpdatedOf(s, m)) >= n

\* The offset stays right when messages are added, flagged or updated.
LEMMA PassedStays ==
  ASSUME NEW S, NEW s \in Seq(S), NEW t \in Seq(S), NEW n \in Nat,
         Len(s) <= Len(t), PassedOf(s, n),
         \A m \in DOMAIN s : /\ s[m].file = "flagged" => t[m].file = "flagged"
                             /\ s[m].updated => t[m].updated
  PROVE  PassedOf(t, n)
<1>1. /\ Len(s) \in Nat /\ Len(t) \in Nat
      /\ DOMAIN s = 1..Len(s) /\ DOMAIN t = 1..Len(t)
  OBVIOUS
<1>2. ASSUME NEW m \in 1..Len(s)+1, NEW q \in Nat, m <= q, Cardinality(UpdatedOf(s, m)) >= n
      PROVE  Cardinality(UpdatedOf(t, q)) >= n
  <2>1. UpdatedOf(s, m) \subseteq UpdatedOf(t, q)
    <3>1. SUFFICES ASSUME NEW k \in UpdatedOf(s, m)
                   PROVE  k \in UpdatedOf(t, q)
      OBVIOUS
    <3>2. k \in 1..m-1 /\ s[k].updated
      BY DEF UpdatedOf
    <3>3. k \in DOMAIN s /\ k \in 1..q-1
      BY <1>1, <1>2, <3>2
    <3>4. QED
      BY <3>2, <3>3 DEF UpdatedOf
  <2>2. UpdatedOf(t, q) \in SUBSET (1..(q-1)) /\ q - 1 \in Int
    BY <1>2 DEF UpdatedOf
  <2>3. /\ Cardinality(UpdatedOf(s, m)) \in Nat /\ Cardinality(UpdatedOf(t, q)) \in Nat
        /\ Cardinality(UpdatedOf(s, m)) <= Cardinality(UpdatedOf(t, q))
    BY <2>1, <2>2, CountFacts
  <2>4. QED
    BY <1>2, <2>3
<1>3. SUFFICES ASSUME NEW q \in 1..Len(t)+1,
                      ~(q \in DOMAIN t /\ (t[q].file = "flagged" \/ t[q].updated))
               PROVE  Cardinality(UpdatedOf(t, q)) >= n
  BY DEF PassedOf
<1>4. CASE q \in DOMAIN s
  <2>1. q \in 1..Len(s)+1 /\ q \in DOMAIN t /\ q \in Nat /\ q <= q
    BY <1>1, <1>4
  <2>2. ~(s[q].file = "flagged" \/ s[q].updated)
    BY <1>3, <1>4, <2>1
  <2>3. Cardinality(UpdatedOf(s, q)) >= n
    BY <2>1, <2>2 DEF PassedOf
  <2>4. QED
    BY <1>2, <2>1, <2>3
<1>5. CASE q \notin DOMAIN s
  <2>1. Len(s) + 1 \in 1..Len(s)+1 /\ Len(s) + 1 \notin DOMAIN s /\ q \in Nat /\ Len(s) + 1 <= q
    BY <1>1, <1>5
  <2>2. Cardinality(UpdatedOf(s, Len(s) + 1)) >= n
    BY <2>1 DEF PassedOf
  <2>3. QED
    BY <1>2, <2>1, <2>2
<1>6. QED
  BY <1>4, <1>5

\* The invariant, written over values: s are the messages, p and n the offset in
\* memory and the one that is saved, and a the number of the job being added.
StoredOf(s, p, n, phase, a) ==
  /\ Len(s) <= Len(StoredJobs)
  /\ \A m \in DOMAIN s : s[m].name = StoredJobs[m]
  /\ phase = "gathering" => a <= Len(s) + 1
  /\ phase \in {"gathered", "prompting"} =>
       Len(s) = Len(StoredJobs) \/ \E m \in DOMAIN s : s[m].file \in {"bad", "flagged"}
  /\ phase = "prompting" => \A m \in DOMAIN s : s[m].file # "bad"
  /\ \A m \in DOMAIN s : s[m].updated => s[m].file = "synced"
  /\ PassedOf(s, p) /\ PassedOf(s, n)

StorePhases == {"down", "gathering", "gathered", "prompting"}

LEMMA StoredIsIInv ==
  /\ Messages!IInv =>
       /\ job_messages \in Seq(MessageType) /\ cache \subseteq ToSet(StoredJobs)
       /\ pending_offset \in Nat /\ saved_offset \in Nat
       /\ store_pc \in StorePhases /\ adding \in 1..Len(StoredJobs) + 1
       /\ StoredOf(job_messages, pending_offset, saved_offset, store_pc, adding)
  /\ (/\ job_messages \in Seq(MessageType) /\ cache \subseteq ToSet(StoredJobs)
      /\ pending_offset \in Nat /\ saved_offset \in Nat
      /\ store_pc \in StorePhases /\ adding \in 1..Len(StoredJobs) + 1
      /\ StoredOf(job_messages, pending_offset, saved_offset, store_pc, adding))
     => Messages!IInv
<1>0. \A m : Messages!Updated(m) = UpdatedOf(job_messages, m)
  BY DEF Messages!Updated, UpdatedOf
<1>1. Messages!OffsetIsUpdated(pending_offset) <=> PassedOf(job_messages, pending_offset)
  BY <1>0, SameOperators DEF Messages!OffsetIsUpdated, PassedOf
<1>2. Messages!OffsetIsUpdated(saved_offset) <=> PassedOf(job_messages, saved_offset)
  BY <1>0, SameOperators DEF Messages!OffsetIsUpdated, PassedOf
<1>3. Messages!GatheringEnds <=>
        /\ store_pc \in {"gathered", "prompting"} =>
             \/ Len(job_messages) = Len(StoredJobs)
             \/ \E m \in DOMAIN job_messages : job_messages[m].file \in {"bad", "flagged"}
        /\ store_pc = "prompting" => \A m \in DOMAIN job_messages : job_messages[m].file # "bad"
  BY DEF Messages!GatheringEnds, Messages!Unreadable
<1>4. Messages!TypeOK <=>
        /\ job_messages \in Seq(MessageType) /\ cache \subseteq ToSet(StoredJobs)
        /\ pending_offset \in Nat /\ saved_offset \in Nat
        /\ store_pc \in StorePhases /\ adding \in 1..Len(StoredJobs) + 1
  BY SameOperators DEF Messages!TypeOK, MessageType, StorePhases
<1>5. QED
  BY <1>1, <1>2, <1>3, <1>4 DEF Messages!IInv, StoredOf, Messages!StoreIsPrefix,
     Messages!UpdatedIsSynced

LEMMA StoredJobsFacts ==
  /\ Len(StoredJobs) \in Nat /\ DOMAIN StoredJobs = 1..Len(StoredJobs)
  /\ \A k \in 1..Len(StoredJobs) : StoredJobs[k] \in ToSet(StoredJobs)
  /\ \A k, m \in 1..Len(StoredJobs) : StoredJobs[k] = StoredJobs[m] => k = m
<1>1. StoredJobs \in Seq(ToSet(StoredJobs)) /\ IsInjective(StoredJobs)
  BY PartsAssumption, SameOperators DEF Messages!StoredAssumption
<1>2. Len(StoredJobs) \in Nat /\ DOMAIN StoredJobs = 1..Len(StoredJobs)
  BY <1>1
<1>3. \A k \in 1..Len(StoredJobs) : StoredJobs[k] \in ToSet(StoredJobs)
  BY <1>1, <1>2
<1>4. \A k, m \in 1..Len(StoredJobs) : StoredJobs[k] = StoredJobs[m] => k = m
  BY <1>1, <1>2 DEF IsInjective
<1>5. QED
  BY <1>2, <1>3, <1>4

\* A smaller offset is right, too; and so is none, when nothing is stored.
LEMMA FewerPassed ==
  ASSUME NEW S, NEW s \in Seq(S), NEW p \in Nat, NEW n \in Nat, n <= p, PassedOf(s, p)
  PROVE  PassedOf(s, n)
<1>1. SUFFICES ASSUME NEW m \in 1..Len(s)+1, Cardinality(UpdatedOf(s, m)) >= p
               PROVE  Cardinality(UpdatedOf(s, m)) >= n
  BY DEF PassedOf
<1>2. UpdatedOf(s, m) \in SUBSET (1..(m - 1)) /\ m - 1 \in Int
  BY DEF UpdatedOf
<1>3. Cardinality(UpdatedOf(s, m)) \in Nat
  BY <1>2, CountFacts
<1>4. QED
  BY <1>1, <1>3

LEMMA NothingStored == StoredOf(<<>>, 0, 0, "down", 1) /\ StoredOf(<<>>, 0, 0, "gathering", 1)
<1>1. PassedOf(<<>>, 0)
  <2>1. \A m \in 1..1 : Cardinality(UpdatedOf(<<>>, m)) = 0
    <3>1. SUFFICES ASSUME NEW m \in 1..1
                   PROVE  Cardinality(UpdatedOf(<<>>, m)) = 0
      OBVIOUS
    <3>2. 1..m-1 = {}
      OBVIOUS
    <3>3. UpdatedOf(<<>>, m) = {}
      BY <3>2 DEF UpdatedOf
    <3>4. QED
      BY <3>3, FS_EmptySet
  <2>3. \A m \in 1..1 : Cardinality(UpdatedOf(<<>>, m)) >= 0
    BY <2>1
  <2>4. Len(<<>>) + 1 = 1
    OBVIOUS
  <2>5. QED
    BY <2>3, <2>4 DEF PassedOf
<1>2. /\ Len(<<>>) = 0 /\ DOMAIN <<>> = {} /\ 0 <= Len(StoredJobs)
      /\ "down" \notin {"gathered", "prompting", "gathering"}
      /\ "gathering" \notin {"gathered", "prompting"} /\ 1 <= 0 + 1
  BY StoredJobsFacts
<1>3. QED
  BY <1>1, <1>2 DEF StoredOf

LEMMA InitMessages == Messages!Init => Messages!IInv
<1> SUFFICES ASSUME Messages!Init
             PROVE  Messages!IInv
  OBVIOUS
<1>1. /\ job_messages \in Seq(MessageType) /\ cache \subseteq ToSet(StoredJobs)
      /\ pending_offset \in Nat /\ saved_offset \in Nat
      /\ store_pc \in StorePhases /\ adding \in 1..Len(StoredJobs) + 1
  BY StoredJobsFacts DEF Messages!Init, StorePhases
<1>2. QED
  BY <1>1, NothingStored, StoredIsIInv DEF Messages!Init

LEMMA MessageFacts ==
  /\ \A name \in ToSet(StoredJobs) :
       /\ Messages!Message(name, FALSE, "unsynced") \in MessageType
       /\ Messages!Message(name, FALSE, "unsynced").name = name
       /\ ~Messages!Message(name, FALSE, "unsynced").updated
       /\ Messages!Message(name, FALSE, "unsynced").file = "unsynced"
  /\ \A r \in MessageType :
       /\ r.name \in ToSet(StoredJobs) /\ r.updated \in BOOLEAN
       /\ r.file \in {"synced", "unsynced", "bad", "flagged"}
BY DEF Messages!Message, MessageType, Messages!FileStates

LEMMA FileSetFacts ==
  ASSUME NEW A, NEW B, NEW C, NEW r \in [name : A, updated : B, file : C], NEW x \in C,
         NEW e, e = [r EXCEPT !.file = x]
  PROVE  /\ e \in [name : A, updated : B, file : C]
         /\ e.name = r.name /\ e.updated = r.updated /\ e.file = x
OBVIOUS

LEMMA MapFacts ==
  ASSUME NEW S, NEW s \in Seq(S), NEW t, t = [m \in DOMAIN s |-> t[m]],
         \A m \in DOMAIN s : t[m] \in S
  PROVE  t \in Seq(S) /\ Len(t) = Len(s) /\ DOMAIN t = DOMAIN s
<1>1. Len(s) \in Nat /\ DOMAIN s = 1..Len(s)
  OBVIOUS
<1>2. QED
  BY <1>1

Written(s, q) == [s EXCEPT ![q].updated = TRUE, ![q].file = "synced"]

LEMMA WrittenFacts ==
  ASSUME NEW s \in Seq(MessageType), NEW q \in DOMAIN s, NEW t, t = Written(s, q)
  PROVE  /\ t \in Seq(MessageType) /\ Len(t) = Len(s) /\ DOMAIN t = DOMAIN s
         /\ \A m \in DOMAIN s : m # q => t[m] = s[m]
         /\ t[q].name = s[q].name /\ t[q].updated /\ t[q].file = "synced"
<1>1. DOMAIN t = DOMAIN s /\ \A m \in DOMAIN s : m # q => t[m] = s[m]
  BY DEF Written
<1>2. s[q] \in MessageType
  OBVIOUS
<1>3. t[q] = [s[q] EXCEPT !.updated = TRUE, !.file = "synced"]
  <2> DEFINE u == [s EXCEPT ![q].updated = TRUE]
  <2>1. u[q] = [s[q] EXCEPT !.updated = TRUE] /\ DOMAIN u = DOMAIN s
    OBVIOUS
  <2>2. t = [u EXCEPT ![q].file = "synced"]
    BY DEF Written
  <2> HIDE DEF u
  <2>3. t[q] = [u[q] EXCEPT !.file = "synced"]
    BY <2>1, <2>2
  <2>4. QED
    BY <2>1, <2>3
<1>4. /\ t[q] \in MessageType
      /\ t[q].name = s[q].name /\ t[q].updated /\ t[q].file = "synced"
  BY <1>2, <1>3 DEF MessageType, Messages!FileStates
<1>5. /\ Len(s) \in Nat /\ DOMAIN s = 1..Len(s)
      /\ \A m \in DOMAIN s : s[m] \in MessageType
  OBVIOUS
<1>6. \A m \in 1..Len(s) : t[m] \in MessageType
  BY <1>1, <1>4, <1>5
<1>7. t = [m \in DOMAIN s |-> t[m]]
  BY <1>1 DEF Written
<1>8. t \in Seq(MessageType) /\ Len(t) = Len(s)
  BY <1>5, <1>6, <1>7, MapFacts
<1>9. QED
  BY <1>1, <1>4, <1>8

LEMMA NextMessages == Messages!IInv /\ [Messages!Next]_messages_vars => Messages!IInv'
<1> SUFFICES ASSUME Messages!IInv, [Messages!Next]_messages_vars
             PROVE  Messages!IInv'
  OBVIOUS
<1>1. /\ job_messages \in Seq(MessageType) /\ cache \subseteq ToSet(StoredJobs)
      /\ pending_offset \in Nat /\ saved_offset \in Nat
      /\ store_pc \in StorePhases /\ adding \in 1..Len(StoredJobs) + 1
      /\ StoredOf(job_messages, pending_offset, saved_offset, store_pc, adding)
  BY StoredIsIInv
<1>2. ASSUME job_messages' \in Seq(MessageType), cache' \subseteq ToSet(StoredJobs),
             pending_offset' \in Nat, saved_offset' \in Nat,
             store_pc' \in StorePhases, adding' \in 1..Len(StoredJobs) + 1,
             StoredOf(job_messages', pending_offset', saved_offset', store_pc', adding')
      PROVE  Messages!IInv'
  <2>1. (/\ job_messages \in Seq(MessageType) /\ cache \subseteq ToSet(StoredJobs)
         /\ pending_offset \in Nat /\ saved_offset \in Nat
         /\ store_pc \in StorePhases /\ adding \in 1..Len(StoredJobs) + 1
         /\ StoredOf(job_messages, pending_offset, saved_offset, store_pc, adding))'
    BY <1>2
  <2>2. QED
    BY <2>1, StoredIsIInv, PTL
<1>3. \A p \in {"down", "gathering", "gathered", "prompting"} : p \in StorePhases
  BY DEF StorePhases
<1>4. /\ Len(job_messages) \in Nat /\ DOMAIN job_messages = 1..Len(job_messages)
      /\ \A m \in DOMAIN job_messages : job_messages[m] \in MessageType
  BY <1>1
<1>5. /\ Len(StoredJobs) \in Nat /\ adding \in Nat /\ 1 \in 1..Len(StoredJobs) + 1
      /\ 1 <= adding /\ adding <= Len(StoredJobs) + 1
  BY <1>1, StoredJobsFacts
<1>6. \A n \in Nat : \A phase \in {"down", "gathering"} :
        StoredOf(job_messages, pending_offset, saved_offset, store_pc, adding) /\ PassedOf(job_messages, n)
        => StoredOf(job_messages, n, saved_offset, phase, 1)
  BY <1>4 DEF StoredOf
<1>7. PassedOf(job_messages, 0)
  <2>1. \A m \in 1..Len(job_messages) + 1 : Cardinality(UpdatedOf(job_messages, m)) \in Nat
    <3>1. SUFFICES ASSUME NEW m \in 1..Len(job_messages) + 1
                   PROVE  Cardinality(UpdatedOf(job_messages, m)) \in Nat
      OBVIOUS
    <3>2. UpdatedOf(job_messages, m) \in SUBSET (1..(m - 1)) /\ m - 1 \in Int
      BY <1>4 DEF UpdatedOf
    <3>3. QED
      BY <3>2, CountFacts
  <2>2. QED
    BY <2>1 DEF PassedOf
<1>8. CASE UNCHANGED messages_vars
  <2>1. UNCHANGED <<job_messages, cache, pending_offset, saved_offset, store_pc, adding>>
    BY <1>8 DEF messages_vars
  <2>2. QED
    BY <1>1, <1>2, <2>1
<1>9. CASE Messages!Killed
  <2>1. /\ UNCHANGED <<job_messages, saved_offset>> /\ cache' = {} /\ adding' = 1
        /\ pending_offset' = 0 /\ store_pc' = "down"
    BY <1>9 DEF Messages!Killed, Messages!Die
  <2>2. StoredOf(job_messages, 0, saved_offset, "down", 1)
    BY <1>1, <1>6, <1>7
  <2>3. QED
    BY <1>1, <1>2, <1>3, <1>5, <2>1, <2>2
<1>10. CASE Messages!EndGather
  <2>1. /\ store_pc = "gathering" /\ adding > Len(StoredJobs) /\ store_pc' = "gathered"
        /\ UNCHANGED <<job_messages, cache, pending_offset, saved_offset, adding>>
    BY <1>10 DEF Messages!EndGather
  <2>2. StoredOf(job_messages, pending_offset, saved_offset, "gathered", adding)
    BY <1>1, <1>4, <1>5, <2>1 DEF StoredOf
  <2>3. QED
    BY <1>1, <1>2, <1>3, <2>1, <2>2

<1>11. CASE Messages!RemovePendingOffset
  <2>1. /\ pending_offset > 0 /\ pending_offset' = pending_offset - 1
        /\ UNCHANGED <<job_messages, cache, saved_offset, store_pc, adding>>
    BY <1>11 DEF Messages!RemovePendingOffset
  <2>2. PassedOf(job_messages, pending_offset)
    BY <1>1 DEF StoredOf
  <2>3. pending_offset' \in Nat /\ pending_offset' <= pending_offset
    BY <1>1, <2>1
  <2>4. PassedOf(job_messages, pending_offset')
    BY <1>1, <2>2, <2>3, FewerPassed
  <2>5. StoredOf(job_messages, pending_offset', saved_offset, store_pc, adding)
    BY <1>1, <2>4 DEF StoredOf
  <2>6. QED
    BY <1>1, <1>2, <2>1, <2>3, <2>5
<1>12. CASE Messages!Begin
  <2>1. /\ store_pc' = "gathering" /\ adding' = 1 /\ cache' = {}
        /\ saved_offset' = pending_offset'
        /\ \/ pending_offset' = saved_offset /\ UNCHANGED job_messages
           \/ pending_offset' = 0 /\ job_messages' = <<>>
    BY <1>12 DEF Messages!Begin
  <2>2. CASE pending_offset' = saved_offset /\ UNCHANGED job_messages
    <3>1. StoredOf(job_messages, saved_offset, saved_offset, "gathering", 1)
      BY <1>1, <1>4 DEF StoredOf
    <3>2. QED
      BY <1>1, <1>2, <1>3, <1>5, <2>1, <2>2, <3>1
  <2>3. CASE pending_offset' = 0 /\ job_messages' = <<>>
    <3>1. StoredOf(<<>>, 0, 0, "gathering", 1)
      BY NothingStored
    <3>2. <<>> \in Seq(MessageType)
      OBVIOUS
    <3>3. QED
      BY <1>1, <1>2, <1>3, <1>5, <2>1, <2>3, <3>1, <3>2
  <2>4. QED
    BY <2>1, <2>2, <2>3
<1>13. CASE Messages!AddJob
  <2>1. /\ store_pc = "gathering" /\ adding <= Len(StoredJobs)
        /\ UNCHANGED <<pending_offset, saved_offset>>
    BY <1>13 DEF Messages!AddJob
  <2>2. CASE Messages!ReadFails
    <3>1. store_pc' = "gathered" /\ UNCHANGED <<job_messages, cache, adding>>
      BY <1>13, <2>2 DEF Messages!AddJob
    <3>2. \E m \in DOMAIN job_messages : job_messages[m].file \in {"bad", "flagged"}
      BY <2>2 DEF Messages!ReadFails
    <3>3. StoredOf(job_messages, pending_offset, saved_offset, "gathered", adding)
      BY <1>1, <2>1, <3>2 DEF StoredOf
    <3>4. QED
      BY <1>1, <1>2, <1>3, <2>1, <3>1, <3>3
  <2>3. CASE ~Messages!ReadFails /\ Messages!Find(StoredJobs[adding])
    <3>1. /\ adding' = adding + 1 /\ UNCHANGED <<store_pc, job_messages, cache>>
      BY <1>13, <2>3 DEF Messages!AddJob
    <3>2. PICK m \in DOMAIN job_messages : job_messages[m].name = StoredJobs[adding]
      BY <2>3 DEF Messages!Find
    <3>3. /\ m \in 1..Len(StoredJobs) /\ adding \in 1..Len(StoredJobs) /\ m <= Len(job_messages)
          /\ StoredJobs[m] = StoredJobs[adding]
      BY <1>1, <1>4, <1>5, <2>1, <3>2 DEF StoredOf
    <3>4. m = adding
      BY <3>3, StoredJobsFacts
    <3>5. StoredOf(job_messages, pending_offset, saved_offset, "gathering", adding + 1)
      BY <1>1, <1>4, <1>5, <2>1, <3>3, <3>4 DEF StoredOf
    <3>6. adding + 1 \in 1..Len(StoredJobs) + 1
      BY <1>5, <2>1
    <3>7. QED
      BY <1>1, <1>2, <2>1, <3>1, <3>5, <3>6
  <2>4. CASE ~Messages!ReadFails /\ ~Messages!Find(StoredJobs[adding])
    <3> DEFINE r == Messages!Message(StoredJobs[adding], FALSE, "unsynced")
    <3>1. /\ adding' = adding + 1 /\ UNCHANGED store_pc
          /\ job_messages' = Append(job_messages, r)
          /\ cache' = cache \cup {StoredJobs[adding]}
      BY <1>13, <2>4 DEF Messages!AddJob
    <3>2. adding \in 1..Len(StoredJobs) /\ StoredJobs[adding] \in ToSet(StoredJobs)
      BY <1>5, <2>1, StoredJobsFacts
    <3>3. /\ r \in MessageType /\ r.name = StoredJobs[adding]
          /\ ~r.updated /\ r.file = "unsynced"
      BY <3>2, MessageFacts
    <3> HIDE DEF r
    <3> DEFINE t == Append(job_messages, r)
    <3>4. /\ t \in Seq(MessageType) /\ Len(t) = Len(job_messages) + 1
          /\ DOMAIN t = 1..(Len(job_messages) + 1)
          /\ \A m \in 1..Len(job_messages) : t[m] = job_messages[m]
          /\ t[Len(job_messages) + 1] = r
      BY <1>1, <3>3, AppendFacts
    <3> HIDE DEF t
    <3>5. adding = Len(job_messages) + 1
      <4>1. ~(\E m \in DOMAIN job_messages : job_messages[m].name = StoredJobs[adding])
        BY <2>4 DEF Messages!Find
      <4>2. adding \notin 1..Len(job_messages)
        BY <1>1, <1>4, <4>1 DEF StoredOf
      <4>3. adding <= Len(job_messages) + 1
        BY <1>1, <2>1 DEF StoredOf
      <4>4. QED
        BY <1>4, <1>5, <4>2, <4>3
    <3>6. \A m \in DOMAIN t : \/ m \in DOMAIN job_messages /\ t[m] = job_messages[m]
                              \/ m = adding /\ t[m] = r
      BY <1>4, <3>4, <3>5
    <3>7. /\ Len(t) <= Len(StoredJobs) /\ adding + 1 <= Len(t) + 1
          /\ Len(job_messages) <= Len(t)
      BY <1>4, <1>5, <2>1, <3>4, <3>5
    <3>8. PassedOf(t, pending_offset) /\ PassedOf(t, saved_offset)
      <4>1. \A m \in DOMAIN job_messages : t[m] = job_messages[m]
        BY <1>4, <3>4
      <4>2. PassedOf(job_messages, pending_offset) /\ PassedOf(job_messages, saved_offset)
        BY <1>1 DEF StoredOf
      <4>3. QED
        BY <1>1, <3>4, <3>7, <4>1, <4>2, PassedStays
    <3>9. /\ \A m \in DOMAIN t : t[m].name = StoredJobs[m]
          /\ \A m \in DOMAIN t : t[m].updated => t[m].file = "synced"
      BY <1>1, <3>3, <3>6 DEF StoredOf
    <3>10. StoredOf(t, pending_offset, saved_offset, "gathering", adding + 1)
      BY <3>7, <3>8, <3>9 DEF StoredOf
    <3>11. /\ job_messages' = t /\ adding + 1 \in 1..Len(StoredJobs) + 1
           /\ cache \cup {StoredJobs[adding]} \subseteq ToSet(StoredJobs)
      BY <1>1, <1>5, <2>1, <3>1, <3>2 DEF t
    <3>12. QED
      BY <1>1, <1>2, <2>1, <3>1, <3>4, <3>10, <3>11
  <2>5. QED
    BY <2>2, <2>3, <2>4
<1>14. CASE Messages!ReadAll
  <2>1. /\ store_pc = "gathered" /\ store_pc' = "prompting"
        /\ job_messages' = [m \in DOMAIN job_messages |-> Messages!Flag(job_messages[m])]
        /\ UNCHANGED <<cache, pending_offset, saved_offset, adding>>
    BY <1>14 DEF Messages!ReadAll
  <2>2. \A r \in MessageType :
          /\ Messages!Flag(r) \in MessageType
          /\ Messages!Flag(r).name = r.name /\ Messages!Flag(r).updated = r.updated
          /\ r.file # "bad" => Messages!Flag(r).file = r.file
          /\ r.file = "bad" => Messages!Flag(r).file = "flagged"
    BY DEF Messages!Flag, MessageType, Messages!FileStates
  <2>3. \A m \in DOMAIN job_messages : job_messages'[m] = Messages!Flag(job_messages[m])
    BY <2>1
  <2>4. /\ job_messages' = [m \in DOMAIN job_messages |-> job_messages'[m]]
        /\ \A m \in DOMAIN job_messages : job_messages'[m] \in MessageType
    BY <1>4, <2>1, <2>2, <2>3
  <2>5. /\ job_messages' \in Seq(MessageType) /\ Len(job_messages') = Len(job_messages)
        /\ DOMAIN job_messages' = DOMAIN job_messages
    BY <1>1, <2>4, MapFacts
  <2>6. \A m \in DOMAIN job_messages :
          /\ job_messages'[m].name = job_messages[m].name
          /\ job_messages'[m].updated = job_messages[m].updated
          /\ job_messages[m].file # "bad" => job_messages'[m].file = job_messages[m].file
          /\ job_messages[m].file = "bad" => job_messages'[m].file = "flagged"
    BY <1>4, <2>2, <2>3
  <2>7. StoredOf(job_messages', pending_offset, saved_offset, "prompting", adding)
    <3>1. PassedOf(job_messages, pending_offset) /\ PassedOf(job_messages, saved_offset)
      BY <1>1 DEF StoredOf
    <3>2. /\ Len(job_messages) <= Len(job_messages')
          /\ \A m \in DOMAIN job_messages :
               /\ job_messages[m].file = "flagged" => job_messages'[m].file = "flagged"
               /\ job_messages[m].updated => job_messages'[m].updated
      BY <1>4, <2>5, <2>6
    <3>3. PassedOf(job_messages', pending_offset) /\ PassedOf(job_messages', saved_offset)
      BY <1>1, <2>5, <3>1, <3>2, PassedStays
    <3>4. /\ \A m \in DOMAIN job_messages' : job_messages'[m].name = StoredJobs[m]
          /\ \A m \in DOMAIN job_messages' : job_messages'[m].updated => job_messages'[m].file = "synced"
          /\ \A m \in DOMAIN job_messages' : job_messages'[m].file # "bad"
      BY <1>1, <2>5, <2>6 DEF StoredOf
    <3>5. \/ Len(job_messages') = Len(StoredJobs)
          \/ \E m \in DOMAIN job_messages' : job_messages'[m].file \in {"bad", "flagged"}
      BY <1>1, <2>1, <2>5, <2>6 DEF StoredOf
    <3>6. Len(job_messages') <= Len(StoredJobs)
      BY <1>1, <2>5 DEF StoredOf
    <3>7. QED
      BY <3>3, <3>4, <3>5, <3>6 DEF StoredOf
  <2>8. QED
    BY <1>1, <1>2, <1>3, <2>1, <2>5, <2>7
<1>15. CASE Messages!PowerFails
  <2>1. PICK Lost \in SUBSET {m \in DOMAIN job_messages : job_messages[m].file = "unsynced"} :
          job_messages' =
            [m \in DOMAIN job_messages |->
               [job_messages[m] EXCEPT
                  !.file = IF m \in Lost THEN "bad" ELSE IF @ = "unsynced" THEN "synced" ELSE @]]
    BY <1>15 DEF Messages!PowerFails
  <2>2. /\ UNCHANGED saved_offset /\ cache' = {} /\ adding' = 1
        /\ pending_offset' = 0 /\ store_pc' = "down"
    BY <1>15 DEF Messages!PowerFails, Messages!Die
  <2>3. ASSUME NEW r \in MessageType, NEW state \in {"synced", "unsynced", "bad", "flagged"},
               NEW e, e = [r EXCEPT !.file = state]
        PROVE  e \in MessageType /\ e.name = r.name /\ e.updated = r.updated /\ e.file = state
    BY <2>3, FileSetFacts DEF MessageType, Messages!FileStates
  <2>4. ASSUME NEW m \in DOMAIN job_messages
        PROVE  /\ job_messages'[m] \in MessageType
               /\ job_messages'[m].name = job_messages[m].name
               /\ job_messages'[m].updated = job_messages[m].updated
               /\ job_messages[m].file \in {"synced", "bad", "flagged"} =>
                    job_messages'[m].file = job_messages[m].file
    <3> DEFINE state == IF m \in Lost THEN "bad"
                        ELSE IF job_messages[m].file = "unsynced" THEN "synced"
                        ELSE job_messages[m].file
    <3>1. job_messages'[m] = [job_messages[m] EXCEPT !.file = state]
      BY <2>1
    <3>2. job_messages[m] \in MessageType
      BY <1>4
    <3>3. job_messages[m].file \in {"synced", "unsynced", "bad", "flagged"}
      BY <3>2, MessageFacts
    <3>4. m \in Lost => job_messages[m].file = "unsynced"
      BY <2>1
    <3>5. /\ state \in {"synced", "unsynced", "bad", "flagged"}
          /\ job_messages[m].file \in {"synced", "bad", "flagged"} => state = job_messages[m].file
      BY <3>3, <3>4
    <3> HIDE DEF state
    <3>6. QED
      BY <2>3, <3>1, <3>2, <3>5
  <2>5. /\ job_messages' = [m \in DOMAIN job_messages |-> job_messages'[m]]
        /\ \A m \in DOMAIN job_messages : job_messages'[m] \in MessageType
    BY <2>1, <2>4
  <2>6. /\ job_messages' \in Seq(MessageType) /\ Len(job_messages') = Len(job_messages)
        /\ DOMAIN job_messages' = DOMAIN job_messages
    BY <1>1, <2>5, MapFacts
  <2>7. StoredOf(job_messages', 0, saved_offset, "down", 1)
    <3>1. PassedOf(job_messages, 0) /\ PassedOf(job_messages, saved_offset)
      BY <1>1, <1>7 DEF StoredOf
    <3>2. /\ Len(job_messages) <= Len(job_messages')
          /\ \A m \in DOMAIN job_messages :
               /\ job_messages[m].file = "flagged" => job_messages'[m].file = "flagged"
               /\ job_messages[m].updated => job_messages'[m].updated
      BY <1>4, <2>4, <2>6
    <3>3. PassedOf(job_messages', 0) /\ PassedOf(job_messages', saved_offset)
      BY <1>1, <2>6, <3>1, <3>2, PassedStays
    <3>4. /\ \A m \in DOMAIN job_messages' : job_messages'[m].name = StoredJobs[m]
          /\ \A m \in DOMAIN job_messages' : job_messages'[m].updated => job_messages'[m].file = "synced"
      BY <1>1, <2>4, <2>6 DEF StoredOf
    <3>5. Len(job_messages') <= Len(StoredJobs)
      BY <1>1, <2>6 DEF StoredOf
    <3>6. QED
      BY <3>3, <3>4, <3>5 DEF StoredOf
  <2>8. QED
    BY <1>1, <1>2, <1>3, <1>5, <2>2, <2>6, <2>7
<1>16. ASSUME NEW back \in BOOLEAN, Messages!UpdateJob(back)
       PROVE  Messages!IInv'
  <2>1. PICK q \in DOMAIN job_messages : /\ Messages!IsPending(q)
                                         /\ job_messages' = Messages!Write(q)
                                         /\ cache' = cache \cup {job_messages[q].name}
    BY <1>16 DEF Messages!UpdateJob
  <2>2. /\ store_pc = "prompting" /\ saved_offset' = pending_offset
        /\ pending_offset' \in {pending_offset, pending_offset + 1}
        /\ UNCHANGED <<store_pc, adding>>
    BY <1>1, <1>16 DEF Messages!UpdateJob
  <2>3. /\ job_messages' \in Seq(MessageType) /\ Len(job_messages') = Len(job_messages)
        /\ DOMAIN job_messages' = DOMAIN job_messages
        /\ \A m \in DOMAIN job_messages : m # q => job_messages'[m] = job_messages[m]
        /\ job_messages'[q].name = job_messages[q].name
        /\ job_messages'[q].updated /\ job_messages'[q].file = "synced"
    <3>1. job_messages' = Written(job_messages, q)
      BY <2>1 DEF Messages!Write, Written
    <3>2. QED
      BY <1>1, <3>1, WrittenFacts
  <2>4. PassedOf(job_messages', pending_offset + 1)
    <3>1. /\ job_messages[q].file # "flagged"
          /\ Cardinality(Messages!Unflagged(q)) = pending_offset
      BY <2>1, SameOperators DEF Messages!IsPending
    <3>2. /\ q \in Nat /\ 1 <= q /\ q <= Len(job_messages) /\ q - 1 \in Int
          /\ Messages!Unflagged(q) \in SUBSET (1..(q - 1))
          /\ \A k \in 1..(q - 1) : k \in DOMAIN job_messages
      BY <1>4 DEF Messages!Unflagged
    <3>3. \A k \in UpdatedOf(job_messages, q) : k \in Messages!Unflagged(q)
      <4>1. SUFFICES ASSUME NEW k \in UpdatedOf(job_messages, q)
                     PROVE  k \in Messages!Unflagged(q)
        OBVIOUS
      <4>2. k \in 1..(q - 1) /\ job_messages[k].updated
        BY DEF UpdatedOf
      <4>3. job_messages[k].file = "synced"
        BY <1>1, <3>2, <4>2 DEF StoredOf
      <4>4. QED
        BY <4>2, <4>3 DEF Messages!Unflagged
    <3>4. ASSUME NEW k \in Messages!Unflagged(q)
          PROVE  job_messages[k].updated
      <4>1. SUFFICES ASSUME ~job_messages[k].updated
                     PROVE  FALSE
        OBVIOUS
      <4>2. k \in 1..(q - 1) /\ job_messages[k].file # "flagged" /\ k \in DOMAIN job_messages
        BY <3>2 DEF Messages!Unflagged
      <4>3. Cardinality(UpdatedOf(job_messages, k)) >= pending_offset
        <5>1. PassedOf(job_messages, pending_offset) /\ k \in 1..Len(job_messages) + 1
          BY <1>1, <1>4, <4>2 DEF StoredOf
        <5>2. QED
          BY <4>1, <4>2, <5>1 DEF PassedOf
      <4>4. UpdatedOf(job_messages, k) \in SUBSET Messages!Unflagged(q)
        BY <3>2, <3>3, <4>2 DEF UpdatedOf
      <4>5. k \notin UpdatedOf(job_messages, k)
        BY <4>1 DEF UpdatedOf
      <4>6. UpdatedOf(job_messages, k) \cup {k} \in SUBSET Messages!Unflagged(q)
        BY <4>4, <3>4
      <4>7. /\ IsFiniteSet(UpdatedOf(job_messages, k))
            /\ Cardinality(UpdatedOf(job_messages, k)) \in Nat
        BY <3>2, <4>4, CountFacts
      <4>8. Cardinality(UpdatedOf(job_messages, k) \cup {k})
              = Cardinality(UpdatedOf(job_messages, k)) + 1
        BY <4>5, <4>7, FS_AddElement
      <4>9. Cardinality(UpdatedOf(job_messages, k) \cup {k}) <= pending_offset
        BY <3>1, <3>2, <4>6, CountFacts
      <4>10. QED
        BY <1>1, <4>3, <4>7, <4>8, <4>9
    <3>5. SUFFICES ASSUME NEW m \in 1..Len(job_messages') + 1,
                          ~(/\ m \in DOMAIN job_messages'
                            /\ job_messages'[m].file = "flagged" \/ job_messages'[m].updated)
                   PROVE  Cardinality(UpdatedOf(job_messages', m)) >= pending_offset + 1
      BY DEF PassedOf
    <3>6. m > q
      <4>1. SUFFICES ASSUME m <= q
                     PROVE  FALSE
        BY <3>2
      <4>2. m \in DOMAIN job_messages /\ m # q
        BY <1>4, <2>3, <3>2, <3>5, <4>1
      <4>3. job_messages'[m] = job_messages[m]
        BY <2>3, <4>2
      <4>4. m \in Messages!Unflagged(q)
        BY <1>4, <2>3, <3>2, <3>5, <4>1, <4>2, <4>3 DEF Messages!Unflagged
      <4>5. QED
        BY <2>3, <3>4, <3>5, <4>2, <4>3, <4>4
    <3>7. Messages!Unflagged(q) \cup {q} \in SUBSET UpdatedOf(job_messages', m)
      <4>1. SUFFICES ASSUME NEW k \in Messages!Unflagged(q) \cup {q}
                     PROVE  k \in UpdatedOf(job_messages', m)
        OBVIOUS
      <4>2. k \in 1..(m - 1)
        BY <2>3, <3>2, <3>5, <3>6
      <4>3. job_messages'[k].updated
        <5>1. CASE k = q
          BY <2>3, <5>1
        <5>2. CASE k # q
          <6>1. k \in Messages!Unflagged(q) /\ k \in DOMAIN job_messages
            BY <3>2, <5>2
          <6>2. QED
            BY <2>3, <3>4, <5>2, <6>1
        <5>3. QED
          BY <5>1, <5>2
      <4>4. QED
        BY <4>2, <4>3 DEF UpdatedOf
    <3>8. /\ IsFiniteSet(Messages!Unflagged(q)) /\ q \notin Messages!Unflagged(q)
      <4>1. q \notin 1..(q - 1)
        BY <3>2
      <4>2. QED
        BY <3>2, <4>1, CountFacts
    <3>9. Cardinality(Messages!Unflagged(q) \cup {q}) = pending_offset + 1
      BY <3>1, <3>8, FS_AddElement
    <3>10. UpdatedOf(job_messages', m) \in SUBSET (1..(m - 1)) /\ m - 1 \in Int
      BY <2>3, <3>5 DEF UpdatedOf
    <3>11. /\ Cardinality(UpdatedOf(job_messages', m)) \in Nat
           /\ Cardinality(Messages!Unflagged(q) \cup {q}) <= Cardinality(UpdatedOf(job_messages', m))
      BY <3>7, <3>10, CountFacts
    <3>12. QED
      BY <1>1, <3>9, <3>11
  <2>5. PassedOf(job_messages', pending_offset') /\ PassedOf(job_messages', saved_offset')
    <3>1. /\ pending_offset' \in Nat /\ pending_offset' <= pending_offset + 1
          /\ saved_offset' \in Nat /\ saved_offset' <= pending_offset + 1
          /\ pending_offset + 1 \in Nat
      BY <1>1, <2>2
    <3>2. QED
      BY <2>3, <2>4, <3>1, FewerPassed
  <2>6. /\ \A m \in DOMAIN job_messages' : job_messages'[m].name = StoredJobs[m]
        /\ \A m \in DOMAIN job_messages' : job_messages'[m].updated => job_messages'[m].file = "synced"
        /\ \A m \in DOMAIN job_messages' : job_messages'[m].file # "bad"
    BY <1>1, <2>2, <2>3 DEF StoredOf
  <2>7. \/ Len(job_messages') = Len(StoredJobs)
        \/ \E m \in DOMAIN job_messages' : job_messages'[m].file \in {"bad", "flagged"}
    <3>1. job_messages[q].file # "flagged" /\ job_messages[q].file # "bad"
      BY <1>1, <2>1, <2>2 DEF StoredOf, Messages!IsPending
    <3>2. \/ Len(job_messages) = Len(StoredJobs)
          \/ \E m \in DOMAIN job_messages : job_messages[m].file \in {"bad", "flagged"}
      BY <1>1, <2>2 DEF StoredOf
    <3>3. CASE \E m \in DOMAIN job_messages : job_messages[m].file \in {"bad", "flagged"}
      <4>1. PICK m \in DOMAIN job_messages : job_messages[m].file \in {"bad", "flagged"}
        BY <3>3
      <4>2. m # q
        BY <3>1, <4>1
      <4>3. QED
        BY <2>3, <4>1, <4>2
    <3>4. QED
      BY <2>3, <3>2, <3>3
  <2>8. Len(job_messages') <= Len(StoredJobs)
    BY <1>1, <2>3 DEF StoredOf
  <2>9. StoredOf(job_messages', pending_offset', saved_offset', "prompting", adding)
    BY <2>5, <2>6, <2>7, <2>8 DEF StoredOf
  <2>10. cache' \subseteq ToSet(StoredJobs)
    <3>1. job_messages[q].name \in ToSet(StoredJobs)
      BY <1>4, MessageFacts
    <3>2. QED
      BY <1>1, <2>1, <3>1
  <2>11. pending_offset' \in Nat /\ saved_offset' \in Nat
    BY <1>1, <2>2
  <2>12. QED
    BY <1>1, <1>2, <1>3, <2>2, <2>3, <2>9, <2>10, <2>11
<1>17. QED
  BY <1>8, <1>9, <1>10, <1>11, <1>12, <1>13, <1>14, <1>15, <1>16 DEF Messages!Next

LEMMA MessagesAreKept ==
  Messages!IInv => /\ Messages!GatheredUnlessBroken /\ Messages!ResultsAreDurable
                   /\ Messages!NothingIsSkipped /\ Messages!JobsAreInOrder
<1> SUFFICES ASSUME Messages!IInv
             PROVE  /\ Messages!GatheredUnlessBroken /\ Messages!ResultsAreDurable
                    /\ Messages!NothingIsSkipped /\ Messages!JobsAreInOrder
  OBVIOUS
<1>1. /\ job_messages \in Seq(MessageType) /\ pending_offset \in Nat
      /\ StoredOf(job_messages, pending_offset, saved_offset, store_pc, adding)
  BY StoredIsIInv
<1>2. Len(job_messages) \in Nat /\ DOMAIN job_messages = 1..Len(job_messages)
  BY <1>1
<1>3. /\ Len(job_messages) <= Len(StoredJobs)
      /\ \A m \in DOMAIN job_messages : job_messages[m].name = StoredJobs[m]
      /\ store_pc = "prompting" =>
           /\ \/ Len(job_messages) = Len(StoredJobs)
              \/ \E m \in DOMAIN job_messages : job_messages[m].file \in {"bad", "flagged"}
           /\ \A m \in DOMAIN job_messages : job_messages[m].file # "bad"
      /\ \A m \in DOMAIN job_messages : job_messages[m].updated => job_messages[m].file = "synced"
      /\ PassedOf(job_messages, pending_offset)
  BY <1>1 DEF StoredOf
<1>4. Messages!GatheredUnlessBroken
  <2>1. SUFFICES ASSUME store_pc = "prompting",
                        \A m \in DOMAIN job_messages : job_messages[m].file # "flagged"
                 PROVE  \A k \in DOMAIN StoredJobs :
                          \E m \in DOMAIN job_messages : job_messages[m].name = StoredJobs[k]
    BY DEF Messages!GatheredUnlessBroken
  <2>2. Len(job_messages) = Len(StoredJobs)
    BY <1>3, <2>1
  <2>3. DOMAIN StoredJobs = DOMAIN job_messages
    BY <1>2, <2>2, StoredJobsFacts
  <2>4. QED
    BY <1>3, <2>3
<1>5. Messages!ResultsAreDurable
  BY <1>3 DEF Messages!ResultsAreDurable
<1>6. Messages!JobsAreInOrder
  <2>1. ASSUME NEW k \in DOMAIN job_messages, NEW m \in DOMAIN job_messages, k < m
        PROVE  \E a, b \in DOMAIN StoredJobs :
                 a < b /\ StoredJobs[a] = job_messages[k].name /\ StoredJobs[b] = job_messages[m].name
    <3>1. k \in DOMAIN StoredJobs /\ m \in DOMAIN StoredJobs
      <4>1. Len(job_messages) <= Len(StoredJobs)
        BY <1>3
      <4>2. Len(StoredJobs) \in Nat /\ DOMAIN StoredJobs = 1..Len(StoredJobs)
        BY StoredJobsFacts
      <4>3. QED
        BY <1>2, <4>1, <4>2
    <3>2. \A q \in DOMAIN job_messages : job_messages[q].name = StoredJobs[q]
      BY <1>3
    <3>3. StoredJobs[k] = job_messages[k].name /\ StoredJobs[m] = job_messages[m].name
      BY ONLY <2>1, <3>2
    <3>4. QED
      BY ONLY <2>1, <3>1, <3>3
  <2>2. QED
    BY <2>1 DEF Messages!JobsAreInOrder
<1>7. Messages!NothingIsSkipped
  <2>1. ASSUME NEW m \in DOMAIN job_messages, job_messages[m].file # "flagged",
               Cardinality(Messages!Unflagged(m)) < pending_offset
        PROVE  job_messages[m].updated
    <3>1. SUFFICES ASSUME ~job_messages[m].updated
                   PROVE  FALSE
      OBVIOUS
    <3>2. m \in 1..Len(job_messages) + 1 /\ m - 1 \in Int
      BY <1>2
    <3>3. Cardinality(UpdatedOf(job_messages, m)) >= pending_offset
      BY <1>3, <2>1, <3>1, <3>2 DEF PassedOf
    <3>4. Messages!Unflagged(m) \in SUBSET (1..(m - 1))
      BY DEF Messages!Unflagged
    <3>5. UpdatedOf(job_messages, m) \in SUBSET Messages!Unflagged(m)
      <4>1. SUFFICES ASSUME NEW k \in UpdatedOf(job_messages, m)
                     PROVE  k \in Messages!Unflagged(m)
        OBVIOUS
      <4>2. k \in 1..(m - 1) /\ job_messages[k].updated
        BY DEF UpdatedOf
      <4>3. k \in DOMAIN job_messages
        BY <1>2, <4>2
      <4>4. QED
        BY <1>3, <4>2, <4>3 DEF Messages!Unflagged
    <3>6. /\ Cardinality(UpdatedOf(job_messages, m)) <= Cardinality(Messages!Unflagged(m))
          /\ Cardinality(UpdatedOf(job_messages, m)) \in Nat
          /\ Cardinality(Messages!Unflagged(m)) \in Nat
      BY <3>2, <3>4, <3>5, CountFacts
    <3>7. QED
      BY <1>1, <2>1, <3>3, <3>6
  <2>2. QED
    BY <2>1, SameOperators DEF Messages!NothingIsSkipped
<1>8. QED
  BY <1>4, <1>5, <1>6, <1>7

-----------------------------------------------------------------------------
(* The choice of tests.                                                    *)

LEMMA ChoiceConstants == Choice!TreeAssumption
BY PartsAssumption

LEMMA ChoiceFinite == \A S : Choice!IsFiniteSet(S) <=> IsFiniteSet(S)
BY DEF Choice!IsFiniteSet, IsFiniteSet

\* The suites around a node.
LEMMA AboveFacts ==
  ASSUME NEW n \in ChoiceNodes
  PROVE  /\ ChoiceAbove[n] \subseteq ChoiceNodes /\ n \notin ChoiceAbove[n]
         /\ Choice!Encloses(n, ChoiceAbove[n])
         /\ \A S \in SUBSET ChoiceNodes : Choice!Encloses(n, S) => ChoiceAbove[n] \subseteq S
<1>1. /\ ChoiceParent \in [ChoiceNodes -> ChoiceNodes \cup {NoSuite}]
      /\ n \notin ChoiceAbove[n]
  BY ChoiceConstants DEF Choice!TreeAssumption
<1>2. ChoiceAbove[n] = {a \in ChoiceNodes :
                          \A S \in SUBSET ChoiceNodes : Choice!Encloses(n, S) => a \in S}
  BY ChoiceConstants DEF Choice!TreeAssumption
<1>3. ASSUME NEW m \in {n} \cup ChoiceAbove[n], ChoiceParent[m] # NoSuite
      PROVE  ChoiceParent[m] \in ChoiceAbove[n]
  <2>1. ChoiceParent[m] \in ChoiceNodes
    BY <1>1, <1>2, <1>3
  <2>2. ASSUME NEW S \in SUBSET ChoiceNodes, Choice!Encloses(n, S)
        PROVE  ChoiceParent[m] \in S
    BY <1>2, <1>3, <2>2 DEF Choice!Encloses
  <2>3. QED
    BY <1>2, <2>1, <2>2
<1>4. Choice!Encloses(n, ChoiceAbove[n])
  BY <1>3 DEF Choice!Encloses
<1>5. QED
  BY <1>1, <1>2, <1>4

\* The suites around the suites around a node.
LEMMA AboveIs ==
  ASSUME NEW n \in ChoiceNodes
  PROVE  /\ ChoiceParent[n] = NoSuite => ChoiceAbove[n] = {}
         /\ ChoiceParent[n] # NoSuite =>
              /\ ChoiceParent[n] \in ChoiceNodes
              /\ ChoiceAbove[n] = {ChoiceParent[n]} \cup ChoiceAbove[ChoiceParent[n]]
         /\ \A a \in ChoiceAbove[n] : a \in ChoiceNodes
                                      /\ ChoiceAbove[a] \subseteq ChoiceAbove[n]
<1>1. ChoiceParent \in [ChoiceNodes -> ChoiceNodes \cup {NoSuite}]
  BY ChoiceConstants DEF Choice!TreeAssumption
<1>2. ASSUME NEW a \in ChoiceAbove[n]
      PROVE  a \in ChoiceNodes /\ ChoiceAbove[a] \subseteq ChoiceAbove[n]
  <2>1. a \in ChoiceNodes /\ ChoiceAbove[n] \in SUBSET ChoiceNodes
    BY <1>2, AboveFacts
  <2>2. Choice!Encloses(a, ChoiceAbove[n])
    BY <1>2, AboveFacts DEF Choice!Encloses
  <2>3. QED
    BY <2>1, <2>2, AboveFacts
<1>3. ASSUME ChoiceParent[n] = NoSuite
      PROVE  ChoiceAbove[n] = {}
  <2>1. Choice!Encloses(n, {})
    BY <1>3 DEF Choice!Encloses
  <2>2. QED
    BY <2>1, AboveFacts
<1>4. ASSUME NEW p, p = ChoiceParent[n], p # NoSuite
      PROVE  p \in ChoiceNodes /\ ChoiceAbove[n] = {p} \cup ChoiceAbove[p]
  <2>1. p \in ChoiceNodes
    BY <1>1, <1>4
  <2>2. p \in ChoiceAbove[n] /\ ChoiceAbove[p] \subseteq ChoiceAbove[n]
    BY <1>2, <1>4, AboveFacts DEF Choice!Encloses
  <2>3. Choice!Encloses(p, ChoiceAbove[p]) /\ ChoiceAbove[p] \in SUBSET ChoiceNodes
    BY <2>1, AboveFacts
  <2>4. Choice!Encloses(n, {p} \cup ChoiceAbove[p])
    BY ONLY <1>4, <2>3 DEF Choice!Encloses
  <2>5. ChoiceAbove[n] \subseteq {p} \cup ChoiceAbove[p]
    BY <2>1, <2>3, <2>4, AboveFacts
  <2>6. QED
    BY <2>1, <2>2, <2>5
<1>5. QED
  BY <1>2, <1>3, <1>4

\* Of two suites around a node one is in the other.
LEMMA AboveIsChain ==
  ASSUME NEW n \in ChoiceNodes, NEW b \in ChoiceAbove[n]
  PROVE  \A a \in ChoiceAbove[n] : a = b \/ a \in ChoiceAbove[b] \/ b \in ChoiceAbove[a]
<1> DEFINE S == {a \in ChoiceAbove[n] : a = b \/ a \in ChoiceAbove[b] \/ b \in ChoiceAbove[a]}
<1>1. b \in ChoiceNodes /\ S \in SUBSET ChoiceNodes
  BY AboveFacts
<1>2. ASSUME NEW m \in {n} \cup S, ChoiceParent[m] # NoSuite
      PROVE  ChoiceParent[m] \in S
  <2>1. m \in ChoiceNodes /\ ChoiceParent[m] \in ChoiceAbove[n]
    BY <1>2, AboveFacts DEF Choice!Encloses
  <2>2. m = b \/ m \in ChoiceAbove[b] => ChoiceParent[m] \in ChoiceAbove[b]
    BY <1>1, <1>2, AboveFacts DEF Choice!Encloses
  <2>3. b \in ChoiceAbove[m] => b = ChoiceParent[m] \/ b \in ChoiceAbove[ChoiceParent[m]]
    BY <1>2, <2>1, AboveIs
  <2>4. QED
    BY <1>2, <2>1, <2>2, <2>3
<1>3. Choice!Encloses(n, S)
  BY <1>2 DEF Choice!Encloses
<1>4. QED
  BY <1>1, <1>3, AboveFacts

\* What a suite is around is what is under it; tests are around nothing.
LEMMA UnderFacts ==
  /\ \A n, m \in ChoiceNodes : m \in Choice!ChoiceUnder(n) <=> m = n \/ n \in ChoiceAbove[m]
  /\ \A n \in ChoiceNodes : n \in Choice!ChoiceUnder(n)
                            /\ Choice!ChoiceUnder(n) \subseteq ChoiceNodes
  /\ Choice!Tests \subseteq ChoiceNodes
  /\ \A n \in ChoiceNodes : ChoiceAbove[n] \cap Choice!Tests = {}
  /\ \A n, c \in ChoiceNodes : c \in Choice!Children(n) => n \in ChoiceAbove[c]
                               /\ ChoiceAbove[n] \subseteq ChoiceAbove[c]
  /\ \A n \in ChoiceNodes : n \notin Choice!Tests <=> Choice!Children(n) # {}
<1>1. /\ \A n, m \in ChoiceNodes : m \in Choice!ChoiceUnder(n) <=> m = n \/ n \in ChoiceAbove[m]
      /\ \A n \in ChoiceNodes : n \in Choice!ChoiceUnder(n)
                                /\ Choice!ChoiceUnder(n) \subseteq ChoiceNodes
  BY DEF Choice!ChoiceUnder
<1>2. /\ Choice!Tests \subseteq ChoiceNodes
      /\ \A n \in ChoiceNodes : n \notin Choice!Tests <=> Choice!Children(n) # {}
  BY DEF Choice!Tests
<1>3. ASSUME NEW n \in ChoiceNodes, NEW c \in ChoiceNodes, c \in Choice!Children(n)
      PROVE  n \in ChoiceAbove[c] /\ ChoiceAbove[n] \subseteq ChoiceAbove[c]
  <2>1. ChoiceParent[c] = n /\ n # NoSuite
    BY <1>3, ChoiceConstants DEF Choice!Children, Choice!TreeAssumption
  <2>2. QED
    BY <2>1, AboveIs
<1>4. ASSUME NEW n \in ChoiceNodes
      PROVE  ChoiceAbove[n] \cap Choice!Tests = {}
  <2> DEFINE S == ChoiceAbove[n] \ Choice!Tests
  <2>1. S \in SUBSET ChoiceNodes
    BY AboveFacts
  <2>2. \A m \in {n} \cup S : ChoiceParent[m] \in ChoiceAbove[n] \cup {NoSuite}
                              /\ m \in ChoiceNodes
    BY AboveFacts DEF Choice!Encloses
  <2>3. \A m \in {n} \cup S : ChoiceParent[m] \notin Choice!Tests
    BY <2>2 DEF Choice!Tests, Choice!Children
  <2>4. Choice!Encloses(n, S)
    BY <2>2, <2>3 DEF Choice!Encloses
  <2>5. QED
    BY <2>1, <2>4, AboveFacts
<1>5. QED
  BY <1>1, <1>2, <1>3, <1>4

LessThan == OpToRel(<, Nat)

LEMMA LessIsWellFounded == IsWellFoundedOn(LessThan, Nat)
BY NatLessThanWellFounded, Zenon DEF LessThan

LEMMA LessContains == \A k, j \in Nat : k < j => <<k, j>> \in LessThan
BY Zenon DEF LessThan, OpToRel

LEMMA Least ==
  ASSUME NEW I \in SUBSET Nat, I # {}
  PROVE  \E k \in I : \A j \in I : k <= j
<1>1. PICK k \in I : \A j \in I : ~(<<j, k>> \in LessThan)
  BY LessIsWellFounded, WFMin
<1>2. \A j \in I : ~(j < k)
  BY <1>1, LessContains
<1>3. QED
  BY <1>2

LEMMA TestBelow ==
  ASSUME NEW n \in ChoiceNodes
  PROVE  Choice!ChoiceUnder(n) \cap Choice!Tests # {}
<1> DEFINE Sizes == {k \in Nat :
                       \E m \in Choice!ChoiceUnder(n) : k = Cardinality(Choice!ChoiceUnder(m))}
<1>1. \A m \in ChoiceNodes : IsFiniteSet(Choice!ChoiceUnder(m))
                             /\ Cardinality(Choice!ChoiceUnder(m)) \in Nat
  <2>1. IsFiniteSet(ChoiceNodes) /\ \A m \in ChoiceNodes :
        Choice!ChoiceUnder(m) \subseteq ChoiceNodes
    BY ChoiceConstants, ChoiceFinite, UnderFacts DEF Choice!TreeAssumption
  <2>2. QED
    BY <2>1, FS_Subset, FS_CardinalityType
<1>2. n \in Choice!ChoiceUnder(n) /\ Choice!ChoiceUnder(n) \subseteq ChoiceNodes
  BY UnderFacts
<1>3. Sizes # {} /\ Sizes \in SUBSET Nat
  BY <1>1, <1>2
<1>4. PICK k \in Sizes : \A j \in Sizes : k <= j
  BY ONLY <1>3, Least
<1>5. PICK m \in Choice!ChoiceUnder(n) : k = Cardinality(Choice!ChoiceUnder(m))
  BY <1>4
<1>6. m \in ChoiceNodes
  BY <1>2, <1>5
<1>7. SUFFICES ASSUME Choice!Children(m) # {}
               PROVE  FALSE
  BY <1>5, <1>6, UnderFacts
<1>8. PICK c \in ChoiceNodes : c \in Choice!Children(m)
  BY <1>7 DEF Choice!Children
<1>9. m \in ChoiceAbove[c] /\ ChoiceAbove[m] \subseteq ChoiceAbove[c]
  BY <1>6, <1>8, UnderFacts
<1>10. c \in Choice!ChoiceUnder(n)
  BY <1>2, <1>5, <1>6, <1>8, <1>9, UnderFacts
<1>11. Choice!ChoiceUnder(c) \subseteq Choice!ChoiceUnder(m)
  <2>1. \A x \in ChoiceNodes : c \in ChoiceAbove[x] => ChoiceAbove[c] \subseteq ChoiceAbove[x]
    BY AboveIs
  <2>2. QED
    BY <1>6, <1>8, <1>9, <2>1, UnderFacts
<1>12. m \notin Choice!ChoiceUnder(c)
  <2>1. c \in ChoiceAbove[m] => c \in ChoiceAbove[c]
    BY <1>9
  <2>2. c # m
    BY <1>8, <1>9, AboveFacts
  <2>3. QED
    BY <1>6, <1>8, <2>1, <2>2, AboveFacts, UnderFacts
<1>13. Cardinality(Choice!ChoiceUnder(c)) < Cardinality(Choice!ChoiceUnder(m))
  <2>1. m \in Choice!ChoiceUnder(m)
    BY <1>6, UnderFacts
  <2>2. /\ Cardinality(Choice!ChoiceUnder(c)) <= Cardinality(Choice!ChoiceUnder(m))
        /\ Cardinality(Choice!ChoiceUnder(c)) = Cardinality(Choice!ChoiceUnder(m))
           => Choice!ChoiceUnder(c) = Choice!ChoiceUnder(m)
    BY <1>1, <1>6, <1>11, FS_Subset
  <2>3. QED
    BY <1>1, <1>6, <1>8, <1>12, <2>1, <2>2
<1>14. Cardinality(Choice!ChoiceUnder(c)) \in Sizes
  BY <1>1, <1>8, <1>10
<1>15. k <= Cardinality(Choice!ChoiceUnder(c)) /\ k \in Nat
       /\ Cardinality(Choice!ChoiceUnder(c)) \in Nat
  BY <1>1, <1>3, <1>4, <1>8, <1>14
<1>16. QED
  BY ONLY <1>5, <1>13, <1>15

LEMMA InsideIs ==
  ASSUME NEW nodes \in SUBSET ChoiceNodes, NEW inside \in SUBSET ChoiceNodes,
         Choice!SuitesAreSet(nodes, inside), Choice!SuitesAreSet(inside \ nodes, inside),
         nodes \subseteq inside
  PROVE  \A n \in nodes : ChoiceAbove[n] \subseteq inside
<1>1. ASSUME NEW n \in nodes
      PROVE  Choice!Encloses(n, inside)
  BY DEF Choice!SuitesAreSet, Choice!Encloses
<1>2. QED
  BY <1>1, AboveFacts

\* Setting a node with what is under it and around it, as set_children and
\* set_ancestors do.
LEMMA SetKeeps ==
  ASSUME NEW nodes \in SUBSET ChoiceNodes, NEW n \in ChoiceNodes,
         NEW new, new = nodes \cup Choice!ChoiceUnder(n) \cup ChoiceAbove[n]
  PROVE  /\ Choice!SuitesAreSet(nodes, nodes) => Choice!SuitesAreSet(new, new)
         /\ Choice!HasTests(nodes) => Choice!HasTests(new)
         /\ new \cap Choice!Tests = (nodes \cup Choice!ChoiceUnder(n)) \cap Choice!Tests
         /\ new \in SUBSET ChoiceNodes
<1>1. new \in SUBSET ChoiceNodes
  BY AboveFacts, UnderFacts
<1>2. new \cap Choice!Tests = (nodes \cup Choice!ChoiceUnder(n)) \cap Choice!Tests
  BY UnderFacts
<1>3. ASSUME Choice!SuitesAreSet(nodes, nodes), NEW m \in new, ChoiceParent[m] # NoSuite
      PROVE  ChoiceParent[m] \in new
  <2>1. m \in ChoiceNodes
    BY <1>1, <1>3
  <2>2. CASE m \in nodes
    BY <1>3, <2>2 DEF Choice!SuitesAreSet
  <2>3. CASE m \in {n} \cup ChoiceAbove[n]
    BY <1>3, <2>3, AboveFacts DEF Choice!Encloses
  <2>4. CASE n \in ChoiceAbove[m]
    <3>1. ChoiceParent[m] \in ChoiceNodes
          /\ (n = ChoiceParent[m] \/ n \in ChoiceAbove[ChoiceParent[m]])
      BY <1>3, <2>1, <2>4, AboveIs
    <3>2. QED
      BY <3>1, UnderFacts
  <2>5. QED
    BY <2>1, <2>2, <2>3, <2>4, UnderFacts
<1>4. ASSUME Choice!HasTests(nodes), NEW m \in new \ Choice!Tests
      PROVE  Choice!ChoiceUnder(m) \cap Choice!Tests \cap new # {}
  <2>1. m \in ChoiceNodes
    BY <1>1, <1>4
  <2>2. CASE m \in nodes
    BY <1>4, <2>2 DEF Choice!HasTests
  <2>3. CASE m \in Choice!ChoiceUnder(n)
    <3>1. PICK t : t \in Choice!ChoiceUnder(m) \cap Choice!Tests
      BY <2>1, TestBelow
    <3>2. t \in Choice!ChoiceUnder(n)
      BY <2>1, <2>3, <3>1, AboveIs, UnderFacts
    <3>3. QED
      BY <3>1, <3>2
  <2>4. CASE m \in ChoiceAbove[n]
    <3>1. PICK t : t \in Choice!ChoiceUnder(n) \cap Choice!Tests
      BY TestBelow
    <3>2. t \in Choice!ChoiceUnder(m)
      BY <2>1, <2>4, <3>1, AboveIs, UnderFacts
    <3>3. QED
      BY <3>1, <3>2
  <2>5. QED
    BY <2>2, <2>3, <2>4
<1>5. QED
  BY <1>1, <1>2, <1>3, <1>4 DEF Choice!SuitesAreSet, Choice!HasTests

\* Unsetting a node with what is under it, and the suites around it that have no
\* other node set.
LEMMA ClearKeeps ==
  ASSUME NEW nodes \in SUBSET ChoiceNodes, NEW n \in ChoiceNodes,
         NEW new, new = Choice!ClearAbove(n, nodes \ Choice!ChoiceUnder(n))
  PROVE  /\ Choice!SuitesAreSet(nodes, nodes) => Choice!SuitesAreSet(new, new)
         /\ Choice!HasTests(nodes) => Choice!HasTests(new)
         /\ new \cap Choice!Tests = (nodes \cap Choice!Tests) \ Choice!ChoiceUnder(n)
         /\ new \in SUBSET ChoiceNodes
<1> DEFINE kept == nodes \ Choice!ChoiceUnder(n)
           Alone(b) == Choice!Children(b) \cap kept \subseteq ChoiceAbove[n]
           Cleared(a) == /\ a \in ChoiceAbove[n]
                         /\ \A b \in ChoiceAbove[n] \cap Choice!ChoiceUnder(a) : Alone(b)
<1>1. \A m : m \in new <=> m \in nodes /\ m \notin Choice!ChoiceUnder(n) /\ ~Cleared(m)
  BY DEF Choice!ClearAbove
<1>2. new \in SUBSET ChoiceNodes
  BY <1>1
<1>3. new \cap Choice!Tests = (nodes \cap Choice!Tests) \ Choice!ChoiceUnder(n)
  <2>1. ChoiceAbove[n] \cap Choice!Tests = {}
    BY UnderFacts
  <2>2. QED
    BY <1>1, <2>1
<1>4. ASSUME Choice!SuitesAreSet(nodes, nodes), NEW m \in new, NEW p, p = ChoiceParent[m],
             p # NoSuite
      PROVE  p \in new
  <2>1. m \in ChoiceNodes /\ m \in kept /\ p \in nodes /\ p \in ChoiceNodes
    BY <1>1, <1>2, <1>4 DEF Choice!SuitesAreSet
  <2>2. m \in Choice!Children(p) /\ p \in ChoiceAbove[m]
    BY <1>4, <2>1, UnderFacts DEF Choice!Children
  <2>3. p \notin Choice!ChoiceUnder(n)
    <3>1. p = n \/ n \in ChoiceAbove[p] => n \in ChoiceAbove[m]
      BY <2>1, <2>2, AboveIs
    <3>2. QED
      BY <2>1, <3>1, UnderFacts
  <2>4. ASSUME Cleared(p)
        PROVE  FALSE
    <3>1. p \in Choice!ChoiceUnder(p)
      BY <2>1, UnderFacts
    <3>2. m \in ChoiceAbove[n]
      BY <2>1, <2>2, <2>4, <3>1
    <3>3. Choice!ChoiceUnder(m) \subseteq Choice!ChoiceUnder(p)
      BY <2>1, <2>2, AboveIs, UnderFacts
    <3>4. Cleared(m)
      BY <2>4, <3>2, <3>3
    <3>5. QED
      BY <1>1, <1>4, <3>4
  <2>5. QED
    BY <1>1, <2>1, <2>3, <2>4
<1>5. ASSUME Choice!HasTests(nodes), NEW m \in new \ Choice!Tests
      PROVE  Choice!ChoiceUnder(m) \cap Choice!Tests \cap new # {}
  <2>1. m \in ChoiceNodes /\ m \in nodes /\ m \notin Choice!ChoiceUnder(n) /\ ~Cleared(m)
    BY <1>1, <1>5
  <2>2. PICK t \in ChoiceNodes : t \in Choice!Tests /\ t \in nodes
             /\ t \in Choice!ChoiceUnder(m)
    BY <1>5, <2>1 DEF Choice!HasTests
  <2>3. CASE t \notin Choice!ChoiceUnder(n)
    BY <1>3, <2>2, <2>3
  <2>4. CASE t \in Choice!ChoiceUnder(n)
    <3>1. m \in ChoiceAbove[t] /\ (n = t \/ n \in ChoiceAbove[t])
      BY <1>5, <2>1, <2>2, <2>4, UnderFacts
    <3>2. m \in ChoiceAbove[n]
      BY <2>1, <2>2, <3>1, AboveIsChain, UnderFacts
    <3>3. PICK b \in ChoiceNodes : b \in ChoiceAbove[n] /\ b \in Choice!ChoiceUnder(m)
               /\ ~Alone(b)
      BY <2>1, <3>2, AboveFacts
    <3>4. PICK c \in ChoiceNodes : c \in Choice!Children(b) /\ c \in nodes
               /\ c \notin Choice!ChoiceUnder(n)
                                   /\ c \notin ChoiceAbove[n]
      BY <3>3
    <3>5. PICK u \in ChoiceNodes : u \in Choice!Tests /\ u \in nodes
               /\ u \in Choice!ChoiceUnder(c)
      <4>1. CASE c \in Choice!Tests
        BY <3>4, <4>1, UnderFacts
      <4>2. CASE c \notin Choice!Tests
        <5>1. Choice!ChoiceUnder(c) \cap Choice!Tests \cap nodes # {}
          BY <1>5, <3>4, <4>2 DEF Choice!HasTests
        <5>2. QED
          BY <5>1
      <4>3. QED
        BY <4>1, <4>2
    <3>6. b \in ChoiceAbove[c] /\ ChoiceAbove[b] \subseteq ChoiceAbove[c]
      BY <3>3, <3>4, UnderFacts
    <3>7. m \in ChoiceAbove[c]
      BY <2>1, <3>3, <3>6, UnderFacts
    <3>8. u \in Choice!ChoiceUnder(m)
      BY <2>1, <3>4, <3>5, <3>7, AboveIs, UnderFacts
    <3>9. u \notin Choice!ChoiceUnder(n)
      <4>1. SUFFICES ASSUME n = u \/ n \in ChoiceAbove[u]
                     PROVE  FALSE
        BY <3>5, UnderFacts
      <4>2. c = u \/ c \in ChoiceAbove[u]
        BY <3>4, <3>5, UnderFacts
      <4>3. c = n \/ c \in ChoiceAbove[n] \/ n \in ChoiceAbove[c]
        BY <3>5, <4>1, <4>2, AboveIsChain
      <4>4. QED
        BY <3>4, <4>3, UnderFacts
    <3>10. QED
      BY <1>3, <3>5, <3>8, <3>9
  <2>5. QED
    BY <2>3, <2>4
<1>6. QED
  BY <1>2, <1>3, <1>4, <1>5 DEF Choice!SuitesAreSet, Choice!HasTests

LEMMA FrontFacts ==
  ASSUME NEW S, NEW s \in Seq(S), s # <<>>
  PROVE  /\ Len(s) \in Nat /\ Len(s) >= 1 /\ DOMAIN s = 1..Len(s)
         /\ SubSeq(s, 1, Len(s) - 1) \in Seq(S)
         /\ DOMAIN SubSeq(s, 1, Len(s) - 1) = 1..(Len(s) - 1)
         /\ \A k \in 1..(Len(s) - 1) : SubSeq(s, 1, Len(s) - 1)[k] = s[k]
OBVIOUS

\* What the invariant says of the nodes alone.
LEMMA ChoiceFacts ==
  ASSUME Choice!ChoiceInv
  PROVE  /\ active \in SUBSET ChoiceNodes /\ default \in SUBSET ChoiceNodes
         /\ Choice!OpenDialogs \in SUBSET ChoiceNodes
         /\ Choice!SuitesAreSet(Choice!OpenDialogs, Choice!OpenDialogs)
         /\ (views = <<>> => Choice!OpenDialogs = {})
         /\ (tree_shown # "cli" => views = <<>>)
<1>1. active \in SUBSET ChoiceNodes /\ default \in SUBSET ChoiceNodes
      /\ views \in Seq(ChoiceNodes \ Choice!Tests)
  BY DEF Choice!ChoiceInv, Choice!ChoiceTypeOK
<1>2. Len(views) \in Nat /\ DOMAIN views = 1..Len(views) /\ \A k \in 1..Len(views) :
      views[k] \in ChoiceNodes
  <2>1. \A S : \A s \in Seq(S) : Len(s) \in Nat /\ DOMAIN s = 1..Len(s) /\ \A k \in 1..Len(s) :
               s[k] \in S
    OBVIOUS
  <2>2. QED
    BY <1>1, <2>1
<1>3. Choice!OpenDialogs \in SUBSET ChoiceNodes
  BY <1>2 DEF Choice!OpenDialogs
<1>4. views = <<>> => Choice!OpenDialogs = {}
  BY DEF Choice!OpenDialogs
<1>5. tree_shown # "cli" => views = <<>>
  BY DEF Choice!ChoiceInv, Choice!DialogsAreNested
<1>6. ASSUME NEW d \in DOMAIN views
      PROVE  ChoiceParent[views[d]] \in Choice!OpenDialogs \cup {NoSuite}
  <2>1. ChoiceParent[views[d]] = IF d = 1 THEN NoSuite ELSE views[d - 1]
    BY <1>6 DEF Choice!ChoiceInv, Choice!DialogsAreNested
  <2>2. d # 1 => d - 1 \in DOMAIN views
    BY <1>2, <1>6
  <2>3. QED
    BY <2>1, <2>2 DEF Choice!OpenDialogs
<1>7. Choice!SuitesAreSet(Choice!OpenDialogs, Choice!OpenDialogs)
  BY <1>6 DEF Choice!SuitesAreSet, Choice!OpenDialogs
<1>8. QED
  BY <1>1, <1>3, <1>4, <1>5, <1>7

LEMMA ChoiceIsKept ==
  ASSUME Choice!ChoiceInv
  PROVE  Choice!ChosenIsReached /\ Choice!SuiteShowsTests
         /\ (views = <<>> => Choice!Results = active)
<1>1. /\ active \in SUBSET ChoiceNodes /\ Choice!OpenDialogs \in SUBSET ChoiceNodes
      /\ Choice!SuitesAreSet(active, active \cup Choice!OpenDialogs)
      /\ Choice!SuitesAreSet(Choice!OpenDialogs, Choice!OpenDialogs)
  BY ChoiceFacts DEF Choice!ChoiceInv
<1>2. Choice!SuitesAreSet((active \cup Choice!OpenDialogs) \ active,
                          active \cup Choice!OpenDialogs)
  BY <1>1 DEF Choice!SuitesAreSet
<1>3. \A n \in active : ChoiceAbove[n] \subseteq active \cup Choice!OpenDialogs
  BY <1>1, <1>2, InsideIs
<1>4. Choice!ChosenIsReached
  BY <1>3 DEF Choice!ChosenIsReached, Choice!OpenDialogs
<1>5. views = <<>> => \A n \in active : ChoiceAbove[n] \subseteq active
  BY <1>3, ChoiceFacts
<1>6. views = <<>> => Choice!Results = active
  BY <1>5 DEF Choice!Results
<1>7. ASSUME tree_shown \in {"gtk", "urwid"}, ~tree_hollow, NEW n \in ChoiceNodes \ Choice!Tests
      PROVE  n \in active <=> Choice!ChoiceUnder(n) \cap Choice!Tests \cap active # {}
  <2>1. views = <<>> /\ Choice!HasTests(active)
    BY <1>7, ChoiceFacts DEF Choice!ChoiceInv
  <2>2. ASSUME NEW t \in Choice!ChoiceUnder(n) \cap Choice!Tests \cap active
        PROVE  n \in active
    <3>1. t \in ChoiceNodes /\ n \in ChoiceAbove[t]
      BY <1>1, <1>7, UnderFacts
    <3>2. QED
      BY <1>5, <2>1, <3>1
  <2>3. QED
    BY <2>1, <2>2 DEF Choice!HasTests
<1>8. QED
  BY <1>4, <1>6, <1>7 DEF Choice!SuiteShowsTests

LEMMA InitChoice == Choice!ChoiceInit => Choice!ChoiceInv /\ Choice!Selection!Init
<1> SUFFICES ASSUME Choice!ChoiceInit
             PROVE  Choice!ChoiceInv /\ Choice!Selection!Init
  OBVIOUS
<1>1. Choice!Tests \subseteq ChoiceNodes /\ Choice!HasTests(ChoiceNodes)
  <2>1. \A n \in ChoiceNodes : Choice!ChoiceUnder(n) \subseteq ChoiceNodes
    BY UnderFacts
  <2>2. QED
    BY <2>1, UnderFacts, TestBelow DEF Choice!HasTests
<1>2. Choice!SuitesAreSet(ChoiceNodes, ChoiceNodes)
  BY ChoiceConstants DEF Choice!TreeAssumption, Choice!SuitesAreSet
<1>3. Choice!ChoiceTypeOK
  <2>1. <<>> \in Seq(ChoiceNodes \ Choice!Tests)
    OBVIOUS
  <2>2. /\ tree_shown \in {"none", "gtk", "urwid", "cli"} /\ active \subseteq ChoiceNodes
        /\ default \subseteq ChoiceNodes /\ views = <<>> /\ tree_ignored \subseteq Choice!Tests
    BY DEF Choice!ChoiceInit
  <2>3. tree_hollow \in BOOLEAN
    BY DEF Choice!ChoiceInit
  <2>4. QED
    BY <2>1, <2>2, <2>3 DEF Choice!ChoiceTypeOK
<1>4. Choice!DialogsAreNested /\ Choice!OpenDialogs = {}
  BY DEF Choice!ChoiceInit, Choice!DialogsAreNested, Choice!OpenDialogs
<1>5. Choice!ChoiceInv
  BY <1>1, <1>2, <1>3, <1>4 DEF Choice!ChoiceInit, Choice!ChoiceInv
<1>6. Choice!Selection!Init
  BY <1>1 DEF Choice!ChoiceInit, Choice!Selection!Init
<1>7. QED
  BY <1>5, <1>6

\* The next state's sets are judged like this one's.
LEMMA ChoicePrimed ==
  /\ Choice!SuitesAreSet(active, active \cup Choice!OpenDialogs)'
     <=> Choice!SuitesAreSet(active', active' \cup Choice!OpenDialogs')
  /\ Choice!SuitesAreSet(default, default)' <=> Choice!SuitesAreSet(default', default')
  /\ Choice!HasTests(active)' <=> Choice!HasTests(active')
  /\ Choice!HasTests(default)' <=> Choice!HasTests(default')
<1>1. /\ Choice!SuitesAreSet(active, active \cup Choice!OpenDialogs)'
         <=> Choice!SuitesAreSet(active', active' \cup Choice!OpenDialogs')
      /\ Choice!SuitesAreSet(default, default)' <=> Choice!SuitesAreSet(default', default')
  BY DEF Choice!SuitesAreSet
<1>2. /\ Choice!HasTests(active)' <=> Choice!HasTests(active')
      /\ Choice!HasTests(default)' <=> Choice!HasTests(default')
  BY DEF Choice!HasTests
<1>3. QED
  BY <1>1, <1>2

\* The tests that are chosen after a click on n.
Switched(n) ==
  IF n \in active THEN (active \cap Choice!Tests) \ Choice!ChoiceUnder(n)
  ELSE (active \cup Choice!ChoiceUnder(n)) \cap Choice!Tests

\* A click in GTK and urwid.
LEMMA ToggleKept ==
  ASSUME Choice!ChoiceInv, NEW n \in ChoiceNodes, Choice!Toggle(n)
  PROVE  /\ Choice!ChoiceInv'
         /\ active' \cap Choice!Tests = Switched(n)
<1>1. /\ tree_shown \in {"gtk", "urwid"} /\ active \in SUBSET ChoiceNodes
      /\ views = <<>> /\ Choice!OpenDialogs = {} /\ Choice!SuitesAreSet(active, active)
      /\ tree_hollow \/ Choice!HasTests(active)
  <2>1. tree_shown \in {"gtk", "urwid"}
    BY DEF Choice!Toggle
  <2>2. views = <<>> /\ Choice!OpenDialogs = {} /\ active \in SUBSET ChoiceNodes
    BY <2>1, ChoiceFacts
  <2>3. Choice!SuitesAreSet(active, active)
    BY <2>2 DEF Choice!ChoiceInv, Choice!SuitesAreSet
  <2>4. QED
    BY <2>1, <2>2, <2>3 DEF Choice!ChoiceInv
<1>2. UNCHANGED <<tree_shown, views, default, tree_ignored, tree_hollow>>
  BY DEF Choice!Toggle
<1>3. active' = IF n \in active THEN Choice!ClearAbove(n, active \ Choice!ChoiceUnder(n))
                ELSE active \cup Choice!ChoiceUnder(n) \cup ChoiceAbove[n]
  BY DEF Choice!Toggle, Choice!SetConsistently
<1>4. /\ active' \in SUBSET ChoiceNodes /\ Choice!SuitesAreSet(active', active')
      /\ Choice!HasTests(active) => Choice!HasTests(active')
      /\ active' \cap Choice!Tests = Switched(n)
  <2>1. CASE n \in active
    BY <1>1, <1>3, <2>1, ClearKeeps DEF Switched
  <2>2. CASE n \notin active
    BY <1>1, <1>3, <2>2, SetKeeps DEF Switched
  <2>3. QED
    BY <2>1, <2>2
<1>5. Choice!ChoiceTypeOK' /\ Choice!DialogsAreNested' /\ Choice!OpenDialogs' = {}
  BY <1>1, <1>2, <1>4 DEF Choice!ChoiceInv, Choice!ChoiceTypeOK, Choice!DialogsAreNested,
     Choice!OpenDialogs
<1>6. Choice!SuitesAreSet(active, active \cup Choice!OpenDialogs)'
  BY <1>4, <1>5 DEF Choice!SuitesAreSet
<1>7. tree_hollow' \/ Choice!HasTests(active)'
  BY <1>1, <1>2, <1>4 DEF Choice!HasTests
<1>8. Choice!SuitesAreSet(default, default)' /\ (tree_hollow \/ Choice!HasTests(default))'
      /\ tree_shown' # "none"
  BY <1>1, <1>2 DEF Choice!ChoiceInv, Choice!SuitesAreSet, Choice!HasTests
<1>9. QED
  BY <1>4, <1>5, <1>6, <1>7, <1>8 DEF Choice!ChoiceInv

\* The buttons, and the start and the end of a choice.
LEMMA ButtonsKept ==
  ASSUME Choice!ChoiceInv,
         \/ \E face \in {"gtk", "urwid", "cli"} : Choice!Show(face)
         \/ \E set \in BOOLEAN : Choice!SetAll(set)
         \/ Choice!Abandon \/ Choice!Confirm
  PROVE  Choice!ChoiceInv'
<1>1. /\ active \in SUBSET ChoiceNodes /\ default \in SUBSET ChoiceNodes
      /\ Choice!SuitesAreSet(default, default) /\ (tree_hollow \/ Choice!HasTests(default))
      /\ Choice!Tests \subseteq ChoiceNodes /\ <<>> \in Seq(ChoiceNodes \ Choice!Tests)
      /\ Choice!ChoiceTypeOK
  BY UnderFacts DEF Choice!ChoiceInv, Choice!ChoiceTypeOK
<1>2. ASSUME views' = <<>>
      PROVE  Choice!DialogsAreNested' /\ Choice!OpenDialogs' = {}
  BY <1>2 DEF Choice!DialogsAreNested, Choice!OpenDialogs
<1>3. CASE \E face \in {"gtk", "urwid", "cli"} : Choice!Show(face)
  <2>1. /\ views' = <<>> /\ active' = default /\ tree_shown' \in {"gtk", "urwid", "cli"}
        /\ UNCHANGED <<default, tree_ignored, tree_hollow>>
    BY <1>3, ChoiceFacts DEF Choice!Show
  <2>2. Choice!ChoiceTypeOK'
    BY <1>1, <2>1 DEF Choice!ChoiceTypeOK
  <2>3. /\ Choice!SuitesAreSet(active, active \cup Choice!OpenDialogs)'
           /\ Choice!SuitesAreSet(default, default)'
        /\ (tree_hollow \/ Choice!HasTests(default))'
           /\ (tree_hollow \/ Choice!HasTests(active))'
    BY <1>1, <1>2, <2>1, ChoicePrimed
  <2>4. QED
    BY <1>2, <2>1, <2>2, <2>3 DEF Choice!ChoiceInv
<1>4. CASE \E set \in BOOLEAN : Choice!SetAll(set)
  <2>1. /\ views' = <<>> /\ active' \in {ChoiceNodes, {}} /\ tree_shown' \in {"gtk", "urwid"}
        /\ UNCHANGED <<default, tree_ignored, tree_hollow>>
    BY <1>4, ChoiceFacts DEF Choice!SetAll
  <2>2. Choice!ChoiceTypeOK'
    BY <1>1, <1>4, <2>1 DEF Choice!ChoiceTypeOK
  <2>3. Choice!HasTests(ChoiceNodes) /\ Choice!HasTests({})
    <3>1. \A n \in ChoiceNodes : Choice!ChoiceUnder(n) \subseteq ChoiceNodes
      BY UnderFacts
    <3>2. QED
      BY <3>1, UnderFacts, TestBelow DEF Choice!HasTests
  <2>4. Choice!SuitesAreSet(ChoiceNodes, ChoiceNodes) /\ Choice!SuitesAreSet({}, {})
    BY ChoiceConstants DEF Choice!TreeAssumption, Choice!SuitesAreSet
  <2>5. Choice!SuitesAreSet(active', active') /\ Choice!HasTests(active')
    BY <2>1, <2>3, <2>4
  <2>6. /\ Choice!SuitesAreSet(active, active \cup Choice!OpenDialogs)'
           /\ Choice!SuitesAreSet(default, default)'
        /\ (tree_hollow \/ Choice!HasTests(default))' /\ Choice!HasTests(active)'
    BY <1>1, <1>2, <2>1, <2>5, ChoicePrimed
  <2>7. QED
    BY <1>2, <2>1, <2>2, <2>6 DEF Choice!ChoiceInv
<1>5. CASE Choice!Abandon
  <2>1. /\ views' = <<>> /\ active' = default /\ tree_shown' = "none"
        /\ UNCHANGED <<default, tree_ignored, tree_hollow>>
    BY <1>5 DEF Choice!Abandon
  <2>2. Choice!ChoiceTypeOK'
    BY <1>1, <2>1 DEF Choice!ChoiceTypeOK
  <2>3. /\ Choice!SuitesAreSet(active, active \cup Choice!OpenDialogs)'
           /\ Choice!SuitesAreSet(default, default)'
        /\ (tree_hollow \/ Choice!HasTests(default))'
    BY <1>1, <1>2, <2>1, ChoicePrimed
  <2>4. QED
    BY <1>2, <2>1, <2>2, <2>3 DEF Choice!ChoiceInv
<1>6. CASE Choice!Confirm
  <2>1. views = <<>> /\ views' = <<>> /\ tree_shown' = "none" /\ Choice!OpenDialogs = {}
    BY <1>6, ChoiceFacts DEF Choice!Confirm
  <2>2. Choice!Results = active
    BY <2>1, ChoiceIsKept
  <2>3. /\ active' = active /\ default' = active /\ tree_ignored' = Choice!IgnoreJobs(active)
        /\ tree_hollow' = \E n \in active \ Choice!Tests :
           Choice!ChoiceUnder(n) \cap Choice!Tests \cap active = {}
    BY <1>6, <2>2 DEF Choice!Confirm
  <2>4. Choice!ChoiceTypeOK'
    <3>1. tree_hollow' \in BOOLEAN
      BY <2>3
    <3>2. tree_ignored' \subseteq Choice!Tests /\ active' \subseteq ChoiceNodes
          /\ default' \subseteq ChoiceNodes
      BY <1>1, <2>3 DEF Choice!IgnoreJobs
    <3>3. QED
      BY <1>1, <2>1, <3>1, <3>2 DEF Choice!ChoiceTypeOK
  <2>5. Choice!SuitesAreSet(active, active)
    BY <2>1 DEF Choice!ChoiceInv, Choice!SuitesAreSet
  <2>6. Choice!SuitesAreSet(active, active \cup Choice!OpenDialogs)'
        /\ Choice!SuitesAreSet(default, default)'
    BY <1>2, <2>1, <2>3, <2>5 DEF Choice!SuitesAreSet
  <2>7. (tree_hollow \/ Choice!HasTests(default))'
    BY <2>3 DEF Choice!HasTests
  <2>8. QED
    BY <1>2, <2>1, <2>3, <2>4, <2>6, <2>7 DEF Choice!ChoiceInv
<1>7. QED
  BY <1>3, <1>4, <1>5, <1>6

\* The dialogs of the command line.
LEMMA DialogsKept ==
  ASSUME Choice!ChoiceInv,
         \/ \E n \in ChoiceNodes : Choice!ChoicePress(n) \/ Choice!ChoiceExpand(n)
         \/ Choice!Close
  PROVE  /\ Choice!ChoiceInv' /\ tree_shown = "cli" /\ UNCHANGED <<tree_shown, tree_ignored>>
         /\ \/ active' \cap Choice!Tests = active \cap Choice!Tests
            \/ \E n \in ChoiceNodes :
                 active' \cap Choice!Tests = Switched(n)
<1>1. /\ active \in SUBSET ChoiceNodes /\ Choice!OpenDialogs \in SUBSET ChoiceNodes
      /\ Choice!SuitesAreSet(active, active \cup Choice!OpenDialogs)
      /\ Choice!SuitesAreSet(default, default) /\ (tree_hollow \/ Choice!HasTests(default))
      /\ Choice!ChoiceTypeOK /\ views \in Seq(ChoiceNodes \ Choice!Tests)
      /\ \A d \in DOMAIN views :
           ChoiceParent[views[d]] = IF d = 1 THEN NoSuite ELSE views[d - 1]
  BY ChoiceFacts DEF Choice!ChoiceInv, Choice!ChoiceTypeOK, Choice!DialogsAreNested
<1>2. Len(views) \in Nat /\ DOMAIN views = 1..Len(views) /\ (Len(views) = 0 <=> views = <<>>)
  BY <1>1
<1>3. tree_shown = "cli" /\ tree_shown' = "cli"
      /\ UNCHANGED <<default, tree_ignored, tree_hollow>>
  BY DEF Choice!ChoicePress, Choice!ChoiceExpand, Choice!Close
<1>4. ASSUME active' \in SUBSET ChoiceNodes, views' \in Seq(ChoiceNodes \ Choice!Tests),
             Choice!DialogsAreNested',
             Choice!SuitesAreSet(active', active' \cup Choice!OpenDialogs')
      PROVE  Choice!ChoiceInv'
  <2>1. Choice!ChoiceTypeOK'
    BY <1>1, <1>3, <1>4 DEF Choice!ChoiceTypeOK
  <2>2. Choice!SuitesAreSet(default, default)' /\ (tree_hollow \/ Choice!HasTests(default))'
    BY <1>1, <1>3, ChoicePrimed
  <2>3. QED
    BY <1>3, <1>4, <2>1, <2>2, ChoicePrimed DEF Choice!ChoiceInv
<1>5. ASSUME NEW n \in ChoiceNodes, n \in Choice!View
      PROVE  /\ ChoiceParent[n] \in Choice!OpenDialogs \cup {NoSuite}
             /\ ChoiceParent[n] = IF views = <<>> THEN NoSuite ELSE views[Len(views)]
  <2>1. ChoiceParent[n] = IF views = <<>> THEN NoSuite ELSE views[Len(views)]
    BY <1>5 DEF Choice!View, Choice!Children
  <2>2. views # <<>> => Len(views) \in DOMAIN views
    BY <1>2
  <2>3. QED
    BY <2>1, <2>2 DEF Choice!OpenDialogs
<1>6. ASSUME NEW n \in ChoiceNodes, Choice!ChoicePress(n)
      PROVE  /\ Choice!ChoiceInv'
             /\ active' \cap Choice!Tests = Switched(n)
  <2>1. /\ views' = views /\ n \in Choice!View
        /\ active' = IF n \in active THEN active \ Choice!ChoiceUnder(n)
           ELSE active \cup Choice!ChoiceUnder(n)
    BY <1>6 DEF Choice!ChoicePress, Choice!SetChildren
  <2>2. /\ active' \in SUBSET ChoiceNodes
        /\ active' \cap Choice!Tests = Switched(n)
    BY <1>1, <2>1, UnderFacts DEF Switched
  <2>3. Choice!DialogsAreNested' /\ Choice!OpenDialogs' = Choice!OpenDialogs
    BY <1>1, <1>3, <2>1 DEF Choice!DialogsAreNested, Choice!OpenDialogs
  <2>4. ASSUME NEW m \in active', NEW p, p = ChoiceParent[m], p # NoSuite
        PROVE  p \in active' \cup Choice!OpenDialogs
    <3>1. m \in ChoiceNodes /\ p \in ChoiceNodes /\ p \in ChoiceAbove[m]
          /\ ChoiceAbove[m] = {p} \cup ChoiceAbove[p]
      BY <2>2, <2>4, AboveIs
    <3>2. m \in active => p \in active \cup Choice!OpenDialogs
      BY <1>1, <2>4 DEF Choice!SuitesAreSet
    <3>3. p \in Choice!ChoiceUnder(n) => m \in Choice!ChoiceUnder(n)
      BY <3>1, UnderFacts
    <3>4. m \in Choice!ChoiceUnder(n) => m = n \/ p \in Choice!ChoiceUnder(n)
      BY <3>1, UnderFacts
    <3>5. m = n => p \in Choice!OpenDialogs
      BY <1>5, <2>1, <2>4
    <3>6. QED
      BY <2>1, <2>4, <3>2, <3>3, <3>4, <3>5
  <2>5. Choice!SuitesAreSet(active', active' \cup Choice!OpenDialogs')
    BY <2>3, <2>4 DEF Choice!SuitesAreSet
  <2>6. QED
    BY <1>1, <1>4, <2>1, <2>2, <2>3, <2>5
<1>7. ASSUME NEW n \in ChoiceNodes, Choice!ChoiceExpand(n)
      PROVE  Choice!ChoiceInv' /\ active' = active
  <2>1. /\ views' = Append(views, n) /\ n \in Choice!View
           /\ n \in ChoiceNodes \ Choice!Tests /\ active' = active
    BY <1>7 DEF Choice!ChoiceExpand
  <2>2. /\ views' \in Seq(ChoiceNodes \ Choice!Tests) /\ DOMAIN views' = 1..(Len(views) + 1)
        /\ \A k \in 1..Len(views) : views'[k] = views[k]
        /\ views'[Len(views) + 1] = n
    BY <1>1, <2>1, AppendFacts
  <2>3. ASSUME NEW d \in DOMAIN views'
        PROVE  ChoiceParent[views'[d]] = IF d = 1 THEN NoSuite ELSE views'[d - 1]
    <3>1. CASE d \in 1..Len(views)
      <4>1. d # 1 => d - 1 \in 1..Len(views)
        BY <1>2, <3>1
      <4>2. QED
        BY <1>1, <1>2, <2>2, <3>1, <4>1
    <3>2. CASE d = Len(views) + 1
      <4>1. d - 1 = Len(views) /\ (d = 1 <=> Len(views) = 0)
            /\ (d # 1 => Len(views) \in 1..Len(views))
        BY <1>2, <3>2
      <4>2. ChoiceParent[n] = IF views = <<>> THEN NoSuite ELSE views[Len(views)]
        BY <1>5, <2>1
      <4>3. QED
        BY <1>2, <2>2, <3>2, <4>1, <4>2
    <3>3. QED
      BY <1>2, <2>2, <2>3, <3>1, <3>2
  <2>4. Choice!DialogsAreNested'
    BY <1>3, <2>3 DEF Choice!DialogsAreNested
  <2>5. Choice!OpenDialogs \subseteq Choice!OpenDialogs'
    BY <1>2, <2>2 DEF Choice!OpenDialogs
  <2>6. Choice!SuitesAreSet(active', active' \cup Choice!OpenDialogs')
    BY <1>1, <2>1, <2>5 DEF Choice!SuitesAreSet
  <2>7. QED
    BY <1>1, <1>4, <2>1, <2>2, <2>4, <2>6
<1>8. ASSUME Choice!Close
      PROVE  Choice!ChoiceInv' /\ active' \cap Choice!Tests = active \cap Choice!Tests
  <2>1. PICK n : n = views[Len(views)]
    OBVIOUS
  <2>2. /\ views # <<>> /\ views' = SubSeq(views, 1, Len(views) - 1)
        /\ active' = IF Choice!Children(n) \cap active = {} THEN active ELSE active \cup {n}
    BY <1>8, <2>1 DEF Choice!Close
  <2>3. /\ Len(views) >= 1 /\ Len(views) \in DOMAIN views /\ n \in ChoiceNodes \ Choice!Tests
        /\ views' \in Seq(ChoiceNodes \ Choice!Tests) /\ DOMAIN views' = 1..(Len(views) - 1)
        /\ \A k \in 1..(Len(views) - 1) : views'[k] = views[k]
    <3>1. /\ Len(views) >= 1 /\ Len(views) \in DOMAIN views
          /\ views' \in Seq(ChoiceNodes \ Choice!Tests) /\ DOMAIN views' = 1..(Len(views) - 1)
          /\ \A k \in 1..(Len(views) - 1) : views'[k] = views[k]
      BY <1>1, <1>2, <2>2, FrontFacts
    <3>2. \A S : \A s \in Seq(S) : \A k \in DOMAIN s : s[k] \in S
      OBVIOUS
    <3>3. QED
      BY <1>1, <2>1, <3>1, <3>2
  <2>4. ASSUME NEW d \in DOMAIN views'
        PROVE  ChoiceParent[views'[d]] = IF d = 1 THEN NoSuite ELSE views'[d - 1]
    <3>1. d \in DOMAIN views /\ (d # 1 => d - 1 \in 1..(Len(views) - 1))
      BY <1>2, <2>3
    <3>2. QED
      BY <1>1, <2>3, <3>1
  <2>5. Choice!DialogsAreNested'
    BY <1>3, <2>4 DEF Choice!DialogsAreNested
  <2>6. Choice!OpenDialogs \subseteq Choice!OpenDialogs' \cup {n}
    <3>1. \A d \in DOMAIN views : d = Len(views) \/ d \in DOMAIN views'
      BY <1>2, <2>3
    <3>2. QED
      BY <2>1, <2>3, <3>1 DEF Choice!OpenDialogs
  <2>7. ChoiceParent[n] \in Choice!OpenDialogs' \cup {NoSuite}
    <3>1. ChoiceParent[n] = IF Len(views) = 1 THEN NoSuite ELSE views[Len(views) - 1]
      BY <1>1, <2>1, <2>3
    <3>2. Len(views) # 1 => Len(views) - 1 \in 1..(Len(views) - 1)
      BY <1>2, <2>3
    <3>3. QED
      BY <2>3, <3>1, <3>2 DEF Choice!OpenDialogs
  <2>8. active' \in SUBSET ChoiceNodes /\ active' \cap Choice!Tests = active \cap Choice!Tests
    BY <1>1, <2>2, <2>3
  <2>9. ASSUME NEW m \in active', ChoiceParent[m] # NoSuite
        PROVE  ChoiceParent[m] \in active' \cup Choice!OpenDialogs'
    <3>1. CASE m = n
      BY <2>7, <2>9, <3>1
    <3>2. CASE m \in active
      <4>1. ChoiceParent[m] \in active \cup Choice!OpenDialogs
        BY <1>1, <2>9, <3>2 DEF Choice!SuitesAreSet
      <4>2. ChoiceParent[m] = n => m \in Choice!Children(n) \cap active
        BY <1>1, <3>2 DEF Choice!Children
      <4>3. QED
        BY <2>2, <2>6, <4>1, <4>2
    <3>3. QED
      BY <2>2, <2>9, <3>1, <3>2
  <2>10. Choice!SuitesAreSet(active', active' \cup Choice!OpenDialogs')
    BY <2>9 DEF Choice!SuitesAreSet
  <2>11. QED
    BY <1>4, <2>3, <2>5, <2>8, <2>10
<1>9. QED
  BY <1>3, <1>6, <1>7, <1>8

LEMMA NextChoice == Choice!ChoiceInv /\ [Choice!ChoiceNext]_(Choice!choice_vars)
                    => Choice!ChoiceInv'
<1> SUFFICES ASSUME Choice!ChoiceInv, [Choice!ChoiceNext]_(Choice!choice_vars)
             PROVE  Choice!ChoiceInv'
  OBVIOUS
<1>1. CASE \E n \in ChoiceNodes : Choice!Toggle(n)
  BY <1>1, ToggleKept
<1>2. CASE \/ \E n \in ChoiceNodes : Choice!ChoicePress(n) \/ Choice!ChoiceExpand(n)
           \/ Choice!Close
  BY <1>2, DialogsKept
<1>3. CASE \/ \E face \in {"gtk", "urwid", "cli"} : Choice!Show(face)
           \/ \E set \in BOOLEAN : Choice!SetAll(set)
           \/ Choice!Abandon \/ Choice!Confirm
  BY <1>3, ButtonsKept
<1>4. CASE UNCHANGED Choice!choice_vars
  BY <1>4 DEF Choice!choice_vars, Choice!ChoiceInv, Choice!ChoiceTypeOK,
     Choice!DialogsAreNested, Choice!OpenDialogs, Choice!SuitesAreSet,
     Choice!HasTests
<1>5. QED
  BY <1>1, <1>2, <1>3, <1>4 DEF Choice!ChoiceNext

\* A step of an interface is one of TestSelection, or none.
LEMMA StepChoice == Choice!ChoiceInv /\ [Choice!ChoiceNext]_(Choice!choice_vars)
                    => [Choice!Selection!Next]_(Choice!Selection!vars)
<1> SUFFICES ASSUME Choice!ChoiceInv, [Choice!ChoiceNext]_(Choice!choice_vars)
             PROVE  Choice!Selection!Next \/ UNCHANGED Choice!Selection!vars
  OBVIOUS
<1>1. active \in SUBSET ChoiceNodes /\ default \in SUBSET ChoiceNodes
      /\ Choice!Tests \subseteq ChoiceNodes
  BY UnderFacts, ChoiceFacts
<1>2. ASSUME NEW n \in ChoiceNodes, tree_shown # "none", UNCHANGED <<tree_shown, tree_ignored>>,
             active' \cap Choice!Tests = Switched(n)
      PROVE  Choice!Selection!Next
  <2>1. n \in active => Choice!Selection!Deselect(n)
    BY <1>2 DEF Switched, Choice!Selection!Deselect
  <2>2. n \notin active => Choice!Selection!Select(n)
    BY <1>2 DEF Switched, Choice!Selection!Select
  <2>3. QED
    BY <2>1, <2>2 DEF Choice!Selection!Next
<1>3. CASE \E n \in ChoiceNodes : Choice!Toggle(n)
  BY <1>2, <1>3, ToggleKept DEF Choice!Toggle
<1>4. CASE \/ \E n \in ChoiceNodes : Choice!ChoicePress(n) \/ Choice!ChoiceExpand(n)
           \/ Choice!Close
  <2>1. CASE active' \cap Choice!Tests = active \cap Choice!Tests
    BY <1>4, <2>1, DialogsKept DEF Choice!Selection!vars
  <2>2. QED
    BY <1>2, <1>4, <2>1, DialogsKept
<1>5. CASE \E face \in {"gtk", "urwid", "cli"} : Choice!Show(face)
  <2>1. tree_shown = "none" /\ tree_shown' # "none" /\ active' = active
        /\ tree_ignored' = tree_ignored
    BY <1>5 DEF Choice!Show, Choice!ChoiceInv
  <2>2. Choice!Selection!Ask
    BY <2>1 DEF Choice!Selection!Ask
  <2>3. QED
    BY <2>2 DEF Choice!Selection!Next
<1>6. CASE \E set \in BOOLEAN : Choice!SetAll(set)
  <2>1. PICK set \in BOOLEAN : Choice!SetAll(set)
    BY <1>6
  <2>2. Choice!Selection!SetAll(set)
    BY <1>1, <2>1 DEF Choice!SetAll, Choice!Selection!SetAll
  <2>3. QED
    BY <2>2 DEF Choice!Selection!Next
<1>7. CASE Choice!Abandon
  <2>1. tree_shown' = "none" /\ tree_ignored' = tree_ignored
    BY <1>7 DEF Choice!Abandon
  <2>2. tree_shown = "cli"
    BY <1>7 DEF Choice!Abandon
  <2>3. Choice!Selection!Abandon
    BY <2>1, <2>2 DEF Choice!Selection!Abandon
  <2>4. QED
    BY <2>3 DEF Choice!Selection!Next
<1>8. CASE Choice!Confirm
  <2>1. tree_shown # "none" /\ tree_shown' = "none" /\ views = <<>>
    BY <1>8 DEF Choice!Confirm
  <2>2. Choice!Results = active
    BY <2>1, ChoiceIsKept
  <2>3. active' = active
        /\ tree_ignored' = (Choice!Tests \ (active \cap Choice!Tests)) \ HasResult
    BY <1>8, <2>2 DEF Choice!Confirm, Choice!IgnoreJobs
  <2>4. Choice!Selection!Confirm
    BY <2>1, <2>3 DEF Choice!Selection!Confirm
  <2>5. QED
    BY <2>4 DEF Choice!Selection!Next
<1>9. CASE UNCHANGED Choice!choice_vars
  BY <1>9 DEF Choice!choice_vars, Choice!Selection!vars
<1>10. QED
  BY <1>3, <1>4, <1>5, <1>6, <1>7, <1>8, <1>9 DEF Choice!ChoiceNext

-----------------------------------------------------------------------------
(* A run of checkbox with its prompts.                                     *)

LEMMA PromptConstants == Prompts!JobsAssumption
BY PartsAssumption

\* Steps that leave the offset and the messages alone.
LEMMA QuietSteps ==
  ASSUME Prompts!IInv,
         \/ Prompts!Deleted \/ Prompts!Intro \/ Prompts!GatherAgain \/ Prompts!Added
         \/ Prompts!ChooseFails
         \/ \E d \in {"next", "prev"} : Prompts!Review(d) \/ Prompts!Exchange(d)
         \/ Prompts!Quit
  PROVE  Prompts!IInv'
<1> USE DEF Prompts!IInv, Prompts!TypeOK, Prompts!NamesAreDifferent, Prompts!StoreIsPart,
      Prompts!OffsetsArePrompted, Prompts!ArePrompted, Prompts!AllAreAdded,
      Prompts!CurrentIsPrompted, Prompts!RanAndIgnored, Prompts!Interrupted,
      Prompts!InterruptedIsNext, Prompts!disk, Prompts!seen, Prompts!faults,
      Prompts!InStore, Prompts!IsNew, Prompts!Turn, Prompts!Questions
<1>1. CASE Prompts!Deleted
  BY <1>1 DEF Prompts!Deleted
<1>2. CASE Prompts!Intro
  BY <1>2 DEF Prompts!Intro
<1>3. CASE Prompts!GatherAgain
  BY <1>3 DEF Prompts!GatherAgain
<1>4. CASE Prompts!Added
  BY <1>4 DEF Prompts!Added
<1>5. CASE Prompts!ChooseFails
  BY <1>5 DEF Prompts!ChooseFails
<1>6. CASE \E d \in {"next", "prev"} : Prompts!Review(d) \/ Prompts!Exchange(d)
  BY <1>6 DEF Prompts!Review, Prompts!Exchange
<1>7. CASE Prompts!Quit
  BY <1>7 DEF Prompts!Quit
<1>8. QED
  BY <1>1, <1>2, <1>3, <1>4, <1>5, <1>6, <1>7

LEMMA SizeFacts ==
  ASSUME NEW S, NEW s \in Seq(S)
  PROVE  /\ Len(s) \in Nat /\ DOMAIN s = 1..Len(s) /\ \A h \in 1..Len(s) : s[h] \in S
         /\ s = <<>> <=> Len(s) = 0
OBVIOUS

LEMMA StoreFacts ==
  ASSUME Prompts!TypeOK
  PROVE  /\ Len(store) \in Nat /\ DOMAIN store = 1..Len(store)
         /\ \A h \in 1..Len(store) :
              store[h] \in [name : Prompts!Names, status : Prompts!Status]
         /\ store = <<>> <=> Len(store) = 0
         /\ persist.offset \in Nat /\ saved.offset \in Nat
         /\ \A n : Prompts!InStore(n) <=> \E h \in 1..Len(store) : store[h].name = n
<1>1. /\ Len(store) \in Nat /\ DOMAIN store = 1..Len(store)
      /\ \A h \in 1..Len(store) :
           store[h] \in [name : Prompts!Names, status : Prompts!Status]
      /\ store = <<>> <=> Len(store) = 0
  <2>1. PICK S : S = [name : Prompts!Names, status : Prompts!Status]
    OBVIOUS
  <2>2. store \in Seq(S)
    BY <2>1 DEF Prompts!TypeOK
  <2>3. QED
    BY ONLY <2>1, <2>2, SizeFacts
<1>2. persist.offset \in Nat /\ saved.offset \in Nat
  <2>1. /\ persist \in [offset : Nat, recover : BOOLEAN]
        /\ saved \in [offset : Nat, recover : BOOLEAN]
    BY DEF Prompts!TypeOK
  <2>2. QED
    BY <2>1
<1>3. Prompts!ToSet(store) = {store[h] : h \in 1..Len(store)}
  BY <1>1 DEF Prompts!ToSet
<1>4. QED
  BY <1>1, <1>2, <1>3 DEF Prompts!InStore

SavedOffset == [offset : Nat, recover : BOOLEAN]

\* The offset and the recover flag, replaced one at a time.
LEMMA OffsetFacts ==
  ASSUME NEW r \in SavedOffset
  PROVE  /\ r.offset \in Nat /\ r.recover \in BOOLEAN
         /\ \A n \in Nat : /\ [r EXCEPT !.offset = n] \in SavedOffset
                          /\ [r EXCEPT !.offset = n].offset = n
                          /\ [r EXCEPT !.offset = n].recover = r.recover
         /\ \A b \in BOOLEAN : /\ [r EXCEPT !.recover = b] \in SavedOffset
                              /\ [r EXCEPT !.recover = b].offset = r.offset
                              /\ [r EXCEPT !.recover = b].recover = b
BY DEF SavedOffset

\* Steps that change the offset.
LEMMA OffsetSteps ==
  ASSUME Prompts!IInv,
         \/ \E h \in Prompts!Interfaces : Prompts!Start(h)
         \/ \E a \in {"Rerun", "Continue", "Restart"} : Prompts!Recover(a)
         \/ \E d \in {"next", "prev"} : Prompts!Finish(d)
         \/ Prompts!BackAtFirst \/ Prompts!NoMoreJobs \/ Prompts!NextJob \/ Prompts!Cleared
  PROVE  Prompts!IInv'
<1>0. /\ Len(store) \in Nat /\ persist.offset \in Nat /\ saved.offset \in Nat
      /\ store = <<>> <=> Len(store) = 0
      /\ \A n : Prompts!InStore(n) <=> \E h \in 1..Len(store) : store[h].name = n
      /\ DOMAIN store = 1..Len(store)
  BY StoreFacts DEF Prompts!IInv
<1> USE <1>0 DEF Prompts!IInv, Prompts!TypeOK, Prompts!NamesAreDifferent,
      Prompts!StoreIsPart, Prompts!OffsetsArePrompted, Prompts!ArePrompted,
      Prompts!AllAreAdded, Prompts!CurrentIsPrompted, Prompts!RanAndIgnored,
      Prompts!Interrupted, Prompts!InterruptedIsNext, Prompts!disk, Prompts!seen,
      Prompts!faults, Prompts!InStore, Prompts!IsNew, Prompts!Turn, Prompts!Questions,
      Prompts!SetOffset, Prompts!Leave, Prompts!Offset, Prompts!AtFirst
<1>1. CASE \E h \in Prompts!Interfaces : Prompts!Start(h)
  <2>1. /\ persist' \in SavedOffset /\ persist'.offset = saved.offset
        /\ persist'.recover = TRUE
    BY ZenonT(60), <1>1, OffsetFacts DEF Prompts!Start, SavedOffset
  <2>2. saved.recover => persist' = saved
    BY <1>1 DEF Prompts!Start
  <2>3. QED
    BY <1>1, <2>1, <2>2 DEF Prompts!Start, SavedOffset
<1>2. CASE \E a \in {"Rerun", "Continue", "Restart"} : Prompts!Recover(a)
  <2>1. persist' = persist \/ (persist'.offset = 0 /\ persist'.recover = persist.recover
          /\ persist' \in SavedOffset)
    BY <1>2, OffsetFacts DEF Prompts!Recover, SavedOffset
  <2>3. QED
    <3>1. Prompts!TypeOK' /\ Prompts!NamesAreDifferent' /\ Prompts!StoreIsPart'
          /\ Prompts!AllAreAdded' /\ Prompts!RanAndIgnored'
      BY <1>2, <2>1 DEF Prompts!Recover, SavedOffset
    <3>2. Prompts!OffsetsArePrompted'
      BY <1>2, <2>1 DEF Prompts!Recover, SavedOffset
    <3>3. Prompts!CurrentIsPrompted'
      BY <1>2, <2>1 DEF Prompts!Recover, SavedOffset
    <3>4. Prompts!InterruptedIsNext'
      BY <1>2, <2>1 DEF Prompts!Recover, SavedOffset
    <3>5. QED
      BY <3>1, <3>2, <3>3, <3>4
<1>3. CASE \E d \in {"next", "prev"} : Prompts!Finish(d)
  BY <1>3 DEF Prompts!Finish
<1>4. CASE Prompts!BackAtFirst
  BY <1>4 DEF Prompts!BackAtFirst
<1>5. CASE Prompts!NoMoreJobs
  <2>1. PICK n \in Nat : /\ persist' = [persist EXCEPT !.offset = n]
                         /\ n = IF direction = "next" THEN Len(store)
                            ELSE persist.offset - 1
    BY <1>5 DEF Prompts!NoMoreJobs
  <2>2. /\ persist' \in SavedOffset /\ persist'.offset = n
        /\ persist'.recover = persist.recover
    BY <1>5, <2>1, OffsetFacts DEF SavedOffset
  <2>3. /\ pc \in {"jobs", "saving"}
        /\ pc' = (IF direction = "next" THEN "reviewing" ELSE "gathering")
        /\ direction = "next" => persist.offset >= Len(store)
        /\ UNCHANGED <<Prompts!disk, ui, direction, fail_current, ignore, gathered, unmet,
                       starts, backs, answer, Prompts!seen, Prompts!faults>>
    BY <1>5 DEF Prompts!NoMoreJobs
  <2>4. Prompts!TypeOK' /\ Prompts!NamesAreDifferent' /\ Prompts!StoreIsPart'
        /\ Prompts!AllAreAdded' /\ Prompts!RanAndIgnored'
    <3>1. Prompts!TypeOK'
      BY <2>2, <2>3 DEF SavedOffset
    <3>2. Prompts!NamesAreDifferent' /\ Prompts!StoreIsPart'
      BY <2>3
    <3>3. Prompts!AllAreAdded'
      BY <2>3
    <3>4. Prompts!RanAndIgnored'
      BY <2>3
    <3>5. QED
      BY <3>1, <3>2, <3>3, <3>4
  <2>5. Prompts!OffsetsArePrompted'
    <3>1. ~torn => persist.offset <= Len(store)
                   /\ \A h \in 1..persist.offset : store[h].name \in prompted
      BY <2>3
    <3>2. ~torn => n <= persist.offset /\ (direction = "next" => n = Len(store))
      BY <2>1, <2>3, <3>1
    <3>3. ~torn' => Prompts!ArePrompted(persist.offset)'
      <4>1. store' = store /\ prompted' = prompted /\ torn' = torn /\ persist'.offset = n
        BY <2>2, <2>3
      <4>2. persist.offset \in Nat /\ n \in Nat /\ Len(store) \in Nat
        BY <1>0
      <4>3. ~torn => n <= Len(store) /\ \A h \in 1..n : store[h].name \in prompted
        BY ONLY <3>1, <3>2, <4>2
      <4>4. QED
        BY ONLY <4>1, <4>3 DEF Prompts!ArePrompted
    <3>4. ~torn' /\ ~deleted' => Prompts!ArePrompted(saved.offset)'
      BY <2>3
    <3>5. ~torn /\ direction = "next" => Prompts!Names \subseteq prompted
      <4>1. \A m \in Prompts!Names : \E h \in 1..Len(store) : store[h].name = m
        BY <2>3
      <4>2. QED
        BY <3>1, <3>2, <4>1
    <3>6. ~torn' /\ pc' \in {"reviewing", "exchanging", "finishing"}
          => Prompts!Names \subseteq prompted'
      BY <2>3, <3>5
    <3>7. pc' \notin {"deleting", "clearing", "down"}
      BY <2>3
    <3>8. QED
      BY ONLY <3>3, <3>4, <3>6, <3>7 DEF Prompts!OffsetsArePrompted
  <2>6. Prompts!CurrentIsPrompted'
      BY <2>1, <2>2, <2>3 DEF SavedOffset
  <2>7. Prompts!InterruptedIsNext'
      BY <1>5, <2>1, <2>2, <2>3 DEF Prompts!NoMoreJobs, SavedOffset
  <2>8. QED
      BY <2>4, <2>5, <2>6, <2>7
<1>6. CASE Prompts!NextJob
  BY <1>6 DEF Prompts!NextJob
<1>7. CASE Prompts!Cleared
  <2>1. /\ persist' \in SavedOffset /\ persist'.offset = persist.offset
        /\ persist'.recover = FALSE
    BY <1>7, OffsetFacts DEF Prompts!Cleared, SavedOffset
  <2>3. QED
    BY <1>7, <2>1 DEF Prompts!Cleared, SavedOffset
<1>8. QED
  BY <1>1, <1>2, <1>3, <1>4, <1>5, <1>6, <1>7

\* The status that is looked up by name.
LEMMA StatusIs ==
  ASSUME Prompts!TypeOK, Prompts!NamesAreDifferent, NEW h \in 1..Len(store)
  PROVE  Prompts!StatusOf(store, store[h].name) = store[h].status
<1>1. DOMAIN store = 1..Len(store)
      /\ Prompts!ToSet(store) = {store[k] : k \in 1..Len(store)}
  BY StoreFacts DEF Prompts!ToSet
<1>2. PICK m : m = (CHOOSE x \in Prompts!ToSet(store) : x.name = store[h].name)
  OBVIOUS
<1>3. m \in Prompts!ToSet(store) /\ m.name = store[h].name
  BY <1>1, <1>2
<1>4. m = store[h]
  BY <1>1, <1>3 DEF Prompts!NamesAreDifferent
<1>5. QED
  BY <1>2, <1>4 DEF Prompts!StatusOf

\* The job at the offset.
LEMMA CurrentIs ==
  ASSUME Prompts!TypeOK
  PROVE  /\ Prompts!Pending # <<>> <=> persist.offset < Len(store)
         /\ persist.offset < Len(store) =>
              /\ Prompts!Current = store[persist.offset + 1]
              /\ persist.offset + 1 \in 1..Len(store)
              /\ Prompts!Current.name \in Prompts!Names
              /\ Prompts!Current.status \in Prompts!Status
<1>1. /\ Len(store) \in Nat /\ persist.offset \in Nat
      /\ \A h \in 1..Len(store) :
           store[h] \in [name : Prompts!Names, status : Prompts!Status]
  BY StoreFacts
<1>2. ASSUME NEW S, NEW s \in Seq(S), NEW n \in Nat
      PROVE  /\ SubSeq(s, n + 1, Len(s)) # <<>> <=> n < Len(s)
             /\ n < Len(s) => Head(SubSeq(s, n + 1, Len(s))) = s[n + 1]
  <2>1. CASE n < Len(s)
    <3>1. Len(SubSeq(s, n + 1, Len(s))) = Len(s) - n
      BY <2>1
    <3>2. SubSeq(s, n + 1, Len(s))[1] = s[n + 1]
      BY <2>1
    <3>3. QED
      BY <2>1, <3>1, <3>2
  <2>2. CASE ~(n < Len(s))
    BY <2>2
  <2>3. QED
    BY <2>1, <2>2
<1>3. PICK S : S = [name : Prompts!Names, status : Prompts!Status]
  OBVIOUS
<1>4. store \in Seq(S)
  BY <1>3 DEF Prompts!TypeOK
<1>5. /\ Prompts!Pending # <<>> <=> persist.offset < Len(store)
      /\ persist.offset < Len(store) => Prompts!Current = store[persist.offset + 1]
  BY <1>1, <1>2, <1>4 DEF Prompts!Pending, Prompts!Current
<1>6. QED
  BY <1>1, <1>5

\* Steps that save the offset, or record that a job was prompted.
LEMMA SavingSteps ==
  ASSUME Prompts!IInv,
         \/ Prompts!Gather \/ Prompts!SaveBeforeJob \/ Prompts!Stop \/ Prompts!Crash
         \/ Prompts!StartCommand \/ Prompts!ShowTest
         \/ \E d \in {"next", "prev"} : \E chosen \in SUBSET Prompts!Names :
            Prompts!Choose(chosen, d)
  PROVE  Prompts!IInv'
<1>0. /\ Len(store) \in Nat /\ persist.offset \in Nat /\ saved.offset \in Nat
      /\ store = <<>> <=> Len(store) = 0
      /\ \A n : Prompts!InStore(n) <=> \E h \in 1..Len(store) : store[h].name = n
      /\ DOMAIN store = 1..Len(store)
  BY StoreFacts DEF Prompts!IInv
<1>a. /\ Prompts!Pending # <<>> <=> persist.offset < Len(store)
      /\ persist.offset < Len(store) =>
              /\ Prompts!Current = store[persist.offset + 1]
              /\ persist.offset + 1 \in 1..Len(store)
              /\ Prompts!Current.name \in Prompts!Names
              /\ Prompts!Current.status \in Prompts!Status
  BY CurrentIs DEF Prompts!IInv
<1>b. Prompts!NothingSaved \in SavedOffset /\ Prompts!NothingSaved.offset = 0
      /\ Prompts!NothingSaved.recover = FALSE
  BY DEF Prompts!NothingSaved, SavedOffset
<1> USE <1>0 DEF Prompts!IInv, Prompts!TypeOK, Prompts!NamesAreDifferent,
      Prompts!StoreIsPart, Prompts!OffsetsArePrompted, Prompts!ArePrompted,
      Prompts!AllAreAdded, Prompts!CurrentIsPrompted, Prompts!RanAndIgnored,
      Prompts!Interrupted, Prompts!InterruptedIsNext, Prompts!disk, Prompts!seen,
      Prompts!faults, Prompts!InStore, Prompts!IsNew, Prompts!Turn, Prompts!Questions,
      Prompts!SetOffset, Prompts!Save, Prompts!Forget, Prompts!CanPrompt, Prompts!Prompted
<1>1. CASE Prompts!Gather
  BY <1>1 DEF Prompts!Gather
<1>2. CASE Prompts!SaveBeforeJob
  BY <1>2, <1>a DEF Prompts!SaveBeforeJob
<1>3. CASE Prompts!Stop
  <2>1. /\ persist' = Prompts!NothingSaved /\ saved' = persist /\ deleted' = FALSE
        /\ pc' = "down"
        /\ pc = "stopping" /\ direction' = "next" /\ ui' = "cli" /\ fail_current' = FALSE
        /\ ignore' = {} /\ gathered' = FALSE /\ unmet' = {}
        /\ UNCHANGED <<store, ran, prompted, lost, torn>>
    BY <1>3 DEF Prompts!Stop
  <2>2. Prompts!TypeOK'
    BY <2>1, <1>b DEF SavedOffset, Prompts!Interfaces, Prompts!CanGoBack
  <2>3. Prompts!NamesAreDifferent' /\ Prompts!StoreIsPart'
    BY <2>1
  <2>4. Prompts!OffsetsArePrompted'
    BY <2>1
  <2>5. Prompts!AllAreAdded' /\ Prompts!CurrentIsPrompted' /\ Prompts!RanAndIgnored'
    BY <2>1
  <2>6. Prompts!InterruptedIsNext'
    BY <2>1
  <2>7. QED
    BY <2>2, <2>3, <2>4, <2>5, <2>6
<1>4. CASE Prompts!Crash
  <2>1. /\ persist' = Prompts!NothingSaved /\ pc' = "down"
        /\ \/ saved' = saved /\ lost' = lost
           \/ saved' = Prompts!NothingSaved /\ lost' = TRUE
        /\ torn' <=> torn \/ deleted
        /\ pc # "down" /\ direction' = "next" /\ ui' = "cli" /\ fail_current' = FALSE
        /\ ignore' = {} /\ gathered' = FALSE /\ unmet' = {}
        /\ UNCHANGED <<store, ran, prompted, deleted>>
    BY <1>4 DEF Prompts!Crash
  <2>2. Prompts!TypeOK'
    <3>1. saved' \in [offset : Nat, recover : BOOLEAN]
          /\ persist' \in [offset : Nat, recover : BOOLEAN]
      BY <2>1, <1>b DEF SavedOffset
    <3>2. "cli" \in Prompts!Interfaces
      BY DEF Prompts!Interfaces, Prompts!CanGoBack
    <3>3. ui' \in Prompts!Interfaces /\ ran' \subseteq Prompts!Names
          /\ prompted' \subseteq Prompts!Names /\ ignore' \subseteq Prompts!Names
          /\ unmet' \subseteq RequiringJobs
          /\ store' \in Seq([name : Prompts!Names, status : Prompts!Status])
      BY <2>1, <3>2
    <3>4. fail_current' \in BOOLEAN /\ gathered' \in BOOLEAN
      BY <2>1
    <3>5. pc' = "down" /\ direction' = "next"
      BY <2>1
    <3>6. QED
      BY ONLY <3>1, <3>3, <3>4, <3>5 DEF Prompts!TypeOK
  <2>3. Prompts!NamesAreDifferent' /\ Prompts!StoreIsPart'
    BY <2>1
  <2>4. Prompts!OffsetsArePrompted'
    BY <2>1, <1>b
  <2>5. Prompts!AllAreAdded' /\ Prompts!CurrentIsPrompted' /\ Prompts!RanAndIgnored'
    BY <2>1
  <2>6. Prompts!InterruptedIsNext'
    BY <2>1
  <2>7. QED
    BY <2>2, <2>3, <2>4, <2>5, <2>6
<1>5. CASE Prompts!StartCommand
  <2>1. Prompts!IsBlocked <=>
          \E k \in 1..Len(store) :
            store[k].name \in JobDepends[Prompts!Current.name] /\ store[k].status # "pass"
    BY DEF Prompts!IsBlocked, Prompts!ToSet
  <2>2. QED
    BY <1>5, <1>a, <2>1 DEF Prompts!StartCommand
<1>6. CASE Prompts!ShowTest
  BY <1>6, <1>a DEF Prompts!ShowTest
<1>7. CASE \E d \in {"next", "prev"} : \E chosen \in SUBSET Prompts!Names :
           Prompts!Choose(chosen, d)
  <2>1. PICK chosen \in SUBSET Prompts!Names, d \in {"next", "prev"} :
          Prompts!Choose(chosen, d)
    BY <1>7
  <2>2. \A h \in 1..Len(store) : store[h].name \in ignore' => store[h].status # "pass"
    BY <2>1, StatusIs DEF Prompts!Choose, Prompts!Ignored
  <2>3. ignore' \subseteq Prompts!Names
    BY <2>1 DEF Prompts!Choose, Prompts!Ignored
  <2>4. QED
    BY <2>1, <2>2, <2>3 DEF Prompts!Choose
<1>8. QED
  BY <1>1, <1>2, <1>3, <1>4, <1>5, <1>6, <1>7

StoredMessage == [name : Prompts!Names, status : Prompts!Status]

\* A message with another status.
LEMMA WithStatusFacts ==
  ASSUME NEW s \in Seq(StoredMessage), NEW q \in 1..Len(s), NEW st \in Prompts!Status,
         NEW t, t = [s EXCEPT ![q].status = st]
  PROVE  /\ t \in Seq(StoredMessage) /\ Len(t) = Len(s) /\ DOMAIN t = 1..Len(s)
         /\ \A k \in 1..Len(s) : t[k].name = s[k].name /\ (k # q => t[k] = s[k])
         /\ t[q].status = st /\ (st = s[q].status => t = s)
<1>1. /\ Len(s) \in Nat /\ DOMAIN s = 1..Len(s)
         /\ \A k \in 1..Len(s) : s[k] \in StoredMessage
  BY SizeFacts
<1>2. PICK m : m = [s[q] EXCEPT !.status = st]
  OBVIOUS
<1>3. m \in StoredMessage /\ m.name = s[q].name /\ m.status = st
      /\ (st = s[q].status => m = s[q])
  BY <1>1, <1>2 DEF StoredMessage
<1>4. t = [s EXCEPT ![q] = m]
  BY <1>2
<1>5. \A S : \A x \in Seq(S), e \in S : \A k \in 1..Len(x) :
        /\ [x EXCEPT ![k] = e] \in Seq(S) /\ Len([x EXCEPT ![k] = e]) = Len(x)
        /\ DOMAIN [x EXCEPT ![k] = e] = 1..Len(x)
        /\ [x EXCEPT ![k] = e][k] = e
        /\ \A j \in 1..Len(x) : j # k => [x EXCEPT ![k] = e][j] = x[j]
        /\ e = x[k] => [x EXCEPT ![k] = e] = x
  OBVIOUS
<1>6. /\ t \in Seq(StoredMessage) /\ Len(t) = Len(s) /\ DOMAIN t = 1..Len(s)
      /\ t[q] = m /\ \A k \in 1..Len(s) : k # q => t[k] = s[k]
      /\ m = s[q] => t = s
  BY ONLY <1>3, <1>4, <1>5
<1>7. QED
  BY <1>3, <1>6

\* A job has another status, and the program goes on.
LEMMA StatusKept ==
  ASSUME Prompts!IInv, NEW q \in 1..Len(store), NEW st \in Prompts!Status,
         NEW n \in 0..Len(store),
         store' = [store EXCEPT ![q].status = st],
         store[q].name \in ignore => st # "pass",
         st = "uninitiated" => store[q].status = "uninitiated",
         \A h \in 1..Len(store) : Prompts!Interrupted(h) => h = q /\ st # "uninitiated",
         persist' = [persist EXCEPT !.offset = n],
         prompted \subseteq prompted', prompted' \subseteq Prompts!Names,
         ~torn => \A h \in 1..n : store[h].name \in prompted',
         pc \in {"jobs", "prompting", "running", "asking"}, pc' \in {"jobs", "saving"},
         fail_current' \in BOOLEAN, pc' = "saving" => ~fail_current' /\ n # 0,
         direction' \in {"next", "prev"},
         UNCHANGED <<saved, ui, ignore, gathered, unmet, ran, Prompts!faults>>
  PROVE  Prompts!IInv'
<1>1. store \in Seq(StoredMessage) /\ persist \in SavedOffset
  BY DEF Prompts!IInv, Prompts!TypeOK, StoredMessage, SavedOffset
<1>2. /\ store' \in Seq(StoredMessage) /\ Len(store') = Len(store)
      /\ DOMAIN store' = 1..Len(store)
      /\ \A k \in 1..Len(store) : store'[k].name = store[k].name
                                  /\ (k # q => store'[k] = store[k])
      /\ store'[q].status = st
  <2>1. PICK t : t = [store EXCEPT ![q].status = st]
    OBVIOUS
  <2>2. store' = t
    BY <2>1
  <2>3. QED
    BY ONLY <1>1, <2>1, <2>2, q \in 1..Len(store), st \in Prompts!Status, WithStatusFacts
<1>3. persist' \in SavedOffset /\ persist'.offset = n /\ persist'.recover = persist.recover
  BY <1>1, OffsetFacts
<1>4. /\ Len(store) \in Nat /\ DOMAIN store = 1..Len(store) /\ n \in Nat /\ n <= Len(store)
      /\ \A m : Prompts!InStore(m) <=> \E h \in 1..Len(store) : store[h].name = m
  BY StoreFacts DEF Prompts!IInv
<1>5. \A m : Prompts!InStore(m)' <=> \E h \in 1..Len(store) : store[h].name = m
  <2>1. Prompts!ToSet(store') = {store'[h] : h \in 1..Len(store)}
    BY <1>2 DEF Prompts!ToSet
  <2>2. QED
    BY ZenonT(60), <1>2, <2>1 DEF Prompts!InStore
<1>6. Prompts!TypeOK'
  BY <1>2, <1>3 DEF Prompts!IInv, Prompts!TypeOK, StoredMessage, SavedOffset, Prompts!faults
<1>7. Prompts!NamesAreDifferent' /\ Prompts!StoreIsPart'
  BY <1>2, <1>4 DEF Prompts!IInv, Prompts!NamesAreDifferent, Prompts!StoreIsPart,
     Prompts!faults
<1>8. Prompts!OffsetsArePrompted'
  <2>1. ~torn => Prompts!ArePrompted(persist.offset)'
    BY <1>2, <1>3, <1>4 DEF Prompts!ArePrompted
  <2>2. ~torn /\ ~deleted => Prompts!ArePrompted(saved.offset)'
    <3>1. ~torn /\ ~deleted => saved.offset <= Len(store)
                               /\ \A h \in 1..saved.offset : store[h].name \in prompted
      BY DEF Prompts!IInv, Prompts!OffsetsArePrompted, Prompts!ArePrompted
    <3>2. saved.offset \in Nat /\ saved' = saved
      BY StoreFacts DEF Prompts!IInv
    <3>3. QED
      BY <1>2, <1>4, <3>1, <3>2 DEF Prompts!ArePrompted
  <2>3. QED
    BY <2>1, <2>2 DEF Prompts!OffsetsArePrompted, Prompts!faults
<1>9. Prompts!AllAreAdded'
  BY <1>4, <1>5 DEF Prompts!IInv, Prompts!AllAreAdded
<1>10. Prompts!CurrentIsPrompted'
  BY <1>3, <1>2 DEF Prompts!IInv, Prompts!CurrentIsPrompted
<1>11. Prompts!RanAndIgnored'
  BY <1>2, <1>4, <1>5 DEF Prompts!IInv, Prompts!RanAndIgnored
<1>12. Prompts!InterruptedIsNext'
  <2>1. \A h \in 1..Len(store) : ~Prompts!Interrupted(h)'
    BY <1>2, <1>4 DEF Prompts!Interrupted, Prompts!IsNew, Prompts!faults
  <2>2. QED
    BY <1>2, <2>1 DEF Prompts!InterruptedIsNext
<1>13. QED
  BY <1>6, <1>7, <1>8, <1>9, <1>10, <1>11, <1>12 DEF Prompts!IInv

\* What the prompt of a job is about.
LEMMA PromptFacts ==
  ASSUME Prompts!IInv, pc \in {"prompting", "running", "asking"}, NEW q,
         q = persist.offset + 1
  PROVE  /\ q \in 1..Len(store) /\ Prompts!Current = store[q]
         /\ Prompts!WithStatus(Prompts!Current.status) = store
         /\ Prompts!Current.name \in Prompts!Names
         /\ Prompts!Current.status \in Prompts!Status
         /\ \A h \in 1..Len(store) : Prompts!Interrupted(h) => h = q
         /\ persist.offset \in Nat /\ Len(store) \in Nat
         /\ ~torn => \A h \in 1..persist.offset : store[h].name \in prompted
         /\ DOMAIN store = 1..Len(store)
<1>1. persist.offset < Len(store) /\ saved = persist /\ ~deleted
  BY DEF Prompts!IInv, Prompts!CurrentIsPrompted
<1>2. /\ q \in 1..Len(store) /\ Prompts!Current = store[q]
      /\ Prompts!Current.name \in Prompts!Names /\ Prompts!Current.status \in Prompts!Status
  BY <1>1, CurrentIs DEF Prompts!IInv
<1>3. /\ persist.offset \in Nat /\ Len(store) \in Nat /\ DOMAIN store = 1..Len(store)
  BY StoreFacts DEF Prompts!IInv
<1>4. Prompts!WithStatus(Prompts!Current.status) = store
  <2>1. store \in Seq(StoredMessage)
    BY DEF Prompts!IInv, Prompts!TypeOK, StoredMessage
  <2>2. PICK t : t = [store EXCEPT ![q].status = store[q].status]
    OBVIOUS
  <2>3. t = store
    BY <1>2, <2>1, <2>2, WithStatusFacts
  <2>4. QED
    BY <1>2, <2>2, <2>3 DEF Prompts!WithStatus
<1>5. \A h \in 1..Len(store) : Prompts!Interrupted(h) => h = q
  BY <1>1, <1>3 DEF Prompts!IInv, Prompts!InterruptedIsNext
<1>6. ~torn => \A h \in 1..persist.offset : store[h].name \in prompted
  BY DEF Prompts!IInv, Prompts!OffsetsArePrompted, Prompts!ArePrompted
<1>7. QED
  BY <1>2, <1>3, <1>4, <1>5, <1>6

LEMMA PassOverKept == Prompts!IInv /\ Prompts!PassOver => Prompts!IInv'
<1> SUFFICES ASSUME Prompts!IInv, Prompts!PassOver
             PROVE  Prompts!IInv'
  OBVIOUS
<1>0. pc = "prompting"
  BY DEF Prompts!PassOver
<1> DEFINE q == persist.offset + 1
<1>1. /\ q \in 1..Len(store) /\ Prompts!Current = store[q]
      /\ Prompts!WithStatus(Prompts!Current.status) = store
      /\ Prompts!Current.name \in Prompts!Names /\ Prompts!Current.status \in Prompts!Status
      /\ \A h \in 1..Len(store) : Prompts!Interrupted(h) => h = q
      /\ persist.offset \in Nat /\ Len(store) \in Nat
      /\ ~torn => \A h \in 1..persist.offset : store[h].name \in prompted
      /\ DOMAIN store = 1..Len(store)
  BY <1>0, PromptFacts
<1>2. PICK st \in Prompts!Status :
        /\ Prompts!Update(st, direction)
        /\ \/ st \in {"unsupported", "untested"}
           \/ /\ st = Prompts!Current.status /\ Prompts!Current.name \notin ignore
              /\ Prompts!IsBlocked
                 \/ (Prompts!Current.name \notin ManualJobs /\ ~Prompts!IsNew(Prompts!Current))
  <2>1. "unsupported" \in Prompts!Status /\ "untested" \in Prompts!Status
    BY DEF Prompts!Status
  <2>2. QED
    BY <1>1, <2>1 DEF Prompts!PassOver
<1>3. \A h \in 1..Len(store) : Prompts!Interrupted(h) => h = q /\ st # "uninitiated"
  <2>1. SUFFICES ASSUME Prompts!Interrupted(q), st = Prompts!Current.status,
                        Prompts!IsBlocked
                 PROVE  FALSE
    BY <1>1, <1>2 DEF Prompts!Interrupted, Prompts!IsNew
  <2>2. PICK k \in 1..Len(store) :
          store[k].name \in JobDepends[Prompts!Current.name] /\ store[k].status # "pass"
    BY <1>1, <2>1 DEF Prompts!IsBlocked, Prompts!ToSet
  <2>3. ~deleted
    BY <1>0 DEF Prompts!IInv, Prompts!CurrentIsPrompted
  <2>4. QED
    BY <1>1, <2>1, <2>2, <2>3 DEF Prompts!IInv, Prompts!InterruptedIsNext
<1>4. PICK n \in 0..Len(store) :
        n \in {persist.offset, q} /\ persist' = [persist EXCEPT !.offset = n]
  BY <1>1, <1>2 DEF Prompts!Update, Prompts!SetOffset
<1>5. prompted' = prompted \cup {store[q].name}
  BY <1>1 DEF Prompts!PassOver, Prompts!Prompted
<1>6. prompted \subseteq prompted' /\ prompted' \subseteq Prompts!Names
  BY <1>1, <1>5 DEF Prompts!IInv, Prompts!TypeOK
<1>7. ~torn => \A h \in 1..n : store[h].name \in prompted'
  BY <1>1, <1>4, <1>5
<1>8. store' = [store EXCEPT ![q].status = st] /\ pc' = "jobs"
  BY <1>2 DEF Prompts!Update, Prompts!WithStatus
<1>9. /\ store[q].name \in ignore => st # "pass"
      /\ st = "uninitiated" => store[q].status = "uninitiated"
  BY <1>1, <1>2
<1>10. /\ fail_current' \in BOOLEAN /\ direction' \in {"next", "prev"}
       /\ UNCHANGED <<saved, ui, ignore, gathered, unmet, ran, Prompts!faults>>
  BY DEF Prompts!PassOver, Prompts!IInv, Prompts!TypeOK
<1> HIDE DEF q
<1>11. QED
  BY <1>0, <1>1, <1>3, <1>4, <1>6, <1>7, <1>8, <1>9, <1>10, StatusKept

LEMMA VerdictKept ==
  ASSUME Prompts!IInv,
         \/ \E st \in {"pass", "fail"} : Prompts!CommandEnds(st)
         \/ \E st \in Prompts!Status : \E d \in {"next", "prev"} : Prompts!Answer(st, d)
  PROVE  Prompts!IInv'
<1>0. pc \in {"running", "asking"}
  BY DEF Prompts!CommandEnds, Prompts!Answer
<1> DEFINE q == persist.offset + 1
<1>1. /\ q \in 1..Len(store) /\ Prompts!Current = store[q]
      /\ \A h \in 1..Len(store) : Prompts!Interrupted(h) => h = q
      /\ persist.offset \in Nat /\ Len(store) \in Nat
      /\ ~torn => \A h \in 1..persist.offset : store[h].name \in prompted
      /\ DOMAIN store = 1..Len(store)
  BY <1>0, PromptFacts
<1>2. PICK st \in Prompts!Status, d \in {"next", "prev"} :
        /\ Prompts!Update(st, d)
        /\ \/ pc = "asking"
              /\ (st \in {"untested", "pass", "fail"} \/ st = Prompts!Current.status)
           \/ pc = "running" /\ st \in {"pass", "fail"}
  <2>1. direction \in {"next", "prev"} /\ "pass" \in Prompts!Status
        /\ "fail" \in Prompts!Status
    BY DEF Prompts!IInv, Prompts!TypeOK, Prompts!Status
  <2>2. QED
    BY <2>1 DEF Prompts!CommandEnds, Prompts!Answer
<1>3. \A h \in 1..Len(store) : Prompts!Interrupted(h) => h = q /\ st # "uninitiated"
  BY <1>0, <1>1, <1>2 DEF Prompts!IInv, Prompts!InterruptedIsNext
<1>4. PICK n \in 0..Len(store) :
        n \in {persist.offset, q} /\ persist' = [persist EXCEPT !.offset = n]
  BY <1>1, <1>2 DEF Prompts!Update, Prompts!SetOffset
<1>5. store[q].name \in prompted /\ store[q].name \notin ignore
  BY <1>0 DEF Prompts!IInv, Prompts!CurrentIsPrompted
<1>6. prompted' = prompted /\ prompted \subseteq Prompts!Names
  BY DEF Prompts!CommandEnds, Prompts!Answer, Prompts!seen, Prompts!IInv, Prompts!TypeOK
<1>7. ~torn => \A h \in 1..n : store[h].name \in prompted
  BY <1>1, <1>4, <1>5
<1>8. store' = [store EXCEPT ![q].status = st] /\ pc' = "jobs"
  BY <1>2 DEF Prompts!Update, Prompts!WithStatus
<1>9. /\ store[q].name \in ignore => st # "pass"
      /\ st = "uninitiated" => store[q].status = "uninitiated"
  BY <1>1, <1>2, <1>5
<1>10. /\ fail_current' \in BOOLEAN /\ direction' \in {"next", "prev"}
       /\ UNCHANGED <<saved, ui, ignore, gathered, unmet, ran, Prompts!faults>>
  BY DEF Prompts!CommandEnds, Prompts!Answer, Prompts!Turn, Prompts!seen, Prompts!IInv,
     Prompts!TypeOK
<1> HIDE DEF q
<1>11. QED
  BY <1>0, <1>1, <1>3, <1>4, <1>6, <1>7, <1>8, <1>9, <1>10, StatusKept

LEMMA FailCurrentKept == Prompts!IInv /\ Prompts!FailCurrent => Prompts!IInv'
<1> SUFFICES ASSUME Prompts!IInv, Prompts!FailCurrent
             PROVE  Prompts!IInv'
  OBVIOUS
<1>0. /\ persist.offset \in Nat /\ Len(store) \in Nat /\ DOMAIN store = 1..Len(store)
      /\ \A h \in 1..Len(store) :
           store[h] \in [name : Prompts!Names, status : Prompts!Status]
  BY StoreFacts DEF Prompts!IInv
<1>1. /\ pc = "jobs" /\ fail_current /\ ~Prompts!AtFirst /\ direction \in {"next", "prev"}
      /\ UNCHANGED <<saved, ui, direction, ignore, gathered, unmet, starts, backs, answer,
         ran, Prompts!faults>>
  BY DEF Prompts!FailCurrent, Prompts!IInv, Prompts!TypeOK
<1>2. PICK o : o = Prompts!Offset
  OBVIOUS
<1>3. o \in Nat /\ o \in {persist.offset, persist.offset - 1}
      /\ (direction = "next" => o = persist.offset)
  BY <1>0, <1>1, <1>2 DEF Prompts!Offset, Prompts!AtFirst
<1>4. ~torn => persist.offset <= Len(store)
               /\ \A h \in 1..persist.offset : store[h].name \in prompted
  BY <1>1 DEF Prompts!IInv, Prompts!OffsetsArePrompted, Prompts!ArePrompted
<1>5. ASSUME NEW h \in 1..Len(store), Prompts!Interrupted(h)
      PROVE  h = o + 1
  BY <1>0, <1>1, <1>3, <1>5 DEF Prompts!IInv, Prompts!InterruptedIsNext
<1>6. CASE o < Len(store)
  <2> DEFINE q == o + 1
  <2>1. q \in 1..Len(store) /\ q \in 0..Len(store) /\ q # 0
    BY <1>0, <1>3, <1>6
  <2>2. /\ store' = [store EXCEPT ![q].status = "fail"]
        /\ prompted' = prompted \cup {store[q].name}
        /\ persist' = [persist EXCEPT !.offset = q]
        /\ fail_current' = FALSE /\ pc' = "saving"
    BY <1>2, <1>6 DEF Prompts!FailCurrent, Prompts!SetOffset
  <2>3. prompted \subseteq prompted' /\ prompted' \subseteq Prompts!Names
    BY <1>0, <2>1, <2>2 DEF Prompts!IInv, Prompts!TypeOK
  <2>4. ~torn => \A h \in 1..q : store[h].name \in prompted'
    BY <1>0, <1>3, <1>4, <2>1, <2>2
  <2>5. "fail" \in Prompts!Status
    BY DEF Prompts!Status
  <2> HIDE DEF q
  <2>6. \A h \in 1..Len(store) : Prompts!Interrupted(h) => h = q /\ "fail" # "uninitiated"
    BY <1>5 DEF q
  <2>7. QED
    BY <1>1, <2>1, <2>2, <2>3, <2>4, <2>5, <2>6, StatusKept
<1>7. CASE ~(o < Len(store))
  <2>1. \A h \in 1..Len(store) : ~Prompts!Interrupted(h)
    BY <1>0, <1>3, <1>5, <1>7
  <2>2. PICK n : n = IF direction = "next" THEN Len(store) ELSE o
    OBVIOUS
  <2>3. /\ UNCHANGED <<store, prompted, fail_current>>
        /\ persist' = [persist EXCEPT !.offset = n]
        /\ pc' = IF direction = "next" THEN "reviewing" ELSE "gathering"
    BY <1>2, <1>7, <2>2 DEF Prompts!FailCurrent, Prompts!Leave, Prompts!SetOffset
  <2>4. n \in Nat /\ persist' \in SavedOffset /\ persist'.offset = n
        /\ persist'.recover = persist.recover
    <3>1. n \in Nat /\ persist \in SavedOffset
      BY <1>0, <1>3, <2>2 DEF Prompts!IInv, Prompts!TypeOK, SavedOffset
    <3>2. QED
      BY <2>3, <3>1, OffsetFacts
  <2>5. ~torn => n <= persist.offset /\ n <= Len(store)
        /\ (direction = "next" => n = Len(store) /\ n = persist.offset)
    BY <1>0, <1>1, <1>3, <1>4, <1>7, <2>2
  <2>6. \A m : Prompts!InStore(m) <=> \E h \in 1..Len(store) : store[h].name = m
    BY StoreFacts DEF Prompts!IInv
  <2>7. Prompts!TypeOK' /\ Prompts!NamesAreDifferent' /\ Prompts!StoreIsPart'
    <3>1. pc' \in {"reviewing", "gathering"} /\ pc' \notin {"deleting", "clearing"}
      BY <2>3
    <3>2. Prompts!TypeOK'
      <4>1. store \in Seq([name : Prompts!Names, status : Prompts!Status])
            /\ prompted \subseteq Prompts!Names
        BY DEF Prompts!IInv, Prompts!TypeOK
      <4>2. /\ saved' \in [offset : Nat, recover : BOOLEAN] /\ ui' \in Prompts!Interfaces
            /\ direction' \in {"next", "prev"} /\ gathered' \in BOOLEAN
            /\ ignore' \subseteq Prompts!Names /\ unmet' \subseteq RequiringJobs
            /\ ran' \subseteq Prompts!Names
        BY <1>1 DEF Prompts!IInv, Prompts!TypeOK
      <4>3. fail_current' \in BOOLEAN
        BY <1>1, <2>3 DEF Prompts!IInv, Prompts!TypeOK
      <4>4. store' \in Seq([name : Prompts!Names, status : Prompts!Status])
            /\ prompted' \subseteq Prompts!Names
        BY ONLY <2>3, <4>1
      <4>5. persist' \in [offset : Nat, recover : BOOLEAN]
        BY ONLY <2>4 DEF SavedOffset
      <4>6. pc' = "reviewing" \/ pc' = "gathering"
        BY ONLY <3>1
      <4>7. pc' \in Prompts!Questions \cup
              {"down", "deleting", "gathering", "adding", "jobs", "saving", "prompting",
               "running", "clearing", "stopping"}
        BY ONLY <4>6 DEF Prompts!Questions
      <4>8. QED
        BY ONLY <4>2, <4>3, <4>4, <4>5, <4>7 DEF Prompts!TypeOK
    <3>3. Prompts!NamesAreDifferent' /\ Prompts!StoreIsPart'
      BY <1>1, <2>3, <3>1 DEF Prompts!IInv, Prompts!NamesAreDifferent, Prompts!StoreIsPart,
         Prompts!faults
    <3>4. QED
      BY <3>2, <3>3
  <2>8. Prompts!AllAreAdded' /\ Prompts!CurrentIsPrompted'
    BY <1>1, <2>3, <2>4 DEF Prompts!IInv, Prompts!AllAreAdded, Prompts!InStore,
       Prompts!CurrentIsPrompted
  <2>9. Prompts!RanAndIgnored'
    BY <1>1, <2>3 DEF Prompts!IInv, Prompts!RanAndIgnored, Prompts!InStore
  <2>10. Prompts!InterruptedIsNext'
    <3>1. \A h \in 1..Len(store) : ~Prompts!Interrupted(h)'
      BY <1>1, <2>1, <2>3 DEF Prompts!Interrupted, Prompts!IsNew, Prompts!faults
    <3>2. QED
      BY <1>0, <2>3, <3>1 DEF Prompts!InterruptedIsNext
  <2>11. Prompts!OffsetsArePrompted'
    <3>1. ~torn => n <= Len(store) /\ \A h \in 1..n : store[h].name \in prompted
      <4>1. persist.offset \in Nat /\ Len(store) \in Nat /\ n \in Nat
        BY <1>0, <2>4
      <4>2. QED
        BY ONLY <1>4, <2>5, <4>1
    <3>2. ~torn => Prompts!ArePrompted(persist.offset)'
      BY <2>3, <2>4, <3>1 DEF Prompts!ArePrompted
    <3>3. ~torn /\ ~deleted => Prompts!ArePrompted(saved.offset)'
      BY <1>1, <2>3 DEF Prompts!IInv, Prompts!OffsetsArePrompted, Prompts!ArePrompted
    <3>4. ~torn /\ direction = "next" => Prompts!Names \subseteq prompted
      <4>1. \A m \in Prompts!Names : \E h \in 1..Len(store) : store[h].name = m
        BY <1>1, <2>6 DEF Prompts!IInv, Prompts!AllAreAdded
      <4>2. QED
        BY <2>5, <3>1, <4>1
    <3>5. ~torn' /\ pc' \in {"reviewing", "exchanging", "finishing"}
          => Prompts!Names \subseteq prompted'
      BY <1>1, <2>3, <3>4 DEF Prompts!faults
    <3>6. pc' \notin {"deleting", "clearing", "down"} /\ torn' = torn /\ deleted' = deleted
      BY <1>1, <2>3 DEF Prompts!faults
    <3>7. QED
      BY ONLY <3>2, <3>3, <3>5, <3>6 DEF Prompts!OffsetsArePrompted
  <2>12. QED
    BY <2>7, <2>8, <2>9, <2>10, <2>11 DEF Prompts!IInv
<1>8. QED
  BY <1>6, <1>7

\* The store grows by the next job.
LEMMA AddKept ==
  ASSUME Prompts!IInv, NEW name \in Prompts!Names, Prompts!Add(name)
  PROVE  Prompts!IInv'
<1>0. /\ persist.offset \in Nat /\ saved.offset \in Nat /\ Len(store) \in Nat
      /\ DOMAIN store = 1..Len(store)
      /\ \A h \in 1..Len(store) :
           store[h] \in [name : Prompts!Names, status : Prompts!Status]
      /\ \A m : Prompts!InStore(m) <=> \E h \in 1..Len(store) : store[h].name = m
      /\ store \in Seq(StoredMessage)
  BY StoreFacts DEF Prompts!IInv, Prompts!TypeOK, StoredMessage
<1>1. PICK e : e = [name |-> name, status |-> "uninitiated"]
  OBVIOUS
<1>2. e \in StoredMessage /\ e.name = name /\ e.status = "uninitiated"
  BY <1>1 DEF StoredMessage, Prompts!Status
<1>3. /\ pc = "adding" /\ Prompts!NextMissing(name) /\ store' = Append(store, e)
      /\ UNCHANGED <<saved, Prompts!memory, starts, backs, answer, Prompts!seen,
         Prompts!faults>>
  BY <1>1 DEF Prompts!Add
<1>4. /\ UNCHANGED <<saved, persist, ui, pc, direction, fail_current, ignore, gathered,
         unmet>>
      /\ UNCHANGED <<answer, ran, prompted, lost, deleted, torn>>
  BY <1>3 DEF Prompts!memory, Prompts!seen, Prompts!faults
<1>5. /\ store' \in Seq(StoredMessage) /\ Len(store') = Len(store) + 1
      /\ DOMAIN store' = 1..(Len(store) + 1)
      /\ \A k \in 1..Len(store) : store'[k] = store[k]
      /\ store'[Len(store) + 1] = e
  BY <1>0, <1>2, <1>3, AppendFacts
<1>6. \A m : Prompts!InStore(m)' <=> Prompts!InStore(m) \/ m = name
  <2>1. Prompts!ToSet(store') = {store'[h] : h \in 1..(Len(store) + 1)}
    BY <1>5 DEF Prompts!ToSet
  <2>2. \A h : h \in 1..(Len(store) + 1) <=> h \in 1..Len(store) \/ h = Len(store) + 1
    BY <1>0
  <2>3. \A m : Prompts!InStore(m)' <=> \E h \in 1..(Len(store) + 1) : store'[h].name = m
    BY <2>1 DEF Prompts!InStore
  <2>4. \A m : (\E h \in 1..(Len(store) + 1) : store'[h].name = m)
                <=> (\E h \in 1..Len(store) : store[h].name = m) \/ m = name
    BY <1>2, <1>5, <2>2
  <2>5. QED
    BY <1>0, <2>3, <2>4
<1>7. \A h \in 1..Len(store) : store[h].name # name
  BY <1>0, <1>3 DEF Prompts!NextMissing
<1>8. Prompts!TypeOK'
  BY <1>4, <1>5 DEF Prompts!IInv, Prompts!TypeOK, StoredMessage
<1>9. Prompts!NamesAreDifferent'
  BY <1>0, <1>2, <1>5, <1>7 DEF Prompts!IInv, Prompts!NamesAreDifferent
<1>10. Prompts!StoreIsPart'
  <2>1. SUFFICES ASSUME ~torn
                 PROVE  /\ Len(store) + 1 <= Len(PromptJobs) /\ 0 \in 0..Len(PromptJobs)
                        /\ \A h \in 1..(Len(store) + 1) : store'[h].name = PromptJobs[0 + h]
    BY <1>4, <1>5 DEF Prompts!StoreIsPart
  <2>2. Len(store) <= Len(PromptJobs)
        /\ \A h \in 1..Len(store) : store[h].name = PromptJobs[h]
    <3>1. PICK e0 \in 0..Len(PromptJobs) :
            /\ e0 # 0 => deleted /\ pc \in {"deleting", "clearing"}
            /\ e0 + Len(store) <= Len(PromptJobs)
            /\ \A h \in DOMAIN store : store[h].name = PromptJobs[e0 + h]
      BY <2>1 DEF Prompts!IInv, Prompts!StoreIsPart
    <3>2. e0 = 0
      BY <1>3, <3>1
    <3>3. QED
      BY <1>0, <3>1, <3>2
  <2>3. Len(PromptJobs) \in Nat /\ DOMAIN PromptJobs = 1..Len(PromptJobs)
    <3>1. PromptJobs \in Seq(Prompts!Names)
      BY PromptConstants DEF Prompts!JobsAssumption, Prompts!Names
    <3>2. QED
      BY ONLY <3>1, SizeFacts
  <2>4. PICK j \in 1..Len(PromptJobs) : /\ PromptJobs[j] = name /\ ~Prompts!InStore(name)
                                  /\ \A k \in 1..j-1 : Prompts!InStore(PromptJobs[k])
    BY <1>3, <2>3 DEF Prompts!NextMissing
  <2>5. \A k \in 1..j-1 : k <= Len(store)
    <3>1. SUFFICES ASSUME NEW k \in 1..j-1
                   PROVE  k <= Len(store)
      OBVIOUS
    <3>2. PICK h \in 1..Len(store) : store[h].name = PromptJobs[k]
      BY <1>0, <2>4
    <3>3. PromptJobs[h] = PromptJobs[k] /\ h \in 1..Len(PromptJobs)
          /\ k \in 1..Len(PromptJobs)
      BY <1>0, <2>2, <2>3, <2>4, <3>2
    <3>4. h = k
      BY <2>3, <3>3, PromptConstants DEF Prompts!JobsAssumption
    <3>5. QED
      BY <3>4
  <2>6. ~(j <= Len(store))
    BY <1>0, <2>2, <2>4
  <2>7. j = Len(store) + 1
    <3>1. j - 1 <= Len(store)
      BY <1>0, <2>4, <2>5
    <3>2. QED
      BY <1>0, <2>4, <2>6, <3>1
  <2>8. \A h \in 1..(Len(store) + 1) : store'[h].name = PromptJobs[h]
    BY <1>0, <1>2, <1>5, <2>2, <2>4, <2>7
  <2>9. QED
    BY <1>0, <2>3, <2>4, <2>7, <2>8
<1>11. Prompts!OffsetsArePrompted'
  <2>1. \A n \in Nat : Prompts!ArePrompted(n) => Prompts!ArePrompted(n)'
    BY SMTT(30), <1>0, <1>4, <1>5 DEF Prompts!ArePrompted
  <2>2. /\ ~torn => Prompts!ArePrompted(persist.offset)
        /\ ~torn /\ ~deleted => Prompts!ArePrompted(saved.offset)
    BY <1>3 DEF Prompts!IInv, Prompts!OffsetsArePrompted
  <2>3. /\ ~torn => Prompts!ArePrompted(persist.offset)'
        /\ ~torn /\ ~deleted => Prompts!ArePrompted(saved.offset)'
    BY <1>0, <1>4, <2>1, <2>2 DEF Prompts!ArePrompted
  <2>4. QED
    BY <1>3, <1>4, <2>3 DEF Prompts!OffsetsArePrompted
<1>12. Prompts!AllAreAdded' /\ Prompts!CurrentIsPrompted'
  BY <1>3, <1>4 DEF Prompts!IInv, Prompts!AllAreAdded, Prompts!CurrentIsPrompted
<1>13. Prompts!RanAndIgnored'
  BY <1>0, <1>2, <1>4, <1>5, <1>6 DEF Prompts!IInv, Prompts!RanAndIgnored
<1>14. Prompts!InterruptedIsNext'
  <2>1. ASSUME NEW h \in 1..Len(store), Prompts!Interrupted(h)
        PROVE  FALSE
    <3>1. deleted \/ Prompts!InStore(name)
      BY <1>0, <2>1 DEF Prompts!IInv, Prompts!InterruptedIsNext
    <3>2. pc = "deleting"
      BY <1>0, <1>7, <2>1, <3>1 DEF Prompts!IInv, Prompts!InterruptedIsNext
    <3>3. QED
      BY <1>3, <3>2
  <2>2. \A h \in 1..Len(store) : ~Prompts!Interrupted(h)'
    BY <1>0, <1>4, <1>5, <2>1 DEF Prompts!Interrupted, Prompts!IsNew
  <2>3. store'[Len(store) + 1].name \notin ran'
    <3>1. name \notin ran
      BY <1>0, <1>7 DEF Prompts!IInv, Prompts!RanAndIgnored
    <3>2. QED
      BY <1>2, <1>4, <1>5, <3>1
  <2>4. ASSUME NEW h \in 1..(Len(store) + 1)
        PROVE  ~Prompts!Interrupted(h)'
    <3>1. CASE h \in 1..Len(store)
      BY <2>2, <3>1
    <3>2. CASE h = Len(store) + 1
      BY <2>3, <3>2 DEF Prompts!Interrupted
    <3>3. QED
      BY <1>0, <3>1, <3>2
  <2>5. QED
    BY <1>5, <2>4 DEF Prompts!InterruptedIsNext
<1>15. QED
  BY <1>8, <1>9, <1>10, <1>11, <1>12, <1>13, <1>14 DEF Prompts!IInv

\* The store loses its first message.
LEMMA DeleteKept ==
  ASSUME Prompts!IInv, pc \in {"deleting", "clearing"}, Prompts!Delete
  PROVE  Prompts!IInv'
<1>0. /\ persist.offset \in Nat /\ saved.offset \in Nat /\ Len(store) \in Nat
      /\ DOMAIN store = 1..Len(store)
      /\ \A m : Prompts!InStore(m) <=> \E h \in 1..Len(store) : store[h].name = m
      /\ store \in Seq(StoredMessage)
  BY StoreFacts DEF Prompts!IInv, Prompts!TypeOK, StoredMessage
<1>1. /\ store # <<>> /\ store' = Tail(store) /\ deleted' = TRUE
      /\ ran' = ran \ {Head(store).name} /\ prompted' = prompted \ {Head(store).name}
      /\ UNCHANGED <<saved, Prompts!memory, starts, backs, answer, lost, torn>>
  BY DEF Prompts!Delete
<1>2. PICK l \in Nat : l = Len(store) - 1 /\ Len(store) = l + 1
  <2>1. Len(store) # 0
    BY StoreFacts, <1>1 DEF Prompts!IInv
  <2>2. Len(store) - 1 \in Nat /\ Len(store) = (Len(store) - 1) + 1
    BY ONLY <1>0, <2>1
  <2>3. QED
    BY ONLY <2>2
<1>3. /\ store' \in Seq(StoredMessage) /\ Len(store') = l /\ DOMAIN store' = 1..l
      /\ \A k \in 1..l : store'[k] = store[k + 1] /\ k + 1 \in 1..Len(store)
      /\ Head(store) = store[1] /\ 1 \in 1..Len(store)
  BY <1>0, <1>1, <1>2, TailFacts
<1>4. UNCHANGED <<saved, persist, ui, pc, direction, fail_current, ignore, gathered, unmet,
      answer, lost, torn>>
  BY <1>1 DEF Prompts!memory
<1>5. \A k \in 1..l : store'[k].name # Head(store).name
  <2>1. SUFFICES ASSUME NEW k \in 1..l, store'[k].name = Head(store).name
                 PROVE  FALSE
    OBVIOUS
  <2>2. store[k + 1].name = store[1].name /\ k + 1 \in DOMAIN store /\ 1 \in DOMAIN store
    BY <1>0, <1>3, <2>1
  <2>3. k + 1 = 1
    BY <2>2 DEF Prompts!IInv, Prompts!NamesAreDifferent
  <2>4. QED
    BY ONLY <1>2, <2>1, <2>3
<1>6. \A m : Prompts!InStore(m)' <=> Prompts!InStore(m) /\ m # Head(store).name
  <2>1. \A m : Prompts!InStore(m)' <=> \E k \in 1..l : store'[k].name = m
    BY <1>3 DEF Prompts!InStore, Prompts!ToSet
  <2>2. ASSUME NEW m, Prompts!InStore(m), m # Head(store).name
        PROVE  \E k \in 1..l : store'[k].name = m
    <3>1. PICK h \in 1..Len(store) : store[h].name = m
      BY <1>0, <2>2
    <3>2. h # 1
      BY <1>3, <2>2, <3>1
    <3>3. h - 1 \in 1..l /\ (h - 1) + 1 = h
      BY <1>2, <3>2
    <3>4. QED
      BY <1>3, <3>1, <3>3
  <2>3. \A k \in 1..l : Prompts!InStore(store'[k].name)
    BY <1>0, <1>3
  <2>4. QED
    BY <1>5, <2>1, <2>2, <2>3
<1>7. Prompts!TypeOK'
  <2>1. ran' \subseteq Prompts!Names /\ prompted' \subseteq Prompts!Names
    BY <1>1 DEF Prompts!IInv, Prompts!TypeOK
  <2>2. QED
    BY <1>3, <1>4, <2>1 DEF Prompts!IInv, Prompts!TypeOK, StoredMessage
<1>8. Prompts!NamesAreDifferent'
  <2>1. SUFFICES ASSUME NEW h \in 1..l, NEW k \in 1..l, store'[h].name = store'[k].name
                 PROVE  h = k
    BY <1>3 DEF Prompts!NamesAreDifferent
  <2>2. h + 1 = k + 1
    BY <1>0, <1>3, <2>1 DEF Prompts!IInv, Prompts!NamesAreDifferent
  <2>3. QED
    BY <2>2
<1>9. Prompts!StoreIsPart'
  <2>a. CASE torn
    BY <1>4, <2>a DEF Prompts!StoreIsPart
  <2>1. CASE ~torn
    <3>2. PICK e \in 0..Len(PromptJobs) : /\ e + Len(store) <= Len(PromptJobs)
                                    /\ \A h \in 1..Len(store) : store[h].name = PromptJobs[e + h]
      BY <1>0, <2>1 DEF Prompts!IInv, Prompts!StoreIsPart
    <3>3. Len(PromptJobs) \in Nat
      <4>1. PromptJobs \in Seq(Prompts!Names)
        BY PromptConstants DEF Prompts!JobsAssumption, Prompts!Names
      <4>2. QED
        BY ONLY <4>1, SizeFacts
    <3>4. e + 1 \in 0..Len(PromptJobs) /\ (e + 1) + l <= Len(PromptJobs)
      BY <1>2, <3>2, <3>3
    <3>5. \A h \in 1..l : store'[h].name = PromptJobs[(e + 1) + h]
      <4>1. SUFFICES ASSUME NEW h \in 1..l
                     PROVE  store'[h].name = PromptJobs[(e + 1) + h]
        OBVIOUS
      <4>2. e + (h + 1) = (e + 1) + h
        BY <3>2, <3>3
      <4>3. QED
        BY <1>3, <3>2, <4>2
    <3>6. \E f \in 0..Len(PromptJobs) :
            f + l <= Len(PromptJobs) /\ \A h \in 1..l : store'[h].name = PromptJobs[f + h]
      BY ONLY <3>4, <3>5
    <3>7. deleted' = TRUE /\ pc' \in {"deleting", "clearing"}
      BY <1>1, <1>4
    <3>8. QED
      BY ONLY <1>3, <3>6, <3>7 DEF Prompts!StoreIsPart
  <2>2. QED
    BY <2>a, <2>1
<1>10. Prompts!OffsetsArePrompted'
  <2>1. persist'.offset = 0 /\ pc' \in {"deleting", "clearing"}
    BY <1>4 DEF Prompts!IInv, Prompts!OffsetsArePrompted
  <2>2. Prompts!ArePrompted(persist.offset)'
    BY <1>2, <1>3, <2>1 DEF Prompts!ArePrompted
  <2>3. QED
    BY <1>1, <2>1, <2>2 DEF Prompts!OffsetsArePrompted
<1>11. Prompts!AllAreAdded' /\ Prompts!CurrentIsPrompted'
  <2>1. pc = "deleting" => ~gathered
    BY DEF Prompts!IInv, Prompts!AllAreAdded
  <2>2. Prompts!AllAreAdded'
    BY <1>4, <2>1 DEF Prompts!AllAreAdded
  <2>3. Prompts!CurrentIsPrompted'
    BY <1>4 DEF Prompts!IInv, Prompts!CurrentIsPrompted
  <2>4. QED
    BY <2>2, <2>3
<1>12. Prompts!RanAndIgnored'
  <2>1. \A n \in ran' : Prompts!InStore(n)' /\ n \notin ManualJobs
    BY <1>1, <1>6 DEF Prompts!IInv, Prompts!RanAndIgnored
  <2>2. \A h \in 1..l : store'[h].name \in ignore' => store'[h].status # "pass"
    BY <1>0, <1>3, <1>4 DEF Prompts!IInv, Prompts!RanAndIgnored
  <2>3. QED
    BY <1>3, <2>1, <2>2 DEF Prompts!RanAndIgnored
<1>13. Prompts!InterruptedIsNext'
  <2>1. ASSUME NEW h \in 1..l, Prompts!Interrupted(h)'
        PROVE  Prompts!Interrupted(h + 1) /\ h + 1 \in DOMAIN store
    <3>1. store'[h] = store[h + 1] /\ h + 1 \in DOMAIN store
      BY <1>0, <1>3
    <3>2. store'[h].name \in ran' /\ store'[h].status = "uninitiated" /\ ~lost' /\ ~torn'
      BY <2>1 DEF Prompts!Interrupted, Prompts!IsNew
    <3>3. store[h + 1].name \in ran /\ store[h + 1].status = "uninitiated" /\ ~lost /\ ~torn
      BY ONLY <1>1, <1>4, <3>1, <3>2
    <3>4. QED
      BY <3>1, <3>3 DEF Prompts!Interrupted, Prompts!IsNew
  <2>2. \A h \in 1..l : Prompts!Interrupted(h)' => pc = "deleting" /\ direction = "next"
    BY <2>1 DEF Prompts!IInv, Prompts!InterruptedIsNext
  <2>3. QED
    BY <1>1, <1>3, <1>4, <2>2 DEF Prompts!InterruptedIsNext
<1>14. QED
  BY <1>7, <1>8, <1>9, <1>10, <1>11, <1>12, <1>13 DEF Prompts!IInv

LEMMA InitPrompts == Prompts!Init => Prompts!IInv
<1> SUFFICES ASSUME Prompts!Init
             PROVE  Prompts!IInv
  OBVIOUS
<1>1. store = <<>> /\ Len(store) = 0 /\ DOMAIN store = {}
      /\ store \in Seq([name : Prompts!Names, status : Prompts!Status])
  BY DEF Prompts!Init
<1>2. /\ pc = "down" /\ direction = "next" /\ ui \in Prompts!Interfaces
      /\ fail_current = FALSE /\ gathered = FALSE
      /\ ignore = {} /\ unmet = {} /\ ran = {} /\ prompted = {} /\ ~torn /\ ~deleted
  BY DEF Prompts!Init, Prompts!Interfaces, Prompts!CanGoBack
<1>3. saved \in SavedOffset /\ persist \in SavedOffset /\ saved.offset = 0
      /\ persist.offset = 0
  BY DEF Prompts!Init, Prompts!NothingSaved, SavedOffset
<1>4. Prompts!TypeOK
  BY <1>1, <1>2, <1>3 DEF Prompts!TypeOK, SavedOffset
<1>5. Prompts!NamesAreDifferent /\ Prompts!InterruptedIsNext
  BY <1>1 DEF Prompts!NamesAreDifferent, Prompts!InterruptedIsNext
<1>6. Prompts!StoreIsPart
  <2>1. Len(PromptJobs) \in Nat
    <3>1. PromptJobs \in Seq(Prompts!Names)
      BY PromptConstants DEF Prompts!JobsAssumption, Prompts!Names
    <3>2. QED
      BY ONLY <3>1, SizeFacts
  <2>2. 0 \in 0..Len(PromptJobs) /\ 0 + Len(store) <= Len(PromptJobs)
    BY <1>1, <2>1
  <2>3. QED
    BY <1>1, <2>2 DEF Prompts!StoreIsPart
<1>7. Prompts!OffsetsArePrompted
  BY <1>1, <1>2, <1>3 DEF Prompts!OffsetsArePrompted, Prompts!ArePrompted
<1>8. Prompts!AllAreAdded /\ Prompts!CurrentIsPrompted
  BY <1>2 DEF Prompts!AllAreAdded, Prompts!CurrentIsPrompted
<1>9. Prompts!RanAndIgnored
  BY <1>1, <1>2 DEF Prompts!RanAndIgnored
<1>10. QED
  BY <1>4, <1>5, <1>6, <1>7, <1>8, <1>9 DEF Prompts!IInv

LEMMA NextPrompts == Prompts!IInv /\ [Prompts!Next]_(Prompts!vars) => Prompts!IInv'
<1> SUFFICES ASSUME Prompts!IInv, [Prompts!Next]_(Prompts!vars)
             PROVE  Prompts!IInv'
  OBVIOUS
<1>1. CASE \/ Prompts!Deleted \/ Prompts!Intro \/ Prompts!GatherAgain \/ Prompts!Added
           \/ Prompts!ChooseFails
           \/ \E d \in {"next", "prev"} : Prompts!Review(d) \/ Prompts!Exchange(d)
           \/ Prompts!Quit
  BY <1>1, QuietSteps
<1>2. CASE \/ \E h \in Prompts!Interfaces : Prompts!Start(h)
           \/ \E a \in {"Rerun", "Continue", "Restart"} : Prompts!Recover(a)
           \/ \E d \in {"next", "prev"} : Prompts!Finish(d)
           \/ Prompts!BackAtFirst \/ Prompts!NoMoreJobs \/ Prompts!NextJob
           \/ Prompts!Cleared
  BY <1>2, OffsetSteps
<1>3. CASE \/ Prompts!Gather \/ Prompts!SaveBeforeJob \/ Prompts!Stop \/ Prompts!Crash
           \/ Prompts!StartCommand \/ Prompts!ShowTest
           \/ \E d \in {"next", "prev"} : \E chosen \in SUBSET Prompts!Names :
              Prompts!Choose(chosen, d)
  BY <1>3, SavingSteps
<1>4. CASE Prompts!PassOver \/ Prompts!FailCurrent
  BY <1>4, PassOverKept, FailCurrentKept
<1>5. CASE \/ \E st \in {"pass", "fail"} : Prompts!CommandEnds(st)
           \/ \E d \in {"next", "prev"} : \E st \in Prompts!Status : Prompts!Answer(st, d)
  BY <1>5, VerdictKept
<1>6. CASE \E name \in Prompts!Names : Prompts!Add(name)
  BY <1>6, AddKept
<1>7. CASE Prompts!DeleteMessage \/ Prompts!ClearMessage
  BY <1>7, DeleteKept DEF Prompts!DeleteMessage, Prompts!ClearMessage
<1>8. CASE UNCHANGED Prompts!vars
  <2>1. UNCHANGED <<store, saved, persist, ui, pc, direction, fail_current, ignore,
        gathered, unmet>>
    BY <1>8 DEF Prompts!vars, Prompts!disk, Prompts!memory
  <2>2. UNCHANGED <<answer, ran, prompted, lost, deleted, torn>>
    BY <1>8 DEF Prompts!vars, Prompts!seen, Prompts!faults
  <2>3. Prompts!TypeOK'
    BY <2>1, <2>2 DEF Prompts!IInv, Prompts!TypeOK
  <2>4. Prompts!NamesAreDifferent' /\ Prompts!StoreIsPart' /\ Prompts!OffsetsArePrompted'
    BY <2>1, <2>2 DEF Prompts!IInv, Prompts!NamesAreDifferent, Prompts!StoreIsPart,
       Prompts!OffsetsArePrompted, Prompts!ArePrompted
  <2>5. Prompts!AllAreAdded' /\ Prompts!CurrentIsPrompted' /\ Prompts!RanAndIgnored'
    BY <2>1, <2>2 DEF Prompts!IInv, Prompts!AllAreAdded, Prompts!CurrentIsPrompted,
       Prompts!RanAndIgnored, Prompts!IsNew, Prompts!InStore
  <2>6. Prompts!InterruptedIsNext'
    BY <2>1, <2>2 DEF Prompts!IInv, Prompts!InterruptedIsNext, Prompts!Interrupted,
       Prompts!IsNew, Prompts!InStore
  <2>7. QED
    BY <2>3, <2>4, <2>5, <2>6 DEF Prompts!IInv
<1>9. QED
  BY <1>1, <1>2, <1>3, <1>4, <1>5, <1>6, <1>7, <1>8 DEF Prompts!Next, Prompts!Program,
     Prompts!User

LEMMA PromptsAreSafe ==
  Prompts!IInv =>
    Prompts!OffsetIsInStore /\ Prompts!StoreIsOrdered /\ Prompts!AllPrompted
<1> SUFFICES ASSUME Prompts!IInv
             PROVE  Prompts!OffsetIsInStore /\ Prompts!StoreIsOrdered /\ Prompts!AllPrompted
  OBVIOUS
<1>1. Prompts!OffsetIsInStore
  BY DEF Prompts!IInv, Prompts!OffsetsArePrompted, Prompts!ArePrompted,
     Prompts!OffsetIsInStore
<1>2. Prompts!AllPrompted
  BY DEF Prompts!IInv, Prompts!OffsetsArePrompted, Prompts!AllPrompted
<1>3. Prompts!StoreIsOrdered
  <2>1. SUFFICES ASSUME ~torn, NEW h \in DOMAIN store, NEW k \in DOMAIN store, h < k
                 PROVE  \E a, b \in DOMAIN PromptJobs :
                          a < b /\ PromptJobs[a] = store[h].name
                          /\ PromptJobs[b] = store[k].name
    BY DEF Prompts!StoreIsOrdered
  <2>2. PICK e \in 0..Len(PromptJobs) : /\ e + Len(store) <= Len(PromptJobs)
                                  /\ \A j \in DOMAIN store : store[j].name = PromptJobs[e + j]
    BY <2>1 DEF Prompts!IInv, Prompts!StoreIsPart
  <2>3. DOMAIN store = 1..Len(store) /\ Len(store) \in Nat
    BY StoreFacts DEF Prompts!IInv
  <2>4. Len(PromptJobs) \in Nat /\ DOMAIN PromptJobs = 1..Len(PromptJobs)
    <3>1. PromptJobs \in Seq(Prompts!Names)
      BY PromptConstants DEF Prompts!JobsAssumption, Prompts!Names
    <3>2. QED
      BY ONLY <3>1, SizeFacts
  <2>5. e + h \in DOMAIN PromptJobs /\ e + k \in DOMAIN PromptJobs /\ e + h < e + k
    BY ONLY <2>1, <2>2, <2>3, <2>4
  <2>6. store[h].name = PromptJobs[e + h] /\ store[k].name = PromptJobs[e + k]
    BY <2>2
  <2>7. QED
    BY <2>5, <2>6
<1>4. QED
  BY <1>1, <1>2, <1>3

\* Commands are started in one step only.
LEMMA StartsAgain ==
  ASSUME Prompts!IInv, [Prompts!Next]_(Prompts!vars), pc # "running", pc' = "running",
         Prompts!Current.name \in ran
  PROVE  answer = "Rerun" \/ lost \/ torn
<1>1. Prompts!StartCommand
  <2>1. ~UNCHANGED Prompts!vars
    BY DEF Prompts!vars, Prompts!memory
  <2>2. ASSUME Prompts!Program
        PROVE  Prompts!StartCommand
    BY <2>2 DEF Prompts!Program, Prompts!DeleteMessage, Prompts!Delete, Prompts!memory,
       Prompts!Deleted, Prompts!Gather, Prompts!GatherAgain, Prompts!Add, Prompts!Added,
       Prompts!BackAtFirst, Prompts!FailCurrent, Prompts!Leave, Prompts!NoMoreJobs,
       Prompts!NextJob, Prompts!SaveBeforeJob, Prompts!PassOver, Prompts!Update,
       Prompts!ShowTest, Prompts!Review, Prompts!CommandEnds, Prompts!ClearMessage,
       Prompts!Cleared, Prompts!Stop, Prompts!Forget
  <2>3. ~Prompts!User
    BY DEF Prompts!User, Prompts!Recover, Prompts!Intro, Prompts!Quit, Prompts!Review,
       Prompts!Exchange, Prompts!Finish, Prompts!Choose, Prompts!Answer, Prompts!Update,
       Prompts!ChooseFails
  <2>4. ~Prompts!Crash /\ ~\E j \in Prompts!Interfaces : Prompts!Start(j)
    BY DEF Prompts!Crash, Prompts!Forget, Prompts!Start
  <2>5. QED
    BY <2>1, <2>2, <2>3, <2>4 DEF Prompts!Next
<1>2. pc = "prompting" /\ Prompts!IsNew(Prompts!Current)
  BY <1>1 DEF Prompts!StartCommand, Prompts!CanPrompt
<1> DEFINE q == persist.offset + 1
<1>3. q \in 1..Len(store) /\ Prompts!Current = store[q] /\ DOMAIN store = 1..Len(store)
  BY <1>2, PromptFacts
<1>4. ~fail_current
  BY <1>2 DEF Prompts!IInv, Prompts!CurrentIsPrompted
<1> HIDE DEF q
<1>5. CASE lost \/ torn
  BY <1>5
<1>6. CASE ~lost /\ ~torn
  <2>1. Prompts!Interrupted(q)
    BY <1>2, <1>3, <1>6 DEF Prompts!Interrupted
  <2>2. QED
    BY <1>2, <1>3, <1>4, <2>1 DEF Prompts!IInv, Prompts!InterruptedIsNext
<1>7. QED
  BY <1>5, <1>6

\* One job gets a status.
LEMMA OthersStay ==
  ASSUME Prompts!IInv, NEW q \in 1..Len(store), NEW st \in Prompts!Status,
         store' = [store EXCEPT ![q].status = st], NEW j \in DOMAIN store,
         j # q
  PROVE  \E k \in DOMAIN store' : store'[k] = store[j]
<1>1. store \in Seq(StoredMessage) /\ DOMAIN store = 1..Len(store)
  BY StoreFacts DEF Prompts!IInv, Prompts!TypeOK, StoredMessage
<1>2. PICK t : t = [store EXCEPT ![q].status = st]
  OBVIOUS
<1>3. DOMAIN t = 1..Len(store) /\ \A k \in 1..Len(store) : k # q => t[k] = store[k]
  BY <1>1, <1>2, WithStatusFacts
<1>4. QED
  BY <1>1, <1>2, <1>3

\* A job that has passed changes only in the steps that PassedStays names.
LEMMA PassedIsKept ==
  ASSUME Prompts!IInv, [Prompts!Next]_(Prompts!vars), NEW j \in DOMAIN store,
         store[j].status = "pass"
  PROVE  \/ \E k \in DOMAIN store' : store'[k] = store[j]
         \/ pc = "asking"
         \/ store[j].name \in unmet
         \/ fail_current /\ ~fail_current'
         \/ store' = Tail(store)
<1>0. DOMAIN store = 1..Len(store) /\ Len(store) \in Nat /\ store \in Seq(StoredMessage)
  BY StoreFacts DEF Prompts!IInv, Prompts!TypeOK, StoredMessage
<1>1. CASE store' = store
  BY <1>1
<1>2. CASE \E name \in Prompts!Names : Prompts!Add(name)
  <2>1. PICK m : store' = Append(store, m)
    BY <1>2 DEF Prompts!Add
  <2>2. \A S : \A s \in Seq(S) : \A x : \A k \in 1..Len(s) :
          k \in DOMAIN Append(s, x) /\ Append(s, x)[k] = s[k]
    OBVIOUS
  <2>3. QED
    BY <1>0, <2>1, <2>2
<1>3. CASE Prompts!DeleteMessage \/ Prompts!ClearMessage
  BY <1>3 DEF Prompts!DeleteMessage, Prompts!ClearMessage, Prompts!Delete
<1>4. CASE Prompts!FailCurrent
  <2>1. store' = store \/ (fail_current /\ ~fail_current')
    BY <1>4 DEF Prompts!FailCurrent
  <2>2. QED
    BY <1>1, <2>1
<1> DEFINE q == persist.offset + 1
<1>5. CASE Prompts!PassOver
  <2>0. pc = "prompting"
    BY <1>5 DEF Prompts!PassOver
  <2>1. /\ q \in 1..Len(store) /\ Prompts!Current = store[q]
        /\ Prompts!Current.status \in Prompts!Status
        /\ Prompts!WithStatus(Prompts!Current.status) = store
    BY <2>0, PromptFacts
  <2>2. PICK st \in Prompts!Status : /\ store' = Prompts!WithStatus(st)
                             /\ \/ Prompts!Current.name \in unmet \cup ignore
                                \/ st = Prompts!Current.status
    <3>1. "unsupported" \in Prompts!Status /\ "untested" \in Prompts!Status
      BY DEF Prompts!Status
    <3>2. QED
      BY <1>5, <2>1, <3>1 DEF Prompts!PassOver, Prompts!Update
  <2>3. store[q].name \in ignore => store[q].status # "pass"
    BY <1>0, <2>1 DEF Prompts!IInv, Prompts!RanAndIgnored
  <2>4. store' = [store EXCEPT ![q].status = st]
    BY <2>2 DEF Prompts!WithStatus
  <2> HIDE DEF q
  <2>5. CASE st = Prompts!Current.status
    BY <1>1, <2>1, <2>2, <2>5
  <2>6. CASE j # q
    BY <2>1, <2>2, <2>4, <2>6, OthersStay
  <2>7. CASE j = q /\ st # Prompts!Current.status
    BY <2>1, <2>2, <2>3, <2>7
  <2>8. QED
    BY <2>5, <2>6, <2>7
<1>6. CASE \E st \in {"pass", "fail"} : Prompts!CommandEnds(st)
  <2>0. pc = "running"
    BY <1>6 DEF Prompts!CommandEnds
  <2>1. q \in 1..Len(store) /\ Prompts!Current = store[q]
    BY <2>0, PromptFacts
  <2>2. PICK st \in Prompts!Status : store' = [store EXCEPT ![q].status = st]
    <3>1. "pass" \in Prompts!Status /\ "fail" \in Prompts!Status
      BY DEF Prompts!Status
    <3>2. QED
      BY <1>6, <3>1 DEF Prompts!CommandEnds, Prompts!Update, Prompts!WithStatus
  <2>3. store[q].status # "pass"
    BY <2>0 DEF Prompts!IInv, Prompts!CurrentIsPrompted, Prompts!IsNew
  <2> HIDE DEF q
  <2>4. j # q
    BY <2>3
  <2>5. QED
    BY <2>1, <2>2, <2>4, OthersStay
<1>7. CASE \E st \in Prompts!Status : \E d \in {"next", "prev"} : Prompts!Answer(st, d)
  BY <1>7 DEF Prompts!Answer
<1>8. QED
  <2>1. ASSUME Prompts!Program
        PROVE  \/ store' = store \/ \E name \in Prompts!Names : Prompts!Add(name)
               \/ Prompts!DeleteMessage \/ Prompts!ClearMessage \/ Prompts!FailCurrent
               \/ Prompts!PassOver
               \/ \E st \in {"pass", "fail"} : Prompts!CommandEnds(st)
    BY <2>1 DEF Prompts!Program, Prompts!Deleted, Prompts!Gather, Prompts!GatherAgain,
       Prompts!Added, Prompts!BackAtFirst, Prompts!NoMoreJobs, Prompts!NextJob,
       Prompts!SaveBeforeJob, Prompts!StartCommand, Prompts!ShowTest, Prompts!Review,
       Prompts!Cleared, Prompts!Stop, Prompts!disk
  <2>2. ASSUME Prompts!User
        PROVE  store' = store
               \/ \E st \in Prompts!Status : \E d \in {"next", "prev"} :
                  Prompts!Answer(st, d)
    BY <2>2 DEF Prompts!User, Prompts!Recover, Prompts!Intro, Prompts!Quit, Prompts!Review,
       Prompts!Exchange, Prompts!Finish, Prompts!Choose, Prompts!ChooseFails, Prompts!disk
  <2>3. ASSUME Prompts!Crash \/ \E k \in Prompts!Interfaces : Prompts!Start(k)
        PROVE  store' = store
    BY <2>3 DEF Prompts!Crash, Prompts!Start, Prompts!disk
  <2>4. UNCHANGED Prompts!vars => store' = store
    BY DEF Prompts!vars, Prompts!disk
  <2>5. QED
    BY <1>1, <1>2, <1>3, <1>4, <1>5, <1>6, <1>7, <2>1, <2>2, <2>3, <2>4 DEF Prompts!Next

LEMMA PromptsSteps ==
  Prompts!IInv /\ [Prompts!Next]_(Prompts!vars) =>
    /\ [pc # "running" /\ pc' = "running" /\ Prompts!Current.name \in ran
        => answer = "Rerun" \/ lost \/ torn]_(Prompts!vars)
    /\ [Prompts!KeepsPassed]_(Prompts!vars)
BY StartsAgain, PassedIsKept DEF Prompts!KeepsPassed

-----------------------------------------------------------------------------
(* All parts together: a step of one leaves the others alone.              *)

IInv ==
  /\ Prompts!IInv /\ Persist!IInv /\ Messages!IInv /\ Choice!ChoiceInv /\ Backend!IInv
  /\ Lock!IInv /\ Command!IInv /\ Watcher!IInv

LEMMA InitIInv == Init => IInv
BY InitPrompts, InitPersist, InitMessages, InitChoice, InitBackend, InitLock, InitCommand,
   InitWatcher DEF Init, IInv

LEMMA StepsOfParts ==
  [Next]_vars => /\ [Persist!Next]_persist_vars /\ [Messages!Next]_messages_vars
                 /\ [Backend!Next]_backend_vars /\ [Lock!Next]_lock_vars
                 /\ [Command!Next]_command_vars /\ [Watcher!Next]_watch_vars
                 /\ [Choice!ChoiceNext]_tree_vars /\ [Prompts!Next]_prompts_vars
<1> DEFINE Steps == /\ [Persist!Next]_persist_vars /\ [Messages!Next]_messages_vars
                    /\ [Backend!Next]_backend_vars /\ [Lock!Next]_lock_vars
                    /\ [Command!Next]_command_vars /\ [Watcher!Next]_watch_vars
                    /\ [Choice!ChoiceNext]_tree_vars /\ [Prompts!Next]_prompts_vars
           Proved == {"prompts", "persist", "messages", "tree", "backend", "lock", "command",
                      "watcher"}
<1>1. CASE UNCHANGED vars
  BY <1>1 DEF vars
<1>2. ASSUME NEW p \in Parts \ Proved, Only(p)
      PROVE  Steps
  BY <1>2 DEF Only
<1>3. CASE Only("persist") /\ Persist!Next
  BY <1>3 DEF Only
<1>4. CASE Only("messages") /\ Messages!Next
  BY <1>4 DEF Only
<1>5. CASE Only("backend") /\ Backend!Next
  BY <1>5 DEF Only
<1>6. CASE Only("lock") /\ Lock!Next
  BY <1>6 DEF Only
<1>7. CASE Only("command") /\ Command!Next
  BY <1>7 DEF Only
<1>8. CASE Only("watcher") /\ Watcher!Next
  BY <1>8 DEF Only
<1>9. CASE Only("tree") /\ Choice!ChoiceNext
  BY <1>9 DEF Only
<1>10. CASE Only("prompts") /\ Prompts!Next
  BY <1>10 DEF Only
<1>11. Next => \/ Only("prompts") /\ Prompts!Next
               \/ Only("persist") /\ Persist!Next
               \/ Only("messages") /\ Messages!Next
               \/ Only("backend") /\ Backend!Next
               \/ Only("lock") /\ Lock!Next
               \/ Only("command") /\ Command!Next
               \/ Only("watcher") /\ Watcher!Next
               \/ Only("tree") /\ Choice!ChoiceNext
               \/ \E p \in Parts \ Proved : Only(p)
  BY DEF Next, Parts
<1>12. QED
  BY <1>1, <1>2, <1>3, <1>4, <1>5, <1>6, <1>7, <1>8, <1>9, <1>10, <1>11

LEMMA TreeSteps ==
  [Next]_vars => [Choice!ChoiceNext]_(Choice!choice_vars)
BY StepsOfParts DEF tree_vars, Choice!choice_vars

LEMMA StepsOfPrompts == [Next]_vars => [Prompts!Next]_(Prompts!vars)
<1>1. UNCHANGED prompts_vars => UNCHANGED Prompts!vars
  BY DEF prompts_vars, Prompts!vars, Prompts!disk, Prompts!memory, Prompts!seen, Prompts!faults
<1>2. QED
  BY <1>1, StepsOfParts

LEMMA NextIInv == IInv /\ [Next]_vars => IInv'
BY StepsOfParts, TreeSteps, StepsOfPrompts, NextPrompts, NextPersist, NextMessages, NextChoice,
   NextBackend, NextLock, NextCommand, NextWatcher DEF IInv

LEMMA IInvHolds == Spec => []IInv
BY InitIInv, NextIInv, PTL DEF Spec

\* Of any number of processes that start, crash and end at any moment, two run only
\* if one was robbed of its lock file (lock_prompt.py).
THEOREM TwoNeverRun == Spec => []LockExcludes
<1>1. IInv => LockExcludes
  BY LockIsKept DEF IInv, LockExcludes
<1>2. QED
  BY <1>1, IInvHolds, PTL

\* However often a backend is spawned, and whichever jobs there are, the results are
\* those of the jobs, a job runs at most once, and the time limit makes no result
\* (backend_info.py, job.py).
THEOREM ResultsAreRight == Spec => []ResultsAreOfTheJob
<1>1. IInv => ResultsAreOfTheJob
  BY BackendIsKept, CommandIsKept DEF IInv, ResultsAreOfTheJob
<1>2. QED
  BY <1>1, IInvHolds, PTL

\* For all devices, wanted ones and numbers of changes, the watcher passes for a real
\* change only and misses none but those it is blind for (removable_storage_watcher).
THEOREM WatcherIsRight == Spec => []WatcherSeesChanges
<1>1. IInv => WatcherSeesChanges
  BY WatcherIsKept DEF IInv, WatcherSeesChanges
<1>2. QED
  BY <1>1, IInvHolds, PTL

\* However many saves and messages there are, and however often the process is killed
\* or the power fails: what was synced is what is loaded, results stay, and no job is
\* passed over or stored twice (contrib/persist.py, message.py).
THEOREM FilesLast == Spec => FilesAreKept
<1>1. IInv => /\ Persist!LoadedIsNotOlder /\ Persist!UnloadedForAReason
              /\ Messages!GatheredUnlessBroken /\ Messages!ResultsAreDurable
              /\ Messages!NothingIsSkipped /\ Messages!JobsAreInOrder
  BY PersistIsKept, MessagesAreKept DEF IInv
<1>2. IInv /\ [Next]_vars =>
        [persist_pc = "down" /\ persist_pc' # "down" /\ bad = 0 => value' = durable]_(Persist!vars)
  BY PersistIsKept, StepsOfParts DEF IInv
<1>3. QED
  BY <1>1, <1>2, IInvHolds, PTL DEF FilesAreKept, Persist!SyncedIsLoaded, Spec

\* Whatever the tree of suites and tests is, and however clicks, dialogs, buttons and
\* errors follow each other in whichever interface: no test is chosen inside a suite
\* that is not, a suite shows whether a test under it is, and what is ignored is what
\* TestSelection says (gtk_interface.py, urwid_interface.py, cli_interface.py).
THEOREM ChoiceHolds == Spec => ChoiceIsShown
<1>1. IInv => Choice!ChosenIsReached /\ Choice!SuiteShowsTests
  BY ChoiceIsKept DEF IInv
<1>2. Init => Choice!Selection!Init
  BY InitChoice DEF Init
<1>3. IInv /\ [Next]_vars => [Choice!Selection!Next]_(Choice!Selection!vars)
  BY StepChoice, TreeSteps DEF IInv
<1>4. QED
  BY <1>1, <1>2, <1>3, IInvHolds, PTL
     DEF ChoiceIsShown, Choice!ImplementsSelection, Choice!Selection!Spec, Spec

\* Whatever jobs there are, and however often the program dies or the user goes back:
\* the offset stays in the store, which has the jobs in their order; the report is
\* built when all were prompted; no command is started twice without a reason; and a
\* job that has passed stays so (jobs_prompt.py, recover_prompt.py, shell_test.py).
THEOREM RunIsSafe == Spec => RunIsKept
<1>1. IInv => Prompts!OffsetIsInStore /\ Prompts!StoreIsOrdered /\ Prompts!AllPrompted
  BY PromptsAreSafe DEF IInv
<1>2. IInv /\ [Next]_vars =>
        /\ [pc # "running" /\ pc' = "running" /\ Prompts!Current.name \in ran
            => answer = "Rerun" \/ lost \/ torn]_(Prompts!vars)
        /\ [Prompts!KeepsPassed]_(Prompts!vars)
  BY PromptsSteps, StepsOfPrompts DEF IInv
<1>3. QED
  BY <1>1, <1>2, IInvHolds, PTL
     DEF RunIsKept, Prompts!RunAgainForAReason, Prompts!PassedStays, Spec
=============================================================================
