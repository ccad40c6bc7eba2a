---------------------------- MODULE StorageWatcher ----------------------------
(***************************************************************************)
(* The test that waits for a storage device to be inserted or removed:     *)
(* UDisks2StorageDeviceListener of scripts/removable_storage_watcher, with *)
(* the observer and the model of checkbox/dbus/udisks2.py.  The service    *)
(* sends a signal for every change; the model applies them in turn, except *)
(* that a change of a property makes it fetch everything again.  At each   *)
(* signal what is known is compared with what was there at the start.      *)
(*                                                                         *)
(* A device is a drive and a partition on it, two objects of the service;  *)
(* of their properties the model keeps whether the partition is mounted.   *)
(* External: what the service and the user do.                             *)
(***************************************************************************)
EXTENDS Naturals, Sequences, SequencesExt, FiniteSets

CONSTANTS
  Devices,     \* that may be inserted
  Wanted,      \* those on a bus, and with a speed, that the test is for
  MaxChanges   \* bound: the changes

VARIABLES
  action,      \* "insert" or "remove"
  world,       \* the objects of the service, as a set of facts
  signals,     \* sent, and not yet handled
  managed,     \* _managed_objects: facts, and
  hollow,      \* the drives that have no interface left in it
  reference,   \* _reference_objects
  ignored,     \* _ignored_objects
  watch,       \* where the program is
  verdict,
  changes,     \* history: how many changes there were,
  done_to,     \* the devices inserted, or removed, since the reference,
  missed       \* and whether a signal came before the program listened

watch_vars == <<action, world, signals, managed, hollow, reference, ignored, watch,
                verdict, changes, done_to, missed>>

\* A fact is an interface that is there, or a property that is set.
Fact(what, d) == <<what, d>>
Facts == {"drive", "partition", "mounted"} \X Devices

Mounted(d) == {Fact("partition", d), Fact("mounted", d)}

Init ==
  /\ action \in {"insert", "remove"}
  /\ world \in {{}, UNION {Mounted(d) \cup {Fact("drive", d)} : d \in Devices}}
  /\ signals = <<>> /\ managed = {} /\ hollow = {} /\ reference = {} /\ ignored = {}
  /\ watch = "connecting" /\ verdict = "none"
  /\ changes = 0 /\ done_to = {} /\ missed = FALSE

-----------------------------------------------------------------------------
(* The service *)

\* InterfacesAdded and InterfacesRemoved are lost on a program that has not
\* connected to them yet; PropertiesChanged has been connected to.
Emit(kind, facts) ==
  IF kind # "changed" /\ watch \in {"connecting", "fetched"}
  THEN missed' = (missed \/ watch = "fetched") /\ UNCHANGED signals
  ELSE signals' = Append(signals, [kind |-> kind, facts |-> facts]) /\ UNCHANGED missed

Change(now, kind, facts, d) ==
  /\ changes < MaxChanges /\ changes' = changes + 1
  /\ watch # "ended"
  /\ world' = now
  /\ Emit(kind, facts)
  /\ done_to' = IF kind # (IF action = "insert" THEN "changed" ELSE "removed") THEN done_to
                ELSE done_to \cup {d}
  /\ UNCHANGED <<action, managed, hollow, reference, ignored, watch, verdict>>

Plug(d, what) ==
  /\ what \in {"drive", "partition"} /\ Fact(what, d) \notin world
  /\ Change(world \cup {Fact(what, d)}, "added", {Fact(what, d)}, d)

Mount(d) ==
  /\ Fact("partition", d) \in world /\ Fact("mounted", d) \notin world
  /\ Change(world \cup {Fact("mounted", d)}, "changed", {}, d)

Unplug(d, what) ==
  /\ what \in {"drive", "partition"} /\ Fact(what, d) \in world
  /\ LET gone == IF what = "drive" THEN {Fact("drive", d)} ELSE Mounted(d)
     IN Change(world \ gone, "removed", gone, d)

-----------------------------------------------------------------------------
(* The program *)

\* GetManagedObjects, then the signals are connected to, then the reference is
\* taken and the loop is run.
Fetch ==
  /\ watch = "connecting"
  /\ managed' = world /\ watch' = "fetched"
  /\ UNCHANGED <<action, world, signals, hollow, reference, ignored, verdict, changes,
                 done_to, missed>>

Connect ==
  /\ watch = "fetched"
  /\ reference' = managed /\ watch' = "running"
  /\ UNCHANGED <<action, world, signals, managed, hollow, ignored, verdict, changes,
                 done_to, missed>>

\* udisks2_objects_delta, in the direction that the test is for
Delta(now) == IF action = "insert" THEN now \ reference ELSE reference \ now

\* A drive that is gone from the model is looked up in the reference; one whose
\* interfaces were removed is still in the model, as an object that is no drive.
FindDrive(d, now, empty) ==
  Fact("drive", d) \in now \/ (d \notin empty /\ Fact("drive", d) \in reference)

\* _get_matching_devices: a partition that came, or went, mounted, on a drive
\* that is known.
Candidates(now, empty) ==
  {d \in Devices \ ignored : Mounted(d) \subseteq Delta(now) /\ FindDrive(d, now, empty)}

OnChange(now, empty) ==
  /\ managed' = now /\ hollow' = empty
  /\ ignored' = ignored \cup (Candidates(now, empty) \ Wanted)
  /\ IF Candidates(now, empty) \cap Wanted # {}
     THEN watch' = "ended" /\ verdict' = "pass"
     ELSE UNCHANGED <<watch, verdict>>

ApplyOnly(s) ==
  CASE s.kind = "added"   -> OnChange(managed \cup s.facts, hollow)
    [] s.kind = "removed" -> OnChange(managed \ s.facts, hollow)
    [] s.kind = "changed" -> OnChange(managed, hollow)

Drives(facts) == {d \in Devices : Fact("drive", d) \in facts}

\* _on_interfaces_added, _on_interfaces_removed, _on_properties_changed
Apply(s) ==
  CASE s.kind = "added"   -> OnChange(managed \cup s.facts, hollow \ Drives(s.facts))
    [] s.kind = "removed" -> OnChange(managed \ s.facts, hollow \cup (Drives(s.facts) \cap Drives(managed)))
    [] s.kind = "changed" -> OnChange(world, {})

Handle ==
  /\ watch = "running" /\ signals # <<>>
  /\ signals' = Tail(signals)
  /\ Apply(Head(signals))
  /\ UNCHANGED <<action, world, reference, changes, done_to, missed>>

\* The time for the test may be over at any moment.
TimeOut ==
  /\ watch = "running"
  /\ watch' = "ended" /\ verdict' = "fail"
  /\ UNCHANGED <<action, world, signals, managed, hollow, reference, ignored, changes,
                 done_to, missed>>

Next ==
  \/ \E d \in Devices :
       Mount(d) \/ \E what \in {"drive", "partition"} : Plug(d, what) \/ Unplug(d, what)
  \/ Fetch \/ Connect \/ Handle \/ TimeOut

Spec == Init /\ [][Next]_watch_vars

-----------------------------------------------------------------------------
(* Properties *)

TypeOK ==
  /\ world \subseteq Facts /\ managed \subseteq Facts /\ reference \subseteq Facts
  /\ hollow \subseteq Devices /\ ignored \subseteq Devices \ Wanted
  /\ signals \in Seq([kind : {"added", "removed", "changed"}, facts : SUBSET Facts])
  /\ \A i \in DOMAIN signals :
       signals[i].kind = "added" => \A d \in Devices : Fact("mounted", d) \notin signals[i].facts
  /\ action \in {"insert", "remove"} /\ done_to \subseteq Devices
  /\ missed \in BOOLEAN
  /\ watch \in {"connecting", "fetched", "running", "ended"}
  /\ verdict \in {"none", "pass", "fail"}

\* Once every signal was handled the model is what the service has, unless a
\* signal was lost before the program listened; it holds although a fetch may be
\* ahead of signals that are then applied to it (udisks2.py:446-479).
ModelIsWorld ==
  watch = "running" /\ signals = <<>> /\ ~missed => managed = world

\* The test passes only if a device of the wanted kind really was mounted, or
\* removed, since the program began (removable_storage_watcher:540-733).
PassIsReal ==
  verdict = "pass" => done_to \cap Wanted # {}

\* When every signal was handled, a device that was inserted and mounted, or
\* removed, has been seen: unless the signal of it was lost, or the drive was
\* removed before its partition and no property has changed since, or it was not
\* there when the reference was taken
\* (removable_storage_watcher:625-647).
ManipulationIsSeen ==
  watch = "running" /\ signals = <<>> /\ ~missed =>
    \A d \in Wanted :
      Mounted(d) \subseteq Delta(world) =>
        IF action = "insert" THEN Fact("drive", d) \notin world
        ELSE d \in hollow \/ Fact("drive", d) \notin reference \cup world

\* What makes it so.  Before the program listens only the changes of properties
\* reach it.
EarlySignals ==
  watch \in {"connecting", "fetched"} =>
    \A i \in DOMAIN signals : signals[i].kind = "changed"

\* The last signal that is about a fact, or makes the model fetch everything,
\* says what the fact is now; without one the model is right.
Touches(s, x) == s.kind = "changed" \/ x \in s.facts

SignalsTellTheWorld ==
  watch \in {"fetched", "running"} /\ ~missed =>
    \A x \in Facts :
      /\ \A i \in DOMAIN signals :
           /\ Touches(signals[i], x)
           /\ \A j \in DOMAIN signals : j > i => ~Touches(signals[j], x)
           => signals[i].kind = "changed" \/ (signals[i].kind = "added" <=> x \in world)
      /\ (\A i \in DOMAIN signals : ~Touches(signals[i], x)) => (x \in managed <=> x \in world)

\* A device that nothing was done to is in the reference if it is there now.
OthersWereThere ==
  action = "insert" =>
    \A d \in Devices \ done_to :
      /\ watch = "fetched" /\ Fact("mounted", d) \in world => Fact("mounted", d) \in managed
      /\ watch = "running" /\ Fact("mounted", d) \in world \cup managed =>
           Fact("mounted", d) \in reference

\* And if it is in the reference it is there now.
OthersStayed ==
  action = "remove" =>
    \A d \in Devices \ done_to :
      /\ watch = "fetched" /\ Fact("partition", d) \in managed => Fact("partition", d) \in world
      /\ watch = "running" /\ Fact("partition", d) \in reference =>
           /\ Fact("partition", d) \in world \cap managed
           /\ \A i \in DOMAIN signals :
                signals[i].kind = "removed" => Fact("partition", d) \notin signals[i].facts

\* Between signals no device is waiting to be noticed.
NothingIsOverlooked == watch = "running" => Candidates(managed, hollow) \cap Wanted = {}

IInv ==
  /\ TypeOK /\ EarlySignals /\ SignalsTellTheWorld /\ OthersWereThere /\ OthersStayed
  /\ NothingIsOverlooked /\ PassIsReal
=============================================================================
