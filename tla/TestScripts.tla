---------------------------- MODULE TestScripts -----------------------------
(***************************************************************************)
(* Three scripts that jobs run and that change the machine they test: the  *)
(* copying of files to removable disks, the frequency governors, and the   *)
(* settings of the sound system. They share no state; each has its own     *)
(* variables, initial states and steps.                                    *)
(***************************************************************************)
EXTENDS Naturals, Sequences, SequencesExt, FiniteSets

-----------------------------------------------------------------------------
(***************************************************************************)
(* scripts/removable_storage_test: the removable disks are looked up in    *)
(* udisks2, those that are not mounted are, files of random data are       *)
(* copied to each and compared, and in the end everything is removed and   *)
(* unmounted again.  Every call to the system may fail.                    *)
(*                                                                         *)
(* The probe by udisks1, the times and the printed report are left out; of *)
(* the speeds only whether the last disk's was enough is kept.             *)
(***************************************************************************)

CONSTANTS
  Disks,        \* the file systems on block devices
  Machines,     \* disk -> [bus, drive, udev, card, mounted, speed] (0: unknown)
  Asked         \* [buses, card, list, skip_not_mount, min_speed, pass_speed, iterations, count]

VARIABLES
  machine, asked,
  removable_at, removable_status,
  mounted,      \* the disks that the program has mounted
  unmountable,  \* those that could not be unmounted
  directories,  \* the directories that were made for them and are there
  data,         \* the files of data that are there
  left,         \* the eligible disks that are still to be tested
  disk, iteration, file,
  targets,      \* what this iteration has copied so far
  files,        \* the copies that are there: disk, iteration and file
  stuck,        \* those that could not be removed
  verified,     \* the copies that were like the original
  unread,       \* those of which neither they nor their original could be read
  errors, fast

removable_vars == <<machine, asked, removable_at, removable_status, mounted, unmountable,
                    directories, data, left, disk,
                    iteration, file, targets, files, stuck, verified, unread, errors, fast>>
world == <<machine, asked>>
checks == <<verified, unread>>
copying == <<left, disk, iteration, file, targets, files, stuck, checks>>
mounts == <<mounted, unmountable, directories>>

RemovableRunning == 9
NoDisk == "none"
Numbers(n) == 1..n

RemovableTypeOK ==
  /\ machine \in Machines /\ asked \in Asked
  /\ removable_at \in {"probe", "mount", "generate", "next", "copy", "clean", "finally", "end", "crashed"}
  /\ removable_status \in {0, 1, RemovableRunning} /\ mounted \cup directories \cup left \subseteq Disks
  /\ (disk = NoDisk) = (removable_at \notin {"copy", "clean"})
  /\ stuck \subseteq files /\ data \subseteq Nat

RemovableInit ==
  /\ machine \in Machines /\ asked \in Asked
  /\ removable_at = "probe" /\ removable_status = RemovableRunning
  /\ mounted = {} /\ unmountable = {} /\ directories = {} /\ data = {} /\ left = {}
  /\ disk = NoDisk /\ iteration = 0 /\ file = 0 /\ targets = {} /\ files = {} /\ stuck = {}
  /\ verified = {} /\ unread = {} /\ errors = FALSE /\ fast = FALSE

---------------------------------------------------------------------------
(* The probe *)

\* The disks of the buses and the kind that were asked for.
Removable ==
  {d \in Disks : /\ machine[d].drive /\ machine[d].bus \in asked.buses /\ machine[d].udev
                 /\ machine[d].card = asked.card}

rem_disks == {d \in Removable : machine[d].mounted}
rem_disks_nm == Removable \ rem_disks

Exit(s) == /\ removable_at' = "end" /\ removable_status' = s
           /\ UNCHANGED <<world, mounts, data, copying, errors, fast>>

\* An exception that nobody catches.
Crash == /\ removable_at' = "crashed" /\ removable_status' = 1 /\ disk' = NoDisk
         /\ UNCHANGED <<world, left, iteration, file, targets, checks, errors, fast>>

Probe ==
  /\ removable_at = "probe"
  /\ IF Removable = {} THEN Exit(1)
     ELSE IF asked.list THEN Exit(0)
     ELSE /\ removable_at' = "mount"
          /\ UNCHANGED <<world, removable_status, mounts, data, copying, errors, fast>>

\* mount(): a directory for each disk; the one of a disk that cannot be mounted stays.
Mount ==
  /\ removable_at = "mount"
  /\ \E done \in SUBSET (IF asked.skip_not_mount THEN {} ELSE rem_disks_nm) :
       /\ mounted' = done
       /\ directories' = IF asked.skip_not_mount THEN {} ELSE rem_disks_nm
       /\ errors' = (~asked.skip_not_mount /\ done # rem_disks_nm)
       /\ IF rem_disks \cup done = {} THEN removable_at' = "end" /\ removable_status' = 1
          ELSE removable_at' = "generate" /\ UNCHANGED removable_status
  /\ UNCHANGED <<world, unmountable, data, copying, fast>>

Tested == rem_disks \cup mounted

Eligible == {d \in Tested : asked.min_speed = 0 \/ machine[d].speed >= asked.min_speed}

\* A speed that is not known cannot be compared, and there may be no space for
\* the data: both are before the try.
Generate ==
  /\ removable_at = "generate"
  /\ \/ /\ asked.min_speed = 0 \/ \A d \in Tested : machine[d].speed # 0
        /\ data' = Numbers(asked.count) /\ left' = Eligible /\ removable_at' = "next"
        /\ UNCHANGED <<world, removable_status, mounts, disk, iteration, file, targets, files,
                       stuck, checks, errors, fast>>
     \/ /\ asked.min_speed # 0 /\ \E d \in Tested : machine[d].speed = 0
        /\ Crash /\ UNCHANGED <<mounts, data, files, stuck>>
     \/ /\ asked.min_speed = 0 \/ \A d \in Tested : machine[d].speed # 0
        /\ \E n \in Numbers(asked.count) : data' = Numbers(n)
        /\ Crash /\ UNCHANGED <<mounts, files, stuck>>

---------------------------------------------------------------------------
(* The copies *)

NextDisk ==
  /\ removable_at = "next"
  /\ IF left = {} THEN removable_at' = "finally" /\ UNCHANGED <<left, disk, iteration, file>>
     ELSE \E d \in left :
            /\ disk' = d /\ left' = left \ {d} /\ iteration' = 1 /\ file' = 1 /\ removable_at' = "copy"
  /\ UNCHANGED <<world, removable_status, mounts, data, targets, files, stuck, checks, errors,
                 fast>>

Target == <<disk, iteration, file>>

Copied ==
  /\ targets' = targets \cup {Target}
  /\ IF file = asked.count THEN removable_at' = "clean" /\ UNCHANGED file
     ELSE file' = file + 1 /\ UNCHANGED removable_at
  /\ UNCHANGED <<world, removable_status, mounts, data, left, disk, iteration, stuck, fast>>

Mismatch == errors' = TRUE

\* write_file(), and the comparison of the copy with the original.  Copies that
\* cannot be opened are not there, those that are cut short are.  Where neither
\* can be read both hashes are None, which is no mismatch.
Copy ==
  /\ removable_at = "copy"
  /\ \/ /\ files' = files \cup {Target} /\ verified' = verified \cup {Target}
        /\ UNCHANGED <<errors, unread>>
     \/ /\ files' = files \cup {Target} /\ unread' = unread \cup {Target}
        /\ UNCHANGED <<errors, verified>>
     \/ files' = files \cup {Target} /\ Mismatch /\ UNCHANGED checks
     \/ errors' = TRUE /\ files' \in {files, files \cup {Target}} /\ UNCHANGED checks
  /\ Copied

\* The original cannot be opened, or fsync() fails: the exception passes the
\* clean-up of the iteration.
CopyRaises ==
  /\ removable_at = "copy"
  /\ files' \in {files, files \cup {Target}} /\ removable_at' = "finally" /\ removable_status' = 1 /\ disk' = NoDisk
  /\ UNCHANGED <<world, mounts, data, left, iteration, file, targets, stuck, checks, errors,
                 fast>>

CleanUpVerified(some) == (files \ (targets \cap verified)) \cup some

CleanUp(some) == (files \ targets) \cup some

\* The end of an iteration: a file that cannot be removed is only logged.
Clean ==
  /\ removable_at = "clean"
  /\ \E some \in SUBSET (targets \cap files) :
       /\ Cardinality(some) <= 1
       /\ files' = CleanUp(some) /\ stuck' = stuck \cup some
  /\ targets' = {}
  /\ IF iteration = asked.iterations
     THEN removable_at' = "next" /\ disk' = NoDisk /\ fast' \in BOOLEAN /\ UNCHANGED <<iteration,
                                                                                       file>>
     ELSE removable_at' = "copy" /\ iteration' = iteration + 1 /\ file' = 1 /\ UNCHANGED <<disk,
                                                                                           fast>>
  /\ UNCHANGED <<world, removable_status, mounts, data, left, checks, errors>>

---------------------------------------------------------------------------
(* The end *)

\* Mutant of Unmount: the disks that were tested without an error.
UnmountUnlessErrors == IF errors THEN {} ELSE mounted

Unmount == mounted

\* The finally: the data is removed, what was mounted is unmounted and, where
\* that was possible, its directory is removed.
Finally ==
  /\ removable_at = "finally"
  /\ data' = {}
  /\ \E fail \in SUBSET Unmount :
       /\ mounted' = (mounted \ Unmount) \cup fail /\ unmountable' = fail
       /\ directories' = directories \ (Unmount \ fail)
       /\ errors' = (errors \/ fail # {})
       /\ IF removable_status = 1 THEN removable_at' = "crashed" /\ UNCHANGED removable_status
          ELSE /\ removable_at' = "end"
               /\ removable_status' = IF \/ errors' \/ Eligible = {}
                                         \/ asked.pass_speed /\ ~fast
                                      THEN 1 ELSE 0
  /\ UNCHANGED <<world, copying, fast>>

RemovableNext ==
  \/ Probe \/ Mount \/ Generate \/ NextDisk \/ Copy \/ CopyRaises \/ Clean \/ Finally

RemovableSpec == RemovableInit /\ [][RemovableNext]_removable_vars

---------------------------------------------------------------------------
(* Properties *)

Wanted == {d \in IF asked.skip_not_mount THEN rem_disks ELSE Removable :
             asked.min_speed = 0 \/ machine[d].speed >= asked.min_speed}

\* A test that passes has read back every copy as it was written, on every disk
\* that it should test, but for those where the copy and the data could both not
\* be read; and it has tested at least one disk.
PassMeansCopied ==
  removable_at = "end" /\ removable_status = 0 /\ ~asked.list =>
    /\ Wanted # {}
    /\ Wanted \X Numbers(asked.iterations) \X Numbers(asked.count) \subseteq verified \cup unread

\* Disks of another kind or bus than was asked for are never written to.
OnlyAskedAreTouched ==
  \A d \in mounted \cup {f[1] : f \in files} :
    machine[d].bus \in asked.buses /\ machine[d].card = asked.card

\* When the test has ended what it mounted is unmounted and what it copied is
\* removed, but what it was not allowed to: also when an exception has ended
\* it, if that was in the copying, of the mounts.
LeavesNothing ==
  /\ removable_at = "end" => mounted = unmountable /\ files = stuck /\ data = {}
  /\ removable_at = "end" /\ unmountable # {} => removable_status = 1
  /\ removable_at = "crashed" /\ files # {} => mounted = unmountable /\ data = {}

-----------------------------------------------------------------------------
(***************************************************************************)
(* scripts/frequency_governors_test: the governor of the first processor   *)
(* is set to each of four in turn, its frequency is read and a load is     *)
(* timed under each, and in the end the original governor comes back.  The *)
(* kernel may refuse what is written, and it moves the frequency under     *)
(* every governor but userspace.                                           *)
(*                                                                         *)
(* There are two frequencies, and the times of the load that repeat are    *)
(* those of the frequencies that it ran at; the tolerances and the         *)
(* expected speed-up are abstracted to that.                               *)
(***************************************************************************)

CONSTANTS
  CPUs,         \* the processors, 0 among them
  Systems       \* [governors, original, selector]: what there is

VARIABLES
  system,
  todo,         \* the tests that are still to be run, by their governor
  governors_at,
  governor,     \* processor -> its governor
  frequency,    \* of processor 0
  selector,     \* ifSelectorExe: is cpufreq-selector there?
  low_time, high_time,  \* the times at the lowest and the highest frequency
  success,      \* FALSE once a test has failed
  limits,       \* could the lowest and the highest frequency be read?
  refused,      \* history: the kernel has refused the last governor that was set
  ran,          \* history: the governors under which a load was timed
  governors_status

governors_vars == <<system, todo, governors_at, governor, frequency, selector, low_time,
                    high_time, success, limits, refused,
                    ran, governors_status>>

Low == 1   High == 2             \* the frequencies, and what the load took at them
NoTime == 0
NotYet == "unknown"
GovernorsRunning == 9
Tests == <<"userspace", "ondemand", "performance", "conservative">>

GovernorsTypeOK ==
  /\ system \in Systems /\ governor \in [CPUs -> system.governors]
  /\ frequency \in {Low, High} /\ selector \in {NotYet, "there", "missing"}
  /\ {low_time, high_time} \subseteq {NoTime, Low, High}
  /\ {success, limits, refused} \subseteq BOOLEAN
  /\ governors_status \in {0, 1, GovernorsRunning}

GovernorsInit ==
  /\ system \in Systems /\ todo = Tests /\ governors_at = "next"
  /\ governor = system.original /\ frequency \in {Low, High} /\ selector = NotYet
  /\ low_time = NoTime /\ high_time = NoTime /\ success = TRUE /\ limits = TRUE /\ refused = FALSE
  /\ ran = {} /\ governors_status = GovernorsRunning

---------------------------------------------------------------------------
(* The kernel *)

\* The frequencies that a governor may choose.
Chosen(g) == IF g = "performance" THEN {High}
             ELSE IF g = "powersave" THEN {Low}
             ELSE IF g = "userspace" THEN {frequency} ELSE {Low, High}

\* What the governor of processor 0 does by itself.
KernelMoves ==
  /\ governors_at \notin {"end", "crashed"}
  /\ frequency' \in Chosen(governor[0]) \ {frequency}
  /\ UNCHANGED <<system, todo, governors_at, governor, selector, low_time, high_time, success,
                 limits, refused, ran, governors_status>>

---------------------------------------------------------------------------
(* Setting the governor *)

\* checkSelectorExecutable() says that the program is there once: when it is
\* asked again it returns nothing, which is false.
SelectorIsUsed == selector = NotYet /\ system.selector

LookForSelector ==
  selector' = IF selector # NotYet THEN selector
              ELSE IF system.selector THEN "there" ELSE "missing"

\* With the selector all processors are set, without it the first one alone; the
\* kernel may refuse, and the selector may fail, after which the file is written.
SetGovernor(g) ==
  /\ LookForSelector
  /\ \E done \in BOOLEAN, all \in {SelectorIsUsed, FALSE} :
       /\ governor' = IF ~done THEN governor
                      ELSE IF all THEN [c \in CPUs |-> g] ELSE [governor EXCEPT ![0] = g]
       /\ refused' = ~done

\* Afterwards the file is read.
Verified(g) == governor'[0] = g

Failed(ok) == success' = (success /\ ok)

\* getParameter() may give nothing, which is not what is expected.
Compared(known, ok) == success' \in {FALSE, success /\ known /\ ok}

\* An exception that nobody catches: the tests that follow are not run, and the
\* governors are not restored.
GovernorsRaise ==
  governors_at' = "crashed" /\ governors_status' = 1 /\ UNCHANGED todo

\* The governor is set, and the test goes on whether it is or not.
StartTest ==
  /\ governors_at = "next" /\ todo # <<>>
  /\ IF Head(todo) \notin system.governors
     THEN /\ todo' = Tail(todo)
          /\ UNCHANGED <<governors_at, governor, frequency, selector, success, refused>>
     ELSE /\ SetGovernor(Head(todo)) /\ Failed(Verified(Head(todo)))
          /\ frequency' \in IF governor'[0] = governor[0] THEN {frequency}
                            ELSE Chosen(governor'[0])
          /\ governors_at' = Head(todo) /\ UNCHANGED todo
  /\ UNCHANGED <<system, low_time, high_time, limits, ran, governors_status>>

\* setFrequency(): only the userspace governor lets the frequency be set, and
\* it is looked at whether it is.
SetFrequency(f) ==
  /\ LookForSelector
  /\ frequency' \in IF governor[0] = "userspace" THEN {frequency, f} ELSE {frequency}

\* The load is timed, twice alike; while the frequency moves it may not be.
Load(time) ==
  /\ ran' = ran \cup {governor[0]}
  /\ IF governor[0] \in {"userspace", "performance", "powersave"}
     THEN time \in {NoTime, frequency} ELSE time \in {NoTime, Low, High}

Done == governors_at' = "next" /\ todo' = Tail(todo) /\ UNCHANGED governors_status

---------------------------------------------------------------------------
(* The tests *)

\* runUserSpaceTests(), the lowest frequency.
Lowest ==
  /\ governors_at = "userspace"
  /\ SetFrequency(Low)
  /\ limits' \in BOOLEAN /\ Compared(limits', frequency' = Low)
  /\ governors_at' = "at_lowest"
  /\ UNCHANGED <<system, todo, governor, low_time, high_time, refused, ran, governors_status>>

TimeLowest ==
  /\ governors_at = "at_lowest"
  /\ low_time' \in {NoTime, Low, High} /\ Load(low_time') /\ Failed(low_time' # NoTime)
  /\ governors_at' = "highest"
  /\ UNCHANGED <<system, todo, governor, frequency, selector, high_time, limits, refused,
                 governors_status>>

Highest ==
  /\ governors_at = "highest"
  /\ SetFrequency(High)
  /\ limits' \in {FALSE, limits} /\ Compared(limits', frequency' = High)
  /\ governors_at' = "at_highest"
  /\ UNCHANGED <<system, todo, governor, low_time, high_time, refused, ran, governors_status>>

\* A speed-up beyond the expected one is a failure, one below it is not.  What to
\* expect is computed from the limits, also where one could not be read.
TimeHighest ==
  /\ governors_at = "at_highest"
  /\ high_time' \in {NoTime, Low, High} /\ Load(high_time') /\ Failed(high_time' # NoTime)
  /\ IF limits THEN Done ELSE GovernorsRaise
  /\ UNCHANGED <<system, governor, frequency, selector, low_time, limits, refused>>

\* Times are compared where there are two.
Alike(time, other) == NoTime \in {time, other} \/ time = other

\* verifyMinimumFrequency()
AtMinimum == frequency = Low

\* runOnDemandTests(): the frequency is low before the load and after it.
OnDemand ==
  /\ governors_at = "ondemand" /\ governors_at' = "ondemand_load" /\ Compared(TRUE, AtMinimum)
  /\ UNCHANGED <<system, todo, governor, frequency, selector, low_time, high_time, limits,
                 refused, ran, governors_status>>

OnDemandLoad ==
  /\ governors_at = "ondemand_load" /\ governors_at' = "ondemand_after"
  /\ \E time \in {NoTime, Low, High} :
       Load(time) /\ Failed(time # NoTime /\ Alike(time, high_time))
  /\ UNCHANGED <<system, todo, governor, frequency, selector, low_time, high_time, limits,
                 refused, governors_status>>

OnDemandAfter ==
  /\ governors_at = "ondemand_after" /\ Done /\ Compared(TRUE, AtMinimum)
  /\ UNCHANGED <<system, governor, frequency, selector, low_time, high_time, limits, refused,
                 ran>>

Performance ==
  /\ governors_at = "performance" /\ Done
  /\ \E time \in {NoTime, Low, High} :
       Load(time) /\ Compared(TRUE, frequency = High /\ time # NoTime /\ Alike(time, high_time))
  /\ UNCHANGED <<system, governor, frequency, selector, low_time, high_time, limits, refused>>

\* findParameter(): freq_step is there while a processor has the governor.
HasFreqStep == \E c \in CPUs : governor[c] = "conservative"

\* setParameter() of freq_step.  Where there is none the value is written to a file
\* "None"; if that succeeds, open(None) raises.
SetFreqStep(next, ok) ==
  \/ governors_at' = next /\ Compared(HasFreqStep, ok) /\ UNCHANGED <<todo, governors_status>>
  \/ ~HasFreqStep /\ GovernorsRaise /\ UNCHANGED success

\* runConservativeTests(): freq_step is 20, then the frequency must settle.
Conservative ==
  /\ governors_at = "conservative" /\ SetFreqStep("conservative_step", TRUE)
  /\ UNCHANGED <<system, governor, frequency, selector, low_time, high_time, limits, refused,
                 ran>>

\* freq_step is 0, and stays.
ConservativeStep ==
  /\ governors_at = "conservative_step" /\ SetFreqStep("conservative_load", AtMinimum)
  /\ UNCHANGED <<system, governor, frequency, selector, low_time, high_time, limits, refused,
                 ran>>

ConservativeLoad ==
  /\ governors_at = "conservative_load" /\ Done
  /\ \E time \in {NoTime, Low, High} :
       Load(time) /\ Failed(time # NoTime /\ Alike(time, low_time))
  /\ UNCHANGED <<system, governor, frequency, selector, low_time, high_time, limits, refused>>

GovernorsRestored == system.original[0]

\* restoreGovernors(), whose success nobody asks for, and the status.
GovernorsRestore ==
  /\ governors_at = "next" /\ todo = <<>>
  /\ SetGovernor(GovernorsRestored)
  /\ frequency' \in IF governor'[0] = governor[0] THEN {frequency} ELSE Chosen(governor'[0])
  /\ governors_at' = "end" /\ governors_status' = IF success THEN 0 ELSE 1
  /\ UNCHANGED <<system, todo, low_time, high_time, success, limits, ran>>

GovernorsNext ==
  \/ StartTest \/ Lowest \/ TimeLowest \/ Highest \/ TimeHighest
  \/ OnDemand \/ OnDemandLoad \/ OnDemandAfter \/ Performance
  \/ Conservative \/ ConservativeStep \/ ConservativeLoad \/ GovernorsRestore
  \/ KernelMoves

GovernorsSpec == GovernorsInit /\ [][GovernorsNext]_governors_vars

---------------------------------------------------------------------------
(* Properties *)

\* A test that passes has timed the load under each governor of the four that
\* the system has.
PassMeansTried ==
  governors_status = 0 => {Tests[i] : i \in DOMAIN Tests} \cap system.governors \subseteq ran

\* A test that goes to its end gives processor 0 its governor back, unless the
\* kernel refuses it.  If a test raises it is not given back, and no pass: then a
\* limit could not be read, or the conservative governor was refused.  What is left
\* in these cases is a governor that the kernel took for a test.
Restoration ==
  /\ governors_at = "end" => governor[0] = system.original[0] \/ refused
  /\ governors_at = "crashed" => governors_status = 1 /\ (~limits \/ refused)
  /\ governors_at \in {"end", "crashed"} => governor[0] \in {system.original[0]} \cup ran

\* What was not to be tried is not left behind: a processor other than the first
\* keeps its governor, or has one that was set by the selector for all of them.
OthersKeepTheirs ==
  \A c \in CPUs \ {0} :
    governor[c] # system.original[c] => system.selector /\ selector = "there"

-----------------------------------------------------------------------------
(***************************************************************************)
(* The script that keeps the settings of PulseAudio around an audio test   *)
(* (checkbox/scripts/audio_settings.py): store writes the defaults, their  *)
(* mute and volume and the profile of the card to files, set changes them  *)
(* for the test, restore puts back what the files say.  Every command to   *)
(* the server may fail, and the script may be killed before any of them.   *)
(*                                                                         *)
(* PulseAudio is external: one card, whose profile says which sink there   *)
(* is, and a volume for each of two channels.  Moving the inputs of a sink,*)
(* the choice of the profile for HDMI and files that cannot be written are *)
(* left out.                                                               *)
(***************************************************************************)

CONSTANTS
  SinkOf,    \* the profiles of the card -> the sink that there is
  Sources,
  Matching,  \* what --device may be -> the sinks and sources that have it in their name
  Settings,  \* bound: what PulseAudio may have at first
  Volumes,   \* bound: the volumes, of which set() uses any
  MaxRuns    \* bound: how often the script is run

VARIABLES
  pulse,      \* what PulseAudio has: [profile, default, muted, volume]
  settings,   \* the file of store: type -> [name, muted, volume], as far as written
  profiles,   \* the profile in the file active_profiles, or "" for none
  commands,   \* what the script has still to do
  buffer,     \* what store has printed and not written
  audio_outcome, \* "none", "running", "ok", "failed" or "killed"
  action,     \* that of the last run
  profile_set,\* has no command of it failed to set a profile?
  kept,       \* what PulseAudio had when the last store was done, and whether one was
  touched,    \* the devices that were set since
  runs

audio_vars == <<pulse, settings, profiles, commands, buffer, audio_outcome, action, profile_set,
                kept, touched, runs>>

TYPES == <<"source", "sink">>

Types == ToSet(TYPES)

Sinks == {SinkOf[p] : p \in DOMAIN SinkOf}

Names(type) == IF type = "sink" THEN Sinks ELSE Sources

\* The devices that the server lists.
Listed(type) == IF type = "sink" THEN {SinkOf[pulse.profile]} ELSE Sources

Channels == Volumes \X Volumes

Pulse ==
  [profile : DOMAIN SinkOf, default : [Types -> Sinks \cup Sources],
   muted : [Sinks \cup Sources -> BOOLEAN], volume : [Sinks \cup Sources -> Channels]]

AudioTypeOK ==
  /\ pulse \in Pulse /\ \A t \in Types : pulse.default[t] \in Names(t)
  /\ DOMAIN settings \subseteq Types /\ DOMAIN buffer \subseteq Types
  /\ profiles \in DOMAIN SinkOf \cup {""}
  /\ audio_outcome \in {"none", "running", "ok", "failed", "killed"}
  /\ action \in {"none", "store", "set", "restore"} /\ profile_set \in BOOLEAN
  /\ kept.done \in BOOLEAN /\ kept.pulse \in Pulse
  /\ touched \subseteq Sinks \cup Sources /\ runs \in 0..MaxRuns

Nothing == <<>>

AudioInit ==
  /\ pulse \in Settings
  /\ settings = Nothing /\ profiles = "" /\ commands = <<>> /\ buffer = Nothing
  /\ audio_outcome = "none" /\ action = "none" /\ profile_set = TRUE
  /\ kept = [done |-> FALSE, pulse |-> pulse] /\ touched = {} /\ runs = 0

---------------------------------------------------------------------------
(* The commands *)

Command(do, type, name, value) == [do |-> do, type |-> type, name |-> name, value |-> value]

\* set-default, mute and volume of one device.
Three(type, name, muted, volume) ==
  <<Command("default", type, name, 0), Command("mute", type, name, muted),
    Command("volume", type, name, volume)>>

Do(c) ==
  CASE c.do = "default" -> [pulse EXCEPT !.default[c.type] = c.name]
    [] c.do = "mute"    -> [pulse EXCEPT !.muted[c.name] = c.value = 1]
    [] c.do = "volume"  -> [pulse EXCEPT !.volume[c.name] = <<c.value, c.value>>]

\* With its profile the card has another sink, which becomes the default.
WithProfile(p) ==
  IF p = pulse.profile THEN pulse
  ELSE [pulse EXCEPT !.profile = p, !.default.sink = SinkOf[p]]

Start(a, first) ==
  /\ audio_outcome /= "running" /\ runs < MaxRuns
  /\ runs' = runs + 1 /\ action' = a /\ commands' = first
  /\ audio_outcome' = "running" /\ buffer' = Nothing /\ profile_set' = TRUE

\* The file is opened, and thereby emptied.
Store ==
  /\ Start("store", [i \in DOMAIN TYPES |-> Command("print", TYPES[i], "", 0)]
                      \o <<Command("close", "", "", 0), Command("print_profiles", "", "", 0)>>)
  /\ settings' = Nothing /\ kept' = [kept EXCEPT !.done = FALSE]
  /\ UNCHANGED <<pulse, profiles, touched>>

\* A volume of zero counts as none (audio_settings.py:357).
Set(device, hdmi, muted, volume) ==
  /\ volume > 0
  /\ Start("set", (IF hdmi /= "" THEN <<Command("profile", "", hdmi, 0)>> ELSE <<>>)
                    \o [i \in DOMAIN TYPES |-> Command("match", TYPES[i], device, <<muted, volume>>)])
  /\ UNCHANGED <<pulse, settings, profiles, kept, touched>>

\* The profiles are restored first.
AudioRestore ==
  /\ Start("restore", (IF profiles /= "" THEN <<Command("profile", "", profiles, 0)>> ELSE <<>>)
                        \o [i \in DOMAIN TYPES |-> Command("read", TYPES[i], "", 0)])
  /\ UNCHANGED <<pulse, settings, profiles, kept, touched>>

AudioRunning(do) == audio_outcome = "running" /\ commands /= <<>> /\ Head(commands).do = do

Go == commands' = Tail(commands) /\ UNCHANGED <<audio_outcome, action, runs>>

\* The volume that is stored is that of the first channel.
Level(channels) == channels[1]

PrintType ==
  /\ AudioRunning("print") /\ Go
  /\ LET type == Head(commands).type
         name == pulse.default[type]
     IN buffer' = [t \in DOMAIN buffer \cup {type} |->
                     IF t /= type THEN buffer[t]
                     ELSE [name |-> name, muted |-> IF pulse.muted[name] THEN 1 ELSE 0,
                           volume |-> Level(pulse.volume[name])]]
  /\ UNCHANGED <<pulse, settings, profiles, profile_set, kept, touched>>

Close ==
  /\ AudioRunning("close") /\ Go
  /\ settings' = buffer /\ UNCHANGED <<pulse, profiles, buffer, profile_set, kept, touched>>

PrintProfiles ==
  /\ AudioRunning("print_profiles") /\ Go
  /\ profiles' = pulse.profile
  /\ kept' = [done |-> TRUE, pulse |-> pulse] /\ touched' = {}
  /\ UNCHANGED <<pulse, settings, buffer, profile_set>>

\* A failure is logged, and the script goes on.
SetProfile ==
  /\ AudioRunning("profile") /\ Go
  /\ \/ pulse' = WithProfile(Head(commands).name) /\ UNCHANGED profile_set
     \/ profile_set' = FALSE /\ UNCHANGED pulse
  /\ UNCHANGED <<settings, profiles, buffer, kept, touched>>

\* The devices of a type are listed; those that match are set, one by one.
Match ==
  /\ AudioRunning("match")
  /\ LET c == Head(commands)
         names == SetToSeq(Listed(c.type) \cap Matching[c.name])
     IN commands' = FlattenSeq([i \in DOMAIN names |-> Three(c.type, names[i], c.value[1], c.value[2])])
                      \o Tail(commands)
  /\ UNCHANGED <<pulse, settings, profiles, buffer, audio_outcome, action, profile_set, kept,
                 touched, runs>>

End(o) == audio_outcome' = o /\ commands' = <<>> /\ buffer' = Nothing

\* An entry of the file is read, or the file is invalid.
Read ==
  /\ AudioRunning("read")
  /\ LET type == Head(commands).type IN
       IF type \in DOMAIN settings
       THEN /\ commands' = Three(type, settings[type].name, settings[type].muted, settings[type].volume)
                             \o Tail(commands)
            /\ UNCHANGED <<audio_outcome, buffer>>
       ELSE End("failed")
  /\ UNCHANGED <<pulse, settings, profiles, action, profile_set, kept, touched, runs>>

IsSetting == AudioRunning("default") \/ AudioRunning("mute") \/ AudioRunning("volume")

\* The server takes a command for a device that it has.
Succeed ==
  /\ IsSetting /\ Go
  /\ LET c == Head(commands) IN
       /\ c.name \in Listed(c.type)
       /\ pulse' = Do(c)
       /\ touched' = IF action = "set" THEN touched \cup {c.name} ELSE touched
  /\ UNCHANGED <<settings, profiles, buffer, profile_set, kept>>

\* Any failing command but that for a profile ends the script.  What store has
\* printed so far is written when it leaves.
Fail ==
  /\ IsSetting \/ AudioRunning("print")
  /\ End("failed")
  /\ settings' = IF action = "store" THEN buffer ELSE settings
  /\ UNCHANGED <<pulse, profiles, action, profile_set, kept, touched, runs>>

Kill ==
  /\ audio_outcome = "running" /\ End("killed")
  /\ UNCHANGED <<pulse, settings, profiles, action, profile_set, kept, touched, runs>>

Finish ==
  /\ audio_outcome = "running" /\ commands = <<>> /\ End("ok")
  /\ UNCHANGED <<pulse, settings, profiles, action, profile_set, kept, touched, runs>>

AudioNext ==
  \/ Store \/ AudioRestore
  \/ \E device \in DOMAIN Matching, hdmi \in {""} \cup DOMAIN SinkOf, muted \in {0, 1}, volume \in Volumes :
       Set(device, hdmi, muted, volume)
  \/ PrintType \/ Close \/ PrintProfiles \/ SetProfile \/ Match \/ Read \/ Succeed \/ Fail \/ Kill \/ Finish

AudioSpec == AudioInit /\ [][AudioNext]_audio_vars

---------------------------------------------------------------------------
(* Properties *)

AudioRestored == action = "restore" /\ audio_outcome = "ok" /\ kept.done

\* After a store and a restore that both went to their end, the defaults are what
\* they were, unmuted or muted as they were, and as loud as their first channel
\* was; so is the profile, unless setting it failed.
RestoredIsStored ==
  AudioRestored =>
    /\ pulse.default = kept.pulse.default
    /\ profile_set => pulse.profile = kept.pulse.profile
    /\ \A t \in Types : LET name == pulse.default[t] IN
         /\ pulse.muted[name] = kept.pulse.muted[name]
         /\ pulse.volume[name] = [i \in 1..2 |-> kept.pulse.volume[name][1]]

\* What is not as it was is the other channel, or a device that was not the
\* default and that set() has changed for the test.
OnlyTouchedIsLeft ==
  kept.done =>
    \A n \in (Sinks \cup Sources) \ touched :
      \/ pulse.muted[n] = kept.pulse.muted[n] /\ pulse.volume[n] = kept.pulse.volume[n]
      \/ \E t \in Types : kept.pulse.default[t] = n
=============================================================================
