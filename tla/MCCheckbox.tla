----------------------------- MODULE MCCheckbox -----------------------------
(***************************************************************************)
(* Components of checkbox that share no state, side by side: a behaviour   *)
(* is one of the component `part', and the others stay as they are.        *)
(***************************************************************************)
EXTENDS Naturals, Sequences, SequencesExt, FiniteSets

VARIABLE part

-----------------------------------------------------------------------------
(* A run of checkbox with its prompts: any jobs; the run has a manual test *)
(* m, a shell test s that requires a resource, and one, t, that depends on *)
(* the manual one.                                                         *)

VARIABLES store, saved, persist, ui, pc, direction, fail_current, ignore, gathered, starts,
          unmet, backs, answer, ran, prompted, lost, deleted, torn

prompts_vars == <<store, saved, persist, ui, pc, direction, fail_current, ignore, gathered,
  unmet, starts, backs, answer, ran, prompted, lost, deleted, torn>>

CONSTANTS PromptJobs, ManualJobs, JobDepends, RequiringJobs, MaxStarts, MaxBacks

Prompts == INSTANCE CheckboxPrompts WITH
  Jobs <- PromptJobs, Manual <- ManualJobs, Depends <- JobDepends, Requires <- RequiringJobs

TestJobs == <<"m", "s", "t">>

TestDepends == [j \in ToSet(TestJobs) |-> IF j = "t" THEN {"m"} ELSE {}]

-----------------------------------------------------------------------------
(* The files that a run keeps: the persist file and the store of jobs.     *)

VARIABLES persist_file, old, value, persist_pc, safe, saves, durable, bad

persist_vars == <<persist_file, old, value, persist_pc, safe, saves, durable, bad>>

CONSTANT MaxSaves

Persist == INSTANCE PersistFile WITH file <- persist_file

VARIABLES job_messages, cache, pending_offset, saved_offset, store_pc, adding, failures

messages_vars == <<job_messages, cache, pending_offset, saved_offset, store_pc, adding,
  failures>>

CONSTANTS StoredJobs, MaxFailures

Messages == INSTANCE MessageStore WITH messages <- job_messages

ThreeJobs == <<"a", "b", "c">>

-----------------------------------------------------------------------------
(* The trees: any; the run has the suites A and C, with B inside A, and    *)
(* four tests, of which v has a result.                                    *)

CONSTANTS ChoiceNodes, ChoiceParent, ChoiceAbove, NoSuite, HasResult

TreeNodes == <<"A", "B", "u", "v", "t", "C", "w">>

TreeSet == ToSet(TreeNodes)

TreeParent == [n \in TreeSet |->
  IF n \in {"A", "C"} THEN "none" ELSE IF n \in {"B", "t"} THEN "A"
  ELSE IF n = "w" THEN "C" ELSE "B"]

TreeAbove[n \in TreeSet] ==
  IF TreeParent[n] = "none" THEN {} ELSE {TreeParent[n]} \cup TreeAbove[TreeParent[n]]

VARIABLES tree_shown, active, views, default, tree_ignored, tree_hollow

tree_vars == <<tree_shown, active, views, default, tree_ignored, tree_hollow>>

VARIABLES walker, expanded, todo, mode, before

view_vars == <<walker, expanded, todo, mode, before>>

\* Without C and w, which keeps it small.
ViewNodes == SubSeq(TreeNodes, 1, 6)

Choice == INSTANCE SelectionTree WITH
  shown <- tree_shown, ignored <- tree_ignored, hollow <- tree_hollow,
  Preorder <- ViewNodes, ViewParent <- [n \in ToSet(ViewNodes) |-> TreeParent[n]]

-----------------------------------------------------------------------------
(* The backend.                                                            *)

VARIABLES input, output, at, hand, parent, next_sequence, expected_sequence,
          backend_is_alive, spawned, job, results, executed, disturbed

backend_vars == <<input, output, at, hand, parent, next_sequence, expected_sequence,
  backend_is_alive, spawned, job, results, executed, disturbed>>

CONSTANTS Attempts, BackendJobs

Backend == INSTANCE BackendProtocol WITH Jobs <- BackendJobs

TwoJobs == <<"j", "k">>

-----------------------------------------------------------------------------
(* The gathering of jobs: l is a local suite that prints b and c, r is a   *)
(* resource that prints a record; every way in which a, b and c may depend *)
(* on each other.                                                          *)

VARIABLES directory, depends, whitelist, blacklist, gather_pc, messages, i, shown, records,
          ordered, items_added, items, items_blocked, agenda, reported

gather_vars == <<directory, depends, whitelist, blacklist, gather_pc, messages, i, shown,
  records, ordered, items_added, items, items_blocked, agenda, reported>>

GatherNames == {"a", "b", "c", "l", "r", "x"}

M(name, size) == [name |-> name, size |-> size, suite |-> "none"]

Gather == INSTANCE JobsGather WITH
  Directories <- {<<M("a", 2), M("b", 1), M("l", 1), M("r", 1)>>,
                  <<M("l", 1), M("b", 2), M("a", 1), M("a", 2)>>,
                  <<M("r", 1), M("b", 1), M("a", 1), M("l", 1)>>},
  Prints <- [n \in GatherNames |-> IF n = "l" THEN <<M("c", 1), M("b", 1)>>
                                   ELSE IF n = "r" THEN <<M("x", 1)>> ELSE <<>>],
  Locals <- {"l"}, Resources <- {"r"},
  Graphs <- {[n \in GatherNames |-> IF n = "a" THEN A ELSE IF n = "b" THEN B
                                    ELSE IF n = "c" THEN C ELSE {}] :
               A \in SUBSET {"b", "c"}, B \in SUBSET {"a", "c"}, C \in SUBSET {"a", "b"}},
  Whitelists <- {<<>>, <<"c", "l", "b", "a">>, <<"b", "a", "r">>},
  Blacklists <- {{}, {"a"}}

-----------------------------------------------------------------------------
(* The lock on a running checkbox.                                         *)

VARIABLES file, files, owner, place, opened, notified, robbed

lock_vars == <<file, files, owner, place, opened, notified, robbed>>

CONSTANTS Processes, MaxFiles

Lock == INSTANCE InstanceLock

-----------------------------------------------------------------------------
(* The command of a job.                                                   *)

VARIABLES limit, stubborn, shell, child, writers, unread, over, execute, timed_out,
          signalled, late, status

command_vars == <<limit, stubborn, shell, child, writers, unread, over, execute, timed_out,
  signalled, late, status>>

Command == INSTANCE ShellCommand WITH output <- unread

-----------------------------------------------------------------------------
(* The test for a storage device.                                          *)

VARIABLES action, world, signals, managed, hollow, reference, ignored, watch, verdict,
          changes, done_to, missed

watch_vars == <<action, world, signals, managed, hollow, reference, ignored, watch, verdict,
  changes, done_to, missed>>

CONSTANTS Devices, Wanted, MaxChanges

Watcher == INSTANCE StorageWatcher

-----------------------------------------------------------------------------
ASSUME PartsAssumption ==
  /\ Prompts!JobsAssumption /\ Choice!TreeAssumption /\ Lock!LockAssumption
  /\ Backend!JobsAssumption /\ Persist!SavesAssumption /\ Messages!StoredAssumption

Parts == {"prompts", "persist", "messages", "tree", "view", "backend", "gather", "lock",
          "command", "watcher"}

vars == <<part, prompts_vars, persist_vars, messages_vars, tree_vars, view_vars,
  backend_vars, gather_vars, lock_vars, command_vars, watch_vars>>

\* A component that is not looked at has one initial state.
Init ==
  /\ part \in Parts
  /\ Prompts!Init /\ Persist!Init /\ Messages!Init /\ Choice!ChoiceInit /\ Choice!ViewInit
  /\ Backend!Init /\ Lock!Init
  /\ Gather!Init
  /\ part # "gather" =>
       /\ directory = <<M("a", 2), M("b", 1), M("l", 1), M("r", 1)>>
       /\ whitelist = <<>> /\ blacklist = {} /\ \A n \in GatherNames : depends[n] = {}
  /\ Command!Init
  /\ part # "command" => limit /\ ~stubborn
  /\ Watcher!Init
  /\ part # "watcher" => action = "insert" /\ world = {}

\* The components but p do nothing.
Only(p) ==
  /\ part = p /\ UNCHANGED part
  /\ IF p = "prompts" THEN TRUE ELSE UNCHANGED prompts_vars
  /\ IF p = "persist" THEN TRUE ELSE UNCHANGED persist_vars
  /\ IF p = "messages" THEN TRUE ELSE UNCHANGED messages_vars
  /\ IF p = "tree" THEN TRUE ELSE UNCHANGED tree_vars
  /\ IF p = "view" THEN TRUE ELSE UNCHANGED view_vars
  /\ IF p = "backend" THEN TRUE ELSE UNCHANGED backend_vars
  /\ IF p = "gather" THEN TRUE ELSE UNCHANGED gather_vars
  /\ IF p = "lock" THEN TRUE ELSE UNCHANGED lock_vars
  /\ IF p = "command" THEN TRUE ELSE UNCHANGED command_vars
  /\ IF p = "watcher" THEN TRUE ELSE UNCHANGED watch_vars

Next ==
  \/ Only("prompts") /\ Prompts!Next
  \/ Only("persist") /\ Persist!Next
  \/ Only("messages") /\ Messages!Next
  \/ Only("tree") /\ Choice!ChoiceNext
  \/ Only("view") /\ Choice!ViewNext
  \/ Only("backend") /\ Backend!Next
  \/ Only("gather") /\ Gather!Next
  \/ Only("lock") /\ Lock!Next
  \/ Only("command") /\ Command!Next
  \/ Only("watcher") /\ Watcher!Next

Fairness ==
  /\ WF_vars(Only("prompts") /\ Prompts!Program)
  /\ WF_vars(Only("backend") /\ Backend!ParentStep)
  /\ \A b \in 1..Attempts : WF_vars(Only("backend") /\ Backend!BackendStep(b))
  /\ \A p \in Processes : WF_vars(Only("lock") /\ Lock!Handle(p))
  /\ WF_vars(Only("command") /\ Command!Program)
  /\ WF_vars(Only("command") /\ Command!TimePasses)
  /\ WF_vars(Only("command") /\ Command!ShellEnds("killed"))

Spec == Init /\ [][Next]_vars /\ Fairness

-----------------------------------------------------------------------------
(* The properties of the components.                                       *)

\* Every component keeps to its types.
TypeOK ==
  /\ part \in Parts
  /\ part = "prompts" => Prompts!TypeOK
  /\ part = "persist" => Persist!TypeOK
  /\ part = "messages" => Messages!TypeOK
  /\ part = "tree" => Choice!ChoiceTypeOK
  /\ part = "view" => Choice!ViewTypeOK
  /\ part = "backend" => Backend!TypeOK
  /\ part = "gather" => Gather!TypeOK
  /\ part = "lock" => Lock!TypeOK
  /\ part = "command" => Command!TypeOK
  /\ part = "watcher" => Watcher!TypeOK

\* A run of checkbox that dies and is started again (plugins/jobs_prompt.py,
\* job_prompt.py, recover_prompt.py): the offset of the next job stays inside
\* the store unless the program died while it deleted messages; the store has
\* the jobs in the order of their dependencies; the report is built when every
\* job was prompted; a command is started again only at the user's request or
\* after a record was lost; and a job that has passed changes by the user's
\* answers only.
RunIsKept ==
  /\ [](part = "prompts" =>
         /\ Prompts!OffsetIsInStore
         /\ Prompts!StoreIsOrdered
         /\ Prompts!AllPrompted)
  /\ Prompts!RunAgainForAReason
  /\ Prompts!PassedStays

\* What a run writes to files (contrib/persist.py, message.py): what is loaded
\* is not older than what was synced, and what was saved and synced last is
\* loaded; it takes two bad saves to make the persist file unreadable; every
\* job is in the store, in order and once, unless a message could not be read;
\* a result that was written stays readable; and the offset does not pass a job
\* that was not prompted.
FilesAreKept ==
  /\ [](part = "persist" => Persist!LoadedIsNotOlder /\ Persist!UnloadedForAReason)
  /\ Persist!SyncedIsLoaded
  /\ [](part = "messages" =>
         /\ Messages!GatheredUnlessBroken
         /\ Messages!ResultsAreDurable
         /\ Messages!NothingIsSkipped
         /\ Messages!JobsAreInOrder)

\* The choice of tests: no test is chosen inside a suite that is not, a suite
\* shows whether a test under it is selected, and the interfaces let the user
\* choose as TestSelection says.
ChoiceIsShown ==
  /\ [](part = "tree" => Choice!ChosenIsReached /\ Choice!SuiteShowsTests)
  /\ Choice!ImplementsSelection

\* Commands of jobs (backend_info.py, job.py): a result is that of the job it
\* is reported for, no job runs twice, and one that was refused does not run;
\* the time limit changes no result of a command that had ended, and a command
\* passes only with the exit status zero.
ResultsAreOfTheJob ==
  /\ part = "backend" => Backend!ResultIsOfJob /\ Backend!RunOnceOrRefused
  /\ part = "command" => Command!LimitKeepsResult /\ Command!PassIsZero

\* The lists of jobs.  As they are gathered (jobs_info.py, resolver.py): every
\* job is reported after those it depends on, the order of the whitelist is kept
\* where it can be, only circular dependencies make it fail, what a job prints
\* is attributed to that job, and the jobs that are shown are those that are
\* reported.  As urwid shows them (urwid_interface.py): the rows are the tree,
\* and the buttons expand and collapse what they say.
ListsAreRight ==
  /\ [](part = "gather" =>
         /\ Gather!ReportedInOrder
         /\ Gather!MovedForAReason
         /\ Gather!FailsForACycle
         /\ Gather!PrintedIsAttributed
         /\ Gather!ShownAreReported)
  /\ [](part = "view" => Choice!WalkerShowsTree)
  /\ Choice!ButtonsDoAll

\* Two processes run only if one's lock file was deleted by a third, and a
\* process deletes the file it had locked, unless it was robbed
\* (lock_prompt.py).
LockExcludes == part = "lock" => Lock!OneRuns /\ Lock!DeletesItsOwn

\* The watcher of storage devices: when all signals were handled its model is
\* what the service has, and a change has been seen; and the test passes for a
\* real change of a wanted device only.
WatcherSeesChanges ==
  part = "watcher" =>
    /\ Watcher!ModelIsWorld
    /\ Watcher!PassIsReal
    /\ Watcher!ManipulationIsSeen

\* The program comes back to the user; the wait for the backend ends, unless
\* there are two or it dies; a process whose lock file was deleted stops; and a
\* command with a time limit ends.
EverythingEnds ==
  (\/ part = "prompts" /\ ~Prompts!Waiting
   \/ part = "backend" /\ Backend!Waits
   \/ part = "lock" /\ Lock!Robbed
   \/ part = "command" /\ limit /\ ~stubborn)
  ~> (\/ part = "prompts" /\ Prompts!Waiting
      \/ part = "backend" /\ (~Backend!Waits \/ disturbed)
      \/ part = "lock" /\ ~Lock!Robbed
      \/ part = "command" /\ Command!IsOver)
=============================================================================
