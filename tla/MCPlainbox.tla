----------------------------- MODULE MCPlainbox -----------------------------
(***************************************************************************)
(* Components of plainbox that share no state, side by side: a behaviour   *)
(* is one of the component `part', and the others stay as they are.        *)
(***************************************************************************)
EXTENDS Naturals, Sequences, SequencesExt, FiniteSets

VARIABLE part

-----------------------------------------------------------------------------
(* The selection of jobs: three, or two and one that is generated, and all *)
(* patterns.                                                               *)

VARIABLES job_list, exclude_pattern_list, include_pattern_list, matching_job_list,
          at, loop, given, calls

selection_vars == <<job_list, exclude_pattern_list, include_pattern_list,
  matching_job_list, at, loop, given, calls>>

CONSTANTS MaxExclude, MaxInclude

-----------------------------------------------------------------------------
(* The loops that run jobs, with jobs of every kind: a needs a record of   *)
(* the resource job r, b comes after a, and the local job l generates g,   *)
(* which comes after a.                                                    *)

VARIABLES disk, session, matching, pc, command, current, starts, resumed, ran, excused,
          cut_short

loop_vars == <<disk, session, matching, pc, command, current, starts, resumed, ran,
  excused, cut_short>>

CONSTANT MaxStarts

LoopNames == {"a", "b", "g", "l", "r"}

LoopSorted(S) == SelectSeq(<<"a", "b", "g", "l", "r">>, LAMBDA n : n \in S)

Job(name, plugin, direct, requires) ==
  [name |-> name, plugin |-> plugin, direct |-> direct, requires |-> requires]

A == Job("a", "shell", {}, <<[resource |-> "r", matches |-> {"x"}]>>)
B == Job("b", "shell", {"a"}, <<>>)
G == Job("g", "shell", {"a"}, <<>>)
L == Job("l", "local", {}, <<>>)
R == Job("r", "resource", {}, <<>>)

Run == INSTANCE RunCommand WITH
  Names <- LoopNames, Sorted <- LoopSorted, Records <- {"x"}, JobDefs <- {A, B, G, L, R},
  BuiltinJobs <- <<A, B, L, R>>, LoopPatterns <- {"b", "g", "l"}, LocalOutput <- <<G>>,
  ResourceOutputs <- {{}, {"x"}}, SelectionNames <- {"a", "b", "c"},
  JobLists <- {<<"a", "b", "c">>, <<"a", "b">>}, Generated <- {<<>>, <<"c">>}

-----------------------------------------------------------------------------
(* The life cycle of legacy sessions.                                      *)

VARIABLES exists, checkpoint, link, manager, hint, todo, storage, raised, crashes, cleaned

legacy_vars == <<exists, checkpoint, link, manager, hint, todo, storage, raised,
  crashes, cleaned>>

CONSTANTS Dirs, MaxCrashes

Legacy == INSTANCE LegacySession

-----------------------------------------------------------------------------
(* An external command with any chain of delegates; the run has those that *)
(* JobRunner gives the command of a job (runner.py:376).                   *)

VARIABLES child, other, written, pipe, reader, queue, worker, line, left, got, main,
          failed, ended, interrupts, escaped

command_vars == <<child, other, written, pipe, reader, queue, worker, line, left, got,
  main, failed, ended, interrupts, escaped>>

CONSTANTS CommandDelegates, FailingDelegates, MaxLines, MaxInterrupts

JobDelegates == <<"ui_io_delegate", "output_writer">>

Command == INSTANCE ExternalCommand WITH
  Delegates <- CommandDelegates, Failing <- FailingDelegates

-----------------------------------------------------------------------------
(* The D-Bus service with any jobs; the run has jobs of every kind: the    *)
(* local job l generates g; n generates o, which is a local job that       *)
(* generates p; and k needs the manual job m.                              *)

VARIABLES client, phase, run_list, current_job_path, whitelist, runner_asked, inbox,
          saving, request, updating, known, wrapped, session_run_list, ready, result,
          runners, commit_hint, made, unheard, raced

service_vars == <<client, phase, run_list, current_job_path, whitelist, runner_asked,
  inbox, saving, request, updating, known, wrapped, session_run_list, ready, result,
  runners, commit_hint, made, unheard, raced>>

CONSTANTS ServiceNames, RunOrder(_), Plugin, HasCommand, Deps, Generates, Whitelists,
          MaxCommands

JobsInOrder == <<"l", "n", "o", "p", "a", "g", "m", "k">>

JobNames == ToSet(JobsInOrder)

JobsOf(S) == SelectSeq(JobsInOrder, LAMBDA j : j \in S)

JobPlugin == [j \in JobNames |->
                IF j \in {"l", "n", "o", "k"} THEN "local"
                ELSE IF j \in {"m", "g"} THEN "manual" ELSE "shell"]

JobDeps == [j \in JobNames |->
              IF j = "k" THEN {"m"} ELSE IF j \in {"m", "g"} THEN {"a"} ELSE {}]

JobGenerates == [j \in JobNames |->
                   IF j = "l" THEN {"g"} ELSE IF j = "n" THEN {"o"}
                   ELSE IF j = "o" THEN {"p"} ELSE {}]

JobCommands == JobNames \ {"m"}

JobWhitelists == {{"l", "g", "m"}, {"l", "n", "g", "o", "p"}, {"n", "m"}, {"k"}, {}}

Bus == INSTANCE JobService WITH Names <- ServiceNames, hint <- commit_hint

-----------------------------------------------------------------------------
ASSUME PartsAssumption ==
  /\ Run!RunAssumption /\ Legacy!LegacyAssumption /\ Command!CommandAssumption
  /\ Bus!ServiceAssumption

Parts == {"selection", "loop", "legacy", "command", "service"}

vars == <<part, selection_vars, loop_vars, legacy_vars, command_vars, service_vars>>

\* A component that is not looked at has one initial state.
Init ==
  /\ part \in Parts
  /\ Run!SelectionInit
  /\ part # "selection" =>
       exclude_pattern_list = <<>> /\ include_pattern_list = <<>> /\ Len(job_list) = 2
  /\ Run!LoopInit /\ Legacy!Init /\ Command!Init
  /\ Bus!Init
  /\ part # "service" => whitelist = {} /\ commit_hint

\* The components but p do nothing.
Only(p) ==
  /\ part = p /\ UNCHANGED part
  /\ IF p = "selection" THEN TRUE ELSE UNCHANGED selection_vars
  /\ IF p = "loop" THEN TRUE ELSE UNCHANGED loop_vars
  /\ IF p = "legacy" THEN TRUE ELSE UNCHANGED legacy_vars
  /\ IF p = "command" THEN TRUE ELSE UNCHANGED command_vars
  /\ IF p = "service" THEN TRUE ELSE UNCHANGED service_vars

Next ==
  \/ Only("selection") /\ Run!SelectionNext
  \/ Only("loop") /\ Run!LoopNext
  \/ Only("legacy") /\ Legacy!Next
  \/ Only("command") /\ Command!Next
  \/ Only("service") /\ Bus!Next

Fairness ==
  /\ WF_vars(Only("selection") /\ Run!SelectionNext)
  /\ WF_vars(Only("loop") /\ (Run!Open \/ Run!Loop \/ Run!Raise))
  /\ WF_vars(Only("command") /\ (Command!Get \/ Command!OnLine))
  /\ WF_vars(Only("command") /\ Command!Caller)
  /\ \A s \in {"stdout", "stderr"} :
       WF_vars(Only("command") /\ (Command!ReadLine(s) \/ Command!ReadEnd(s)))
  /\ WF_vars(Only("service") /\ Bus!ServiceStep)
  /\ WF_vars(Only("service") /\ Bus!ClientStep)

Spec == Init /\ [][Next]_vars /\ Fairness

-----------------------------------------------------------------------------
(* The properties of the components.                                       *)

\* Every component keeps to its types.
TypeOK ==
  /\ part \in Parts
  /\ part = "selection" => Run!SelectionTypeOK
  /\ part = "loop" => Run!LoopTypeOK
  /\ part = "legacy" => Legacy!TypeOK
  /\ part = "command" => Command!TypeOK
  /\ part = "service" => Bus!TypeOK

\* What is selected: the jobs that the include patterns match, pattern by
\* pattern; only excluded jobs leave the job list, and at least half of what a
\* pattern excludes; and both ways of selecting agree unless a pattern excludes
\* two jobs (commands/checkbox.py).
SelectionIsRight ==
  part = "selection" =>
    /\ Run!SelectionFollowsPatterns
    /\ Run!OnlyExcludedRemoved
    /\ Run!SameAsQualifier
    /\ Run!HalfIsExcluded

\* Across processes that die and resume (commands/run.py): only jobs are run
\* whose dependencies have passed; a job is run again only if a process died
\* with its result unsaved; one that was cut short is asked about; only jobs are run
\* that are matched, or needed by others, which generated jobs are not by the SRU
\* command; a process that ends regularly leaves no selected job without a result,
\* unless it has resumed the session; and saved results stay.
ResultsSurviveProcesses ==
  /\ [](part = "loop" =>
         /\ Run!RunsOnlyReady
         /\ Run!RunAgainForAReason
         /\ Run!CutShortIsAskedAbout
         /\ Run!OnlyWantedAreRun
         /\ Run!AllSelectedHaveResultsUnlessResumed)
  /\ Run!SavedResultsStay

\* The directories of sessions (session/legacy.py): a session that can be saved is
\* found by the next process; there is one directory at most, to which the link
\* leads, if the calls come in the documented order; resume() changes no
\* directory; and checkpoints are removed for a new session or by clean() only.
SessionsAreFound ==
  /\ [](part = "legacy" => Legacy!SavedIsFound /\ Legacy!OneSessionIfUsedWell)
  /\ Legacy!ResumeReadsOnly
  /\ Legacy!RemovedForAReason

\* External commands (extcmd.py): each delegate gets the lines of a stream in
\* order and without gaps, and all get the same; a call that returns has passed on
\* everything unless a delegate failed; and no thread or command outlives a call
\* that was not interrupted while it was cleaning up.
LinesAreDelivered ==
  part = "command" =>
    /\ Command!LinesInOrder
    /\ Command!DelegatesAgree
    /\ Command!ReturnsComplete
    /\ Command!NothingIsLeftRunning

\* The service and its client (service.py): at most one thing is under way; the
\* threads run only jobs whose dependencies have passed; the client hears of the
\* job it waits for and of no other, shows a result for every job that was to be
\* run, and waits in vain only after a race for the session directory or an
\* unheard question; jobs have their objects, those generated late excepted;
\* and a result that was reported does not change.
ServiceKeepsItsWord ==
  /\ [](part = "service" =>
         /\ Bus!OneThingAtATime
         /\ Bus!RunsOnlyReady
         /\ Bus!MessagesAreOfCurrentJob
         /\ Bus!AllHaveResults
         /\ Bus!JobsHaveWrappers
         /\ Bus!StuckForAReason)
  /\ Bus!ReportedIsFinal

\* Every selection ends, although the lists get shorter while they are looped
\* over; every process that runs jobs ends; so does every call of a command
\* whose streams are closed; and the D-Bus client gets to its results, but for
\* the known ways to get stuck.
EverythingEnds ==
  (\/ part = "selection" /\ Run!Selecting
   \/ part = "loop" /\ Run!ProcessRuns
   \/ part = "command" /\ Command!StreamsClose
   \/ part = "service")
  ~> (\/ part = "selection" /\ Run!Selected
      \/ part = "loop" /\ ~Run!ProcessRuns
      \/ part = "command" /\ Command!CallIsOver
      \/ part = "service" /\ Bus!ClientIsDone)
=============================================================================
