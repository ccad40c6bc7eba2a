----------------------------- MODULE RunCommand -----------------------------
(***************************************************************************)
(* The run and SRU commands of plainbox (impl/commands): the loops that    *)
(* run the jobs of a session, with crashes and resumes, and the selection  *)
(* of jobs by patterns. The two share no state; each has its own           *)
(* variables, initial states and steps.                                    *)
(***************************************************************************)
EXTENDS Integers, Sequences, SequencesExt, FiniteSets, PlainboxJobs

-----------------------------------------------------------------------------
(***************************************************************************)
(* The two commands that run jobs: `plainbox run' (RunInvocation of        *)
(* plainbox/impl/commands/run.py) and `plainbox sru' (_SRUInvocation of    *)
(* plainbox/impl/commands/sru.py), with the session that they keep on disk *)
(* from one process to the next.                                           *)
(*                                                                         *)
(* A process may die between any two steps, and another one may be started *)
(* then.  A step ends with what can be seen from outside: a checkpoint, or *)
(* a command that is started.  What resume() rebuilds from a checkpoint is *)
(* the session that was saved (module SessionResume), and checkpoints are  *)
(* whole (module SessionStorage).                                          *)
(***************************************************************************)

CONSTANTS
  BuiltinJobs,      \* get_builtin_jobs(), a sequence
  LoopPatterns,         \* the names that the include patterns or the whitelist match
  LocalOutput,      \* the definitions that a local job prints
  ResourceOutputs,  \* the sets of records that a resource job may print
  MaxStarts         \* bound: the number of processes

RunAssumption ==
  /\ BuiltinJobs \in Seq(JobDefs) /\ LocalOutput \in Seq(JobDefs)
  /\ ResourceOutputs \subseteq SUBSET Records
  /\ LoopPatterns \subseteq Names /\ MaxStarts \in Nat

VARIABLES
  disk,       \* what last-session leads to: "nothing", a directory that is
              \* "empty", or the session that was "saved" there
  session,    \* the session of the process; `running' is running_job_name
  matching,   \* matching_job_list
  pc, command, current,  \* where the process is, which one, and its job
  starts,     \* history: the number of processes
  resumed,    \* history: the process has resumed the session
  ran,        \* history: for each job how often it was run in this session,
  excused,    \* and how often a process ended before its result was saved
  cut_short   \* history: the jobs that `plainbox run' was running when it
              \* died, and that the user was not asked about since

process == <<session, matching, pc, command, current>>
history == <<starts, resumed, ran, excused, cut_short>>
loop_vars == <<disk, process, history>>

NewSession ==
  [job_list |-> BuiltinJobs, states |-> AddJobs([n \in {} |-> {}], BuiltinJobs),
   resources |-> [n \in {} |-> {}], run_list |-> <<>>, running |-> {}]

IsSession(s) ==
  /\ s.job_list \in Seq(JobDefs) /\ s.run_list \in Seq(JobDefs)
  /\ IsJobStateMap(s.states) /\ DOMAIN s.states = {s.job_list[i].name : i \in DOMAIN s.job_list}
  /\ s.resources \in [DOMAIN s.resources -> SUBSET Records]
  /\ s.running \subseteq Names /\ Cardinality(s.running) <= 1

LoopTypeOK ==
  /\ disk.kind \in {"nothing", "empty", "saved"}
  /\ IsSession(disk.session) /\ IsSession(session)
  /\ matching \in Seq(JobDefs)
  /\ pc \in {"ended", "opening", "asking", "opened", "selecting", "looping",
             "running", "finished"}
  /\ command \in {"run", "sru"}
  /\ current \in Names
  /\ starts \in 0..MaxStarts /\ resumed \in BOOLEAN
  /\ ran \in [Names -> Nat] /\ excused \in [Names -> Nat]
  /\ cut_short \subseteq Names

None == [n \in Names |-> 0]

LoopInit ==
  /\ disk = [kind |-> "nothing", session |-> NewSession]
  /\ session = NewSession /\ matching = <<>>
  /\ pc = "ended" /\ command = "run" /\ current = BuiltinJobs[1].name
  /\ starts = 0 /\ resumed = FALSE
  /\ ran = None /\ excused = None /\ cut_short = {}

-----------------------------------------------------------------------------
(* The methods of the session that the commands call.                      *)

SolverStep(s, map) ==
  CASE CanVisitNext(s) -> VisitNext(s)
    [] CanVisitDependency(s) -> IF NextDependency(s)[2] \in DOMAIN map
                                THEN VisitDependency(s, map) ELSE RaiseMissing(s)
    [] CanFinish(s) -> Finish(s)
    [] OTHER -> s

\* DependencySolver.resolve_dependencies(): a step for each job of the list,
\* for each dependency and for the end of each job, at most.
Resolve(jobs, map) ==
  LET edges == {e \in (DOMAIN map) \X Names : e[2] \in DependencyNames(map[e[1]])}
      steps == Len(jobs) + Cardinality(DOMAIN map) + 2 * Cardinality(edges)
      after[i \in 0..steps] ==
        IF i = 0 THEN StartSolver(jobs)
        ELSE CHOOSE s \in {SolverStep(before, map) : before \in {after[i - 1]}} : TRUE
  IN  after[steps]

\* The loop of update_desired_job_list(), which drops a job at a time; it
\* fails ({}) or is left with the run list of the jobs that can be run.
RunListFor(jobs, map) ==
  LET Retry(left, s) ==
        IF s.raised = {} THEN left
        ELSE RemoveFirst(left, (CHOOSE e \in s.raised : TRUE).affected)
      left[i \in 0..Len(jobs)] ==
        IF i = 0 THEN jobs
        ELSE CHOOSE next \in {Retry(before, Resolve(before, map)) : before \in {left[i - 1]}} : TRUE
  IN  {s.solution : s \in {last \in {Resolve(left[Len(jobs)], map)} : last.raised = {}}}

WithReadiness(s) == [s EXCEPT !.states = Recompute(s.states, s.run_list, s.resources)]

\* update_job_result()
WithResult(s, n, outcome, generated, records) ==
  LET job == s.states[n].job
      new == SelectSeq(generated, LAMBDA other : other.name \notin DOMAIN s.states)
      stored == [s EXCEPT !.states = SetOutcome(@, n, outcome)]
  IN  WithReadiness(
        CASE job.plugin = "resource" -> [stored EXCEPT !.resources = SetResource(@, n, records)]
          [] job.plugin = "local" -> [stored EXCEPT !.states = AddJobs(@, generated),
                                                    !.job_list = @ \o new]
          [] OTHER -> stored)

Save(s) == disk' = [kind |-> "saved", session |-> s]

\* SessionManager.create_session(): the previous session is removed.
Create ==
  /\ disk' = [kind |-> "empty", session |-> NewSession]
  /\ ran' = None /\ excused' = None /\ cut_short' = {}

\* _get_matching_job_list()
Matching(jobs) == SelectSeq(jobs, LAMBDA job : job.name \in LoopPatterns)

-----------------------------------------------------------------------------
(* Before the loop.                                                        *)

\* run() up to session.open()
Start ==
  /\ pc = "ended" /\ starts < MaxStarts
  /\ command' \in {"run", "sru"}
  /\ session' = NewSession /\ matching' = Matching(BuiltinJobs)
  /\ pc' = IF command' = "sru" THEN "selecting" ELSE "opening"
  /\ starts' = starts + 1 /\ resumed' = FALSE
  /\ UNCHANGED <<disk, current, ran, excused, cut_short>>

\* There is nothing to resume, or the user does not want to; in both cases
\* clean() or persistent_save() creates a session.
OpenNew ==
  /\ pc = "opening"
  /\ Create
  /\ pc' = "opened"
  /\ UNCHANGED <<session, matching, command, current, starts, resumed>>

\* session.resume(), and _maybe_skip_last_job_after_resume() if it will ask.
Resume ==
  /\ pc = "opening" /\ disk.kind = "saved"
  /\ session' = disk.session
  /\ pc' = IF disk.session.running = {} THEN "opened" ELSE "asking"
  /\ resumed' = TRUE
  /\ UNCHANGED <<disk, matching, command, current, starts, ran, excused, cut_short>>

\* The previous process died between create_session() and its first save.
ResumeFails ==
  /\ pc = "opening" /\ disk.kind = "empty"
  /\ pc' = "ended"
  /\ UNCHANGED <<disk, session, matching, command, current, history>>

\* "skip" or "fail": the result is stored, although nothing was run.
DoNotRunAgain ==
  /\ pc = "asking"
  /\ \E n \in session.running :
       session' = [WithResult(session, n, "fail", <<>>, {}) EXCEPT !.running = {}]
  /\ Save(session')
  /\ pc' = "opened"
  /\ cut_short' = {}
  /\ UNCHANGED <<matching, command, current, starts, resumed, ran, excused>>

\* "run": the name stays, until a job is run.
RunAgain ==
  /\ pc = "asking"
  /\ pc' = "opened"
  /\ cut_short' = {}
  /\ UNCHANGED <<disk, session, matching, command, current, starts, resumed, ran, excused>>

SaveOpened ==
  /\ pc = "opened"
  /\ Save(session)
  /\ pc' = "selecting"
  /\ UNCHANGED <<session, matching, command, current, history>>

\* _update_desired_job_list() / _set_job_selection(); the SRU command asks
\* for the session directory next, which creates the session.
Select ==
  /\ pc = "selecting"
  /\ \E list \in RunListFor(matching, JobMap(session.states)) :
       session' = WithReadiness([session EXCEPT !.run_list = list])
  /\ pc' = "looping"
  /\ IF command = "sru" THEN Create ELSE UNCHANGED <<disk, ran, excused, cut_short>>
  /\ UNCHANGED <<matching, command, current, starts, resumed>>

-----------------------------------------------------------------------------
(* The loop over the run list.                                             *)

Unrun(s) == {i \in DOMAIN s.run_list : s.states[s.run_list[i].name].outcome = "none"}

\* The job the for loop is at: those before it have results.
Job(s) == s.run_list[CHOOSE i \in Unrun(s) : \A j \in Unrun(s) : i <= j]

\* The jobs that are matched after a local job: `plainbox run' takes those of the
\* session, with the generated ones; the SRU command those of the provider, of
\* which the session has a copy.
JobsToMatch(s) == IF command = "sru" THEN BuiltinJobs ELSE s.job_list

\* After each local job the list of matching jobs is built again.  A list
\* that cannot be solved ends the process.
GoOn(s, n) ==
  IF s.states[n].job.plugin # "local"
  THEN /\ session' = s /\ pc' = "looping" /\ UNCHANGED matching
  ELSE LET again == Matching(JobsToMatch(s))
           lists == RunListFor(again, JobMap(s.states))
       IN  /\ matching' = again
           /\ \/ /\ \E list \in lists : session' = WithReadiness([s EXCEPT !.run_list = list])
                 /\ pc' = "looping"
              \/ lists = {} /\ session' = s /\ pc' = "ended"

\* A job that cannot start gets the result "not-supported", or in the SRU
\* command what a skipped dependency has.
NotSupported ==
  /\ pc = "looping" /\ Unrun(session) # {}
  /\ ~CanStart(session.states[Job(session).name])
  /\ LET n == Job(session).name
         s == WithResult(session, n, "fail", <<>>, {})
     IN  Save(s) /\ GoOn(s, n)
  /\ UNCHANGED <<command, current, history>>

\* runner.run_job(), which `plainbox run' saves the name of the job before.
StartJob ==
  /\ pc = "looping" /\ Unrun(session) # {}
  /\ CanStart(session.states[Job(session).name])
  /\ current' = Job(session).name
  /\ session' = IF command = "sru" THEN session ELSE [session EXCEPT !.running = {current'}]
  /\ IF command = "sru" THEN UNCHANGED disk ELSE Save(session')
  /\ pc' = "running"
  /\ ran' = [ran EXCEPT ![current'] = @ + 1]
  /\ UNCHANGED <<matching, command, starts, resumed, excused, cut_short>>

\* run_job() returns: "no job is running" goes to the disk before the result.
JobEnds ==
  /\ pc = "running"
  /\ IF command = "sru" THEN UNCHANGED <<session, disk>>
     ELSE session' = [session EXCEPT !.running = {}] /\ Save(session')
  /\ pc' = "finished"
  /\ UNCHANGED <<matching, command, current, history>>

\* Mutant of SaveResult: the checkpoint after the result is left out.
KeepResult ==
  /\ pc = "finished"
  /\ \E outcome \in {"pass", "fail"}, records \in ResourceOutputs :
       LET s == WithResult(session, current, outcome, LocalOutput, records)
       IN  GoOn(s, current)
  /\ UNCHANGED <<disk, command, current, history>>

\* update_job_result() and the checkpoint after it.
SaveResult ==
  /\ pc = "finished"
  /\ \E outcome \in {"pass", "fail"}, records \in ResourceOutputs :
       LET s == WithResult(session, current, outcome, LocalOutput, records)
       IN  Save(s) /\ GoOn(s, current)
  /\ UNCHANGED <<command, current, history>>

\* The loop is over; the results are exported, the session stays.
End ==
  /\ pc = "looping" /\ Unrun(session) = {}
  /\ pc' = "ended"
  /\ UNCHANGED <<disk, session, matching, command, current, history>>

\* A list that cannot be solved raises in Select; a local job that printed a
\* record without a name does so in update_job_result().
Raise ==
  /\ \/ pc = "selecting" /\ RunListFor(matching, JobMap(session.states)) = {}
        /\ UNCHANGED excused
     \/ pc = "finished" /\ session.states[current].job.plugin = "local"
        /\ excused' = [excused EXCEPT ![current] = @ + 1]
  /\ pc' = "ended"
  /\ UNCHANGED <<disk, session, matching, command, current, starts, resumed, ran, cut_short>>

\* The process or the machine dies.
Crash ==
  /\ pc # "ended"
  /\ pc' = "ended"
  /\ excused' = IF pc \in {"running", "finished"}
                THEN [excused EXCEPT ![current] = @ + 1] ELSE excused
  /\ cut_short' = IF pc = "running" /\ command = "run"
                  THEN cut_short \cup {current} ELSE cut_short
  /\ UNCHANGED <<disk, session, matching, command, current, starts, resumed, ran>>

-----------------------------------------------------------------------------
Open == OpenNew \/ Resume \/ ResumeFails \/ DoNotRunAgain \/ RunAgain \/ SaveOpened \/ Select

Loop == NotSupported \/ StartJob \/ JobEnds \/ SaveResult \/ End

LoopNext == Start \/ Open \/ Loop \/ Raise \/ Crash

\* The user answers, and jobs end; nobody has to start another process.
LoopSpec == LoopInit /\ [][LoopNext]_loop_vars /\ WF_loop_vars(Open \/ Loop \/ Raise)

-----------------------------------------------------------------------------
(* Correctness.                                                            *)

SavedOutcome(n) ==
  IF n \in DOMAIN disk.session.states THEN disk.session.states[n].outcome ELSE "none"

\* A job is run only if, by what is on disk, everything it depends on has
\* passed and its requirements are met, across processes (run.py:343).
RunsOnlyReady ==
  pc = "running" /\ command = "run" =>
    LET job == session.states[current].job
    IN  /\ \A d \in job.direct : SavedOutcome(d) = "pass"
        /\ ProgramHolds(job, disk.session.resources)

\* A result that has been saved stays until a session is created: no later
\* checkpoint, resume or selection loses or changes it.
SavedResultsStay ==
  [][\A n \in Names :
       disk'.kind = "saved" /\ SavedOutcome(n) # "none" => SavedOutcome(n)' = SavedOutcome(n)]_loop_vars

\* A job is run again only if a process ended while it was running or with
\* its result not saved yet.
RunAgainForAReason == \A n \in Names : ran[n] <= 1 + excused[n]

\* A job that was being run when the process died is asked about when the
\* session is resumed: its name is on disk until then (run.py:130).
CutShortIsAskedAbout ==
  disk.kind = "saved" /\ pc \in {"ended", "opening"} => cut_short \subseteq disk.session.running

\* A job is run only if it matches, or if another job of the run list needs it: the
\* SRU command never runs a generated job for the sake of the whitelist.
OnlyWantedAreRun ==
  pc = "running" =>
    \/ current \in {job.name : job \in ToSet(Matching(JobsToMatch(session)))}
    \/ \E job \in ToSet(session.run_list) : current \in DependencyNames(job)

\* The jobs that are known when a process ends regularly, that match, and
\* that can be solved, all have results; of the SRU command those of the provider.
AllSelectedHaveResults ==
  pc = "looping" /\ Unrun(session) = {} =>
    \A i \in DOMAIN JobsToMatch(session) :
      LET job == JobsToMatch(session)[i]
      IN  job.name \in LoopPatterns
            /\ Resolve(<<job>>, JobMap(session.states)).raised = {}
            => session.states[job.name].outcome # "none"

\* The same of a session that has not been resumed.
AllSelectedHaveResultsUnlessResumed == ~resumed => AllSelectedHaveResults

\* Every process ends.
ProcessRuns == pc # "ended"

-----------------------------------------------------------------------------
(***************************************************************************)
(* Which jobs a run is about: CheckBoxInvocationMixIn                      *)
(* ._get_matching_job_list() (plainbox/impl/commands/checkbox.py), next to *)
(* the qualifiers of plainbox/impl/applogic.py, which do the same for the  *)
(* SRU command.                                                            *)
(*                                                                         *)
(* A pattern is the set of the names that it matches from the start to the *)
(* end.  The patterns of whitelists have joined include_pattern_list       *)
(* before the first selection; later on their files are at the end.        *)
(***************************************************************************)

CONSTANTS SelectionNames, JobLists, Generated, MaxExclude, MaxInclude

VARIABLES
  job_list,              \* the list of the caller, which is changed in place
  exclude_pattern_list, include_pattern_list,
  matching_job_list,
  at,                    \* the pattern and the job that the loops are at
  loop,                  \* "exclude", "include" or "done"
  given,                 \* history: job_list as it was at the call
  calls                  \* history: the number of calls

selection_vars == <<job_list, exclude_pattern_list, include_pattern_list,
                    matching_job_list, at, loop, given, calls>>

SelectionPatterns == SUBSET SelectionNames

SelectionTypeOK ==
  /\ job_list \in Seq(SelectionNames) /\ given \in Seq(SelectionNames)
  /\ exclude_pattern_list \in Seq(SelectionPatterns) /\ include_pattern_list \in Seq(SelectionPatterns)
  /\ matching_job_list \in Seq(SelectionNames)
  /\ at \in [pattern : Nat \ {0}, job : Nat \ {0}]
  /\ loop \in {"exclude", "include", "done"}
  /\ calls \in 1..2

PatternLists(max) == UNION {[1..k -> SelectionPatterns] : k \in 0..max}

First == [pattern |-> 1, job |-> 1]

SelectionInit ==
  /\ job_list \in JobLists
  /\ exclude_pattern_list \in PatternLists(MaxExclude)
  /\ include_pattern_list \in PatternLists(MaxInclude)
  /\ matching_job_list = <<>>
  /\ at = First /\ loop = "exclude"
  /\ given = job_list /\ calls = 1

-----------------------------------------------------------------------------
(* The loops.  A for loop over a list keeps an index, whatever becomes of  *)
(* the list in the meantime.                                               *)

InLoop(patterns) == at.pattern <= Len(patterns) /\ at.job <= Len(job_list)

NextJob == at' = [at EXCEPT !.job = @ + 1]

\* Mutant of RemoveExcluded: the index steps back.
RemoveAndStepBack ==
  /\ loop = "exclude" /\ InLoop(exclude_pattern_list)
  /\ job_list[at.job] \in exclude_pattern_list[at.pattern]
  /\ job_list' = RemoveAt(job_list, at.job)
  /\ at' = [at EXCEPT !.job = @ - 1]
  /\ UNCHANGED <<exclude_pattern_list, include_pattern_list, matching_job_list,
                 loop, given, calls>>

\* job_list.remove(job): names differ, so that it is the job at the index.
RemoveExcluded ==
  /\ loop = "exclude" /\ InLoop(exclude_pattern_list)
  /\ job_list[at.job] \in exclude_pattern_list[at.pattern]
  /\ job_list' = RemoveAt(job_list, at.job)
  /\ NextJob
  /\ UNCHANGED <<exclude_pattern_list, include_pattern_list, matching_job_list,
                 loop, given, calls>>

\* Mutant of KeepOther: the test for the pattern the wrong way round.
RemoveOther ==
  /\ loop = "exclude" /\ InLoop(exclude_pattern_list)
  /\ job_list[at.job] \notin exclude_pattern_list[at.pattern]
  /\ job_list' = RemoveAt(job_list, at.job)
  /\ NextJob
  /\ UNCHANGED <<exclude_pattern_list, include_pattern_list, matching_job_list,
                 loop, given, calls>>

KeepOther ==
  /\ loop = "exclude" /\ InLoop(exclude_pattern_list)
  /\ job_list[at.job] \notin exclude_pattern_list[at.pattern]
  /\ NextJob
  /\ UNCHANGED <<job_list, exclude_pattern_list, include_pattern_list,
                 matching_job_list, loop, given, calls>>

Include ==
  /\ loop = "include" /\ InLoop(include_pattern_list)
  /\ LET name == job_list[at.job]
     IN  matching_job_list' =
           IF name \in include_pattern_list[at.pattern]
           THEN Append(matching_job_list, name) ELSE matching_job_list
  /\ NextJob
  /\ UNCHANGED <<job_list, exclude_pattern_list, include_pattern_list, loop, given, calls>>

\* Mutant of NextPattern: the loop over the jobs starts once more.
SamePattern ==
  /\ \/ loop = "exclude" /\ at.pattern <= Len(exclude_pattern_list)
     \/ loop = "include" /\ at.pattern <= Len(include_pattern_list)
  /\ at.job > Len(job_list)
  /\ at' = [at EXCEPT !.job = 1]
  /\ UNCHANGED <<job_list, exclude_pattern_list, include_pattern_list,
                 matching_job_list, loop, given, calls>>

\* The loop over the jobs is over: the next pattern.
NextPattern ==
  /\ \/ loop = "exclude" /\ at.pattern <= Len(exclude_pattern_list)
     \/ loop = "include" /\ at.pattern <= Len(include_pattern_list)
  /\ at.job > Len(job_list)
  /\ at' = [pattern |-> at.pattern + 1, job |-> 1]
  /\ UNCHANGED <<job_list, exclude_pattern_list, include_pattern_list,
                 matching_job_list, loop, given, calls>>

NextLoop ==
  /\ \/ loop = "exclude" /\ at.pattern > Len(exclude_pattern_list) /\ loop' = "include"
     \/ loop = "include" /\ at.pattern > Len(include_pattern_list) /\ loop' = "done"
  /\ at' = First
  /\ UNCHANGED <<job_list, exclude_pattern_list, include_pattern_list,
                 matching_job_list, given, calls>>

\* A local job has generated jobs, and its list is matched again.
SelectAgain ==
  /\ loop = "done" /\ calls = 1
  /\ \E names \in Generated :
       /\ ToSet(names) \cap ToSet(given) = {}
       /\ job_list' = job_list \o names
  /\ given' = job_list'
  /\ matching_job_list' = <<>>
  /\ loop' = "exclude" /\ at' = First /\ calls' = 2
  /\ UNCHANGED <<exclude_pattern_list, include_pattern_list>>

SelectionNext ==
  RemoveExcluded \/ KeepOther \/ Include \/ NextPattern \/ NextLoop \/ SelectAgain

SelectionSpec == SelectionInit /\ [][SelectionNext]_selection_vars /\ WF_selection_vars(SelectionNext)

-----------------------------------------------------------------------------
(* Correctness.                                                            *)

Matches(name, patterns) == \E p \in ToSet(patterns) : name \in p

\* CompositeQualifier.designates(), and with it get_matching_job_list().
Designates(name) ==
  /\ ~Matches(name, exclude_pattern_list)
  /\ Matches(name, include_pattern_list)

GetMatchingJobList(list) == SelectSeq(list, Designates)

\* The selection is, for each include pattern in turn, the remaining jobs that
\* it matches in the order of the job list; the solver keeps this order.
SelectionFollowsPatterns ==
  loop = "done" =>
    matching_job_list =
      FlattenSeq([p \in DOMAIN include_pattern_list |->
                    SelectSeq(job_list, LAMBDA n : n \in include_pattern_list[p])])

\* A job is removed from the list of the session only if a pattern excludes
\* it, and the others keep their order.
OnlyExcludedRemoved ==
  /\ \A n \in ToSet(given) \ ToSet(job_list) : Matches(n, exclude_pattern_list)
  /\ job_list = SelectSeq(given, LAMBDA n : n \in ToSet(job_list))

\* The two ways of selection choose the same jobs unless one pattern excludes
\* two jobs of the list: only then can an excluded job survive, because the
\* list is changed while it is iterated over.
SameAsQualifier ==
  (loop = "done" /\ \A p \in ToSet(exclude_pattern_list) :
                      Cardinality(p \cap ToSet(given)) <= 1)
    => ToSet(matching_job_list) = ToSet(GetMatchingJobList(given))

\* And even then each pattern removes at least half of what it excludes, and
\* the first that it excludes.
HalfIsExcluded ==
  loop = "include" =>
    \A p \in ToSet(exclude_pattern_list) :
      Cardinality(p \cap ToSet(given)) >= 2 * Cardinality(p \cap ToSet(job_list))

\* Every selection ends, although lists get shorter while they are looped over.
Selecting == loop = "exclude"

Selected == loop = "done"
=============================================================================
