---------------------------- MODULE SessionState ----------------------------
(***************************************************************************)
(* A test session (plainbox/impl/session/state.py): the jobs it knows,     *)
(* the jobs it was asked to run, the order to run them in, what resource   *)
(* jobs have found out, and the readiness of every job to start.           *)
(*                                                                         *)
(* Applications call the methods of a session in any order and with        *)
(* results of any job; each method is an action, but for                   *)
(* update_desired_job_list(), whose loop around the dependency solver runs *)
(* step by step so that its termination is a property.                     *)
(***************************************************************************)
EXTENDS PlainboxJobs

CONSTANTS
  InitialMaps,      \* the job databases a session may start from
  ResourceNames,    \* the resources set_resource_list() is called for
  ResourceOutputs,  \* the sets of records a resource job may print
  LocalOutputs,     \* the sequences of definitions a local job may print
  MaxDesired        \* bound: the longest desired_job_list asked for

ASSUME SessionAssumption ==
  /\ InitialMaps \subseteq JobMaps
  /\ ResourceNames \subseteq Names
  /\ ResourceOutputs \subseteq SUBSET Records
  /\ LocalOutputs \subseteq Seq(JobDefs)
  /\ MaxDesired \in Nat

VARIABLES
  job_state_map,     \* _job_state_map; its jobs are those of _job_list
  desired_job_list,  \* _desired_job_list
  run_list,          \* _run_list
  resource_map,      \* _resource_map
  phase,             \* "solving" inside update_desired_job_list(), "raised"
                     \* if its last call ended with an exception
  solver,            \* the solver's state, in update_desired_job_list()
  problems,          \* the local list of problems there
  requested,         \* history: the argument of that call
  stale              \* history: what readiness was not yet recomputed from

session == <<job_state_map, desired_job_list, run_list, resource_map>>
call == <<phase, solver, problems, requested>>
vars == <<session, call, stale>>

KnownJobs == Known(JobMap(job_state_map))

TypeOK ==
  /\ IsJobStateMap(job_state_map)
  /\ desired_job_list \in Seq(KnownJobs)
  /\ run_list \in Seq(KnownJobs)
  /\ DOMAIN resource_map \subseteq Names
  /\ resource_map \in [DOMAIN resource_map -> SUBSET Records]
  /\ phase \in {"idle", "solving", "raised"}
  /\ SolverType(solver, JobMap(job_state_map))
  /\ problems \in Seq(Problems)
  /\ requested \in Seq(KnownJobs)
  /\ stale \in SUBSET {"run_list", "results", "resources"}

-----------------------------------------------------------------------------
\* __init__(): equal duplicates have been dropped, clashing ones refused.
Init ==
  /\ \E map \in InitialMaps :
       job_state_map = [n \in DOMAIN map |-> NewJobState(map[n])]
  /\ desired_job_list = <<>>
  /\ run_list = <<>>
  /\ resource_map = [n \in {} |-> {}]
  /\ phase = "idle"
  /\ solver = StartSolver(<<>>)
  /\ problems = <<>>
  /\ requested = <<>>
  /\ stale = {}

\* The end of every method that recomputes readiness.
RecomputeReadiness(states, list, resources) ==
  /\ job_state_map' = Recompute(states, list, resources)
  /\ run_list' = list
  /\ resource_map' = resources
  /\ stale' = {}

-----------------------------------------------------------------------------
(* update_desired_job_list()                                               *)

UpdateDesiredJobList(jobs) ==
  /\ phase # "solving"
  /\ desired_job_list' = jobs
  /\ run_list' = <<>>
  /\ phase' = "solving"
  /\ solver' = StartSolver(jobs)
  /\ problems' = <<>>
  /\ requested' = jobs
  /\ stale' = stale \cup {"run_list"}
  /\ UNCHANGED <<job_state_map, resource_map>>

\* One step inside DependencySolver.resolve_dependencies().
SolverStep ==
  /\ phase = "solving"
  /\ \/ /\ CanVisitNext(solver)
        /\ solver' = VisitNext(solver)
     \/ /\ CanVisitDependency(solver)
        /\ NextDependency(solver)[2] \in DOMAIN job_state_map
        /\ solver' = VisitDependency(solver, JobMap(job_state_map))
     \/ /\ CanVisitDependency(solver)
        /\ NextDependency(solver)[2] \notin DOMAIN job_state_map
        /\ solver' = RaiseMissing(solver)
     \/ /\ CanFinish(solver)
        /\ solver' = Finish(solver)
  /\ UNCHANGED <<session, phase, problems, requested, stale>>

\* Mutant of RemoveJob: the first job goes, whichever job is affected.
RemoveHead(jobs, job) == Tail(jobs)

\* list.remove(): the first of the elements that are equal to `job'.
RemoveJob(jobs, job) == RemoveFirst(jobs, job)

\* except DependencyError: the affected job was asked for, drop it and retry.
DropAffectedJob ==
  /\ phase = "solving"
  /\ \E e \in solver.raised :
       /\ e.affected \in ToSet(desired_job_list)
       /\ desired_job_list' = RemoveJob(desired_job_list, e.affected)
       /\ problems' = Append(problems, e)
  /\ solver' = StartSolver(desired_job_list')
  /\ UNCHANGED <<job_state_map, run_list, resource_map, phase, requested, stale>>

\* Mutant of RemoveRaises: the ValueError is caught, to try once more.
RetryUnchanged ==
  /\ phase = "solving"
  /\ \E e \in solver.raised : e.affected \notin ToSet(desired_job_list)
  /\ solver' = StartSolver(desired_job_list)
  /\ UNCHANGED <<session, phase, problems, requested, stale>>

\* The same, but the affected job is one that a desired job needs:
\* list.remove() raises ValueError, which leaves update_desired_job_list().
RemoveRaises ==
  /\ phase = "solving"
  /\ \E e \in solver.raised : e.affected \notin ToSet(desired_job_list)
  /\ phase' = "raised"
  /\ solver' = StartSolver(<<>>)
  /\ problems' = <<>>
  /\ requested' = <<>>
  /\ UNCHANGED <<session, stale>>

\* Mutant of UpdateReturns: readiness is not computed again.
ReturnWithoutReadiness ==
  /\ phase = "solving"
  /\ Solved(solver)
  /\ run_list' = solver.solution
  /\ stale' = {}
  /\ phase' = "idle"
  /\ solver' = StartSolver(<<>>)
  /\ problems' = <<>>
  /\ requested' = <<>>
  /\ UNCHANGED <<job_state_map, desired_job_list, resource_map>>

\* The solver returned, or there is nothing left to solve.
UpdateReturns ==
  /\ phase = "solving"
  /\ Solved(solver)
  /\ RecomputeReadiness(job_state_map, solver.solution, resource_map)
  /\ phase' = "idle"
  /\ solver' = StartSolver(<<>>)
  /\ problems' = <<>>
  /\ requested' = <<>>
  /\ UNCHANGED desired_job_list

-----------------------------------------------------------------------------
(* The other methods.                                                      *)

\* What the IO log of a result of a job can hold.
Outputs(job) ==
  CASE job.plugin = "resource" -> ResourceOutputs
    [] job.plugin = "local"    -> LocalOutputs
    [] OTHER                   -> {<<>>}

UpdateJobResult(n, outcome, output) ==
  LET job == job_state_map[n].job
      stored == SetOutcome(job_state_map, n, outcome)
  IN  /\ phase # "solving"
      /\ \/ /\ job.plugin = "resource"
            /\ RecomputeReadiness(stored, run_list,
                                  SetResource(resource_map, n, output))
         \/ /\ job.plugin = "local"
            /\ RecomputeReadiness(AddJobs(stored, output), run_list, resource_map)
         \/ /\ job.plugin \notin {"resource", "local"}
            /\ RecomputeReadiness(stored, run_list, resource_map)
      /\ UNCHANGED <<desired_job_list, call>>

\* A local job printed a record that has no name: from_rfc822_record() raises
\* ValueError after the result was stored and before anything else is done.
UpdateJobResultRaises(n, outcome) ==
  /\ phase # "solving"
  /\ job_state_map[n].job.plugin = "local"
  /\ job_state_map' = SetOutcome(job_state_map, n, outcome)
  /\ stale' = stale \cup {"results"}
  /\ UNCHANGED <<desired_job_list, run_list, resource_map, call>>

\* A job that is new or known already; a clash raises and changes nothing.
AddJob(job) ==
  /\ phase # "solving"
  /\ job.name \in DOMAIN job_state_map => job_state_map[job.name].job = job
  /\ RecomputeReadiness(AddJobs(job_state_map, <<job>>), run_list, resource_map)
  /\ UNCHANGED <<desired_job_list, call>>

SetResourceList(n, records) ==
  /\ phase # "solving"
  /\ resource_map' = SetResource(resource_map, n, records)
  /\ stale' = stale \cup {"resources"}
  /\ UNCHANGED <<job_state_map, desired_job_list, run_list, call>>

-----------------------------------------------------------------------------
JobLists == UNION {[1..k -> KnownJobs] : k \in 0..MaxDesired}

UpdateStep == SolverStep \/ DropAffectedJob \/ RemoveRaises \/ UpdateReturns

Results ==
  \E n \in DOMAIN job_state_map, outcome \in Outcomes :
    \/ \E output \in Outputs(job_state_map[n].job) :
         UpdateJobResult(n, outcome, output)
    \/ UpdateJobResultRaises(n, outcome)

Next ==
  \/ \E jobs \in JobLists : UpdateDesiredJobList(jobs)
  \/ UpdateStep
  \/ Results
  \/ \E job \in JobDefs : AddJob(job)
  \/ \E n \in ResourceNames, records \in ResourceOutputs : SetResourceList(n, records)

\* Inside update_desired_job_list() nothing waits; the rest is the caller's.
Spec == Init /\ [][Next]_vars /\ WF_vars(UpdateStep)

-----------------------------------------------------------------------------
(* Correctness.                                                            *)

Outcome(n) == job_state_map[n].outcome

Ready(n) == CanStart(job_state_map[n])

OnRunList(n) == \E i \in DOMAIN run_list : run_list[i].name = n

RequirementsMet(n) ==
  /\ \A d \in job_state_map[n].job.direct :
       d \in DOMAIN job_state_map /\ Outcome(d) = "pass"
  /\ ProgramHolds(job_state_map[n].job, resource_map)

\* No job can start unless all its direct dependencies have passed and its
\* requirement program holds, whatever results came in and in whichever order,
\* results that override older ones and resources that replace older ones
\* included; also inside, and after a failure of, update_desired_job_list().
ReadyIsSound ==
  stale \subseteq {"run_list"} =>
    \A n \in DOMAIN job_state_map : Ready(n) => RequirementsMet(n)

\* And a job that is on the run list and has its requirements met can start:
\* readiness is neither lost nor left over from an earlier run list.
ReadyIsExact ==
  stale = {} =>
    \A n \in DOMAIN job_state_map :
      Ready(n) <=> OnRunList(n) /\ RequirementsMet(n)

\* "This is basically a superset of desired_job_list and a subset of job_list
\* that is topologically sorted" (session/state.py:181).
RunListIsOrdered == Ordered(run_list)

\* Between calls the run list is what the desired jobs need and nothing else,
\* all of it known: looking up a related job of an inhibitor cannot fail.
RunListIsExact ==
  phase = "idle" =>
    LET needed == NeededBy({desired_job_list[i].name : i \in DOMAIN desired_job_list},
                           JobMap(job_state_map))
    IN  /\ needed \subseteq DOMAIN job_state_map
        /\ ToSet(run_list) = {job_state_map[n].job : n \in needed}

\* Local jobs "cannot replace an existing job with the same name"
\* (session/state.py:384), nor can anything else replace or forget a job.
JobsAreKept ==
  [][\A n \in DOMAIN job_state_map :
       n \in DOMAIN job_state_map' /\ job_state_map'[n].job = job_state_map[n].job]_vars

\* A job is solvable if everything it needs is known and no job it needs
\* needs itself.
Solvable(job) ==
  LET map == JobMap(job_state_map)
      needed == NeededBy({job.name}, map)
  IN  /\ needed \subseteq DOMAIN map
      /\ \A n \in needed : n \notin NeededBy(DependencyNames(map[n]), map)

\* A requested job whose dependencies can be satisfied is never dropped for
\* the problems of others, nor is any of its duplicates in the request.
OnlyUnsolvableDropped ==
  phase = "solving" =>
    \A job \in ToSet(requested) :
      Solvable(job) =>
        Cardinality({i \in DOMAIN desired_job_list : desired_job_list[i] = job})
          = Cardinality({i \in DOMAIN requested : requested[i] = job})

\* A request fails only for what is wrong with the jobs that it asks for: the
\* solver raises nothing once all desired jobs are solvable, so that no job of
\* the database can get in the way of jobs that do not need it.
SolvableJobsAreSolved ==
  (phase = "solving" /\ \A job \in ToSet(desired_job_list) : Solvable(job))
    => solver.raised = {}

\* "Take advantage of the fact that run_list is topologically sorted and do a
\* single O(N) pass" (session/state.py:588), as applications do when they run
\* the list from its start: the first job without a result waits for no
\* other, only for a resource whose provider is no resource job.
FirstUnrunJobDoesNotWait ==
  stale = {} =>
    \A i \in DOMAIN run_list :
      (\A j \in 1..(i - 1) : Outcome(run_list[j].name) # "none") =>
        \A inhibitor \in job_state_map[run_list[i].name].inhibitors :
          inhibitor.cause \in {"PENDING_DEP", "PENDING_RESOURCE"} =>
            /\ inhibitor.cause = "PENDING_RESOURCE"
            /\ job_state_map[inhibitor.related].job.plugin # "resource"

\* "It never fails although it may reduce the actual permitted
\* desired_job_list to an empty list" (session/state.py:292).
UpdateNeverFails == phase # "raised"

\* "Notice the specified test result and update readiness state"
\* (session/state.py:365), so that "the UI can safely use the readiness state
\* of all jobs" (session/state.py:584) after any result.
ResultsUpdateReadiness ==
  "resources" \notin stale =>
    \A n \in DOMAIN job_state_map : Ready(n) => RequirementsMet(n)

\* What the session says of its jobs between calls: the run list is ordered, and
\* the jobs that can start are those on it whose requirements are met.
ReadinessIsTrue == RunListIsOrdered /\ ReadyIsSound /\ ReadyIsExact

\* What update_desired_job_list() makes of a request: the run list is what the
\* desired jobs need, only jobs that cannot be solved are dropped, what can be
\* solved is, and running the list from its start is enough.
UpdateIsFair ==
  /\ RunListIsExact
  /\ OnlyUnsolvableDropped
  /\ SolvableJobsAreSolved
  /\ FirstUnrunJobDoesNotWait

\* Every call of update_desired_job_list() ends: each retry drops a job.
UpdateEnds == (phase = "solving") ~> (phase # "solving")

\* The inductive invariant behind the theorems of SessionProofs: for
\* ReadinessIsTrue ...
ReadyInv ==
  /\ TypeOK
  /\ SolverInv(solver, JobMap(job_state_map))
  /\ phase # "solving" => solver = StartSolver(<<>>) /\ requested = <<>>
  /\ phase = "solving" => "run_list" \in stale
  /\ RunListIsOrdered
  /\ ReadyIsSound
  /\ ReadyIsExact

\* ... and for UpdateIsFair: what the search is about, and what the inhibitors
\* and the resource map still say of the results they came from.
SearchIsForDesired ==
  phase = "solving" =>
    LET map == JobMap(job_state_map)
        names == {desired_job_list[i].name : i \in DOMAIN desired_job_list}
    IN  /\ VisitListKept(solver, desired_job_list)
        /\ ErrorsAreReal(solver, map)
        /\ Within(solver, NeededBy(names, map))

InhibitorsAreCurrent ==
  stale = {} =>
    \A i \in DOMAIN run_list :
      \A inhibitor \in job_state_map[run_list[i].name].inhibitors :
        /\ inhibitor.cause = "PENDING_DEP" =>
             /\ inhibitor.related \in run_list[i].direct
             /\ Outcome(inhibitor.related) = "none"
        /\ inhibitor.cause = "PENDING_RESOURCE" =>
             /\ inhibitor.related \in ResourceDependencies(run_list[i])
             /\ inhibitor.related \notin DOMAIN resource_map

ResultsAreResources ==
  \A n \in DOMAIN job_state_map :
    (job_state_map[n].job.plugin = "resource" /\ Outcome(n) # "none")
      => n \in DOMAIN resource_map

FairInv ==
  /\ SearchIsForDesired
  /\ RunListIsExact
  /\ OnlyUnsolvableDropped
  /\ InhibitorsAreCurrent
  /\ ResultsAreResources

IInv == ReadyInv /\ FairInv
=============================================================================
