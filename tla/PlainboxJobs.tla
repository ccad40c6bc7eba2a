---------------------------- MODULE PlainboxJobs ----------------------------
(***************************************************************************)
(* What the modules of plainbox's core share: job definitions              *)
(* (plainbox/impl/job.py, plainbox/impl/resource.py), the search of the    *)
(* dependency solver among them (plainbox/impl/depmgr.py), and the state   *)
(* of the jobs of a session and their readiness to start                   *)
(* (plainbox/impl/session/jobs.py and state.py).                           *)
(*                                                                         *)
(* A definition is a record.  Two definitions are equal exactly when their *)
(* checksums are, which is how JobDefinition.__eq__ compares them; a       *)
(* database may hold different definitions under one name.  A requirement  *)
(* program is a sequence of expressions, and an expression is the resource *)
(* it names together with the records that make it true (`matches').       *)
(*                                                                         *)
(* The depth-first search is a set of steps over a record that holds all   *)
(* of its state:                                                           *)
(*                                                                         *)
(*   visit     what _solve() has still to visit, of visit_list             *)
(*   stack     the active calls of _visit(), outermost first; each with    *)
(*             the dependencies its for loop has still to look at          *)
(*   color     _job_color_map                                              *)
(*   solution  _solution                                                   *)
(*   raised    the exception that ended the search: {} or a singleton      *)
(*                                                                         *)
(* `map' is _job_map, the function from the known names to definitions.    *)
(* The trail of _visit() is the sequence of jobs on the stack.             *)
(***************************************************************************)
EXTENDS Sequences, SequencesExt, FiniteSets, Integers

CONSTANTS
  Names,      \* job names
  Sorted(_),  \* sorted(): the names of a set in alphabetical order
  Records,    \* the resource records a resource job may print
  JobDefs     \* every job definition that may ever be met

Plugins == {"shell", "manual", "resource", "local"}

Expression == [resource : Names, matches : SUBSET Records]

JobDefinition == [name : Names, plugin : Plugins, direct : SUBSET Names,
                  requires : Seq(Expression)]

ASSUME SortedAssumption ==
  \A S \in SUBSET Names :
    Sorted(S) \in Seq(Names) /\ ToSet(Sorted(S)) = S /\ IsInjective(Sorted(S))

ASSUME JobDefsAssumption == JobDefs \subseteq JobDefinition

-----------------------------------------------------------------------------
(* What a job depends on.                                                  *)

ResourceDependencies(job) ==
  {job.requires[i].resource : i \in DOMAIN job.requires}

DependencyNames(job) == job.direct \cup ResourceDependencies(job)

\* sorted(self._get_dependency_set(job)): pairs (dep_type, job_name), and
\* "direct" sorts before "resource".
SortedDependencies(job) ==
  LET Pairs(type, seq) == [i \in DOMAIN seq |-> <<type, seq[i]>>]
  IN  Pairs("direct", Sorted(job.direct))
        \o Pairs("resource", Sorted(ResourceDependencies(job)))

-----------------------------------------------------------------------------
(* Evaluation of a requirement program against a resource map, a function  *)
(* from the resources that are available to the records known for each.    *)

\* Indices of the expressions that cannot be evaluated.
CannotEvaluate(job, resources) ==
  {i \in DOMAIN job.requires : job.requires[i].resource \notin DOMAIN resources}

\* Indices of the expressions that no record makes true; an expression whose
\* evaluation raises is one that the record does not make true.
Failed(job, resources) ==
  {i \in DOMAIN job.requires \ CannotEvaluate(job, resources) :
     resources[job.requires[i].resource] \cap job.requires[i].matches = {}}

\* evaluate_or_raise() returns True.
ProgramHolds(job, resources) ==
  /\ CannotEvaluate(job, resources) = {}
  /\ Failed(job, resources) = {}

\* The expression that the exception carries: the first of its kind.
FirstExpression(job, indices) ==
  job.requires[CHOOSE i \in indices : \A j \in indices : i <= j]

-----------------------------------------------------------------------------
(* The state of the search.                                                *)

Color == {"white", "gray", "black"}

Frame == [job : JobDefs, deps : Seq({"direct", "resource"} \X Names)]

MissingError(job, name, type) ==
  [kind |-> "missing", affected |-> job, missing |-> name, type |-> type]

CycleError(trail) ==
  [kind |-> "cycle", affected |-> trail[1], trail |-> trail]

StartSolver(visit) ==
  [visit |-> visit, stack |-> <<>>, color |-> [n \in Names |-> "white"],
   solution |-> <<>>, raised |-> {}]

-----------------------------------------------------------------------------
(* _visit(job), by the color of the job.                                   *)

\* Mutant of EnterWhite: the job is complete as soon as it is visited.
EnterWhiteBlack(s, job) ==
  [s EXCEPT !.stack = Append(@, [job |-> job, deps |-> SortedDependencies(job)]),
            !.color = [@ EXCEPT ![job.name] = "black"]]

EnterWhite(s, job) ==
  [visit    |-> s.visit,
   stack    |-> Append(s.stack, [job |-> job, deps |-> SortedDependencies(job)]),
   color    |-> [s.color EXCEPT ![job.name] = "gray"],
   solution |-> s.solution,
   raised   |-> s.raised]

\* Mutant of RaiseCycle: the initial part of the trail is not cut.
RaiseCycleUncut(s, job) ==
  LET trail == Append([i \in DOMAIN s.stack |-> s.stack[i].job], job)
  IN  [s EXCEPT !.raised = {CycleError(trail)}]

RaiseCycle(s, job) ==
  LET trail == Append([i \in DOMAIN s.stack |-> s.stack[i].job], job)
      index == CHOOSE i \in DOMAIN trail :
                 /\ trail[i] = job
                 /\ \A j \in 1..i-1 : trail[j] # job
  IN  [s EXCEPT !.raised = {CycleError(SubSeq(trail, index, Len(trail)))}]

\* Mutant of Visit: a gray job is skipped like a black one.
VisitIgnoringCycles(s, job) ==
  IF s.color[job.name] = "white" THEN EnterWhite(s, job) ELSE s

Visit(s, job) ==
  CASE s.color[job.name] = "white" -> EnterWhite(s, job)
    [] s.color[job.name] = "gray"  -> RaiseCycle(s, job)
    [] s.color[job.name] = "black" -> s

-----------------------------------------------------------------------------
(* The steps of the search.  Each is used only where its guard holds.      *)

Top(s) == s.stack[Len(s.stack)]

NextDependency(s) == Head(Top(s).deps)

\* The for loop of _solve() takes the next job.
CanVisitNext(s) == s.raised = {} /\ s.stack = <<>> /\ s.visit # <<>>

\* Mutant of VisitNext: from the end of the list.
VisitNextFromEnd(s) == Visit([s EXCEPT !.visit = Front(@)], Last(s.visit))

VisitNext(s) == Visit([s EXCEPT !.visit = Tail(@)], Head(s.visit))

\* The for loop of _visit() takes the next dependency ...
CanVisitDependency(s) == s.raised = {} /\ s.stack # <<>> /\ Top(s).deps # <<>>

\* ... which is not a known job ...
RaiseMissing(s) ==
  [s EXCEPT !.raised = {MissingError(Top(s).job, NextDependency(s)[2],
                                     NextDependency(s)[1])}]

\* Mutant of PopDependency: the loop does not move on.
PeekDependency(s) == s

\* ... or is one, and is visited in turn.
PopDependency(s) ==
  [s EXCEPT !.stack = [@ EXCEPT ![Len(@)] = [job |-> Top(s).job,
                                             deps |-> Tail(Top(s).deps)]]]

VisitDependency(s, map) == Visit(PopDependency(s), map[NextDependency(s)[2]])

\* The for loop of _visit() is over: the job goes to the solution.
CanFinish(s) == s.raised = {} /\ s.stack # <<>> /\ Top(s).deps = <<>>

Finish(s) ==
  [visit    |-> s.visit,
   stack    |-> SubSeq(s.stack, 1, Len(s.stack) - 1),
   color    |-> [s.color EXCEPT ![Top(s).job.name] = "black"],
   solution |-> Append(s.solution, Top(s).job),
   raised   |-> s.raised]

-----------------------------------------------------------------------------
\* resolve_dependencies() returned / raised.
Solved(s) == s.raised = {} /\ s.stack = <<>> /\ s.visit = <<>>

SolverStopped(s) == Solved(s) \/ s.raised # {}

-----------------------------------------------------------------------------
(* The inductive invariant of the search, as predicates over its state and *)
(* the map of known jobs, for every module that runs the search.           *)

\* Functions from known names to the definition of that name.
JobMaps ==
  UNION {{m \in [K -> JobDefs] : \A n \in K : m[n].name = n} :
           K \in SUBSET Names}

Known(map) == {map[n] : n \in DOMAIN map}

Problems ==
  [kind : {"missing"}, affected : JobDefs, missing : Names,
   type : {"direct", "resource"}]
  \cup [kind : {"cycle"}, affected : JobDefs, trail : Seq(JobDefs)]

SolverType(s, map) ==
  s \in [visit : Seq(Known(map)),
         stack : Seq([job : Known(map),
                      deps : Seq({"direct", "resource"} \X Names)]),
         color : [Names -> Color],
         solution : Seq(Known(map)),
         raised : SUBSET Problems]

\* A job is black exactly when it is in the solution.
BlackIsSolved(s) ==
  \A n \in Names : s.color[n] = "black" <=>
                     \E i \in DOMAIN s.solution : s.solution[i].name = n

\* A job is gray exactly when a call of _visit() is active for it.
GrayIsActive(s) ==
  \A n \in Names : s.color[n] = "gray" <=>
                     \E k \in DOMAIN s.stack : s.stack[k].job.name = n

\* _visit() is active at most once for a job.
ActiveOnce(s) ==
  \A k, l \in DOMAIN s.stack : s.stack[k].job.name = s.stack[l].job.name => k = l

\* Every active call but the first visits a dependency of the one before it,
\* and none has more to look at than its dependencies.
StackIsPath(s) ==
  \A k \in DOMAIN s.stack :
    /\ k > 1 => s.stack[k].job.name \in DependencyNames(s.stack[k - 1].job)
    /\ \A i \in DOMAIN s.stack[k].deps :
         s.stack[k].deps[i][2] \in DependencyNames(s.stack[k].job)

\* A dependency of an active call is done, still to be looked at, or the very
\* job that the next call visits.
NoDependencySkipped(s) ==
  s.raised = {} =>
    \A k \in DOMAIN s.stack : \A d \in DependencyNames(s.stack[k].job) :
      \/ s.color[d] = "black"
      \/ \E i \in DOMAIN s.stack[k].deps : s.stack[k].deps[i][2] = d
      \/ k < Len(s.stack) /\ s.stack[k + 1].job.name = d

\* The solution is topologically ordered and has no job twice.
Ordered(solution) ==
  \A i \in DOMAIN solution :
    /\ \A j \in DOMAIN solution : solution[i].name = solution[j].name => i = j
    /\ \A d \in DependencyNames(solution[i]) :
         \E j \in 1..(i - 1) : solution[j].name = d

\* The trail of DependencyCycleError is a cycle and nothing but the cycle:
\* every job on it depends on the next, it ends where it began, and in between
\* no job is met twice (the initial part of the trail has been cut).
IsCycle(trail) ==
  /\ Len(trail) > 1
  /\ trail[1] = trail[Len(trail)]
  /\ \A i \in 1..(Len(trail) - 1) :
       /\ trail[i + 1].name \in DependencyNames(trail[i])
       /\ \A j \in 1..(Len(trail) - 1) : trail[i] = trail[j] => i = j

\* What an exception claims is so, and of known jobs.
ErrorsAreReal(s, map) ==
  \A e \in s.raised :
    /\ e.affected \in Known(map)
    /\ IF e.kind = "cycle"
       THEN e.trail \in Seq(Known(map)) /\ IsCycle(e.trail) /\ e.affected = e.trail[1]
       ELSE e.missing \in DependencyNames(e.affected) \ DOMAIN map

SolverInv(s, map) ==
  /\ SolverType(s, map)
  /\ BlackIsSolved(s)
  /\ GrayIsActive(s)
  /\ ActiveOnce(s)
  /\ StackIsPath(s)
  /\ NoDependencySkipped(s)
  /\ Ordered(s.solution)

\* No job of the visit list is forgotten.
VisitListKept(s, visit) ==
  s.raised = {} =>
    \A i \in DOMAIN visit :
      \/ s.color[visit[i].name] # "white"
      \/ \E j \in DOMAIN s.visit : s.visit[j] = visit[i]

-----------------------------------------------------------------------------
(* The names that a set of names needs, directly or not: the least set     *)
(* that holds them and the dependencies of every known job in it.          *)

Closed(S, map) == \A n \in S \cap DOMAIN map : DependencyNames(map[n]) \subseteq S

NeededBy(names, map) ==
  {n \in Names : \A S \in SUBSET Names :
                    (names \subseteq S /\ Closed(S, map)) => n \in S}

\* The search does not leave a set of names.
Within(s, S) ==
  /\ \A i \in DOMAIN s.visit : s.visit[i].name \in S
  /\ \A k \in DOMAIN s.stack : s.stack[k].job.name \in S
  /\ \A i \in DOMAIN s.solution : s.solution[i].name \in S
  /\ \A e \in s.raised : e.affected.name \in S

\* How many jobs of the visit list the for loop of _solve() has taken, and what
\* the first of them need.
Taken(s, visit) == Len(visit) - Len(s.visit)

NeededByFirst(i, visit, map) == NeededBy({visit[k].name : k \in 1..i}, map)

\* The search takes the visit list from its start: what it has taken is done,
\* but for the job it is about, and until a job is done nothing is but what it
\* and the ones before it need.
VisitOrderKept(s, visit, map) ==
  /\ Taken(s, visit) \in Nat
  /\ \A k \in DOMAIN s.visit : s.visit[k] = visit[Taken(s, visit) + k]
  /\ \A i \in DOMAIN visit, l \in DOMAIN s.solution :
       (\A m \in 1..(l - 1) : s.solution[m].name # visit[i].name)
         => s.solution[l].name \in NeededByFirst(i, visit, map)
  /\ s.raised = {} =>
       /\ \A k \in DOMAIN s.stack :
            s.stack[k].job.name \in NeededByFirst(Taken(s, visit), visit, map)
       /\ s.stack # <<>> =>
            Taken(s, visit) > 0 /\ s.stack[1].job = visit[Taken(s, visit)]
       /\ \A i \in 1..Taken(s, visit) :
            \/ s.color[visit[i].name] = "black"
            \/ i = Taken(s, visit) /\ s.stack # <<>>

-----------------------------------------------------------------------------
(* The state of the jobs of a session; `states' is _job_state_map, a       *)
(* function from names to job states.                                      *)

\* IJobResult outcomes as far as a session tells them apart: OUTCOME_NONE,
\* OUTCOME_PASS, and "fail" for every other one (fail, skip, not-supported,
\* not-implemented, undecided).
Outcomes == {"none", "pass", "fail"}

\* JobReadinessInhibitor: a cause and, but for UNDESIRED, the related job.
Undesired == [cause |-> "UNDESIRED"]

Inhibitor ==
  {Undesired}
  \cup [cause : {"PENDING_DEP", "FAILED_DEP", "PENDING_RESOURCE", "FAILED_RESOURCE"},
        related : Names]

JobState ==
  [job : JobDefs, outcome : Outcomes, inhibitors : SUBSET Inhibitor]

\* A function from names to the states of the jobs of these names.
IsJobStateMap(states) ==
  /\ DOMAIN states \subseteq Names
  /\ states \in [DOMAIN states -> JobState]
  /\ \A n \in DOMAIN states : states[n].job.name = n

NewJobState(job) ==
  [job |-> job, outcome |-> "none", inhibitors |-> {Undesired}]

CanStart(state) == state.inhibitors = {}

\* The jobs of a session, as the dependency solver gets them.
JobMap(states) == [n \in DOMAIN states |-> states[n].job]

-----------------------------------------------------------------------------
(* _recompute_job_readiness()                                              *)

ResourceInhibitors(job, resources) ==
  {[cause |-> "PENDING_RESOURCE",
    related |-> FirstExpression(job, I).resource] :
      I \in {CannotEvaluate(job, resources)} \ {{}}}
  \cup
  {[cause |-> "FAILED_RESOURCE",
    related |-> FirstExpression(job, I).resource] :
      I \in {J \in {Failed(job, resources)} \ {{}} :
               CannotEvaluate(job, resources) = {}}}

\* Mutant of DependencyInhibitors: any result of a dependency will do.
DependencyInhibitorsPending(job, states) ==
  {[cause |-> "PENDING_DEP", related |-> d] :
     d \in {n \in job.direct : states[n].outcome = "none"}}

DependencyInhibitors(job, states) ==
  {[cause |-> "PENDING_DEP", related |-> d] :
     d \in {n \in job.direct : states[n].outcome = "none"}}
  \cup
  {[cause |-> "FAILED_DEP", related |-> d] :
     d \in {n \in job.direct : states[n].outcome = "fail"}}

\* Inhibitors of a job are those its place on the run list gives it.
Inhibitors(n, states, run_list, resources) ==
  LET jobs == {run_list[i] : i \in {k \in DOMAIN run_list : run_list[k].name = n}}
  IN  IF jobs = {} THEN {Undesired}
      ELSE UNION {ResourceInhibitors(job, resources)
                    \cup DependencyInhibitors(job, states) : job \in jobs}

Recompute(states, run_list, resources) ==
  [n \in DOMAIN states |->
     [job |-> states[n].job,
      outcome |-> states[n].outcome,
      inhibitors |-> Inhibitors(n, states, run_list, resources)]]

-----------------------------------------------------------------------------
(* Changes of one job state, and new ones.                                 *)

SetOutcome(states, n, outcome) ==
  [m \in DOMAIN states |->
     [job |-> states[m].job,
      outcome |-> IF m = n THEN outcome ELSE states[m].outcome,
      inhibitors |-> states[m].inhibitors]]

\* Mutant of AddJobs: a generated job replaces a known one.
AddJobsReplacing(states, jobs) ==
  LET Generated(n) == {i \in DOMAIN jobs : jobs[i].name = n}
      Other(n) == CHOOSE i \in Generated(n) : TRUE
  IN  [n \in DOMAIN states \cup {jobs[i].name : i \in DOMAIN jobs} |->
         IF Generated(n) = {} THEN states[n] ELSE NewJobState(jobs[Other(n)])]

\* Jobs are added one after the other; one whose name is taken is discarded.
AddJobs(states, jobs) ==
  LET Generated(n) == {i \in DOMAIN jobs : jobs[i].name = n}
      First(n) == CHOOSE i \in Generated(n) : \A j \in Generated(n) : i <= j
  IN  [n \in DOMAIN states \cup {jobs[i].name : i \in DOMAIN jobs} |->
         IF n \in DOMAIN states THEN states[n] ELSE NewJobState(jobs[First(n)])]

\* _resource_map[name] = list: replaces what was known.
SetResource(resources, n, records) ==
  [m \in DOMAIN resources \cup {n} |-> IF m = n THEN records ELSE resources[m]]
=============================================================================
