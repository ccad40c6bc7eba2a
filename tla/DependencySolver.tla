-------------------------- MODULE DependencySolver --------------------------
(***************************************************************************)
(* One call of DependencySolver.resolve_dependencies(job_list, visit_list) *)
(* (plainbox/impl/depmgr.py): any database of known jobs, any sequence of  *)
(* known jobs to visit, and the depth-first search one decision at a time. *)
(***************************************************************************)
EXTENDS PlainboxJobs

CONSTANT MaxVisit   \* bound: the longest visit_list

ASSUME MaxVisitAssumption == MaxVisit \in Nat

VARIABLES
  job_map,     \* _job_map: a function from the known names to definitions
  visit_list,  \* the visit_list argument
  solver       \* the state of the search, see PlainboxJobs

vars == <<job_map, visit_list, solver>>

TypeOK ==
  /\ job_map \in JobMaps
  /\ visit_list \in Seq(Known(job_map))
  /\ SolverType(solver, job_map)

-----------------------------------------------------------------------------
Init ==
  /\ job_map \in JobMaps
  /\ visit_list \in UNION {[1..k -> Known(job_map)] : k \in 0..MaxVisit}
  /\ solver = StartSolver(visit_list)

VisitNextJob ==
  /\ CanVisitNext(solver)
  /\ solver' = VisitNext(solver)
  /\ UNCHANGED <<job_map, visit_list>>

VisitKnownDependency ==
  /\ CanVisitDependency(solver)
  /\ NextDependency(solver)[2] \in DOMAIN job_map
  /\ solver' = VisitDependency(solver, job_map)
  /\ UNCHANGED <<job_map, visit_list>>

FindMissingDependency ==
  /\ CanVisitDependency(solver)
  /\ NextDependency(solver)[2] \notin DOMAIN job_map
  /\ solver' = RaiseMissing(solver)
  /\ UNCHANGED <<job_map, visit_list>>

FinishJob ==
  /\ CanFinish(solver)
  /\ solver' = Finish(solver)
  /\ UNCHANGED <<job_map, visit_list>>

Next ==
  \/ VisitNextJob
  \/ VisitKnownDependency
  \/ FindMissingDependency
  \/ FinishJob

\* The search is a plain sequential call: nothing keeps it from running on.
Spec == Init /\ [][Next]_vars /\ WF_vars(Next)

-----------------------------------------------------------------------------
(* What the search promises.                                               *)

Needed(names) == NeededBy(names, job_map)

Solution == solver.solution

Position(n) == CHOOSE i \in DOMAIN Solution : Solution[i].name = n

InSolution(n) == \E i \in DOMAIN Solution : Solution[i].name = n

\* The solution runs every job after everything it depends on and never twice:
\* _visit() appends a job only once the loop over its dependencies is over.
SolutionIsOrdered == Ordered(Solution)

\* A solution holds every job it was asked for (the for loop of _solve()
\* drops none).
SolutionCoversVisitList ==
  Solved(solver) => \A i \in DOMAIN visit_list : InSolution(visit_list[i].name)

\* A solution is exactly what was asked for and what that needs, all of it
\* known: no job runs that nobody needs.
SolutionIsExact ==
  Solved(solver) =>
    LET needed == Needed({visit_list[i].name : i \in DOMAIN visit_list})
    IN  /\ needed \subseteq DOMAIN job_map
        /\ {Solution[i] : i \in DOMAIN Solution} = {job_map[n] : n \in needed}

\* "the dependency solver algorithm retains as much of the original ordering
\* as possible" (session/state.py:536-537): a job overtakes one that was asked for
\* earlier only when that one, or one asked for before it, needs it.
OrderIsRetained ==
  Solved(solver) =>
    \A i, j \in DOMAIN visit_list :
      (i < j /\ Position(visit_list[j].name) < Position(visit_list[i].name))
        => visit_list[j].name \in Needed({visit_list[k].name : k \in 1..i})

\* An exception tells the truth: the trail of DependencyCycleError is a cycle
\* and nothing but the cycle, and the job that DependencyMissingError blames
\* does depend on a name that no known job has.
ProblemIsReal == ErrorsAreReal(solver, job_map)

\* The job an exception blames is one that was asked for, or that such a job
\* needs: the caller can always make progress by asking for less.
ProblemIsRelevant ==
  \A e \in solver.raised :
    e.affected.name \in Needed({visit_list[i].name : i \in DOMAIN visit_list})

\* A solution is ordered, complete and nothing but what was asked for.
SolutionIsCorrect == SolutionIsOrdered /\ SolutionCoversVisitList /\ SolutionIsExact

\* An exception tells the truth, and about a job that was asked for.
ProblemIsTrue == ProblemIsReal /\ ProblemIsRelevant

\* Every search ends, with a solution or with an exception (no cycle, self
\* loop or diamond of dependencies keeps _visit() recursing).
Terminates == <>SolverStopped(solver)

\* The inductive invariant behind the theorems of DependencySolverProofs.
IInv ==
  /\ TypeOK
  /\ SolverInv(solver, job_map)
  /\ VisitListKept(solver, visit_list)
  /\ VisitOrderKept(solver, visit_list, job_map)
  /\ ErrorsAreReal(solver, job_map)
  /\ Within(solver, Needed({visit_list[i].name : i \in DOMAIN visit_list}))
=============================================================================
