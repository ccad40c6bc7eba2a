----------------------- MODULE DependencySolverProofs -----------------------
(***************************************************************************)
(* What DependencySolver promises, for every database of jobs and every    *)
(* visit list, from the inductive invariant IInv.                          *)
(***************************************************************************)
EXTENDS DependencySolver, DependencySolverLemmas

Asked == {visit_list[i].name : i \in DOMAIN visit_list}

LEMMA InitInvariant == Init => IInv
<1> SUFFICES ASSUME Init
             PROVE  IInv
  OBVIOUS
<1>1. job_map \in JobMaps /\ solver = StartSolver(visit_list)
  BY DEF Init
<1>2. PICK k \in 0..MaxVisit : visit_list \in [1..k -> Known(job_map)]
  BY DEF Init
<1>3. visit_list \in Seq(Known(job_map))
  BY <1>2, MaxVisitAssumption
<1>4. SolverInv(solver, job_map) /\ VisitListKept(solver, visit_list)
  BY <1>1, <1>3, StartInv
<1>5. TypeOK
  BY <1>1, <1>3, <1>4 DEF TypeOK, SolverInv
<1>6. ErrorsAreReal(solver, job_map)
  BY <1>1 DEF ErrorsAreReal, StartSolver
<1>7. Asked \in SUBSET Names
  BY <1>1, <1>3, MapType, DefinitionType DEF Asked
<1>8. Asked \subseteq Needed(Asked)
  BY <1>1, <1>7, NeededIsClosed DEF Needed
<1>9. Within(solver, Needed(Asked))
  <2>1. \A i \in DOMAIN visit_list : visit_list[i].name \in Needed(Asked)
    BY <1>8 DEF Asked
  <2>2. QED
    BY <1>1, <1>3, <2>1, StartWithin
<1>10. VisitOrderKept(solver, visit_list, job_map)
  BY <1>1, <1>3, StartInOrder
<1>11. QED
  BY <1>4, <1>5, <1>6, <1>9, <1>10 DEF IInv, Asked

LEMMA NextInvariant == IInv /\ [Next]_vars => IInv'
<1> SUFFICES ASSUME IInv, [Next]_vars
             PROVE  IInv'
  OBVIOUS
<1> USE DEF IInv
<1>1. /\ job_map \in JobMaps /\ visit_list \in Seq(Known(job_map))
      /\ SolverInv(solver, job_map) /\ VisitListKept(solver, visit_list)
      /\ Within(solver, Needed(Asked)) /\ VisitOrderKept(solver, visit_list, job_map)
  BY DEF TypeOK, Asked
<1>2. Asked \in SUBSET Names
  BY <1>1, MapType, DefinitionType DEF Asked
<1>3. Closed(Needed(Asked), job_map)
  BY <1>1, <1>2, NeededIsClosed DEF Needed
<1>4. ASSUME UNCHANGED <<job_map, visit_list>>,
             SolverInv(solver', job_map), VisitListKept(solver', visit_list),
             VisitOrderKept(solver', visit_list, job_map),
             ErrorsAreReal(solver', job_map), Within(solver', Needed(Asked))
      PROVE  IInv'
  <2>1. Needed(Asked)' = Needed(Asked)
    BY <1>4 DEF Needed, Asked
  <2>2. TypeOK'
    BY <1>1, <1>4 DEF TypeOK, SolverInv
  <2>3. QED
    BY <1>4, <2>1, <2>2 DEF Asked
<1>5. CASE VisitNextJob
  BY <1>1, <1>4, <1>5, VisitNextInv, VisitNextInOrder, VisitNextWithin DEF VisitNextJob
<1>6. CASE VisitKnownDependency
  BY <1>1, <1>3, <1>4, <1>6, VisitDependencyInv, VisitDependencyInOrder,
     VisitDependencyWithin
  DEF VisitKnownDependency
<1>7. CASE FindMissingDependency
  BY <1>1, <1>4, <1>7, RaiseMissingInv, RaiseMissingInOrder, RaiseMissingWithin
  DEF FindMissingDependency
<1>8. CASE FinishJob
  BY <1>1, <1>4, <1>8, FinishInv, FinishInOrder, FinishWithin DEF FinishJob
<1>9. CASE UNCHANGED vars
  BY <1>1, <1>4, <1>9 DEF vars, Asked
<1>10. QED
  BY <1>5, <1>6, <1>7, <1>8, <1>9 DEF Next

\* The invariant holds in every state of every search.
THEOREM InvariantHolds == Spec => []IInv
<1>1. IInv /\ [Next]_vars => IInv'
  BY NextInvariant
<1>2. QED
  BY InitInvariant, <1>1, PTL DEF Spec

\* Type correctness: the search never mixes up known jobs and others.
THEOREM TypeCorrect == Spec => []TypeOK
<1>1. IInv => TypeOK
  BY DEF IInv
<1>2. QED
  BY <1>1, InvariantHolds, PTL

\* _solution is at all times free of repetitions and in topological order.
THEOREM OrderCorrect == Spec => []SolutionIsOrdered
<1>1. IInv => SolutionIsOrdered
  BY DEF IInv, SolverInv, SolutionIsOrdered, Solution
<1>2. QED
  BY <1>1, InvariantHolds, PTL

\* resolve_dependencies() returns every job it was asked for.
THEOREM VisitListCovered == Spec => []SolutionCoversVisitList
<1>1. IInv => SolutionCoversVisitList
  <2>1. SUFFICES ASSUME IInv, Solved(solver), NEW i \in DOMAIN visit_list
                 PROVE  InSolution(visit_list[i].name)
    BY DEF SolutionCoversVisitList
  <2>2. /\ BlackIsSolved(solver) /\ GrayIsActive(solver)
        /\ SolverType(solver, job_map) /\ VisitListKept(solver, visit_list)
        /\ job_map \in JobMaps /\ visit_list \in Seq(Known(job_map))
    BY <2>1 DEF IInv, SolverInv, TypeOK
  <2>3. visit_list[i].name \in Names
    BY <2>1, <2>2, MapType, DefinitionType
  <2>4. solver.color[visit_list[i].name] \notin {"white", "gray"}
    BY <2>1, <2>2, <2>3 DEF Solved, VisitListKept, GrayIsActive
  <2>5. solver.color[visit_list[i].name] \in Color
    BY <2>2, <2>3, SolverFields
  <2>6. solver.color[visit_list[i].name] = "black"
    BY <2>4, <2>5 DEF Color
  <2>7. QED
    BY <2>2, <2>3, <2>6 DEF BlackIsSolved, InSolution, Solution
<1>2. QED
  BY <1>1, InvariantHolds, PTL

\* resolve_dependencies() returns nothing that is not needed, and everything
\* that is.
THEOREM SolutionExact == Spec => []SolutionIsExact
<1>1. IInv => SolutionIsExact
  <2> DEFINE needed == NeededBy({visit_list[i].name : i \in DOMAIN visit_list}, job_map)
  <2>1. SUFFICES ASSUME IInv, Solved(solver)
                 PROVE  /\ needed \subseteq DOMAIN job_map
                        /\ {solver.solution[i] : i \in DOMAIN solver.solution}
                             = {job_map[n] : n \in needed}
    BY DEF SolutionIsExact, Solution, Needed
  <2>2. job_map \in JobMaps /\ visit_list \in Seq(Known(job_map))
    BY <2>1 DEF IInv, TypeOK
  <2>3. /\ SolverInv(solver, job_map) /\ VisitListKept(solver, visit_list)
        /\ Within(solver, needed)
    BY <2>1 DEF IInv, Needed
  <2>4. needed = NeededBy({visit_list[i].name : i \in DOMAIN visit_list}, job_map)
    OBVIOUS
  <2> HIDE DEF needed
  <2>5. QED
    BY <2>1, <2>2, <2>3, <2>4, SolutionIsNeeded
<1>2. QED
  BY <1>1, InvariantHolds, PTL

\* The solution keeps the order of the visit list: a job overtakes an earlier
\* one only when that one, or one before it, needs it.
THEOREM OrderRetained == Spec => []OrderIsRetained
<1>1. IInv /\ SolutionCoversVisitList => OrderIsRetained
  <2> DEFINE n(i) == visit_list[i].name
  <2>1. SUFFICES ASSUME IInv, SolutionCoversVisitList, Solved(solver),
                        NEW i \in DOMAIN visit_list, NEW j \in DOMAIN visit_list,
                        Position(n(j)) < Position(n(i))
                 PROVE  n(j) \in NeededByFirst(i, visit_list, job_map)
    BY DEF OrderIsRetained, NeededByFirst, Needed
  <2>2. InSolution(n(i)) /\ InSolution(n(j))
    BY <2>1 DEF SolutionCoversVisitList
  <2>3. /\ Position(n(i)) \in DOMAIN Solution /\ Solution[Position(n(i))].name = n(i)
        /\ Position(n(j)) \in DOMAIN Solution /\ Solution[Position(n(j))].name = n(j)
    BY <2>2 DEF InSolution, Position
  <2> DEFINE k == Position(n(i))
             l == Position(n(j))
  <2> HIDE DEF k, l
  <2>4. k \in DOMAIN Solution /\ l \in DOMAIN Solution /\ l < k
        /\ Solution[k].name = n(i) /\ Solution[l].name = n(j)
    BY <2>1, <2>3 DEF k, l
  <2>5. Ordered(Solution) /\ Solution \in Seq(Known(job_map))
    BY <2>1, SolverFields DEF IInv, SolverInv, TypeOK, Solution
  <2>6. \A m \in 1..(l - 1) : Solution[m].name # n(i)
    <3>1. \A m \in 1..(l - 1) : m \in DOMAIN Solution /\ m # k
      BY <2>4, <2>5
    <3>2. QED
      BY <2>4, <2>5, <3>1 DEF Ordered
  <2>7. Solution[l].name \in NeededByFirst(i, visit_list, job_map)
    BY <2>1, <2>4, <2>6 DEF IInv, VisitOrderKept, Solution
  <2>8. QED
    BY <2>4, <2>7
<1>2. QED
  BY <1>1, InvariantHolds, VisitListCovered, PTL

\* DependencyCycleError carries a cycle, DependencyMissingError a dependency
\* that no known job satisfies.
THEOREM ProblemsReal == Spec => []ProblemIsReal
<1>1. IInv => ProblemIsReal
  BY DEF IInv, ProblemIsReal
<1>2. QED
  BY <1>1, InvariantHolds, PTL

\* Both blame a job that the visit list needs.
THEOREM ProblemsRelevant == Spec => []ProblemIsRelevant
<1>1. IInv => ProblemIsRelevant
  BY DEF IInv, ProblemIsRelevant, Within
<1>2. QED
  BY <1>1, InvariantHolds, PTL

\* resolve_dependencies() returns what was asked for and what that needs, each
\* job once and in an order in which it can be run.
THEOREM SolutionCorrect == Spec => []SolutionIsCorrect
<1>1. SolutionIsOrdered /\ SolutionCoversVisitList /\ SolutionIsExact => SolutionIsCorrect
  BY DEF SolutionIsCorrect
<1>2. QED
  BY <1>1, OrderCorrect, VisitListCovered, SolutionExact, PTL

\* What resolve_dependencies() raises is so, and concerns what was asked for.
THEOREM ProblemsTrue == Spec => []ProblemIsTrue
<1>1. ProblemIsReal /\ ProblemIsRelevant => ProblemIsTrue
  BY DEF ProblemIsTrue
<1>2. QED
  BY <1>1, ProblemsReal, ProblemsRelevant, PTL
=============================================================================
