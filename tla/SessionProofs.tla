---------------------------- MODULE SessionProofs ----------------------------
(***************************************************************************)
(* What a session promises about its run list and the readiness of its     *)
(* jobs, for every job database and every sequence of calls, from the      *)
(* inductive invariant ReadyInv; and, in the second part, that resume()    *)
(* gives back the session that was suspended, whatever its jobs print and  *)
(* in whichever order it is replayed, from ResumeInv.                      *)
(***************************************************************************)
EXTENDS SessionResume, DependencySolverLemmas, FunctionTheorems, FiniteSetTheorems

-----------------------------------------------------------------------------
(* Every set of indices has a least one.                                   *)

Less == OpToRel(<, Nat)

LEMMA LessIsWellFounded == IsWellFoundedOn(Less, Nat)
BY NatLessThanWellFounded, Zenon DEF Less

LEMMA LessContains == \A i, j \in Nat : i < j => <<i, j>> \in Less
BY Zenon DEF Less, OpToRel

LEMMA Least ==
  ASSUME NEW I \in SUBSET Nat, I # {}
  PROVE  \E i \in I : \A j \in I : i <= j
<1>1. PICK i \in I : \A j \in I : ~(<<j, i>> \in Less)
  BY LessIsWellFounded, WFMin
<1>2. \A j \in I : ~(j < i)
  BY <1>1, LessContains
<1>3. QED
  BY <1>2

LEMMA IndexFacts ==
  ASSUME NEW S, NEW seq \in Seq(S), NEW I \in SUBSET (DOMAIN seq), I # {}
  PROVE  LET i == CHOOSE k \in I : \A j \in I : k <= j
         IN  i \in I /\ i \in DOMAIN seq /\ seq[i] \in S
<1>1. I \in SUBSET Nat
  OBVIOUS
<1>2. \E k \in I : \A j \in I : k <= j
  BY <1>1, Least
<1> DEFINE i == CHOOSE k \in I : \A j \in I : k <= j
<1>3. i \in I
  BY <1>2
<1> HIDE DEF i
<1>4. i \in DOMAIN seq /\ seq[i] \in S
  BY <1>3
<1>5. QED
  BY <1>3, <1>4 DEF i

-----------------------------------------------------------------------------
(* Requirement programs.                                                   *)

\* The expression blamed is one of the program's.
LEMMA FirstExpressionType ==
  ASSUME NEW job \in JobDefs, NEW I \in SUBSET (DOMAIN job.requires), I # {}
  PROVE  FirstExpression(job, I).resource \in Names
<1>1. job.requires \in Seq(Expression)
  BY DefinitionType
<1>2. FirstExpression(job, I) \in Expression
  BY <1>1, IndexFacts DEF FirstExpression
<1>3. QED
  BY <1>2 DEF Expression

\* A job has a resource inhibitor exactly when its program does not hold.
LEMMA ResourceInhibitorsFacts ==
  ASSUME NEW job \in JobDefs, NEW resources
  PROVE  /\ ResourceInhibitors(job, resources) \in SUBSET Inhibitor
         /\ ResourceInhibitors(job, resources) = {} <=> ProgramHolds(job, resources)
<1> DEFINE C == CannotEvaluate(job, resources)
           F == Failed(job, resources)
<1>1. C \in SUBSET (DOMAIN job.requires) /\ F \in SUBSET (DOMAIN job.requires)
  BY DEF CannotEvaluate, Failed
<1> HIDE DEF C, F
<1>2. /\ C # {} => FirstExpression(job, C).resource \in Names
      /\ F # {} => FirstExpression(job, F).resource \in Names
  BY <1>1, FirstExpressionType
<1>3. ResourceInhibitors(job, resources) =
        {[cause |-> "PENDING_RESOURCE",
          related |-> FirstExpression(job, I).resource] : I \in {C} \ {{}}}
        \cup
        {[cause |-> "FAILED_RESOURCE",
          related |-> FirstExpression(job, I).resource] :
            I \in {J \in {F} \ {{}} : C = {}}}
  BY DEF ResourceInhibitors, C, F
<1>4. ProgramHolds(job, resources) <=> C = {} /\ F = {}
  BY DEF ProgramHolds, C, F
<1>5. ResourceInhibitors(job, resources) \in SUBSET Inhibitor
  BY <1>2, <1>3 DEF Inhibitor
<1>6. CASE C # {}
  <2>1. [cause |-> "PENDING_RESOURCE", related |-> FirstExpression(job, C).resource]
          \in ResourceInhibitors(job, resources)
    BY <1>3, <1>6
  <2>2. QED
    BY <1>4, <1>5, <1>6, <2>1
<1>7. CASE C = {} /\ F # {}
  <2>1. [cause |-> "FAILED_RESOURCE", related |-> FirstExpression(job, F).resource]
          \in ResourceInhibitors(job, resources)
    BY <1>3, <1>7
  <2>2. QED
    BY <1>4, <1>5, <1>7, <2>1
<1>8. CASE C = {} /\ F = {}
  BY <1>3, <1>4, <1>5, <1>8
<1>9. QED
  BY <1>6, <1>7, <1>8

-----------------------------------------------------------------------------
(* Job states.                                                             *)

LEMMA StateType ==
  ASSUME NEW states, IsJobStateMap(states), NEW n \in DOMAIN states
  PROVE  /\ n \in Names
         /\ states[n].job \in JobDefs
         /\ states[n].job.name = n
         /\ states[n].outcome \in Outcomes
         /\ states[n].inhibitors \in SUBSET Inhibitor
         /\ states[n] \in JobState
BY DEF IsJobStateMap, JobState

LEMMA JobMapType ==
  ASSUME NEW states, IsJobStateMap(states)
  PROVE  /\ JobMap(states) \in JobMaps
         /\ DOMAIN JobMap(states) = DOMAIN states
         /\ \A n \in DOMAIN states : JobMap(states)[n] = states[n].job
<1> DEFINE K == DOMAIN states
           m == JobMap(states)
<1>1. m = [n \in K |-> states[n].job] /\ K \in SUBSET Names
  BY DEF JobMap, IsJobStateMap
<1>2. \A n \in K : states[n].job \in JobDefs /\ states[n].job.name = n
  BY StateType
<1> HIDE DEF K, m
<1>3. m \in [K -> JobDefs] /\ \A n \in K : m[n].name = n
  BY <1>1, <1>2
<1>4. QED
  BY <1>1, <1>3 DEF JobMaps, K, m

\* Two maps with the same jobs are the same to the solver.
LEMMA SameJobs ==
  ASSUME NEW states, NEW new, DOMAIN new = DOMAIN states,
         \A n \in DOMAIN states : new[n].job = states[n].job
  PROVE  JobMap(new) = JobMap(states)
BY DEF JobMap

LEMMA InhibitorsType ==
  ASSUME NEW states, IsJobStateMap(states),
         NEW list \in Seq(Known(JobMap(states))), NEW resources, NEW n
  PROVE  Inhibitors(n, states, list, resources) \in SUBSET Inhibitor
<1>1. ASSUME NEW i \in DOMAIN list
      PROVE  list[i] \in JobDefs
  <2>1. list[i] \in Known(JobMap(states))
    BY <1>1
  <2>2. QED
    BY <2>1, JobMapType, MapType
<1>2. ASSUME NEW job \in JobDefs
      PROVE  DependencyInhibitors(job, states) \in SUBSET Inhibitor
  BY DefinitionType DEF DependencyInhibitors, Inhibitor
<1>3. QED
  BY <1>1, <1>2, ResourceInhibitorsFacts DEF Inhibitors, Inhibitor

LEMMA RecomputeType ==
  ASSUME NEW states, IsJobStateMap(states),
         NEW list \in Seq(Known(JobMap(states))), NEW resources
  PROVE  LET new == Recompute(states, list, resources)
         IN  /\ IsJobStateMap(new)
             /\ DOMAIN new = DOMAIN states
             /\ \A n \in DOMAIN states :
                  /\ new[n].job = states[n].job
                  /\ new[n].outcome = states[n].outcome
                  /\ new[n].inhibitors = Inhibitors(n, states, list, resources)
             /\ JobMap(new) = JobMap(states)
<1> DEFINE new == Recompute(states, list, resources)
<1>1. /\ DOMAIN new = DOMAIN states
      /\ new = [n \in DOMAIN states |->
                  [job |-> states[n].job, outcome |-> states[n].outcome,
                   inhibitors |-> Inhibitors(n, states, list, resources)]]
  BY DEF Recompute
<1> HIDE DEF new
<1>2. ASSUME NEW n \in DOMAIN states
      PROVE  /\ new[n] \in JobState
             /\ new[n].job = states[n].job
             /\ new[n].outcome = states[n].outcome
             /\ new[n].inhibitors = Inhibitors(n, states, list, resources)
  <2>1. new[n] = [job |-> states[n].job, outcome |-> states[n].outcome,
                  inhibitors |-> Inhibitors(n, states, list, resources)]
    BY <1>1
  <2>2. /\ states[n].job \in JobDefs /\ states[n].outcome \in Outcomes
        /\ Inhibitors(n, states, list, resources) \in SUBSET Inhibitor
    BY StateType, InhibitorsType
  <2>3. QED
    BY <2>1, <2>2 DEF JobState
<1>3. DOMAIN states \subseteq Names /\ \A n \in DOMAIN states : states[n].job.name = n
  BY DEF IsJobStateMap
<1>4. IsJobStateMap(new)
  BY <1>1, <1>2, <1>3 DEF IsJobStateMap
<1>5. JobMap(new) = JobMap(states)
  BY <1>1, <1>2, SameJobs
<1>6. QED
  BY <1>1, <1>2, <1>4, <1>5 DEF new

LEMMA SetOutcomeType ==
  ASSUME NEW states, IsJobStateMap(states), NEW n, NEW outcome \in Outcomes
  PROVE  LET new == SetOutcome(states, n, outcome)
         IN  /\ IsJobStateMap(new)
             /\ DOMAIN new = DOMAIN states
             /\ \A m \in DOMAIN states : new[m].job = states[m].job
             /\ JobMap(new) = JobMap(states)
<1> DEFINE new == SetOutcome(states, n, outcome)
<1>1. /\ DOMAIN new = DOMAIN states
      /\ new = [m \in DOMAIN states |->
                  [job |-> states[m].job,
                   outcome |-> IF m = n THEN outcome ELSE states[m].outcome,
                   inhibitors |-> states[m].inhibitors]]
  BY DEF SetOutcome
<1> HIDE DEF new
<1>2. ASSUME NEW m \in DOMAIN states
      PROVE  new[m] \in JobState /\ new[m].job = states[m].job
  <2>1. new[m] = [job |-> states[m].job,
                  outcome |-> IF m = n THEN outcome ELSE states[m].outcome,
                  inhibitors |-> states[m].inhibitors]
    BY <1>1
  <2>2. /\ states[m].job \in JobDefs /\ states[m].outcome \in Outcomes
        /\ states[m].inhibitors \in SUBSET Inhibitor
    BY StateType
  <2>3. QED
    BY <2>1, <2>2 DEF JobState
<1>3. DOMAIN states \subseteq Names /\ \A m \in DOMAIN states : states[m].job.name = m
  BY DEF IsJobStateMap
<1>4. IsJobStateMap(new)
  BY <1>1, <1>2, <1>3 DEF IsJobStateMap
<1>5. JobMap(new) = JobMap(states)
  BY <1>1, <1>2, SameJobs
<1>6. QED
  BY <1>1, <1>2, <1>4, <1>5 DEF new

\* New jobs join those that are there, and replace none.
LEMMA AddJobsType ==
  ASSUME NEW states, IsJobStateMap(states), NEW jobs \in Seq(JobDefs)
  PROVE  LET new == AddJobs(states, jobs)
         IN  /\ IsJobStateMap(new)
             /\ DOMAIN states \subseteq DOMAIN new
             /\ \A n \in DOMAIN states : new[n] = states[n]
             /\ \A n \in DOMAIN new \ DOMAIN states : new[n].outcome = "none"
             /\ Known(JobMap(states)) \subseteq Known(JobMap(new))
<1> DEFINE new == AddJobs(states, jobs)
           N == DOMAIN states \cup {jobs[i].name : i \in DOMAIN jobs}
           G(n) == {i \in DOMAIN jobs : jobs[i].name = n}
           First(n) == CHOOSE i \in G(n) : \A j \in G(n) : i <= j
<1>1. /\ new = [n \in N |-> IF n \in DOMAIN states THEN states[n]
                            ELSE NewJobState(jobs[First(n)])]
      /\ DOMAIN new = N
  BY DEF AddJobs
<1>2. \A n \in DOMAIN states : n \in N /\ new[n] = states[n]
  BY <1>1
<1>3. N \subseteq Names
  <2>1. \A i \in DOMAIN jobs : jobs[i] \in JobDefs
    OBVIOUS
  <2>2. QED
    BY <2>1, DefinitionType DEF IsJobStateMap
<1> HIDE DEF new
<1>4. ASSUME NEW n \in N \ DOMAIN states
      PROVE  new[n] \in JobState /\ new[n].job.name = n /\ new[n].outcome = "none"
  <2>1. G(n) # {} /\ G(n) \in SUBSET (DOMAIN jobs)
    BY <1>4
  <2>2. First(n) \in G(n) /\ jobs[First(n)] \in JobDefs
    <3> DEFINE I == G(n)
    <3>1. I # {} /\ I \in SUBSET (DOMAIN jobs)
      BY <2>1
    <3> HIDE DEF I
    <3>2. LET i == CHOOSE k \in I : \A j \in I : k <= j
          IN  i \in I /\ i \in DOMAIN jobs /\ jobs[i] \in JobDefs
      BY <3>1, IndexFacts
    <3>3. QED
      BY <3>2 DEF I
  <2>3. new[n] = NewJobState(jobs[First(n)])
    BY <1>1
  <2> HIDE DEF First
  <2>4. new[n] = [job |-> jobs[First(n)], outcome |-> "none", inhibitors |-> {Undesired}]
    BY <2>3 DEF NewJobState
  <2>5. jobs[First(n)].name = n
    BY <2>2
  <2>6. QED
    BY <2>2, <2>4, <2>5 DEF JobState, Outcomes, Inhibitor
<1> HIDE DEF G, First
<1>5. \A n \in N : new[n] \in JobState /\ new[n].job.name = n
  BY <1>2, <1>4, StateType
<1>6. IsJobStateMap(new)
  <2>1. new \in [N -> JobState]
    BY <1>1, <1>5
  <2>2. QED
    BY <1>1, <1>3, <1>5, <2>1 DEF IsJobStateMap
<1>7. Known(JobMap(states)) \subseteq Known(JobMap(new))
  BY <1>1, <1>2 DEF Known, JobMap
<1> HIDE DEF N
<1>8. DOMAIN states \subseteq DOMAIN new
  BY <1>1, <1>2
<1>9. \A n \in DOMAIN new \ DOMAIN states : new[n].outcome = "none"
  BY <1>1, <1>4
<1>10. QED
  BY <1>2, <1>6, <1>7, <1>8, <1>9 DEF new

-----------------------------------------------------------------------------
(* Readiness.                                                              *)

\* The single pass over the run list gets the readiness of every job right,
\* if the run list is ordered.
LEMMA RecomputeIsExact ==
  ASSUME NEW states, IsJobStateMap(states),
         NEW list \in Seq(Known(JobMap(states))), Ordered(list), NEW resources,
         NEW n \in DOMAIN states
  PROVE  Inhibitors(n, states, list, resources) = {}
           <=> /\ \E i \in DOMAIN list : list[i].name = n
               /\ \A d \in states[n].job.direct :
                    d \in DOMAIN states /\ states[d].outcome = "pass"
               /\ ProgramHolds(states[n].job, resources)
<1> DEFINE jobs == {list[i] : i \in {k \in DOMAIN list : list[k].name = n}}
           job == states[n].job
<1>1. /\ job \in JobDefs /\ job.name = n /\ n \in Names
  BY StateType
<1>2. ASSUME NEW i \in DOMAIN list
      PROVE  /\ list[i].name \in DOMAIN states
             /\ list[i] = states[list[i].name].job
  <2>1. list[i] \in Known(JobMap(states))
    OBVIOUS
  <2>2. QED
    BY <2>1, JobMapType, MapType
<1>3. CASE \A i \in DOMAIN list : list[i].name # n
  <2>1. jobs = {}
    BY <1>3
  <2>2. Inhibitors(n, states, list, resources) = {Undesired}
    BY <2>1 DEF Inhibitors
  <2>3. QED
    BY <1>3, <2>2
<1>4. CASE \E i \in DOMAIN list : list[i].name = n
  <2>1. jobs = {job}
    BY <1>2, <1>4
  <2>2. Inhibitors(n, states, list, resources)
          = ResourceInhibitors(job, resources) \cup DependencyInhibitors(job, states)
    <3> HIDE DEF job
    <3>1. QED
      BY <2>1 DEF Inhibitors
  <2>3. PICK i \in DOMAIN list : list[i].name = n
    BY <1>4
  <2>4. ASSUME NEW d \in job.direct
        PROVE  d \in DOMAIN states /\ states[d].outcome \in Outcomes
    <3>1. list[i] = job
      BY <1>2, <2>3
    <3>2. d \in DependencyNames(list[i])
      BY <3>1 DEF DependencyNames
    <3>3. PICK j \in 1..(i - 1) : list[j].name = d
      BY <2>3, <3>2 DEF Ordered
    <3>4. j \in DOMAIN list
      BY <2>3, <3>3
    <3>5. d \in DOMAIN states
      BY <1>2, <3>3, <3>4
    <3>6. QED
      BY <3>5, StateType
  <2>5. DependencyInhibitors(job, states) = {}
          <=> \A d \in job.direct : states[d].outcome = "pass"
    <3> HIDE DEF job
    <3>1. DependencyInhibitors(job, states) = {}
            <=> \A d \in job.direct : states[d].outcome \notin {"none", "fail"}
      BY DEF DependencyInhibitors
    <3>2. QED
      BY <2>4, <3>1 DEF Outcomes
  <2>6. ResourceInhibitors(job, resources) = {} <=> ProgramHolds(job, resources)
    BY <1>1, ResourceInhibitorsFacts
  <2>7. QED
    BY <1>4, <2>2, <2>4, <2>5, <2>6
<1>5. QED
  BY <1>3, <1>4

\* Every method that ends with _recompute_job_readiness() leaves an ordered
\* run list and exact readiness behind.
LEMMA RecomputeReadinessFacts ==
  ASSUME NEW states, IsJobStateMap(states),
         NEW list \in Seq(Known(JobMap(states))), Ordered(list),
         NEW resources, RecomputeReadiness(states, list, resources)
  PROVE  /\ IsJobStateMap(job_state_map')
         /\ JobMap(job_state_map') = JobMap(states)
         /\ RunListIsOrdered' /\ ReadyIsSound' /\ ReadyIsExact'
<1>1. /\ job_state_map' = Recompute(states, list, resources)
      /\ run_list' = list /\ resource_map' = resources /\ stale' = {}
  BY DEF RecomputeReadiness
<1>2. /\ IsJobStateMap(job_state_map')
      /\ DOMAIN job_state_map' = DOMAIN states
      /\ \A n \in DOMAIN states :
           /\ job_state_map'[n].job = states[n].job
           /\ job_state_map'[n].outcome = states[n].outcome
           /\ job_state_map'[n].inhibitors = Inhibitors(n, states, list, resources)
      /\ JobMap(job_state_map') = JobMap(states)
  BY <1>1, RecomputeType
<1>3. RunListIsOrdered'
  BY <1>1 DEF RunListIsOrdered
<1>4. ASSUME NEW n \in DOMAIN states
      PROVE  CanStart(job_state_map'[n])
               <=> /\ \E i \in DOMAIN run_list' : run_list'[i].name = n
                   /\ \A d \in job_state_map'[n].job.direct :
                        d \in DOMAIN job_state_map' /\ job_state_map'[d].outcome = "pass"
                   /\ ProgramHolds(job_state_map'[n].job, resource_map')
  <2>1. Inhibitors(n, states, list, resources) = {}
           <=> /\ \E i \in DOMAIN list : list[i].name = n
               /\ \A d \in states[n].job.direct :
                    d \in DOMAIN states /\ states[d].outcome = "pass"
               /\ ProgramHolds(states[n].job, resources)
    BY RecomputeIsExact
  <2>2. CanStart(job_state_map'[n]) <=> Inhibitors(n, states, list, resources) = {}
    BY <1>2 DEF CanStart
  <2>3. job_state_map'[n].job = states[n].job
    BY <1>2
  <2>4. QED
    BY <1>1, <1>2, <2>1, <2>2, <2>3
<1>5. ReadyIsExact' /\ ReadyIsSound'
  BY <1>2, <1>4
  DEF ReadyIsExact, ReadyIsSound, Ready, OnRunList, RequirementsMet, Outcome
<1>6. QED
  BY <1>2, <1>3, <1>5

\* list.remove() takes one occurrence of the job out and leaves the rest.
LEMMA RemoveJobFacts ==
  ASSUME NEW S, NEW jobs \in Seq(S), NEW job \in ToSet(jobs)
  PROVE  LET new == RemoveJob(jobs, job)
         IN  /\ new \in Seq(S)
             /\ Len(new) = Len(jobs) - 1
             /\ \E k \in 1..Len(jobs) :
                  /\ jobs[k] = job
                  /\ \A i \in 1..Len(new) :
                       new[i] = IF i < k THEN jobs[i] ELSE jobs[i + 1]
<1> DEFINE n == Len(jobs)
           I == {i \in 1..n : jobs[i] = job}
           k == SelectInSeq(jobs, LAMBDA v : v = job)
           new == RemoveJob(jobs, job)
<1>1. n \in Nat /\ DOMAIN jobs = 1..n
  OBVIOUS
<1>2. k \in 1..n /\ jobs[k] = job
  <2>1. I # {} /\ I \in SUBSET Nat
    BY DEF ToSet
  <2>2. \E i \in I : \A j \in I : i <= j
    BY <2>1, Least
  <2>3. k = (CHOOSE x \in I : \A y \in I : x <= y)
    BY <2>1 DEF SelectInSeq, Min
  <2>4. k \in I
    BY <2>2, <2>3
  <2>5. QED
    BY <2>4
<1> DEFINE front == SubSeq(jobs, 1, k - 1)
           back == SubSeq(jobs, k + 1, n)
<1>3. new = front \o back
  <2>1. \E i \in 1..Len(jobs) : jobs[i] = job
    BY DEF ToSet
  <2>2. QED
    BY <2>1 DEF RemoveJob, RemoveFirst, RemoveAt
<1>4. \A i \in 1..n : jobs[i] \in S
  BY <1>1
<1> HIDE DEF k, n, new
<1>5. /\ front \in Seq(S) /\ Len(front) = k - 1
      /\ \A i \in 1..(k - 1) : front[i] = jobs[i]
  <2> DEFINE m == k - 1
  <2>1. /\ 1 \in Int /\ m \in Int /\ 1 <= m + 1 /\ \A i \in 1..m : jobs[i] \in S
        /\ m + 1 - 1 = m /\ \A i \in 1..m : 1 + i - 1 = i
    BY <1>1, <1>2, <1>4
  <2> HIDE DEF m
  <2>2. /\ SubSeq(jobs, 1, m) \in Seq(S)
        /\ Len(SubSeq(jobs, 1, m)) = m + 1 - 1
        /\ \A i \in 1..(m + 1 - 1) : SubSeq(jobs, 1, m)[i] = jobs[1 + i - 1]
    BY <2>1, SubSeqFacts
  <2>3. QED
    BY <2>1, <2>2 DEF m
<1>6. /\ back \in Seq(S) /\ Len(back) = n - k
      /\ \A i \in 1..(n - k) : back[i] = jobs[k + i]
  <2> DEFINE l == k + 1
  <2>1. /\ l \in Int /\ n \in Int /\ l <= n + 1 /\ \A i \in l..n : jobs[i] \in S
        /\ n + 1 - l = n - k /\ \A i \in 1..(n - k) : l + i - 1 = k + i
    BY <1>1, <1>2, <1>4
  <2> HIDE DEF l
  <2>2. /\ SubSeq(jobs, l, n) \in Seq(S)
        /\ Len(SubSeq(jobs, l, n)) = n + 1 - l
        /\ \A i \in 1..(n + 1 - l) : SubSeq(jobs, l, n)[i] = jobs[l + i - 1]
    BY <2>1, SubSeqFacts
  <2>3. QED
    BY <2>1, <2>2 DEF l
<1> HIDE DEF front, back
<1>7. /\ new \in Seq(S) /\ Len(new) = n - 1
      /\ \A i \in 1..(n - 1) : new[i] = IF i <= k - 1 THEN front[i] ELSE back[i - (k - 1)]
  <2>1. Len(front) + Len(back) = n - 1
    BY <1>1, <1>2, <1>5, <1>6
  <2>2. /\ front \o back \in Seq(S)
        /\ Len(front \o back) = Len(front) + Len(back)
        /\ \A i \in 1..(Len(front) + Len(back)) :
             (front \o back)[i] = IF i <= Len(front) THEN front[i]
                                  ELSE back[i - Len(front)]
    BY <1>5, <1>6, ConcatProperties
  <2>3. QED
    BY <1>3, <1>5, <2>1, <2>2
<1>8. ASSUME NEW i \in 1..(n - 1)
      PROVE  new[i] = IF i < k THEN jobs[i] ELSE jobs[i + 1]
  <2>1. CASE i < k
    <3>1. i <= k - 1 /\ i \in 1..(k - 1)
      BY <1>1, <1>2, <2>1
    <3>2. QED
      BY <1>5, <1>7, <2>1, <3>1
  <2>2. CASE ~(i < k)
    <3>1. ~(i <= k - 1) /\ i - (k - 1) \in 1..(n - k) /\ k + (i - (k - 1)) = i + 1
      BY <1>1, <1>2, <2>2
    <3>2. new[i] = back[i - (k - 1)]
      BY <1>7, <3>1
    <3>3. back[i - (k - 1)] = jobs[k + (i - (k - 1))]
      BY <1>6, <3>1
    <3>4. QED
      BY <2>2, <3>1, <3>2, <3>3
  <2>3. QED
    BY <2>1, <2>2
<1>9. QED
  BY <1>2, <1>7, <1>8 DEF n, new

Places(jobs, job) == {i \in DOMAIN jobs : jobs[i] = job}

\* The other jobs are in the list as often as before.
LEMMA RemoveJobKeepsOthers ==
  ASSUME NEW S, NEW jobs \in Seq(S), NEW job \in ToSet(jobs), NEW other, other # job
  PROVE  Cardinality(Places(RemoveJob(jobs, job), other)) = Cardinality(Places(jobs, other))
<1> DEFINE n == Len(jobs)
           new == RemoveJob(jobs, job)
           From == {i \in DOMAIN new : new[i] = other}
           To == {i \in DOMAIN jobs : jobs[i] = other}
<1>1. /\ n \in Nat /\ DOMAIN jobs = 1..n
      /\ Len(new) = n - 1 /\ new \in Seq(S)
      /\ \E k \in 1..n :
           /\ jobs[k] = job
           /\ \A i \in 1..Len(new) : new[i] = IF i < k THEN jobs[i] ELSE jobs[i + 1]
  BY RemoveJobFacts
<1>2. DOMAIN new = 1..(n - 1)
  BY <1>1
<1>3. PICK k \in 1..n :
        /\ jobs[k] = job
        /\ \A i \in 1..(n - 1) : new[i] = IF i < k THEN jobs[i] ELSE jobs[i + 1]
  BY <1>1
<1> HIDE DEF new, n
<1> DEFINE F == [i \in From |-> IF i < k THEN i ELSE i + 1]
<1>4. ASSUME NEW i \in From
      PROVE  F[i] \in To /\ F[i] = IF i < k THEN i ELSE i + 1
  BY <1>1, <1>2, <1>3
<1>5. F \in [From -> To]
  BY <1>4
<1>6. \A i, j \in From : F[i] = F[j] => i = j
  BY <1>1, <1>2, <1>3
<1>7. ASSUME NEW j \in To
      PROVE  \E i \in From : F[i] = j
  <2>1. j \in 1..n /\ jobs[j] = other /\ j # k
    BY <1>1, <1>3
  <2>2. CASE j < k
    <3>1. j \in From
      BY <1>1, <1>2, <1>3, <2>1, <2>2
    <3>2. F[j] = j
      BY <2>2, <3>1
    <3>3. QED
      BY <3>1, <3>2
  <2>3. CASE ~(j < k)
    <3>1. j - 1 \in 1..(n - 1) /\ ~(j - 1 < k) /\ (j - 1) + 1 = j
      BY <1>1, <1>3, <2>1, <2>3
    <3>2. new[j - 1] = jobs[j]
      BY <1>3, <3>1
    <3>3. j - 1 \in From
      BY <1>2, <2>1, <3>1, <3>2
    <3>4. F[j - 1] = j
      BY <3>1, <3>3
    <3>5. QED
      BY <3>3, <3>4
  <2>4. QED
    BY <2>2, <2>3
<1> HIDE DEF F, From, To
<1>8. F \in Bijection(From, To)
  BY <1>5, <1>6, <1>7, Fun_IsBij
<1>9. ExistsBijection(From, To)
  BY <1>8, Fun_ExistsBij
<1>10. IsFiniteSet(From)
  <2>1. n - 1 \in Int /\ 1 \in Int
    BY <1>1
  <2>2. IsFiniteSet(1..(n - 1))
    BY <2>1, FS_Interval
  <2>3. From \in SUBSET (1..(n - 1))
    BY <1>2 DEF From
  <2>4. QED
    BY <2>2, <2>3, FS_Subset
<1>11. Cardinality(To) = Cardinality(From)
  BY <1>9, <1>10, FS_Bijection
<1>12. QED
  BY <1>11 DEF Places, From, To, new

-----------------------------------------------------------------------------
(* The inductive invariant.                                                *)

\* There is no search between calls.
LEMMA NoSearch ==
  ASSUME NEW map \in JobMaps
  PROVE  /\ SolverType(StartSolver(<<>>), map)
         /\ SolverInv(StartSolver(<<>>), map)
         /\ <<>> \in Seq(Known(map))
<1>1. <<>> \in Seq(Known(map))
  OBVIOUS
<1>2. SolverInv(StartSolver(<<>>), map)
  BY <1>1, StartInv
<1>3. QED
  BY <1>1, <1>2 DEF SolverInv

LEMMA InitReady == Init => ReadyInv
<1> SUFFICES ASSUME Init
             PROVE  ReadyInv
  OBVIOUS
<1>1. PICK map \in InitialMaps : job_state_map = [n \in DOMAIN map |-> NewJobState(map[n])]
  BY DEF Init
<1>2. map \in JobMaps
  BY SessionAssumption
<1>3. ASSUME NEW n \in DOMAIN map
      PROVE  /\ job_state_map[n] = [job |-> map[n], outcome |-> "none",
                                    inhibitors |-> {Undesired}]
             /\ job_state_map[n] \in JobState
             /\ job_state_map[n].job.name = n
             /\ ~ Ready(n)
  <2>1. job_state_map[n] = [job |-> map[n], outcome |-> "none", inhibitors |-> {Undesired}]
    BY <1>1 DEF NewJobState
  <2>2. map[n] \in JobDefs /\ map[n].name = n
    BY <1>2, MapType
  <2>3. QED
    BY <2>1, <2>2 DEF JobState, Outcomes, Inhibitor, Ready, CanStart
<1>4. IsJobStateMap(job_state_map)
  <2>1. DOMAIN job_state_map = DOMAIN map /\ DOMAIN map \subseteq Names
    BY <1>1, <1>2, MapType
  <2>2. job_state_map \in [DOMAIN map -> JobState]
    BY <1>1, <1>3
  <2>3. QED
    BY <1>3, <2>1, <2>2 DEF IsJobStateMap
<1>5. JobMap(job_state_map) \in JobMaps
  BY <1>4, JobMapType
<1>6. /\ SolverType(solver, JobMap(job_state_map))
      /\ SolverInv(solver, JobMap(job_state_map))
      /\ <<>> \in Seq(Known(JobMap(job_state_map)))
  BY <1>5, NoSearch DEF Init
<1>7. TypeOK
  <2>1. /\ DOMAIN resource_map \subseteq Names
        /\ resource_map \in [DOMAIN resource_map -> SUBSET Records]
    BY DEF Init
  <2>2. problems \in Seq(Problems)
    BY DEF Init
  <2>3. QED
    BY <1>4, <1>6, <2>1, <2>2 DEF TypeOK, Init, KnownJobs
<1>8. RunListIsOrdered
  BY DEF Init, RunListIsOrdered, Ordered
<1>9. DOMAIN job_state_map = DOMAIN map
  BY <1>1
<1>10. ReadyIsSound /\ ReadyIsExact
  BY <1>3, <1>9 DEF ReadyIsSound, ReadyIsExact, OnRunList, Init
<1>11. QED
  BY <1>6, <1>7, <1>8, <1>10 DEF ReadyInv, Init

\* The calls that recompute readiness at their end and leave the run list.
LEMMA ResultKeepsInvariant ==
  ASSUME ReadyInv, phase # "solving",
         NEW states, IsJobStateMap(states),
         Known(JobMap(job_state_map)) \subseteq Known(JobMap(states)),
         NEW resources, DOMAIN resources \subseteq Names,
         resources \in [DOMAIN resources -> SUBSET Records],
         RecomputeReadiness(states, run_list, resources),
         UNCHANGED <<desired_job_list, call>>
  PROVE  ReadyInv'
<1>1. /\ TypeOK /\ RunListIsOrdered
      /\ solver = StartSolver(<<>>) /\ requested = <<>>
  BY DEF ReadyInv
<1>2. /\ UNCHANGED <<desired_job_list, phase, solver, problems, requested>>
      /\ run_list' = run_list /\ resource_map' = resources /\ stale' = {}
  BY DEF call, RecomputeReadiness
<1>3. /\ run_list \in Seq(Known(JobMap(states))) /\ Ordered(run_list)
      /\ desired_job_list \in Seq(Known(JobMap(states)))
      /\ phase \in {"idle", "solving", "raised"} /\ problems \in Seq(Problems)
  BY <1>1 DEF TypeOK, KnownJobs, RunListIsOrdered
<1>4. /\ IsJobStateMap(job_state_map')
      /\ JobMap(job_state_map') = JobMap(states)
      /\ RunListIsOrdered' /\ ReadyIsSound' /\ ReadyIsExact'
  BY <1>3, RecomputeReadinessFacts
<1>5. /\ SolverType(solver', JobMap(job_state_map'))
      /\ SolverInv(solver', JobMap(job_state_map'))
      /\ <<>> \in Seq(Known(JobMap(job_state_map')))
  BY <1>1, <1>2, <1>4, JobMapType, NoSearch
<1>6. TypeOK'
  BY <1>1, <1>2, <1>3, <1>4, <1>5 DEF TypeOK, KnownJobs
<1>7. QED
  BY <1>1, <1>2, <1>4, <1>5, <1>6 DEF ReadyInv

LEMMA SetResourceType ==
  ASSUME NEW resources, DOMAIN resources \subseteq Names,
         resources \in [DOMAIN resources -> SUBSET Records],
         NEW n \in Names, NEW records \in SUBSET Records
  PROVE  LET new == SetResource(resources, n, records)
         IN  /\ DOMAIN new \subseteq Names
             /\ new \in [DOMAIN new -> SUBSET Records]
BY DEF SetResource

\* The steps inside update_desired_job_list() but its return, and the others
\* that leave readiness to be recomputed later.
LEMMA StaleKeepsInvariant ==
  ASSUME ReadyInv, IsJobStateMap(job_state_map'),
         JobMap(job_state_map') = JobMap(job_state_map),
         desired_job_list' \in Seq(KnownJobs), Ordered(run_list'),
         run_list' \in Seq(KnownJobs), requested' \in Seq(KnownJobs),
         DOMAIN resource_map' \subseteq Names,
         resource_map' \in [DOMAIN resource_map' -> SUBSET Records],
         phase' \in {"idle", "solving", "raised"},
         problems' \in Seq(Problems),
         SolverInv(solver', JobMap(job_state_map)),
         phase' # "solving" => solver' = StartSolver(<<>>) /\ requested' = <<>>,
         phase' = "solving" => "run_list" \in stale',
         stale' \in SUBSET {"run_list", "results", "resources"}, stale' # {},
         stale' \subseteq {"run_list"} =>
           /\ stale \subseteq {"run_list"}
           /\ UNCHANGED <<job_state_map, resource_map>>
  PROVE  ReadyInv'
<1>1. TypeOK'
  <2>1. KnownJobs' = KnownJobs
    BY DEF KnownJobs
  <2>2. SolverType(solver', JobMap(job_state_map'))
    BY DEF SolverInv
  <2>3. QED
    BY <2>1, <2>2 DEF TypeOK
<1>2. ReadyIsSound'
  <2>1. SUFFICES ASSUME stale' \subseteq {"run_list"}
                 PROVE  ReadyIsSound'
    BY DEF ReadyIsSound
  <2>2. stale \subseteq {"run_list"} /\ UNCHANGED <<job_state_map, resource_map>>
    BY <2>1
  <2>3. QED
    BY <2>1, <2>2 DEF ReadyInv, ReadyIsSound, Ready, RequirementsMet, Outcome
<1>3. ReadyIsExact' /\ RunListIsOrdered'
  BY DEF ReadyIsExact, RunListIsOrdered
<1>4. QED
  BY <1>1, <1>2, <1>3 DEF ReadyInv

\* A request for any known jobs.
LEMMA RequestKeepsReady ==
  ASSUME ReadyInv, NEW jobs \in Seq(KnownJobs), UpdateDesiredJobList(jobs)
  PROVE  ReadyInv'
<1>1. /\ IsJobStateMap(job_state_map)
      /\ DOMAIN resource_map \subseteq Names
      /\ resource_map \in [DOMAIN resource_map -> SUBSET Records]
      /\ stale \in SUBSET {"run_list", "results", "resources"}
  BY DEF ReadyInv, TypeOK
<1>2. JobMap(job_state_map) \in JobMaps
  BY <1>1, JobMapType
<1>3. SolverInv(StartSolver(jobs), JobMap(job_state_map))
  BY <1>2, StartInv DEF KnownJobs
<1>4. Ordered(<<>>) /\ <<>> \in Seq(KnownJobs) /\ <<>> \in Seq(Problems)
  BY DEF Ordered
<1>5. QED
  BY <1>1, <1>3, <1>4, StaleKeepsInvariant DEF UpdateDesiredJobList

\* A result whose output is what the plugin of the job can print.
LEMMA ResultKeepsReady ==
  ASSUME ReadyInv, NEW n \in DOMAIN job_state_map, NEW outcome \in Outcomes, NEW output,
         job_state_map[n].job.plugin = "resource" => output \in SUBSET Records,
         job_state_map[n].job.plugin = "local" => output \in Seq(JobDefs),
         UpdateJobResult(n, outcome, output)
  PROVE  ReadyInv'
<1> DEFINE job == job_state_map[n].job
           stored == SetOutcome(job_state_map, n, outcome)
<1>1. /\ IsJobStateMap(job_state_map)
      /\ DOMAIN resource_map \subseteq Names
      /\ resource_map \in [DOMAIN resource_map -> SUBSET Records]
  BY DEF ReadyInv, TypeOK
<1>2. IsJobStateMap(stored) /\ JobMap(stored) = JobMap(job_state_map)
  BY <1>1, SetOutcomeType
<1>3. phase # "solving" /\ UNCHANGED <<desired_job_list, call>> /\ n \in Names
  BY <1>1, StateType DEF UpdateJobResult
<1> HIDE DEF stored
<1>4. CASE /\ job.plugin = "resource"
           /\ RecomputeReadiness(stored, run_list, SetResource(resource_map, n, output))
  <2> DEFINE new == SetResource(resource_map, n, output)
  <2>1. DOMAIN new \subseteq Names /\ new \in [DOMAIN new -> SUBSET Records]
    BY <1>1, <1>3, <1>4, SetResourceType
  <2> HIDE DEF new
  <2>2. RecomputeReadiness(stored, run_list, new)
    BY <1>4 DEF new
  <2>3. QED
    BY <1>2, <1>3, <2>1, <2>2, ResultKeepsInvariant
<1>5. CASE /\ job.plugin = "local"
           /\ RecomputeReadiness(AddJobs(stored, output), run_list, resource_map)
  <2> DEFINE new == AddJobs(stored, output)
  <2>1. IsJobStateMap(new) /\ Known(JobMap(stored)) \subseteq Known(JobMap(new))
    BY <1>2, <1>5, AddJobsType
  <2> HIDE DEF new
  <2>2. RecomputeReadiness(new, run_list, resource_map)
    BY <1>5 DEF new
  <2>3. QED
    BY <1>1, <1>2, <1>3, <2>1, <2>2, ResultKeepsInvariant
<1>6. CASE RecomputeReadiness(stored, run_list, resource_map)
  BY <1>1, <1>2, <1>3, <1>6, ResultKeepsInvariant
<1>7. QED
  BY <1>4, <1>5, <1>6 DEF UpdateJobResult, stored

LEMMA NextReady == ReadyInv /\ [Next]_vars => ReadyInv'
<1> SUFFICES ASSUME ReadyInv, [Next]_vars
             PROVE  ReadyInv'
  OBVIOUS
<1> DEFINE map == JobMap(job_state_map)
<1>1. /\ IsJobStateMap(job_state_map)
      /\ desired_job_list \in Seq(KnownJobs) /\ run_list \in Seq(KnownJobs)
      /\ requested \in Seq(KnownJobs)
      /\ DOMAIN resource_map \subseteq Names
      /\ resource_map \in [DOMAIN resource_map -> SUBSET Records]
      /\ phase \in {"idle", "solving", "raised"}
      /\ problems \in Seq(Problems)
      /\ stale \in SUBSET {"run_list", "results", "resources"}
      /\ SolverInv(solver, map) /\ SolverType(solver, map)
      /\ phase # "solving" => solver = StartSolver(<<>>) /\ requested = <<>>
      /\ phase = "solving" => "run_list" \in stale
      /\ Ordered(run_list)
  BY DEF ReadyInv, TypeOK, RunListIsOrdered
<1>2. map \in JobMaps /\ DOMAIN map = DOMAIN job_state_map
  BY <1>1, JobMapType
<1>3. SolverInv(StartSolver(<<>>), map) /\ <<>> \in Seq(KnownJobs)
  BY <1>2, NoSearch DEF KnownJobs
<1> HIDE DEF map
<1>4. ASSUME NEW jobs \in JobLists, UpdateDesiredJobList(jobs)
      PROVE  ReadyInv'
  <2>1. PICK k \in 0..MaxDesired : jobs \in [1..k -> KnownJobs]
    BY DEF JobLists
  <2>2. jobs \in Seq(KnownJobs)
    BY <2>1, SessionAssumption
  <2>3. QED
    BY <1>4, <2>2, RequestKeepsReady
<1>5. CASE SolverStep
  <2>1. SolverInv(solver', map)
    <3>1. CASE CanVisitNext(solver) /\ solver' = VisitNext(solver)
      BY <1>1, <1>2, <3>1, VisitNextInv
    <3>2. CASE /\ CanVisitDependency(solver)
               /\ NextDependency(solver)[2] \in DOMAIN map
               /\ solver' = VisitDependency(solver, map)
      BY <1>1, <1>2, <3>2, VisitDependencyInv
    <3>3. CASE /\ CanVisitDependency(solver)
               /\ NextDependency(solver)[2] \notin DOMAIN map
               /\ solver' = RaiseMissing(solver)
      BY <1>1, <1>2, <3>3, RaiseMissingInv
    <3>4. CASE CanFinish(solver) /\ solver' = Finish(solver)
      BY <1>1, <1>2, <3>4, FinishInv
    <3>5. QED
      BY <1>2, <1>5, <3>1, <3>2, <3>3, <3>4 DEF SolverStep, map
  <2>2. /\ UNCHANGED <<job_state_map, desired_job_list, run_list, resource_map,
                       phase, problems, requested, stale>>
        /\ phase = "solving"
    BY <1>5 DEF SolverStep, session
  <2>3. QED
    BY <1>1, <2>1, <2>2, StaleKeepsInvariant DEF map
<1>6. CASE DropAffectedJob
  <2>1. PICK e \in solver.raised :
          /\ e.affected \in ToSet(desired_job_list)
          /\ desired_job_list' = RemoveJob(desired_job_list, e.affected)
          /\ problems' = Append(problems, e)
    BY <1>6 DEF DropAffectedJob
  <2>2. e \in Problems
    BY <1>1, <2>1, SolverFields
  <2>3. desired_job_list' \in Seq(KnownJobs) /\ problems' \in Seq(Problems)
    BY <1>1, <2>1, <2>2, RemoveJobFacts, AppendFacts
  <2>4. SolverInv(StartSolver(desired_job_list'), map)
    BY <1>2, <2>3, StartInv DEF KnownJobs, map
  <2>5. /\ UNCHANGED <<job_state_map, run_list, resource_map, phase, requested, stale>>
        /\ solver' = StartSolver(desired_job_list')
        /\ phase = "solving"
    BY <1>6 DEF DropAffectedJob
  <2>6. QED
    BY <1>1, <2>3, <2>4, <2>5, StaleKeepsInvariant DEF map
<1>7. CASE RemoveRaises
  <2>1. /\ UNCHANGED <<job_state_map, desired_job_list, run_list, resource_map, stale>>
        /\ phase = "solving" /\ phase' = "raised"
        /\ solver' = StartSolver(<<>>) /\ problems' = <<>> /\ requested' = <<>>
    BY <1>7 DEF RemoveRaises, session
  <2>2. <<>> \in Seq(Problems)
    OBVIOUS
  <2>3. QED
    BY <1>1, <1>3, <2>1, <2>2, StaleKeepsInvariant DEF map
<1>8. CASE UpdateReturns
  <2>1. /\ RecomputeReadiness(job_state_map, solver.solution, resource_map)
        /\ phase' = "idle" /\ solver' = StartSolver(<<>>)
        /\ problems' = <<>> /\ requested' = <<>>
        /\ UNCHANGED desired_job_list
    BY <1>8 DEF UpdateReturns
  <2>2. solver.solution \in Seq(Known(JobMap(job_state_map))) /\ Ordered(solver.solution)
    BY <1>1, SolverFields DEF SolverInv, map
  <2>3. /\ IsJobStateMap(job_state_map')
        /\ JobMap(job_state_map') = map
        /\ RunListIsOrdered' /\ ReadyIsSound' /\ ReadyIsExact'
    BY <1>1, <2>1, <2>2, RecomputeReadinessFacts DEF map
  <2>4. run_list' = solver.solution /\ resource_map' = resource_map /\ stale' = {}
    BY <2>1 DEF RecomputeReadiness
  <2>5. KnownJobs' = KnownJobs
    BY <2>3 DEF KnownJobs, map
  <2>6. SolverType(solver', map) /\ SolverInv(solver', map)
    BY <1>2, <2>1, NoSearch
  <2>7. TypeOK'
    BY <1>1, <1>3, <2>1, <2>2, <2>3, <2>4, <2>5, <2>6 DEF TypeOK, KnownJobs, map
  <2>8. QED
    BY <2>1, <2>3, <2>6, <2>7 DEF ReadyInv, map
<1>9. ASSUME NEW n \in DOMAIN job_state_map, NEW outcome \in Outcomes,
             NEW output \in Outputs(job_state_map[n].job),
             UpdateJobResult(n, outcome, output)
      PROVE  ReadyInv'
  <2>1. /\ job_state_map[n].job.plugin = "resource" => output \in SUBSET Records
        /\ job_state_map[n].job.plugin = "local" => output \in Seq(JobDefs)
    BY <1>9, SessionAssumption DEF Outputs
  <2>2. QED
    BY <1>9, <2>1, ResultKeepsReady
<1>10. ASSUME NEW n \in DOMAIN job_state_map, NEW outcome \in Outcomes,
              UpdateJobResultRaises(n, outcome)
       PROVE  ReadyInv'
  <2>1. /\ job_state_map' = SetOutcome(job_state_map, n, outcome)
        /\ stale' = stale \cup {"results"} /\ phase # "solving"
        /\ UNCHANGED <<desired_job_list, run_list, resource_map,
                       phase, solver, problems, requested>>
    BY <1>10 DEF UpdateJobResultRaises, call
  <2>2. IsJobStateMap(job_state_map') /\ JobMap(job_state_map') = map
    BY <1>1, <2>1, SetOutcomeType DEF map
  <2>3. ~(stale' \subseteq {"run_list"}) /\ stale' # {}
        /\ stale' \in SUBSET {"run_list", "results", "resources"}
    BY <1>1, <2>1
  <2>4. QED
    BY <1>1, <2>1, <2>2, <2>3, StaleKeepsInvariant DEF map
<1>11. ASSUME NEW job \in JobDefs, AddJob(job)
       PROVE  ReadyInv'
  <2> DEFINE new == AddJobs(job_state_map, <<job>>)
  <2>1. IsJobStateMap(new) /\ Known(JobMap(job_state_map)) \subseteq Known(JobMap(new))
    <3>1. <<job>> \in Seq(JobDefs)
      OBVIOUS
    <3>2. QED
      BY <1>1, <3>1, AddJobsType
  <2>2. /\ phase # "solving" /\ UNCHANGED <<desired_job_list, call>>
        /\ RecomputeReadiness(new, run_list, resource_map)
    BY <1>11 DEF AddJob
  <2> HIDE DEF new
  <2>3. QED
    BY <1>1, <2>1, <2>2, ResultKeepsInvariant
<1>12. ASSUME NEW n \in ResourceNames, NEW records \in ResourceOutputs,
              SetResourceList(n, records)
       PROVE  ReadyInv'
  <2>1. /\ resource_map' = SetResource(resource_map, n, records)
        /\ stale' = stale \cup {"resources"} /\ phase # "solving"
        /\ UNCHANGED <<job_state_map, desired_job_list, run_list,
                       phase, solver, problems, requested>>
    BY <1>12 DEF SetResourceList, call
  <2>2. /\ DOMAIN resource_map' \subseteq Names
        /\ resource_map' \in [DOMAIN resource_map' -> SUBSET Records]
    BY <1>1, <2>1, SessionAssumption, SetResourceType
  <2>3. ~(stale' \subseteq {"run_list"}) /\ stale' # {}
        /\ stale' \in SUBSET {"run_list", "results", "resources"}
    BY <1>1, <2>1
  <2>4. QED
    BY <1>1, <2>1, <2>2, <2>3, StaleKeepsInvariant DEF map
<1>13. CASE UNCHANGED vars
  <2>1. UNCHANGED <<job_state_map, desired_job_list, run_list, resource_map,
                    phase, solver, problems, requested, stale>>
    BY <1>13 DEF vars, session, call
  <2>2. TypeOK' /\ RunListIsOrdered' /\ ReadyIsSound' /\ ReadyIsExact'
    BY <2>1 DEF ReadyInv, TypeOK, KnownJobs, RunListIsOrdered, ReadyIsSound, ReadyIsExact,
                Ready, OnRunList, RequirementsMet, Outcome
  <2>3. QED
    BY <2>1, <2>2 DEF ReadyInv
<1>14. QED
  BY <1>4, <1>5, <1>6, <1>7, <1>8, <1>9, <1>10, <1>11, <1>12, <1>13
  DEF Next, UpdateStep, Results

-----------------------------------------------------------------------------
(* What an exception of the solver says of the job it blames.              *)

\* Whoever needs the job that an exception blames cannot be solved.
LEMMA ErrorIsUnsolvable ==
  ASSUME NEW map \in JobMaps, NEW s, SolverType(s, map), ErrorsAreReal(s, map),
         NEW e \in s.raised, NEW name \in Names,
         e.affected.name \in NeededBy({name}, map),
         NeededBy({name}, map) \subseteq DOMAIN map
  PROVE  \E n \in NeededBy({name}, map) : n \in NeededBy(DependencyNames(map[n]), map)
<1> DEFINE needed == NeededBy({name}, map)
           n == e.affected.name
<1>1. /\ e.affected \in Known(map)
      /\ IF e.kind = "cycle"
         THEN e.trail \in Seq(Known(map)) /\ IsCycle(e.trail) /\ e.affected = e.trail[1]
         ELSE e.missing \in DependencyNames(e.affected) \ DOMAIN map
  BY DEF ErrorsAreReal
<1>2. n \in DOMAIN map /\ map[n] = e.affected /\ n \in needed
  BY <1>1, MapType
<1>3. Closed(needed, map)
  <2>1. {name} \in SUBSET Names
    OBVIOUS
  <2>2. QED
    BY <2>1, NeededIsClosed
<1>4. e.kind = "cycle"
  BY <1>1, <1>2, <1>3 DEF Closed
<1> DEFINE trail == e.trail
           m == Len(trail)
<1>5. /\ trail \in Seq(Known(map)) /\ IsCycle(trail) /\ trail[1] = e.affected
  BY <1>1, <1>4
<1> HIDE DEF trail, needed, n
<1>6. m \in Nat /\ m > 1 /\ trail[1] = trail[m] /\ DOMAIN trail = 1..m
  BY <1>5 DEF IsCycle
<1>7. \A i \in 1..m : /\ trail[i] \in Known(map)
                      /\ trail[i].name \in DOMAIN map
                      /\ map[trail[i].name] = trail[i]
  BY <1>5, <1>6, MapType
<1>8. \A i \in 1..(m - 1) : trail[i + 1].name \in DependencyNames(trail[i])
  BY <1>5 DEF IsCycle
<1> HIDE DEF m
<1>9. ASSUME NEW S \in SUBSET Names, DependencyNames(map[n]) \subseteq S, Closed(S, map)
      PROVE  n \in S
  <2> DEFINE I == {i \in 2..m : trail[i].name \notin S}
  <2>1. SUFFICES ASSUME I # {}
                 PROVE  FALSE
    <3>1. m \in 2..m
      BY <1>6
    <3>2. trail[m].name = n
      BY <1>5, <1>6 DEF n
    <3>3. QED
      BY <3>1, <3>2
  <2>2. I \in SUBSET Nat
    BY <1>6
  <2>3. PICK i \in I : \A j \in I : i <= j
    BY <2>1, <2>2, Least
  <2>4. i \in 2..m /\ trail[i].name \notin S
    BY <2>3
  <2>5. i - 1 \in 1..(m - 1) /\ (i - 1) + 1 = i /\ i - 1 \in 1..m /\ ~(i <= i - 1)
    BY <1>6, <2>4
  <2>6. trail[i].name \in DependencyNames(trail[i - 1])
    BY <1>8, <2>5
  <2>7. CASE i = 2
    <3>1. trail[i - 1] = map[n]
      BY <1>2, <1>5, <2>7
    <3>2. QED
      BY <1>9, <2>4, <2>6, <3>1
  <2>8. CASE i # 2
    <3>1. i - 1 \in 2..m
      BY <1>6, <2>4, <2>8
    <3>2. trail[i - 1].name \in S
      BY <2>3, <2>5, <3>1
    <3>3. DependencyNames(trail[i - 1]) \subseteq S
      BY <1>7, <1>9, <2>5, <3>2 DEF Closed
    <3>4. QED
      BY <2>4, <2>6, <3>3
  <2>9. QED
    BY <2>7, <2>8
<1>10. n \in Names
  BY <1>2, MapType
<1>11. n \in NeededBy(DependencyNames(map[n]), map)
  BY <1>9, <1>10 DEF NeededBy
<1>12. QED
  BY <1>2, <1>11 DEF needed

-----------------------------------------------------------------------------
(* Inhibitors say what they say of the results they were computed from.    *)

LEMMA FirstExpressionFacts ==
  ASSUME NEW job \in JobDefs, NEW I \in SUBSET (DOMAIN job.requires), I # {}
  PROVE  \E i \in I : FirstExpression(job, I) = job.requires[i]
<1>1. job.requires \in Seq(Expression)
  BY DefinitionType
<1> DEFINE i == CHOOSE k \in I : \A j \in I : k <= j
<1>2. i \in I
  BY <1>1, IndexFacts
<1>3. FirstExpression(job, I) = job.requires[i]
  BY DEF FirstExpression
<1>4. QED
  BY <1>2, <1>3

\* What the two kinds of "pending" mean for a job of the run list.
LEMMA PendingFacts ==
  ASSUME NEW states, IsJobStateMap(states),
         NEW list \in Seq(Known(JobMap(states))), NEW resources,
         NEW i \in DOMAIN list,
         NEW inhibitor \in Inhibitors(list[i].name, states, list, resources)
  PROVE  /\ inhibitor.cause = "PENDING_DEP" =>
              /\ inhibitor.related \in list[i].direct
              /\ states[inhibitor.related].outcome = "none"
         /\ inhibitor.cause = "PENDING_RESOURCE" =>
              /\ inhibitor.related \in ResourceDependencies(list[i])
              /\ inhibitor.related \notin DOMAIN resources
<1> DEFINE n == list[i].name
           job == list[i]
           jobs == {list[k] : k \in {l \in DOMAIN list : list[l].name = n}}
<1>1. ASSUME NEW k \in DOMAIN list
      PROVE  list[k] \in JobDefs /\ list[k] = states[list[k].name].job
  <2>1. list[k] \in Known(JobMap(states))
    OBVIOUS
  <2>2. QED
    BY <2>1, JobMapType, MapType
<1>2. jobs = {job}
  BY <1>1
<1>3. Inhibitors(n, states, list, resources)
        = ResourceInhibitors(job, resources) \cup DependencyInhibitors(job, states)
  <2> HIDE DEF job
  <2>1. QED
    BY <1>2 DEF Inhibitors
<1>4. job \in JobDefs
  BY <1>1
<1> HIDE DEF job, n
<1>5. CASE inhibitor \in DependencyInhibitors(job, states)
  BY <1>5 DEF DependencyInhibitors, job
<1>6. CASE inhibitor \in ResourceInhibitors(job, resources)
  <2> DEFINE C == CannotEvaluate(job, resources)
             F == Failed(job, resources)
  <2>1. C \in SUBSET (DOMAIN job.requires)
    BY DEF CannotEvaluate
  <2>2. \/ C # {} /\ inhibitor = [cause |-> "PENDING_RESOURCE",
                                  related |-> FirstExpression(job, C).resource]
        \/ inhibitor.cause = "FAILED_RESOURCE"
    <3> HIDE DEF C, F
    <3>1. ResourceInhibitors(job, resources) =
            {[cause |-> "PENDING_RESOURCE",
              related |-> FirstExpression(job, I).resource] : I \in {C} \ {{}}}
            \cup
            {[cause |-> "FAILED_RESOURCE",
              related |-> FirstExpression(job, I).resource] :
                I \in {J \in {F} \ {{}} : C = {}}}
      BY DEF ResourceInhibitors, C, F
    <3>2. QED
      BY <1>6, <3>1
  <2>3. CASE inhibitor.cause = "FAILED_RESOURCE"
    BY <2>3
  <2>4. CASE C # {} /\ inhibitor = [cause |-> "PENDING_RESOURCE",
                                    related |-> FirstExpression(job, C).resource]
    <3>1. PICK k \in C : FirstExpression(job, C) = job.requires[k]
      BY <1>4, <2>1, <2>4, FirstExpressionFacts
    <3>2. inhibitor.cause = "PENDING_RESOURCE" /\ inhibitor.related = job.requires[k].resource
      BY <2>4, <3>1
    <3>3. /\ job.requires[k].resource \in ResourceDependencies(job)
          /\ job.requires[k].resource \notin DOMAIN resources
      BY <3>1 DEF CannotEvaluate, ResourceDependencies
    <3>4. QED
      BY <3>2, <3>3 DEF job
  <2>5. QED
    BY <2>2, <2>3, <2>4
<1>7. QED
  BY <1>3, <1>5, <1>6 DEF n

LEMMA RecomputeIsCurrent ==
  ASSUME NEW states, IsJobStateMap(states),
         NEW list \in Seq(Known(JobMap(states))), Ordered(list),
         NEW resources, RecomputeReadiness(states, list, resources)
  PROVE  InhibitorsAreCurrent'
<1>1. /\ job_state_map' = Recompute(states, list, resources)
      /\ run_list' = list /\ resource_map' = resources
  BY DEF RecomputeReadiness
<1>2. /\ DOMAIN job_state_map' = DOMAIN states
      /\ \A n \in DOMAIN states :
           /\ job_state_map'[n].outcome = states[n].outcome
           /\ job_state_map'[n].inhibitors = Inhibitors(n, states, list, resources)
  BY <1>1, RecomputeType
<1>3. ASSUME NEW i \in DOMAIN list
      PROVE  list[i].name \in DOMAIN states
  <2>1. list[i] \in Known(JobMap(states))
    OBVIOUS
  <2>2. QED
    BY <2>1, JobMapType, MapType
<1>4. ASSUME NEW i \in DOMAIN list, NEW d \in list[i].direct
      PROVE  d \in DOMAIN states
  <2>1. PICK j \in 1..(i - 1) : list[j].name = d
    BY DEF Ordered, DependencyNames
  <2>2. j \in DOMAIN list
    BY <2>1
  <2>3. QED
    BY <1>3, <2>1, <2>2
<1>5. ASSUME NEW i \in DOMAIN list,
             NEW inhibitor \in job_state_map'[list[i].name].inhibitors
      PROVE  /\ inhibitor.cause = "PENDING_DEP" =>
                  /\ inhibitor.related \in list[i].direct
                  /\ job_state_map'[inhibitor.related].outcome = "none"
             /\ inhibitor.cause = "PENDING_RESOURCE" =>
                  /\ inhibitor.related \in ResourceDependencies(list[i])
                  /\ inhibitor.related \notin DOMAIN resources
  <2>1. inhibitor \in Inhibitors(list[i].name, states, list, resources)
    BY <1>2, <1>3, <1>5
  <2>2. /\ inhibitor.cause = "PENDING_DEP" =>
             /\ inhibitor.related \in list[i].direct
             /\ states[inhibitor.related].outcome = "none"
        /\ inhibitor.cause = "PENDING_RESOURCE" =>
             /\ inhibitor.related \in ResourceDependencies(list[i])
             /\ inhibitor.related \notin DOMAIN resources
    BY <2>1, PendingFacts
  <2>3. QED
    BY <1>2, <1>4, <2>2
<1>6. QED
  BY <1>1, <1>5 DEF InhibitorsAreCurrent, Outcome

-----------------------------------------------------------------------------
(* The invariant for UpdateIsFair.                                         *)

NamesOf(jobs) == {jobs[i].name : i \in DOMAIN jobs}

LEMMA NamesType ==
  ASSUME NEW map \in JobMaps, NEW jobs \in Seq(Known(map))
  PROVE  NamesOf(jobs) \in SUBSET Names
BY MapType DEF NamesOf

LEMMA InitFair == Init => FairInv
<1> SUFFICES ASSUME Init
             PROVE  FairInv
  OBVIOUS
<1>1. SearchIsForDesired /\ OnlyUnsolvableDropped
  BY DEF Init, SearchIsForDesired, OnlyUnsolvableDropped
<1>2. RunListIsExact
  <2> DEFINE map == JobMap(job_state_map)
  <2>1. {desired_job_list[i].name : i \in DOMAIN desired_job_list} = {}
    BY DEF Init
  <2>2. {} \in SUBSET Names /\ Closed({}, map)
    BY DEF Closed
  <2> HIDE DEF map
  <2>3. NeededBy({}, map) = {}
    BY <2>2, NeededIsLeast
  <2>4. ToSet(run_list) = {}
    BY DEF Init, ToSet
  <2>5. QED
    BY <2>1, <2>3, <2>4 DEF RunListIsExact, map
<1>3. InhibitorsAreCurrent
  BY DEF Init, InhibitorsAreCurrent
<1>4. ResultsAreResources
  BY DEF Init, ResultsAreResources, Outcome, NewJobState
<1>5. QED
  BY <1>1, <1>2, <1>3, <1>4 DEF FairInv


\* The calls that recompute readiness at their end and leave the run list: what
\* the run list was made from is still there, and nothing more is needed.
LEMMA ResultKeepsFair ==
  ASSUME ReadyInv, FairInv, phase # "solving",
         NEW states, IsJobStateMap(states),
         DOMAIN job_state_map \subseteq DOMAIN states,
         \A n \in DOMAIN job_state_map : states[n].job = job_state_map[n].job,
         NEW resources,
         \A n \in DOMAIN states :
           (states[n].job.plugin = "resource" /\ states[n].outcome # "none")
             => n \in DOMAIN resources,
         RecomputeReadiness(states, run_list, resources),
         UNCHANGED <<desired_job_list, call>>
  PROVE  FairInv'
<1> DEFINE map == JobMap(job_state_map)
           new == JobMap(states)
           names == NamesOf(desired_job_list)
<1>1. /\ IsJobStateMap(job_state_map) /\ Ordered(run_list)
      /\ desired_job_list \in Seq(Known(map)) /\ run_list \in Seq(Known(map))
  BY DEF ReadyInv, TypeOK, KnownJobs, RunListIsOrdered
<1>2. /\ map \in JobMaps /\ DOMAIN map = DOMAIN job_state_map
      /\ new \in JobMaps /\ DOMAIN new = DOMAIN states
      /\ \A n \in DOMAIN job_state_map : map[n] = job_state_map[n].job /\ new[n] = map[n]
  BY <1>1, JobMapType
<1>3. Known(map) \subseteq Known(new)
  BY <1>2 DEF Known
<1>4. run_list \in Seq(Known(new))
  BY <1>1, <1>3
<1>5. /\ run_list' = run_list /\ resource_map' = resources
      /\ UNCHANGED <<desired_job_list, phase, solver, problems, requested>>
      /\ job_state_map' = Recompute(states, run_list, resources)
  BY DEF RecomputeReadiness, call
<1>6. /\ DOMAIN job_state_map' = DOMAIN states
      /\ \A n \in DOMAIN states : /\ job_state_map'[n].job = states[n].job
                                  /\ job_state_map'[n].outcome = states[n].outcome
      /\ JobMap(job_state_map') = new
  BY <1>4, <1>5, RecomputeType
<1>7. names \in SUBSET Names
  BY <1>1, <1>2, NamesType
<1>8. SearchIsForDesired' /\ OnlyUnsolvableDropped'
  BY <1>5 DEF SearchIsForDesired, OnlyUnsolvableDropped
<1> HIDE DEF map, new, names
<1>9. RunListIsExact'
  <2>1. CASE phase = "idle"
    <3> DEFINE needed == NeededBy(names, map)
    <3>1. /\ needed \subseteq DOMAIN job_state_map
          /\ ToSet(run_list) = {job_state_map[n].job : n \in needed}
      BY <2>1 DEF FairInv, RunListIsExact, map, names, NamesOf
    <3>2. NeededBy(names, new) = needed
      BY <1>2, <1>7, <3>1, NeededIsKept
    <3> HIDE DEF needed
    <3>3. /\ needed \subseteq DOMAIN job_state_map'
          /\ {job_state_map'[n].job : n \in needed} = {job_state_map[n].job : n \in needed}
      BY <1>6, <3>1
    <3>4. NamesOf(desired_job_list') = names
      BY <1>5 DEF names
    <3>5. NeededBy(NamesOf(desired_job_list'), JobMap(job_state_map')) = needed
      BY <1>6, <3>2, <3>4
    <3>6. ToSet(run_list') = {job_state_map'[n].job : n \in needed}
      BY <1>5, <3>1, <3>3
    <3>7. QED
      BY <3>3, <3>5, <3>6 DEF RunListIsExact, NamesOf
  <2>2. CASE phase # "idle"
    BY <1>5, <2>2 DEF RunListIsExact
  <2>3. QED
    BY <2>1, <2>2
<1>10. InhibitorsAreCurrent'
  BY <1>1, <1>4, RecomputeIsCurrent DEF new
<1>11. ResultsAreResources'
  BY <1>5, <1>6 DEF ResultsAreResources, Outcome
<1>12. QED
  BY <1>8, <1>9, <1>10, <1>11 DEF FairInv

\* The run list stays exact while the jobs and the request stay as they are.
LEMMA SameRunListIsExact ==
  ASSUME RunListIsExact, IsJobStateMap(job_state_map), IsJobStateMap(job_state_map'),
         JobMap(job_state_map') = JobMap(job_state_map),
         phase' = "idle" => UNCHANGED <<phase, desired_job_list, run_list>>
  PROVE  RunListIsExact'
<1>1. /\ DOMAIN job_state_map' = DOMAIN job_state_map
      /\ \A n \in DOMAIN job_state_map : job_state_map'[n].job = job_state_map[n].job
  BY JobMapType
<1>2. SUFFICES ASSUME phase' = "idle"
               PROVE  RunListIsExact'
  BY DEF RunListIsExact
<1>3. UNCHANGED <<phase, desired_job_list, run_list>>
  BY <1>2
<1> DEFINE needed == NeededBy(NamesOf(desired_job_list), JobMap(job_state_map))
<1>4. /\ needed \subseteq DOMAIN job_state_map
      /\ ToSet(run_list) = {job_state_map[n].job : n \in needed}
  BY <1>2, <1>3 DEF RunListIsExact, NamesOf
<1>5. NeededBy(NamesOf(desired_job_list'), JobMap(job_state_map')) = needed
  BY <1>3
<1> HIDE DEF needed
<1>6. /\ needed \subseteq DOMAIN job_state_map'
      /\ {job_state_map'[n].job : n \in needed} = {job_state_map[n].job : n \in needed}
  BY <1>1, <1>4
<1>7. ToSet(run_list') = {job_state_map'[n].job : n \in needed}
  BY <1>3, <1>4, <1>6
<1>8. QED
  BY <1>5, <1>6, <1>7 DEF RunListIsExact, NamesOf

\* The steps that leave readiness to be recomputed later, and no run list that
\* is one.
LEMMA StaleKeepsFair ==
  ASSUME ReadyInv, FairInv, IsJobStateMap(job_state_map'),
         JobMap(job_state_map') = JobMap(job_state_map),
         stale' # {}, ResultsAreResources',
         SearchIsForDesired', OnlyUnsolvableDropped',
         phase' = "idle" => UNCHANGED <<phase, desired_job_list, run_list>>
  PROVE  FairInv'
<1>1. InhibitorsAreCurrent'
  BY DEF InhibitorsAreCurrent
<1>2. IsJobStateMap(job_state_map)
  BY DEF ReadyInv, TypeOK
<1>3. RunListIsExact'
  BY <1>2, SameRunListIsExact DEF FairInv
<1>4. QED
  BY <1>1, <1>3 DEF FairInv

\* A search begins with nothing forgotten, found or left.
LEMMA SearchStarts ==
  ASSUME NEW map \in JobMaps, NEW jobs \in Seq(Known(map))
  PROVE  /\ VisitListKept(StartSolver(jobs), jobs)
         /\ ErrorsAreReal(StartSolver(jobs), map)
         /\ Within(StartSolver(jobs), NeededBy(NamesOf(jobs), map))
<1>1. NamesOf(jobs) \subseteq NeededBy(NamesOf(jobs), map)
  BY NamesType, NeededIsClosed
<1>2. \A i \in DOMAIN jobs : jobs[i].name \in NeededBy(NamesOf(jobs), map)
  BY <1>1 DEF NamesOf
<1>3. Within(StartSolver(jobs), NeededBy(NamesOf(jobs), map))
  BY <1>2, StartWithin
<1>4. ErrorsAreReal(StartSolver(jobs), map)
  BY DEF ErrorsAreReal, StartSolver
<1>5. QED
  BY <1>3, <1>4, StartInv

LEMMA SolverStepIsForDesired ==
  ASSUME ReadyInv, FairInv, SolverStep
  PROVE  SearchIsForDesired'
<1> DEFINE map == JobMap(job_state_map)
           needed == NeededBy(NamesOf(desired_job_list), map)
<1>1. /\ phase = "solving"
      /\ UNCHANGED <<job_state_map, desired_job_list, phase>>
  BY DEF SolverStep, session
<1>2. /\ IsJobStateMap(job_state_map) /\ SolverInv(solver, map)
      /\ desired_job_list \in Seq(Known(map))
  BY DEF ReadyInv, TypeOK, KnownJobs
<1>3. map \in JobMaps /\ DOMAIN map = DOMAIN job_state_map
  BY <1>2, JobMapType
<1>4. VisitListKept(solver, desired_job_list) /\ Within(solver, needed)
  BY <1>1 DEF FairInv, SearchIsForDesired, NamesOf
<1>5. Closed(needed, map)
  BY <1>2, <1>3, NamesType, NeededIsClosed
<1> HIDE DEF map, needed
<1>6. /\ VisitListKept(solver', desired_job_list)
      /\ ErrorsAreReal(solver', map)
      /\ Within(solver', needed)
  <2>1. CASE CanVisitNext(solver) /\ solver' = VisitNext(solver)
    BY <1>2, <1>3, <1>4, <2>1, VisitNextInv, VisitNextWithin
  <2>2. CASE /\ CanVisitDependency(solver)
             /\ NextDependency(solver)[2] \in DOMAIN map
             /\ solver' = VisitDependency(solver, map)
    BY <1>2, <1>3, <1>4, <1>5, <2>2, VisitDependencyInv, VisitDependencyWithin
  <2>3. CASE /\ CanVisitDependency(solver)
             /\ NextDependency(solver)[2] \notin DOMAIN map
             /\ solver' = RaiseMissing(solver)
    BY <1>2, <1>3, <1>4, <2>3, RaiseMissingInv, RaiseMissingWithin
  <2>4. CASE CanFinish(solver) /\ solver' = Finish(solver)
    BY <1>2, <1>3, <1>4, <2>4, FinishInv, FinishWithin
  <2>5. QED
    BY <1>3, <2>1, <2>2, <2>3, <2>4 DEF SolverStep, map
<1>7. QED
  BY <1>1, <1>6 DEF SearchIsForDesired, NamesOf, map, needed

\* The job that is dropped is not solvable: the others that were asked for are
\* still there, as often as before.
LEMMA DropIsFair ==
  ASSUME ReadyInv, FairInv, DropAffectedJob
  PROVE  OnlyUnsolvableDropped'
<1> DEFINE map == JobMap(job_state_map)
<1>1. /\ phase = "solving"
      /\ UNCHANGED <<job_state_map, phase, requested>>
  BY DEF DropAffectedJob
<1>2. PICK e \in solver.raised :
        /\ e.affected \in ToSet(desired_job_list)
        /\ desired_job_list' = RemoveJob(desired_job_list, e.affected)
  BY DEF DropAffectedJob
<1>3. /\ IsJobStateMap(job_state_map) /\ SolverType(solver, map)
      /\ desired_job_list \in Seq(Known(map))
  BY DEF ReadyInv, TypeOK, KnownJobs
<1>4. map \in JobMaps
  BY <1>3, JobMapType
<1>5. ErrorsAreReal(solver, map)
  BY <1>1 DEF FairInv, SearchIsForDesired
<1>6. ~ Solvable(e.affected)
  <2> DEFINE n == e.affected.name
  <2>1. e.affected \in Known(map)
    BY <1>2, <1>5 DEF ErrorsAreReal
  <2>2. n \in Names
    BY <1>4, <2>1, MapType
  <2>3. n \in NeededBy({n}, map)
    BY <1>4, <2>2, NeededIsClosed
  <2> HIDE DEF map
  <2>4. ~ (NeededBy({n}, map) \subseteq DOMAIN map
           /\ \A m \in NeededBy({n}, map) : m \notin NeededBy(DependencyNames(map[m]), map))
    BY <1>2, <1>3, <1>4, <1>5, <2>2, <2>3, ErrorIsUnsolvable
  <2>5. QED
    BY <2>4 DEF Solvable, map
<1>7. ASSUME NEW job \in ToSet(requested), Solvable(job)
      PROVE  Cardinality({i \in DOMAIN desired_job_list' : desired_job_list'[i] = job})
               = Cardinality({i \in DOMAIN requested : requested[i] = job})
  <2>1. job # e.affected
    BY <1>6, <1>7
  <2>2. Cardinality({i \in DOMAIN desired_job_list : desired_job_list[i] = job})
          = Cardinality({i \in DOMAIN requested : requested[i] = job})
    BY <1>1, <1>7 DEF FairInv, OnlyUnsolvableDropped
  <2>3. Cardinality({i \in DOMAIN desired_job_list' : desired_job_list'[i] = job})
          = Cardinality({i \in DOMAIN desired_job_list : desired_job_list[i] = job})
    <3>1. Cardinality(Places(desired_job_list', job))
            = Cardinality(Places(desired_job_list, job))
      BY <1>2, <1>3, <2>1, RemoveJobKeepsOthers
    <3>2. QED
      BY <3>1 DEF Places
  <2>4. QED
    BY <2>2, <2>3
<1>8. \A job : Solvable(job)' <=> Solvable(job)
  BY <1>1 DEF Solvable
<1>9. QED
  BY <1>1, <1>7, <1>8 DEF OnlyUnsolvableDropped

LEMMA NextFair == ReadyInv /\ FairInv /\ [Next]_vars => FairInv'
<1> SUFFICES ASSUME ReadyInv, FairInv, [Next]_vars
             PROVE  FairInv'
  OBVIOUS
<1> DEFINE map == JobMap(job_state_map)
<1>1. /\ IsJobStateMap(job_state_map)
      /\ desired_job_list \in Seq(Known(map)) /\ run_list \in Seq(Known(map))
      /\ SolverInv(solver, map) /\ SolverType(solver, map)
      /\ phase = "solving" => "run_list" \in stale
  BY DEF ReadyInv, TypeOK, KnownJobs
<1>2. map \in JobMaps /\ DOMAIN map = DOMAIN job_state_map
  BY <1>1, JobMapType
<1>3. UNCHANGED <<job_state_map, resource_map>> => ResultsAreResources'
  BY DEF FairInv, ResultsAreResources, Outcome
<1>4. UNCHANGED <<job_state_map, desired_job_list, phase, requested>>
        => OnlyUnsolvableDropped'
  BY DEF FairInv, OnlyUnsolvableDropped, Solvable
<1>5. phase' # "solving" => SearchIsForDesired' /\ OnlyUnsolvableDropped'
  BY DEF SearchIsForDesired, OnlyUnsolvableDropped
<1>6. ASSUME NEW jobs \in JobLists, UpdateDesiredJobList(jobs)
      PROVE  FairInv'
  <2>1. PICK k \in 0..MaxDesired : jobs \in [1..k -> KnownJobs]
    BY DEF JobLists
  <2>2. jobs \in Seq(Known(map))
    BY <2>1, SessionAssumption DEF KnownJobs
  <2>3. /\ desired_job_list' = jobs /\ requested' = jobs /\ phase' = "solving"
        /\ solver' = StartSolver(jobs) /\ stale' # {}
        /\ UNCHANGED <<job_state_map, resource_map>>
    BY <1>6 DEF UpdateDesiredJobList
  <2>4. OnlyUnsolvableDropped'
    BY <2>3 DEF OnlyUnsolvableDropped
  <2>5. SearchIsForDesired'
    BY <1>2, <2>2, <2>3, SearchStarts DEF SearchIsForDesired, NamesOf
  <2>6. QED
    BY <1>1, <1>3, <2>3, <2>4, <2>5, StaleKeepsFair
<1>7. CASE SolverStep
  <2>1. /\ UNCHANGED <<job_state_map, desired_job_list, run_list, resource_map,
                       phase, requested, stale>>
        /\ phase = "solving"
    BY <1>7 DEF SolverStep, session
  <2>2. SearchIsForDesired'
    BY <1>7, SolverStepIsForDesired
  <2>3. QED
    BY <1>1, <1>3, <1>4, <2>1, <2>2, StaleKeepsFair
<1>8. CASE DropAffectedJob
  <2>1. /\ UNCHANGED <<job_state_map, run_list, resource_map, phase, requested, stale>>
        /\ solver' = StartSolver(desired_job_list')
        /\ phase = "solving"
    BY <1>8 DEF DropAffectedJob
  <2>2. PICK e \in solver.raised :
          /\ e.affected \in ToSet(desired_job_list)
          /\ desired_job_list' = RemoveJob(desired_job_list, e.affected)
    BY <1>8 DEF DropAffectedJob
  <2>3. desired_job_list' \in Seq(Known(map))
    BY <1>1, <2>2, RemoveJobFacts
  <2>4. SearchIsForDesired'
    BY <1>2, <2>1, <2>3, SearchStarts DEF SearchIsForDesired, NamesOf
  <2>5. QED
    BY <1>1, <1>3, <1>8, <2>1, <2>4, DropIsFair, StaleKeepsFair
<1>9. CASE RemoveRaises
  <2>1. /\ UNCHANGED <<job_state_map, desired_job_list, run_list, resource_map, stale>>
        /\ phase = "solving" /\ phase' = "raised"
    BY <1>9 DEF RemoveRaises, session
  <2>2. QED
    BY <1>1, <1>3, <1>5, <2>1, StaleKeepsFair
<1>10. CASE UpdateReturns
  <2>1. /\ RecomputeReadiness(job_state_map, solver.solution, resource_map)
        /\ phase = "solving" /\ phase' = "idle" /\ Solved(solver)
        /\ UNCHANGED desired_job_list
    BY <1>10 DEF UpdateReturns
  <2>2. solver.solution \in Seq(Known(map)) /\ Ordered(solver.solution)
    BY <1>1, SolverFields DEF SolverInv
  <2>3. /\ run_list' = solver.solution /\ resource_map' = resource_map
        /\ DOMAIN job_state_map' = DOMAIN job_state_map
        /\ \A n \in DOMAIN job_state_map :
             /\ job_state_map'[n].job = job_state_map[n].job
             /\ job_state_map'[n].outcome = job_state_map[n].outcome
        /\ JobMap(job_state_map') = map
    BY <1>1, <2>1, <2>2, RecomputeType DEF RecomputeReadiness
  <2>4. InhibitorsAreCurrent'
    BY <1>1, <2>1, <2>2, RecomputeIsCurrent
  <2>5. ResultsAreResources'
    BY <2>3 DEF FairInv, ResultsAreResources, Outcome
  <2> DEFINE needed == NeededBy(NamesOf(desired_job_list), map)
  <2>6. VisitListKept(solver, desired_job_list) /\ Within(solver, needed)
    BY <2>1 DEF FairInv, SearchIsForDesired, NamesOf
  <2>7. /\ needed \subseteq DOMAIN map
        /\ {solver.solution[i] : i \in DOMAIN solver.solution} = {map[n] : n \in needed}
    <3>1. /\ map \in JobMaps /\ desired_job_list \in Seq(Known(map))
          /\ SolverInv(solver, map) /\ Solved(solver)
      BY <1>1, <1>2, <2>1
    <3>2. needed = NeededBy({desired_job_list[i].name : i \in DOMAIN desired_job_list}, map)
      BY DEF NamesOf
    <3> HIDE DEF needed, map
    <3>3. QED
      BY <2>6, <3>1, <3>2, SolutionIsNeeded
  <2>8. \A n \in DOMAIN map : map[n] = job_state_map[n].job
    BY <1>1, JobMapType
  <2> HIDE DEF map
  <2>9. NeededBy(NamesOf(desired_job_list'), JobMap(job_state_map')) = needed
    BY <2>1, <2>3
  <2> HIDE DEF needed
  <2>10. /\ needed \subseteq DOMAIN job_state_map'
         /\ {map[n] : n \in needed} = {job_state_map'[n].job : n \in needed}
    BY <1>2, <2>3, <2>7, <2>8
  <2>11. ToSet(run_list') = {job_state_map'[n].job : n \in needed}
    BY <2>3, <2>7, <2>10 DEF ToSet
  <2>12. RunListIsExact'
    BY <2>9, <2>10, <2>11 DEF RunListIsExact, NamesOf
  <2>13. QED
    BY <1>5, <2>1, <2>4, <2>5, <2>12 DEF FairInv
<1>11. ASSUME NEW n \in DOMAIN job_state_map, NEW outcome \in Outcomes,
              NEW output \in Outputs(job_state_map[n].job),
              UpdateJobResult(n, outcome, output)
       PROVE  FairInv'
  <2> DEFINE plugin == job_state_map[n].job.plugin
             stored == SetOutcome(job_state_map, n, outcome)
  <2>1. /\ IsJobStateMap(stored) /\ DOMAIN stored = DOMAIN job_state_map
        /\ \A m \in DOMAIN job_state_map : stored[m].job = job_state_map[m].job
    BY <1>1, SetOutcomeType
  <2>2. \A m \in DOMAIN stored \ {n} : stored[m].outcome = job_state_map[m].outcome
    BY DEF SetOutcome
  <2>3. phase # "solving" /\ UNCHANGED <<desired_job_list, call>>
    BY <1>11 DEF UpdateJobResult
  <2>4. ASSUME NEW m \in DOMAIN stored \ {n},
               stored[m].job.plugin = "resource", stored[m].outcome # "none"
        PROVE  m \in DOMAIN resource_map
    BY <2>1, <2>2, <2>4 DEF FairInv, ResultsAreResources, Outcome
  <2> HIDE DEF stored
  <2>5. CASE /\ plugin = "resource"
             /\ RecomputeReadiness(stored, run_list, SetResource(resource_map, n, output))
    <3> DEFINE new == SetResource(resource_map, n, output)
    <3>1. DOMAIN new = DOMAIN resource_map \cup {n}
      BY DEF SetResource
    <3> HIDE DEF new
    <3>2. \A m \in DOMAIN stored :
            (stored[m].job.plugin = "resource" /\ stored[m].outcome # "none")
              => m \in DOMAIN new
      BY <2>4, <3>1
    <3>3. RecomputeReadiness(stored, run_list, new)
      BY <2>5 DEF new
    <3>4. QED
      BY <2>1, <2>3, <3>2, <3>3, ResultKeepsFair
  <2>6. ASSUME plugin # "resource"
        PROVE  \A m \in DOMAIN stored :
                 (stored[m].job.plugin = "resource" /\ stored[m].outcome # "none")
                   => m \in DOMAIN resource_map
    BY <2>1, <2>4, <2>6
  <2>7. CASE /\ plugin = "local"
             /\ RecomputeReadiness(AddJobs(stored, output), run_list, resource_map)
    <3> DEFINE new == AddJobs(stored, output)
    <3>1. output \in Seq(JobDefs)
      BY <1>11, <2>7, SessionAssumption DEF Outputs
    <3>2. /\ IsJobStateMap(new) /\ DOMAIN stored \subseteq DOMAIN new
          /\ \A m \in DOMAIN stored : new[m] = stored[m]
          /\ \A m \in DOMAIN new \ DOMAIN stored : new[m].outcome = "none"
      BY <2>1, <3>1, AddJobsType
    <3> HIDE DEF new
    <3>3. \A m \in DOMAIN new :
            (new[m].job.plugin = "resource" /\ new[m].outcome # "none")
              => m \in DOMAIN resource_map
      BY <2>6, <2>7, <3>2
    <3>4. RecomputeReadiness(new, run_list, resource_map)
      BY <2>7 DEF new
    <3>5. \A m \in DOMAIN job_state_map : new[m].job = job_state_map[m].job
      BY <2>1, <3>2
    <3>6. QED
      BY <2>1, <2>3, <3>2, <3>3, <3>4, <3>5, ResultKeepsFair
  <2>8. CASE plugin # "resource" /\ RecomputeReadiness(stored, run_list, resource_map)
    BY <2>1, <2>3, <2>6, <2>8, ResultKeepsFair
  <2>9. QED
    BY <1>11, <2>5, <2>7, <2>8 DEF UpdateJobResult, stored
<1>12. ASSUME NEW n \in DOMAIN job_state_map, NEW outcome \in Outcomes,
              UpdateJobResultRaises(n, outcome)
       PROVE  FairInv'
  <2>1. /\ job_state_map' = SetOutcome(job_state_map, n, outcome)
        /\ stale' # {} /\ phase # "solving"
        /\ job_state_map[n].job.plugin = "local"
        /\ UNCHANGED <<desired_job_list, run_list, resource_map, phase>>
    BY <1>12 DEF UpdateJobResultRaises, call
  <2>2. /\ IsJobStateMap(job_state_map') /\ JobMap(job_state_map') = map
        /\ DOMAIN job_state_map' = DOMAIN job_state_map
        /\ \A m \in DOMAIN job_state_map : job_state_map'[m].job = job_state_map[m].job
    BY <1>1, <2>1, SetOutcomeType
  <2>3. \A m \in DOMAIN job_state_map \ {n} :
          job_state_map'[m].outcome = job_state_map[m].outcome
    BY <2>1 DEF SetOutcome
  <2>4. ResultsAreResources'
    BY <2>1, <2>2, <2>3 DEF FairInv, ResultsAreResources, Outcome
  <2>5. QED
    BY <1>5, <2>1, <2>2, <2>4, StaleKeepsFair
<1>13. ASSUME NEW job \in JobDefs, AddJob(job)
       PROVE  FairInv'
  <2> DEFINE new == AddJobs(job_state_map, <<job>>)
  <2>1. <<job>> \in Seq(JobDefs)
    OBVIOUS
  <2>2. /\ IsJobStateMap(new) /\ DOMAIN job_state_map \subseteq DOMAIN new
        /\ \A m \in DOMAIN job_state_map : new[m] = job_state_map[m]
        /\ \A m \in DOMAIN new \ DOMAIN job_state_map : new[m].outcome = "none"
    BY <1>1, <2>1, AddJobsType
  <2>3. /\ phase # "solving" /\ UNCHANGED <<desired_job_list, call>>
        /\ RecomputeReadiness(new, run_list, resource_map)
    BY <1>13 DEF AddJob
  <2> HIDE DEF new
  <2>4. \A m \in DOMAIN new :
          (new[m].job.plugin = "resource" /\ new[m].outcome # "none")
            => m \in DOMAIN resource_map
    BY <2>2 DEF FairInv, ResultsAreResources, Outcome
  <2>5. QED
    BY <2>2, <2>3, <2>4, ResultKeepsFair
<1>14. ASSUME NEW n \in ResourceNames, NEW records \in ResourceOutputs,
              SetResourceList(n, records)
       PROVE  FairInv'
  <2>1. /\ resource_map' = SetResource(resource_map, n, records)
        /\ stale' # {} /\ phase # "solving"
        /\ UNCHANGED <<job_state_map, desired_job_list, run_list, phase>>
    BY <1>14 DEF SetResourceList, call
  <2>2. DOMAIN resource_map \subseteq DOMAIN resource_map'
    BY <2>1 DEF SetResource
  <2>3. ResultsAreResources'
    BY <2>1, <2>2 DEF FairInv, ResultsAreResources, Outcome
  <2>4. QED
    BY <1>1, <1>5, <2>1, <2>3, StaleKeepsFair
<1>15. CASE UNCHANGED vars
  <2>1. UNCHANGED <<job_state_map, desired_job_list, run_list, resource_map,
                    phase, solver, problems, requested, stale>>
    BY <1>15 DEF vars, session, call
  <2>2. SearchIsForDesired'
    BY <2>1 DEF FairInv, SearchIsForDesired
  <2>3. RunListIsExact'
    BY <1>1, <2>1, SameRunListIsExact DEF FairInv
  <2>4. InhibitorsAreCurrent'
    BY <2>1 DEF FairInv, InhibitorsAreCurrent, Outcome
  <2>5. QED
    BY <1>3, <1>4, <2>1, <2>2, <2>3, <2>4 DEF FairInv
<1>16. QED
  BY <1>6, <1>7, <1>8, <1>9, <1>10, <1>11, <1>12, <1>13, <1>14, <1>15
  DEF Next, UpdateStep, Results

\* The invariant holds in every state of every session.
THEOREM InvariantHolds == Spec => []IInv
<1>1. Init => IInv
  BY InitReady, InitFair DEF IInv
<1>2. IInv /\ [Next]_vars => IInv'
  BY NextReady, NextFair DEF IInv
<1>3. QED
  BY <1>1, <1>2, PTL DEF Spec

\* Type correctness: the run list, the desired jobs and the solver only ever
\* hold jobs that the session knows, under their names.
THEOREM TypeCorrect == Spec => []TypeOK
<1>1. IInv => TypeOK
  BY DEF IInv, ReadyInv
<1>2. QED
  BY <1>1, InvariantHolds, PTL

\* The run list is always in topological order and has no job twice.
THEOREM RunListOrdered == Spec => []RunListIsOrdered
<1>1. IInv => RunListIsOrdered
  BY DEF IInv, ReadyInv
<1>2. QED
  BY <1>1, InvariantHolds, PTL

\* No job can start before its dependencies have passed and its requirement
\* program holds.
THEOREM ReadySound == Spec => []ReadyIsSound
<1>1. IInv => ReadyIsSound
  BY DEF IInv, ReadyInv
<1>2. QED
  BY <1>1, InvariantHolds, PTL

\* The jobs that can start are exactly those of the run list that may.
THEOREM ReadyExact == Spec => []ReadyIsExact
<1>1. IInv => ReadyIsExact
  BY DEF IInv, ReadyInv
<1>2. QED
  BY <1>1, InvariantHolds, PTL

\* What the session says of its run list and of the jobs that can start.
THEOREM ReadinessTrue == Spec => []ReadinessIsTrue
<1>1. RunListIsOrdered /\ ReadyIsSound /\ ReadyIsExact => ReadinessIsTrue
  BY DEF ReadinessIsTrue
<1>2. QED
  BY <1>1, RunListOrdered, ReadySound, ReadyExact, PTL

-----------------------------------------------------------------------------
(* update_desired_job_list() is fair.                                      *)

\* Between calls the run list is what the desired jobs need, all of it known.
THEOREM RunListExact == Spec => []RunListIsExact
<1>1. IInv => RunListIsExact
  BY DEF IInv, FairInv
<1>2. QED
  BY <1>1, InvariantHolds, PTL

\* No job is dropped from a request but one that cannot be solved.
THEOREM OnlyUnsolvable == Spec => []OnlyUnsolvableDropped
<1>1. IInv => OnlyUnsolvableDropped
  BY DEF IInv, FairInv
<1>2. QED
  BY <1>1, InvariantHolds, PTL

\* The solver raises nothing when every desired job can be solved, whatever
\* else is in the database.
THEOREM SolvableSolved == Spec => []SolvableJobsAreSolved
<1>1. IInv => SolvableJobsAreSolved
  <2> DEFINE map == JobMap(job_state_map)
             names == NamesOf(desired_job_list)
  <2>1. SUFFICES ASSUME IInv, phase = "solving",
                        \A job \in ToSet(desired_job_list) : Solvable(job),
                        NEW e \in solver.raised
                 PROVE  FALSE
    BY DEF SolvableJobsAreSolved
  <2>2. /\ IsJobStateMap(job_state_map) /\ SolverType(solver, map)
        /\ desired_job_list \in Seq(Known(map))
        /\ ErrorsAreReal(solver, map) /\ Within(solver, NeededBy(names, map))
    BY <2>1 DEF IInv, ReadyInv, TypeOK, KnownJobs, FairInv, SearchIsForDesired, NamesOf
  <2>3. map \in JobMaps
    BY <2>2, JobMapType
  <2>4. names \in SUBSET Names
    BY <2>2, <2>3, NamesType
  <2> HIDE DEF map, names
  <2>5. e.affected.name \in NeededBy(names, map)
    BY <2>1, <2>2 DEF Within
  <2>6. PICK n \in names : e.affected.name \in NeededBy({n}, map)
    BY <2>3, <2>4, <2>5, NeededByOne
  <2>7. n \in Names
    BY <2>4
  <2>8. PICK i \in DOMAIN desired_job_list : desired_job_list[i].name = n
    BY <2>6 DEF names, NamesOf
  <2>9. Solvable(desired_job_list[i])
    BY <2>1, <2>8 DEF ToSet
  <2>10. /\ NeededBy({n}, map) \subseteq DOMAIN map
         /\ \A m \in NeededBy({n}, map) : m \notin NeededBy(DependencyNames(map[m]), map)
    BY <2>8, <2>9 DEF Solvable, map
  <2>11. QED
    BY <2>1, <2>2, <2>3, <2>6, <2>7, <2>10, ErrorIsUnsolvable
<1>2. QED
  BY <1>1, InvariantHolds, PTL

\* Running the list from its start is enough: the first job without a result
\* waits for no other.
THEOREM FirstUnrunDoesNotWait == Spec => []FirstUnrunJobDoesNotWait
<1>1. IInv => FirstUnrunJobDoesNotWait
  <2>1. SUFFICES ASSUME IInv, stale = {}, NEW i \in DOMAIN run_list,
                        \A j \in 1..(i - 1) : Outcome(run_list[j].name) # "none",
                        NEW inhibitor \in job_state_map[run_list[i].name].inhibitors,
                        inhibitor.cause \in {"PENDING_DEP", "PENDING_RESOURCE"}
                 PROVE  /\ inhibitor.cause = "PENDING_RESOURCE"
                        /\ job_state_map[inhibitor.related].job.plugin # "resource"
    BY DEF FirstUnrunJobDoesNotWait
  <2>2. /\ inhibitor.cause = "PENDING_DEP" =>
             /\ inhibitor.related \in run_list[i].direct
             /\ Outcome(inhibitor.related) = "none"
        /\ inhibitor.cause = "PENDING_RESOURCE" =>
             /\ inhibitor.related \in ResourceDependencies(run_list[i])
             /\ inhibitor.related \notin DOMAIN resource_map
    BY <2>1 DEF IInv, FairInv, InhibitorsAreCurrent
  <2>3. inhibitor.related \in DependencyNames(run_list[i])
    BY <2>1, <2>2 DEF DependencyNames
  <2>4. PICK j \in 1..(i - 1) : run_list[j].name = inhibitor.related
    BY <2>1, <2>3 DEF IInv, ReadyInv, RunListIsOrdered, Ordered
  <2>5. Outcome(inhibitor.related) # "none"
    BY <2>1, <2>4
  <2>6. inhibitor.cause = "PENDING_RESOURCE" /\ inhibitor.related \notin DOMAIN resource_map
    BY <2>1, <2>2, <2>5
  <2>7. inhibitor.related \in DOMAIN job_state_map
    <3>1. /\ IsJobStateMap(job_state_map)
          /\ run_list \in Seq(Known(JobMap(job_state_map)))
      BY <2>1 DEF IInv, ReadyInv, TypeOK, KnownJobs
    <3>2. j \in DOMAIN run_list
      BY <2>1, <2>4, <3>1
    <3>3. run_list[j] \in Known(JobMap(job_state_map))
      BY <3>1, <3>2
    <3>4. QED
      BY <2>4, <3>1, <3>3, JobMapType, MapType
  <2>8. job_state_map[inhibitor.related].job.plugin # "resource"
    BY <2>1, <2>5, <2>6, <2>7 DEF IInv, FairInv, ResultsAreResources
  <2>9. QED
    BY <2>6, <2>8
<1>2. QED
  BY <1>1, InvariantHolds, PTL

\* What update_desired_job_list() makes of a request is what it should.
THEOREM UpdateFair == Spec => []UpdateIsFair
<1>1. RunListIsExact /\ OnlyUnsolvableDropped /\ SolvableJobsAreSolved
        /\ FirstUnrunJobDoesNotWait => UpdateIsFair
  BY DEF UpdateIsFair
<1>2. QED
  BY <1>1, RunListExact, OnlyUnsolvable, SolvableSolved, FirstUnrunDoesNotWait, PTL

-----------------------------------------------------------------------------
(* Jobs are never replaced.                                                *)

KeepsJobs(states, new) ==
  \A n \in DOMAIN states : n \in DOMAIN new /\ new[n].job = states[n].job

\* No step of a session replaces a job by another of its name or forgets one.
THEOREM JobsKept == Spec => JobsAreKept
<1>1. IInv /\ [Next]_vars => [KeepsJobs(job_state_map, job_state_map')]_vars
  <2> SUFFICES ASSUME IInv, Next
               PROVE  KeepsJobs(job_state_map, job_state_map')
    BY DEF KeepsJobs, vars, session
  <2>1. /\ IsJobStateMap(job_state_map) /\ run_list \in Seq(KnownJobs)
        /\ SolverType(solver, JobMap(job_state_map))
    BY DEF IInv, ReadyInv, TypeOK
  <2>2. ASSUME UNCHANGED job_state_map
        PROVE  KeepsJobs(job_state_map, job_state_map')
    BY <2>2 DEF KeepsJobs
  <2>3. ASSUME NEW states, IsJobStateMap(states), KeepsJobs(job_state_map, states),
               NEW list \in Seq(Known(JobMap(states))),
               NEW resources, RecomputeReadiness(states, list, resources)
        PROVE  KeepsJobs(job_state_map, job_state_map')
    <3>1. /\ DOMAIN job_state_map' = DOMAIN states
          /\ \A n \in DOMAIN states : job_state_map'[n].job = states[n].job
      BY <2>3, RecomputeType DEF RecomputeReadiness
    <3>2. QED
      BY <2>3, <3>1 DEF KeepsJobs
  <2>4. CASE UpdateReturns
    <3>1. solver.solution \in Seq(Known(JobMap(job_state_map)))
      BY <2>1, SolverFields
    <3>2. RecomputeReadiness(job_state_map, solver.solution, resource_map)
      BY <2>4 DEF UpdateReturns
    <3>3. KeepsJobs(job_state_map, job_state_map)
      BY DEF KeepsJobs
    <3>4. QED
      BY <2>1, <2>3, <3>1, <3>2, <3>3
  <2>5. ASSUME NEW n \in DOMAIN job_state_map, NEW outcome \in Outcomes,
               NEW output \in Outputs(job_state_map[n].job),
               UpdateJobResult(n, outcome, output)
        PROVE  KeepsJobs(job_state_map, job_state_map')
    <3> DEFINE stored == SetOutcome(job_state_map, n, outcome)
    <3>1. /\ IsJobStateMap(stored) /\ KeepsJobs(job_state_map, stored)
          /\ Known(JobMap(stored)) = KnownJobs
      BY <2>1, SetOutcomeType DEF KeepsJobs, KnownJobs
    <3> HIDE DEF stored
    <3>2. CASE \E resources : RecomputeReadiness(stored, run_list, resources)
      BY <2>1, <2>3, <3>1, <3>2
    <3>3. CASE /\ job_state_map[n].job.plugin = "local"
               /\ RecomputeReadiness(AddJobs(stored, output), run_list, resource_map)
      <4> DEFINE new == AddJobs(stored, output)
      <4>1. output \in Seq(JobDefs)
        BY <2>5, <3>3, SessionAssumption DEF Outputs
      <4>2. /\ IsJobStateMap(new) /\ KnownJobs \subseteq Known(JobMap(new))
            /\ KeepsJobs(job_state_map, new)
        BY <3>1, <4>1, AddJobsType DEF KeepsJobs
      <4> HIDE DEF new
      <4>3. run_list \in Seq(Known(JobMap(new)))
        BY <2>1, <4>2
      <4>4. RecomputeReadiness(new, run_list, resource_map)
        BY <3>3 DEF new
      <4>5. QED
        BY <2>3, <4>2, <4>3, <4>4
    <3>4. QED
      BY <2>5, <3>2, <3>3 DEF UpdateJobResult, stored
  <2>6. ASSUME NEW n \in DOMAIN job_state_map, NEW outcome \in Outcomes,
               UpdateJobResultRaises(n, outcome)
        PROVE  KeepsJobs(job_state_map, job_state_map')
    BY <2>1, <2>6, SetOutcomeType DEF UpdateJobResultRaises, KeepsJobs
  <2>7. ASSUME NEW job \in JobDefs, AddJob(job)
        PROVE  KeepsJobs(job_state_map, job_state_map')
    <3> DEFINE new == AddJobs(job_state_map, <<job>>)
    <3>1. <<job>> \in Seq(JobDefs)
      OBVIOUS
    <3>2. /\ IsJobStateMap(new) /\ KnownJobs \subseteq Known(JobMap(new))
          /\ KeepsJobs(job_state_map, new)
      BY <2>1, <3>1, AddJobsType DEF KeepsJobs, KnownJobs
    <3> HIDE DEF new
    <3>3. run_list \in Seq(Known(JobMap(new)))
      BY <2>1, <3>2
    <3>4. RecomputeReadiness(new, run_list, resource_map)
      BY <2>7 DEF AddJob, new
    <3>5. QED
      BY <2>3, <3>2, <3>3, <3>4
  <2>8. QED
    BY <2>2, <2>4, <2>5, <2>6, <2>7
    DEF Next, UpdateStep, Results, UpdateDesiredJobList, SolverStep, DropAffectedJob,
        RemoveRaises, SetResourceList, session
<1>2. IInv /\ [Next]_vars =>
        [\A n \in DOMAIN job_state_map :
           n \in DOMAIN job_state_map' /\ job_state_map'[n].job = job_state_map[n].job]_vars
  BY <1>1 DEF KeepsJobs
<1>3. QED
  BY <1>2, InvariantHolds, PTL DEF Spec, JobsAreKept

-----------------------------------------------------------------------------
(* SECOND PART.  Suspend and resume (SessionResume).                       *)

-----------------------------------------------------------------------------
(* Results and their logs.                                                 *)

LEMMA MapOfStates ==
  ASSUME NEW states
  PROVE  /\ DOMAIN JobMap(states) = DOMAIN states
         /\ \A n \in DOMAIN states : JobMap(states)[n] = states[n].job
BY DEF JobMap

LEMMA NewStateFields ==
  \A job : NewJobState(job).job = job /\ NewJobState(job).outcome = "none"
BY DEF NewJobState

LEMMA PluginType ==
  ASSUME NEW job \in JobDefs
  PROVE  job.plugin \in Plugins
BY JobDefsAssumption DEF JobDefinition

LEMMA EmptyLogType ==
  ASSUME NEW job
  PROVE  /\ IsLog(EmptyLog(job), job)
         /\ EmptyLog(job).output = IF job.plugin = "resource" THEN {} ELSE <<>>
<1>1. <<>> \in Seq(JobDefs)
  OBVIOUS
<1>2. QED
  BY <1>1 DEF IsLog, EmptyLog, Log

LEMMA LogType ==
  ASSUME NEW log, NEW job, IsLog(log, job)
  PROVE  /\ job.plugin = "resource" => log.output \in SUBSET Records
         /\ job.plugin = "local" => log.output \in Seq(JobDefs)
         /\ log.no_file \in BOOLEAN
BY DEF IsLog

\* Jobs are added: those that were there stay, and the rest is from the list.
LEMMA AddedJobs ==
  ASSUME NEW states, IsJobStateMap(states), NEW jobs \in Seq(JobDefs)
  PROVE  LET new == AddJobs(states, jobs)
         IN  /\ \A n : n \in DOMAIN new <=>
                    n \in DOMAIN states \/ \E i \in DOMAIN jobs : jobs[i].name = n
             /\ \A n \in DOMAIN new \ DOMAIN states :
                  \E i \in DOMAIN jobs : jobs[i].name = n /\ new[n] = NewJobState(jobs[i])
<1> DEFINE Generated(n) == {i \in DOMAIN jobs : jobs[i].name = n}
           First(n) == CHOOSE i \in Generated(n) : \A j \in Generated(n) : i <= j
           new == AddJobs(states, jobs)
<1>1. \A n : n \in DOMAIN new <=>
              n \in DOMAIN states \/ \E i \in DOMAIN jobs : jobs[i].name = n
  BY DEF AddJobs
<1>2. ASSUME NEW n \in DOMAIN new \ DOMAIN states
      PROVE  \E i \in DOMAIN jobs : jobs[i].name = n /\ new[n] = NewJobState(jobs[i])
  <2>1. Generated(n) # {} /\ Generated(n) \in SUBSET (DOMAIN jobs)
    BY <1>1
  <2>2. First(n) \in Generated(n)
    BY <2>1, IndexFacts
  <2>3. new[n] = NewJobState(jobs[First(n)])
    BY <1>2 DEF AddJobs
  <2>4. QED
    BY <2>2, <2>3
<1>3. QED
  BY <1>1, <1>2

\* The result n of a job is taken: `states' and `resources' are what readiness is
\* then computed from.
LEMMA ResultStored ==
  ASSUME TypeOK, NEW n \in DOMAIN job_state_map, NEW outcome \in Outcomes,
         NEW log, IsLog(log, job_state_map[n].job),
         UpdateJobResult(n, outcome, log.output)
  PROVE  \E states, resources :
           /\ RecomputeReadiness(states, run_list, resources)
           /\ IsJobStateMap(states)
           /\ DOMAIN job_state_map \subseteq DOMAIN states
           /\ \A m \in DOMAIN job_state_map :
                /\ states[m].job = job_state_map[m].job
                /\ states[m].outcome = IF m = n THEN outcome ELSE job_state_map[m].outcome
           /\ \A m \in DOMAIN states \ DOMAIN job_state_map :
                /\ job_state_map[n].job.plugin = "local"
                /\ \E i \in DOMAIN log.output :
                     log.output[i].name = m /\ states[m].job = log.output[i]
           /\ job_state_map[n].job.plugin = "local" =>
                \A i \in DOMAIN log.output : log.output[i].name \in DOMAIN states
           /\ resources = IF job_state_map[n].job.plugin = "resource"
                          THEN SetResource(resource_map, n, log.output)
                          ELSE resource_map
<1> DEFINE job == job_state_map[n].job
           stored == SetOutcome(job_state_map, n, outcome)
<1>1. IsJobStateMap(job_state_map)
  BY DEF TypeOK
<1>2. /\ IsJobStateMap(stored)
      /\ DOMAIN stored = DOMAIN job_state_map
      /\ \A m \in DOMAIN job_state_map : stored[m].job = job_state_map[m].job
  BY <1>1, SetOutcomeType
<1>3. \A m \in DOMAIN job_state_map :
        stored[m].outcome = IF m = n THEN outcome ELSE job_state_map[m].outcome
  BY DEF SetOutcome
<1>4. \/ /\ job.plugin = "resource"
         /\ RecomputeReadiness(stored, run_list, SetResource(resource_map, n, log.output))
      \/ /\ job.plugin = "local"
         /\ RecomputeReadiness(AddJobs(stored, log.output), run_list, resource_map)
      \/ /\ job.plugin \notin {"resource", "local"}
         /\ RecomputeReadiness(stored, run_list, resource_map)
  BY DEF UpdateJobResult
<1> HIDE DEF stored
<1>5. CASE /\ job.plugin = "resource"
           /\ RecomputeReadiness(stored, run_list, SetResource(resource_map, n, log.output))
  BY <1>2, <1>3, <1>5
<1>6. CASE /\ job.plugin = "local"
           /\ RecomputeReadiness(AddJobs(stored, log.output), run_list, resource_map)
  <2> DEFINE new == AddJobs(stored, log.output)
  <2>1. log.output \in Seq(JobDefs)
    BY <1>6, LogType
  <2>2. /\ IsJobStateMap(new)
        /\ DOMAIN stored \subseteq DOMAIN new
        /\ \A m \in DOMAIN stored : new[m] = stored[m]
    BY <1>2, <2>1, AddJobsType
  <2>3. /\ \A m : m \in DOMAIN new <=>
               m \in DOMAIN stored \/ \E i \in DOMAIN log.output : log.output[i].name = m
        /\ \A m \in DOMAIN new \ DOMAIN stored :
             \E i \in DOMAIN log.output :
               log.output[i].name = m /\ new[m] = NewJobState(log.output[i])
    <3>1. IsJobStateMap(stored)
      BY <1>2
    <3>2. QED
      BY ONLY <2>1, <3>1, AddedJobs
  <2> HIDE DEF new
  <2>4. \A m \in DOMAIN new \ DOMAIN stored :
          \E i \in DOMAIN log.output :
            log.output[i].name = m /\ new[m].job = log.output[i]
    BY ONLY <2>3, NewStateFields
  <2>5. RecomputeReadiness(new, run_list, resource_map)
    BY <1>6 DEF new
  <2>6. \A m \in DOMAIN job_state_map :
          /\ new[m].job = job_state_map[m].job
          /\ new[m].outcome = IF m = n THEN outcome ELSE job_state_map[m].outcome
    BY <1>2, <1>3, <2>2
  <2>7. \A i \in DOMAIN log.output : log.output[i].name \in DOMAIN new
    BY <2>3
  <2>8. WITNESS new, resource_map
  <2>9. QED
    BY <1>2, <1>6, <2>2, <2>4, <2>5, <2>6, <2>7
<1>7. CASE /\ job.plugin \notin {"resource", "local"}
           /\ RecomputeReadiness(stored, run_list, resource_map)
  BY <1>2, <1>3, <1>7
<1>8. QED
  BY <1>4, <1>5, <1>6, <1>7

\* What a result changes, in a session and in the logs of its results.
LEMMA PresentFacts ==
  ASSUME ReadyInv, NEW n \in DOMAIN job_state_map, NEW outcome \in Outcomes,
         NEW log, IsLog(log, job_state_map[n].job),
         PresentResult(n, outcome, log)
  PROVE  /\ ReadyInv'
         /\ phase # "solving" /\ stale' = {}
         /\ UNCHANGED <<desired_job_list, run_list, phase, solver, problems, requested, given>>
         /\ DOMAIN job_state_map \subseteq DOMAIN job_state_map'
         /\ \A m \in DOMAIN job_state_map :
              /\ job_state_map'[m].job = job_state_map[m].job
              /\ job_state_map'[m].outcome =
                   IF m = n THEN outcome ELSE job_state_map[m].outcome
         /\ \A m \in DOMAIN job_state_map' \ DOMAIN job_state_map :
              /\ job_state_map[n].job.plugin = "local"
              /\ \E i \in DOMAIN log.output :
                   log.output[i].name = m /\ job_state_map'[m].job = log.output[i]
         /\ job_state_map[n].job.plugin = "local" =>
              \A i \in DOMAIN log.output : log.output[i].name \in DOMAIN job_state_map'
         /\ resource_map' = IF job_state_map[n].job.plugin = "resource"
                            THEN SetResource(resource_map, n, log.output)
                            ELSE resource_map
         /\ io_log' = [m \in DOMAIN job_state_map' |->
                         IF m = n THEN log
                         ELSE IF m \in DOMAIN io_log THEN io_log[m]
                         ELSE EmptyLog(job_state_map'[m].job)]
<1>1. UpdateJobResult(n, outcome, log.output)
  BY DEF PresentResult
<1>2. TypeOK /\ run_list \in Seq(KnownJobs) /\ IsJobStateMap(job_state_map)
  BY DEF ReadyInv, TypeOK
<1>3. ReadyInv'
  <2>1. /\ job_state_map[n].job.plugin = "resource" => log.output \in SUBSET Records
        /\ job_state_map[n].job.plugin = "local" => log.output \in Seq(JobDefs)
    BY LogType
  <2>2. QED
    BY <1>1, <2>1, ResultKeepsReady
<1>4. PICK states, resources :
           /\ RecomputeReadiness(states, run_list, resources)
           /\ IsJobStateMap(states)
           /\ DOMAIN job_state_map \subseteq DOMAIN states
           /\ \A m \in DOMAIN job_state_map :
                /\ states[m].job = job_state_map[m].job
                /\ states[m].outcome = IF m = n THEN outcome ELSE job_state_map[m].outcome
           /\ \A m \in DOMAIN states \ DOMAIN job_state_map :
                /\ job_state_map[n].job.plugin = "local"
                /\ \E i \in DOMAIN log.output :
                     log.output[i].name = m /\ states[m].job = log.output[i]
           /\ job_state_map[n].job.plugin = "local" =>
                \A i \in DOMAIN log.output : log.output[i].name \in DOMAIN states
           /\ resources = IF job_state_map[n].job.plugin = "resource"
                          THEN SetResource(resource_map, n, log.output)
                          ELSE resource_map
  BY <1>1, <1>2, ResultStored
<1>5. Known(JobMap(job_state_map)) \subseteq Known(JobMap(states))
  BY <1>4 DEF Known, JobMap
<1>6. run_list \in Seq(Known(JobMap(states)))
  BY <1>2, <1>5 DEF KnownJobs
<1>7. /\ job_state_map' = Recompute(states, run_list, resources)
      /\ resource_map' = resources /\ stale' = {} /\ run_list' = run_list
  BY <1>4 DEF RecomputeReadiness
<1>8. /\ DOMAIN job_state_map' = DOMAIN states
      /\ \A m \in DOMAIN states :
           /\ job_state_map'[m].job = states[m].job
           /\ job_state_map'[m].outcome = states[m].outcome
  BY <1>4, <1>6, <1>7, RecomputeType
<1>9. /\ phase # "solving"
      /\ UNCHANGED <<desired_job_list, phase, solver, problems, requested>>
  BY <1>1 DEF UpdateJobResult, call
<1>10. /\ UNCHANGED given
       /\ io_log' = [m \in DOMAIN job_state_map' |->
                       IF m = n THEN log
                       ELSE IF m \in DOMAIN io_log THEN io_log[m]
                       ELSE EmptyLog(job_state_map'[m].job)]
  BY DEF PresentResult
<1>11. /\ DOMAIN job_state_map \subseteq DOMAIN job_state_map'
       /\ \A m \in DOMAIN job_state_map :
            /\ job_state_map'[m].job = job_state_map[m].job
            /\ job_state_map'[m].outcome =
                 IF m = n THEN outcome ELSE job_state_map[m].outcome
  BY ONLY <1>4, <1>8
<1>12. \A m \in DOMAIN job_state_map' \ DOMAIN job_state_map :
         /\ job_state_map[n].job.plugin = "local"
         /\ \E i \in DOMAIN log.output :
              log.output[i].name = m /\ job_state_map'[m].job = log.output[i]
  BY ONLY <1>4, <1>8
<1>13. job_state_map[n].job.plugin = "local" =>
         \A i \in DOMAIN log.output : log.output[i].name \in DOMAIN job_state_map'
  BY ONLY <1>4, <1>8
<1>14. resource_map' = IF job_state_map[n].job.plugin = "resource"
                       THEN SetResource(resource_map, n, log.output)
                       ELSE resource_map
  BY ONLY <1>4, <1>7
<1>15. QED
  BY ONLY <1>3, <1>7, <1>9, <1>10, <1>11, <1>12, <1>13, <1>14

\* A result keeps what the logs say: LogsAreFollowed of the map after it.
LEMMA LogsStayFollowed ==
  ASSUME ReadyInv, NEW n \in DOMAIN job_state_map, NEW outcome \in Outcomes,
         NEW log, IsLog(log, job_state_map[n].job),
         LogsAreFollowed(JobMap(job_state_map), io_log, resource_map),
         PresentResult(n, outcome, log)
  PROVE  LogsAreFollowed(JobMap(job_state_map'), io_log', resource_map')
<1> DEFINE old == job_state_map
           new == job_state_map'
<1>1. /\ DOMAIN old \subseteq DOMAIN new
      /\ \A m \in DOMAIN old : new[m].job = old[m].job
      /\ \A m \in DOMAIN new \ DOMAIN old :
           /\ old[n].job.plugin = "local"
           /\ \E i \in DOMAIN log.output :
                log.output[i].name = m /\ new[m].job = log.output[i]
      /\ old[n].job.plugin = "local" =>
           \A i \in DOMAIN log.output : log.output[i].name \in DOMAIN new
      /\ resource_map' = IF old[n].job.plugin = "resource"
                         THEN SetResource(resource_map, n, log.output)
                         ELSE resource_map
      /\ io_log' = [m \in DOMAIN new |->
                      IF m = n THEN log
                      ELSE IF m \in DOMAIN io_log THEN io_log[m]
                      ELSE EmptyLog(new[m].job)]
  BY PresentFacts
<1>2. /\ DOMAIN JobMap(new) = DOMAIN new /\ DOMAIN JobMap(old) = DOMAIN old
      /\ \A m \in DOMAIN new : JobMap(new)[m] = new[m].job
      /\ \A m \in DOMAIN old : JobMap(old)[m] = old[m].job
  BY MapOfStates
<1>3. /\ DOMAIN io_log = DOMAIN old
      /\ \A m \in DOMAIN old :
           /\ IsLog(io_log[m], old[m].job)
           /\ old[m].job.plugin = "local" =>
                \A i \in DOMAIN io_log[m].output : io_log[m].output[i].name \in DOMAIN old
           /\ old[m].job.plugin = "resource" =>
                io_log[m].output = IF m \in DOMAIN resource_map THEN resource_map[m] ELSE {}
      /\ \A r \in DOMAIN resource_map : r \in DOMAIN old /\ old[r].job.plugin = "resource"
  BY <1>2 DEF LogsAreFollowed
<1> HIDE DEF old, new
<1>4. /\ DOMAIN io_log' = DOMAIN new /\ io_log'[n] = log
      /\ \A m \in DOMAIN old : m # n => io_log'[m] = io_log[m]
      /\ \A m \in DOMAIN new \ DOMAIN old : io_log'[m] = EmptyLog(new[m].job)
  BY <1>1, <1>3 DEF old
<1>5. /\ \A m : m # n => /\ m \in DOMAIN resource_map' <=> m \in DOMAIN resource_map
                         /\ m \in DOMAIN resource_map => resource_map'[m] = resource_map[m]
      /\ old[n].job.plugin = "resource" =>
           n \in DOMAIN resource_map' /\ resource_map'[n] = log.output
      /\ old[n].job.plugin # "resource" => resource_map' = resource_map
  BY <1>1 DEF SetResource
<1>6. ASSUME NEW m \in DOMAIN new
      PROVE  IsLog(io_log'[m], new[m].job)
  <2>1. CASE m = n
    BY <1>1, <1>4, <2>1 DEF old
  <2>2. CASE m # n /\ m \in DOMAIN old
    BY <1>1, <1>3, <1>4, <2>2
  <2>3. CASE m \notin DOMAIN old
    BY <1>4, <1>6, <2>3, EmptyLogType
  <2>4. QED
    BY <2>1, <2>2, <2>3
<1>7. ASSUME NEW m \in DOMAIN new, new[m].job.plugin = "local",
             NEW i \in DOMAIN io_log'[m].output
      PROVE  io_log'[m].output[i].name \in DOMAIN new
  <2>1. CASE m = n
    BY <1>1, <1>4, <1>7, <2>1 DEF old
  <2>2. CASE m # n /\ m \in DOMAIN old
    BY <1>1, <1>3, <1>4, <1>7, <2>2
  <2>3. CASE m \notin DOMAIN old
    <3>1. io_log'[m].output = <<>>
      BY <1>4, <1>7, <2>3, EmptyLogType
    <3>2. QED
      BY <1>7, <3>1
  <2>4. QED
    BY <2>1, <2>2, <2>3
<1>8. ASSUME NEW m \in DOMAIN new, new[m].job.plugin = "resource"
      PROVE  io_log'[m].output = IF m \in DOMAIN resource_map' THEN resource_map'[m] ELSE {}
  <2>1. CASE m = n
    BY <1>1, <1>4, <1>5, <1>8, <2>1 DEF old
  <2>2. CASE m # n /\ m \in DOMAIN old
    BY <1>1, <1>3, <1>4, <1>5, <1>8, <2>2
  <2>3. CASE m \notin DOMAIN old
    <3>1. io_log'[m].output = {} /\ m # n
      BY <1>4, <1>8, <2>3, EmptyLogType DEF old
    <3>2. m \notin DOMAIN resource_map'
      BY <1>3, <1>5, <2>3, <3>1
    <3>3. QED
      BY <3>1, <3>2
  <2>4. QED
    BY <2>1, <2>2, <2>3
<1>9. ASSUME NEW r \in DOMAIN resource_map'
      PROVE  r \in DOMAIN new /\ new[r].job.plugin = "resource"
  <2>1. CASE r = n
    BY <1>1, <1>3, <1>5, <1>9, <2>1 DEF old
  <2>2. CASE r # n
    BY <1>1, <1>3, <1>5, <1>9, <2>2
  <2>3. QED
    BY <2>1, <2>2
<1>10. QED
  BY <1>2, <1>4, <1>6, <1>7, <1>8, <1>9 DEF LogsAreFollowed, new

-----------------------------------------------------------------------------
(* The search of the solver is deterministic, and does not notice jobs that *)
(* nobody needs.  A run is what it goes through, from the visit list on.   *)

SearchStep(s, t, map) ==
  \/ CanVisitNext(s) /\ t = VisitNext(s)
  \/ /\ CanVisitDependency(s) /\ NextDependency(s)[2] \in DOMAIN map
     /\ t = VisitDependency(s, map)
  \/ /\ CanVisitDependency(s) /\ NextDependency(s)[2] \notin DOMAIN map
     /\ t = RaiseMissing(s)
  \/ CanFinish(s) /\ t = Finish(s)

IsRun(run, n, visit, map) ==
  /\ n \in Nat \ {0} /\ run[1] = StartSolver(visit)
  /\ \A i \in 1..n : SolverType(run[i], map)
  /\ \A i \in 1..(n - 1) : SearchStep(run[i], run[i + 1], map)

Reaches(visit, map, s) ==
  \E n, run : IsRun(run, n, visit, map) /\ run[n] = s

\* The search for `visit' ends with the solution `list'.
Gives(visit, map, list) ==
  \E s : Reaches(visit, map, s) /\ Solved(s) /\ s.solution = list

LEMMA StoppedIsLast ==
  ASSUME NEW s, NEW t, NEW map, SearchStep(s, t, map)
  PROVE  ~SolverStopped(s)
BY DEF SearchStep, SolverStopped, Solved, CanVisitNext, CanVisitDependency, CanFinish

LEMMA SearchIsFunction ==
  ASSUME NEW s, NEW t, NEW u, NEW map, SearchStep(s, t, map), SearchStep(s, u, map)
  PROVE  t = u
BY DEF SearchStep, CanVisitNext, CanVisitDependency, CanFinish

LEMMA StartReaches ==
  ASSUME NEW map \in JobMaps, NEW visit \in Seq(Known(map))
  PROVE  Reaches(visit, map, StartSolver(visit))
<1> DEFINE run == [i \in {1} |-> StartSolver(visit)]
<1>1. SolverType(StartSolver(visit), map)
  BY StartInv DEF SolverInv
<1>2. run[1] = StartSolver(visit)
  OBVIOUS
<1> HIDE DEF run
<1>3. IsRun(run, 1, visit, map)
  BY <1>1, <1>2 DEF IsRun
<1>4. QED
  BY <1>2, <1>3 DEF Reaches

LEMMA StepReaches ==
  ASSUME NEW map, NEW visit, NEW s, NEW t, Reaches(visit, map, s),
         SearchStep(s, t, map), SolverType(t, map)
  PROVE  Reaches(visit, map, t)
<1>1. PICK n, run : IsRun(run, n, visit, map) /\ run[n] = s /\ n \in Nat \ {0}
  BY DEF Reaches, IsRun
<1> DEFINE longer == [i \in 1..(n + 1) |-> IF i = n + 1 THEN t ELSE run[i]]
<1>2. /\ \A i \in 1..n : longer[i] = run[i]
      /\ longer[n + 1] = t
  BY <1>1
<1> HIDE DEF longer
<1>3. IsRun(longer, n + 1, visit, map)
  <2>1. longer[1] = StartSolver(visit) /\ n + 1 \in Nat \ {0} /\ (n + 1) - 1 = n
    BY <1>1, <1>2 DEF IsRun
  <2>2. \A i \in 1..(n + 1) : SolverType(longer[i], map)
    BY <1>1, <1>2 DEF IsRun
  <2>3. \A i \in 1..n : SearchStep(longer[i], longer[i + 1], map)
    <3>1. \A i \in 1..(n - 1) : SearchStep(longer[i], longer[i + 1], map)
      BY <1>1, <1>2 DEF IsRun
    <3>2. SearchStep(longer[n], longer[n + 1], map)
      BY <1>1, <1>2
    <3>3. n \in Nat \ {0}
      BY <1>1
    <3>4. QED
      BY ONLY <3>1, <3>2, <3>3
  <2>4. QED
    BY <2>1, <2>2, <2>3 DEF IsRun
<1>4. QED
  BY <1>2, <1>3 DEF Reaches

\* Two runs for one visit list are the same as far as both go.
LEMMA RunsAgree ==
  ASSUME NEW map, NEW visit, NEW n, NEW m, NEW run, NEW other,
         IsRun(run, n, visit, map), IsRun(other, m, visit, map), n <= m
  PROVE  \A i \in 1..n : run[i] = other[i]
<1>1. n \in Nat \ {0} /\ m \in Nat \ {0}
  BY DEF IsRun
<1> DEFINE I == {i \in 1..n : run[i] # other[i]}
<1>2. SUFFICES ASSUME I # {}
               PROVE  FALSE
  OBVIOUS
<1>3. PICK i \in I : \A j \in I : i <= j
  <2>1. I \in SUBSET Nat
    BY <1>1
  <2>2. QED
    BY <1>2, <2>1, Least
<1>4. run[1] = other[1]
  BY DEF IsRun
<1>5. i \in 1..n /\ i # 1 /\ i - 1 \in 1..(n - 1) /\ i - 1 \in 1..(m - 1) /\ i - 1 \notin I
  BY <1>1, <1>3, <1>4
<1>6. run[i - 1] = other[i - 1]
  BY <1>1, <1>5
<1>7. (i - 1) + 1 = i
  BY <1>1, <1>5
<1>8. SearchStep(run[i - 1], run[i], map) /\ SearchStep(other[i - 1], other[i], map)
  BY <1>5, <1>7 DEF IsRun
<1>9. run[i] = other[i]
  BY <1>6, <1>8, SearchIsFunction
<1>10. QED
  BY <1>3, <1>9

LEMMA ShorterRunIsWhole ==
  ASSUME NEW map, NEW visit, NEW n, NEW m, NEW run, NEW other,
         IsRun(run, n, visit, map), IsRun(other, m, visit, map), n <= m,
         SolverStopped(run[n])
  PROVE  run[n] = other[m]
<1>1. n \in Nat \ {0} /\ m \in Nat \ {0}
  BY DEF IsRun
<1>2. run[n] = other[n]
  BY <1>1, RunsAgree
<1>3. ASSUME n # m
      PROVE  FALSE
  <2>1. n \in 1..(m - 1)
    BY <1>1, <1>3
  <2>2. SearchStep(other[n], other[n + 1], map)
    BY <2>1 DEF IsRun
  <2>3. QED
    BY <1>2, <2>2, StoppedIsLast
<1>4. QED
  BY <1>2, <1>3

\* However often it is searched, a visit list has one outcome.
LEMMA OneOutcome ==
  ASSUME NEW map, NEW visit, NEW s, NEW t, Reaches(visit, map, s), Reaches(visit, map, t),
         SolverStopped(s), SolverStopped(t)
  PROVE  s = t
<1>1. PICK n, run : IsRun(run, n, visit, map) /\ run[n] = s
  BY DEF Reaches
<1>2. PICK m, other : IsRun(other, m, visit, map) /\ other[m] = t
  BY DEF Reaches
<1>3. n <= m \/ m <= n
  BY <1>1, <1>2 DEF IsRun
<1>4. QED
  BY <1>1, <1>2, <1>3, ShorterRunIsWhole

LEMMA KnownGrows ==
  ASSUME NEW map, NEW new, DOMAIN map \subseteq DOMAIN new,
         \A n \in DOMAIN map : new[n] = map[n]
  PROVE  Known(map) \subseteq Known(new)
BY DEF Known

LEMMA SeqGrows ==
  ASSUME NEW S, NEW T, S \subseteq T
  PROVE  Seq(S) \subseteq Seq(T)
OBVIOUS

LEMMA SolverTypeGrows ==
  ASSUME NEW map, NEW new, Known(map) \subseteq Known(new), NEW s, SolverType(s, map)
  PROVE  SolverType(s, new)
<1> DEFINE Jobs(m) == Seq(Known(m))
           Frames(m) == Seq([job : Known(m), deps : Seq({"direct", "resource"} \X Names)])
           Colors == [Names -> Color]
           Errors == SUBSET Problems
           Searches(m) == [visit : Jobs(m), stack : Frames(m), color : Colors,
                           solution : Jobs(m), raised : Errors]
<1>1. s \in Searches(map)
  BY DEF SolverType
<1>2. Jobs(map) \subseteq Jobs(new) /\ Frames(map) \subseteq Frames(new)
  <2>1. PICK F : F = [job : Known(map), deps : Seq({"direct", "resource"} \X Names)]
    OBVIOUS
  <2>2. PICK G : G = [job : Known(new), deps : Seq({"direct", "resource"} \X Names)]
    OBVIOUS
  <2>3. F \subseteq G
    BY <2>1, <2>2
  <2>4. Seq(F) \subseteq Seq(G)
    BY ONLY <2>3, SeqGrows
  <2>5. Frames(map) = Seq(F) /\ Frames(new) = Seq(G)
    BY <2>1, <2>2
  <2>6. Jobs(map) \subseteq Jobs(new)
    BY SeqGrows
  <2>7. QED
    BY <2>4, <2>5, <2>6
<1> HIDE DEF Jobs, Frames, Colors, Errors
<1>3. s \in Searches(new)
  BY <1>1, <1>2
<1>4. QED
  BY <1>3 DEF SolverType, Jobs, Frames, Colors, Errors

LEMMA RaiseMissingRaises ==
  ASSUME NEW map, NEW s, SolverType(s, map)
  PROVE  RaiseMissing(s).raised # {}
BY DEF RaiseMissing, SolverType

\* More jobs do not change a search that ends with a solution.
LEMMA GivesTheSame ==
  ASSUME NEW map, NEW new, DOMAIN map \subseteq DOMAIN new,
         \A n \in DOMAIN map : new[n] = map[n],
         NEW visit, NEW list, Gives(visit, map, list)
  PROVE  Gives(visit, new, list)
<1>1. PICK s : Reaches(visit, map, s) /\ Solved(s) /\ s.solution = list
  BY DEF Gives
<1>2. PICK n, run : IsRun(run, n, visit, map) /\ run[n] = s /\ n \in Nat \ {0}
  BY <1>1 DEF Reaches, IsRun
<1>3. ASSUME NEW i \in 1..(n - 1)
      PROVE  SearchStep(run[i], run[i + 1], new)
  <2>1. SearchStep(run[i], run[i + 1], map) /\ SolverType(run[i], map)
    BY <1>2 DEF IsRun
  <2>2. ASSUME run[i + 1] = RaiseMissing(run[i])
        PROVE  FALSE
    <3>1. run[i + 1].raised # {}
      BY <2>1, <2>2, RaiseMissingRaises
    <3>2. CASE i + 1 = n
      BY <1>1, <1>2, <3>1, <3>2 DEF Solved
    <3>3. CASE i + 1 # n
      <4>1. i + 1 \in 1..(n - 1)
        BY <1>2, <3>3
      <4>2. SearchStep(run[i + 1], run[(i + 1) + 1], map)
        BY <1>2, <4>1 DEF IsRun
      <4>3. QED
        BY <3>1, <4>2, StoppedIsLast DEF SolverStopped
    <3>4. QED
      BY <3>2, <3>3
  <2>3. CASE CanVisitNext(run[i]) /\ run[i + 1] = VisitNext(run[i])
    BY <2>3 DEF SearchStep
  <2>4. CASE /\ CanVisitDependency(run[i]) /\ NextDependency(run[i])[2] \in DOMAIN map
             /\ run[i + 1] = VisitDependency(run[i], map)
    <3>1. VisitDependency(run[i], map) = VisitDependency(run[i], new)
      BY <2>4 DEF VisitDependency
    <3>2. QED
      BY <2>4, <3>1 DEF SearchStep
  <2>5. CASE CanFinish(run[i]) /\ run[i + 1] = Finish(run[i])
    BY <2>5 DEF SearchStep
  <2>6. QED
    BY <2>1, <2>2, <2>3, <2>4, <2>5 DEF SearchStep
<1>4. \A i \in 1..n : SolverType(run[i], new)
  <2>1. Known(map) \subseteq Known(new)
    BY KnownGrows
  <2>2. QED
    BY <1>2, <2>1, SolverTypeGrows DEF IsRun
<1>5. IsRun(run, n, visit, new)
  BY <1>2, <1>3, <1>4 DEF IsRun
<1>6. QED
  BY <1>1, <1>2, <1>5 DEF Gives, Reaches

-----------------------------------------------------------------------------
(* The names that a pass has still to process.                             *)

LEMMA InToSet ==
  ASSUME NEW seq, NEW x
  PROVE  x \in ToSet(seq) <=> \E i \in DOMAIN seq : seq[i] = x
BY DEF ToSet

LEMMA ConcatFacts ==
  ASSUME NEW S, NEW a \in Seq(S), NEW b \in Seq(S)
  PROVE  /\ a \o b \in Seq(S)
         /\ ToSet(a \o b) = ToSet(a) \cup ToSet(b)
         /\ IsInjective(a \o b) <=> /\ IsInjective(a) /\ IsInjective(b)
                                    /\ ToSet(a) \cap ToSet(b) = {}
<1> DEFINE q == a \o b
           m == Len(a)
           n == Len(b)
<1>1. /\ q \in Seq(S) /\ m \in Nat /\ n \in Nat
      /\ DOMAIN a = 1..m /\ DOMAIN b = 1..n /\ DOMAIN q = 1..(m + n)
      /\ \A i \in 1..m : q[i] = a[i]
      /\ \A i \in 1..n : q[m + i] = b[i]
      /\ \A i \in 1..(m + n) : i \in 1..m \/ (i - m \in 1..n /\ i = m + (i - m))
  OBVIOUS
<1> HIDE DEF q, m, n
<1>2. ToSet(q) = ToSet(a) \cup ToSet(b)
  <2>1. ASSUME NEW i \in DOMAIN q
        PROVE  q[i] \in ToSet(a) \cup ToSet(b)
    <3>1. CASE i \in 1..m
      BY <1>1, <3>1, InToSet
    <3>2. CASE i \notin 1..m
      <4>1. i - m \in 1..n /\ i = m + (i - m)
        BY <1>1, <3>2
      <4>2. q[m + (i - m)] = b[i - m]
        BY <1>1, <4>1
      <4>3. i - m \in DOMAIN b /\ b[i - m] = q[i]
        BY <1>1, <4>1, <4>2
      <4>4. QED
        BY ONLY <4>3, InToSet
    <3>3. QED
      BY <3>1, <3>2
  <2>2. ASSUME NEW i \in DOMAIN a
        PROVE  a[i] \in ToSet(q)
    BY <1>1 DEF ToSet
  <2>3. ASSUME NEW i \in DOMAIN b
        PROVE  b[i] \in ToSet(q)
    <3>1. m + i \in DOMAIN q /\ q[m + i] = b[i]
      BY <1>1
    <3>2. QED
      BY ONLY <3>1, InToSet
  <2>4. QED
    BY ONLY <2>1, <2>2, <2>3, InToSet
<1>3. ASSUME IsInjective(q)
      PROVE  IsInjective(a) /\ IsInjective(b) /\ ToSet(a) \cap ToSet(b) = {}
  <2>1. \A i, j \in 1..(m + n) : q[i] = q[j] => i = j
    BY <1>1, <1>3 DEF IsInjective
  <2>2. IsInjective(a)
    BY <1>1, <2>1 DEF IsInjective
  <2>3. ASSUME NEW i \in 1..n, NEW j \in 1..n, b[i] = b[j]
        PROVE  i = j
    <3>1. m + i \in 1..(m + n) /\ m + j \in 1..(m + n) /\ q[m + i] = q[m + j]
      BY <1>1, <2>3
    <3>2. m + i = m + j
      BY <2>1, <3>1
    <3>3. QED
      BY <1>1, <3>2
  <2>4. ASSUME NEW i \in 1..m, NEW j \in 1..n, a[i] = b[j]
        PROVE  FALSE
    <3>1. i \in 1..(m + n) /\ m + j \in 1..(m + n) /\ q[i] = q[m + j] /\ i # m + j
      BY <1>1, <2>4
    <3>2. QED
      BY <2>1, <3>1
  <2>5. QED
    BY <1>1, <2>2, <2>3, <2>4 DEF IsInjective, ToSet
<1>4. ASSUME IsInjective(a), IsInjective(b), ToSet(a) \cap ToSet(b) = {}
      PROVE  IsInjective(q)
  <2>1. /\ \A i, j \in 1..m : a[i] = a[j] => i = j
        /\ \A i, j \in 1..n : b[i] = b[j] => i = j
        /\ \A i \in 1..m : \A j \in 1..n : a[i] # b[j]
    <3>1. /\ \A i, j \in 1..m : a[i] = a[j] => i = j
          /\ \A i, j \in 1..n : b[i] = b[j] => i = j
      BY <1>1, <1>4 DEF IsInjective
    <3>2. ASSUME NEW i \in 1..m, NEW j \in 1..n, a[i] = b[j]
          PROVE  FALSE
      <4>1. a[i] \in ToSet(a) /\ a[i] \in ToSet(b)
        BY ONLY <1>1, <3>2, InToSet
      <4>2. QED
        BY <1>4, <4>1
    <3>3. QED
      BY <3>1, <3>2
  <2>2. ASSUME NEW i \in 1..(m + n), NEW j \in 1..(m + n), q[i] = q[j]
        PROVE  i = j
    <3>1. CASE i \in 1..m /\ j \in 1..m
      BY <1>1, <2>1, <2>2, <3>1
    <3>2. CASE i \in 1..m /\ j \notin 1..m
      <4>1. j - m \in 1..n /\ a[i] = b[j - m]
        BY <1>1, <2>2, <3>2
      <4>2. QED
        BY <2>1, <3>2, <4>1
    <3>3. CASE i \notin 1..m /\ j \in 1..m
      <4>1. i - m \in 1..n /\ a[j] = b[i - m]
        BY <1>1, <2>2, <3>3
      <4>2. QED
        BY <2>1, <3>3, <4>1
    <3>4. CASE i \notin 1..m /\ j \notin 1..m
      <4>1. i - m \in 1..n /\ j - m \in 1..n /\ b[i - m] = b[j - m]
        BY <1>1, <2>2, <3>4
      <4>2. i - m = j - m
        BY <2>1, <4>1
      <4>3. QED
        BY <1>1, <4>2
    <3>5. QED
      BY <3>1, <3>2, <3>3, <3>4
  <2>3. QED
    BY <1>1, <2>2 DEF IsInjective
<1>5. QED
  BY <1>1, <1>2, <1>3, <1>4 DEF q

LEMMA TailKeepsInjective ==
  ASSUME NEW S, NEW a \in Seq(S), a # <<>>
  PROVE  /\ Tail(a) \in Seq(S) /\ Head(a) \in S
         /\ ToSet(a) = ToSet(Tail(a)) \cup {Head(a)}
         /\ IsInjective(a) => IsInjective(Tail(a)) /\ Head(a) \notin ToSet(Tail(a))
<1>1. /\ Head(a) = a[1] /\ 1 \in DOMAIN a /\ Head(a) \in S
      /\ Tail(a) \in Seq(S)
      /\ \A i \in DOMAIN a : i # 1 =>
           i - 1 \in DOMAIN Tail(a) /\ Tail(a)[i - 1] = a[i]
      /\ \A i \in DOMAIN Tail(a) :
           i + 1 \in DOMAIN a /\ Tail(a)[i] = a[i + 1]
  BY TailFacts
<1>2. DOMAIN a \in SUBSET (Nat \ {0}) /\ DOMAIN Tail(a) \in SUBSET (Nat \ {0})
  BY <1>1
<1>3. ToSet(a) = ToSet(Tail(a)) \cup {Head(a)}
  <2>1. ASSUME NEW i \in DOMAIN a
        PROVE  a[i] \in ToSet(Tail(a)) \cup {Head(a)}
    BY <1>1, InToSet
  <2>2. ASSUME NEW i \in DOMAIN Tail(a)
        PROVE  Tail(a)[i] \in ToSet(a)
    BY <1>1, InToSet
  <2>3. Head(a) \in ToSet(a)
    BY <1>1, InToSet
  <2>4. QED
    BY ONLY <2>1, <2>2, <2>3, InToSet
<1>4. ASSUME IsInjective(a)
      PROVE  IsInjective(Tail(a)) /\ Head(a) \notin ToSet(Tail(a))
  <2>1. ASSUME NEW i \in DOMAIN Tail(a), NEW j \in DOMAIN Tail(a), Tail(a)[i] = Tail(a)[j]
        PROVE  i = j
    <3>1. i + 1 = j + 1
      BY <1>1, <1>4, <2>1 DEF IsInjective
    <3>2. QED
      BY <1>2, <3>1
  <2>2. ASSUME NEW i \in DOMAIN Tail(a), Tail(a)[i] = Head(a)
        PROVE  FALSE
    <3>1. i + 1 = 1
      BY <1>1, <1>4, <2>2 DEF IsInjective
    <3>2. QED
      BY <1>2, <3>1
  <2>3. QED
    BY <2>1, <2>2 DEF IsInjective, ToSet
<1>5. QED
  BY <1>1, <1>3, <1>4

LEMMA AppendKeepsInjective ==
  ASSUME NEW S, NEW b \in Seq(S), NEW x \in S
  PROVE  /\ Append(b, x) \in Seq(S)
         /\ ToSet(Append(b, x)) = ToSet(b) \cup {x}
         /\ IsInjective(b) /\ x \notin ToSet(b) => IsInjective(Append(b, x))
<1> DEFINE new == Append(b, x)
           m == Len(b)
<1>1. /\ new \in Seq(S) /\ m \in Nat
      /\ DOMAIN b = 1..m /\ DOMAIN new = 1..(m + 1) /\ new[m + 1] = x
      /\ \A k \in 1..m : new[k] = b[k]
  <2>1. /\ new \in Seq(S) /\ m \in Nat /\ DOMAIN b = 1..m
        /\ Len(new) = m + 1
        /\ new[m + 1] = x
        /\ \A k \in 1..m : new[k] = b[k]
    BY AppendFacts
  <2>2. DOMAIN new = 1..(m + 1)
    BY AppendFacts
  <2>3. QED
    BY <2>1, <2>2
<1> HIDE DEF new, m
<1>2. ToSet(new) = ToSet(b) \cup {x}
  <2>1. \A i \in 1..(m + 1) : i \in 1..m \/ i = m + 1
    BY <1>1
  <2>2. QED
    BY <1>1, <2>1 DEF ToSet
<1>3. ASSUME IsInjective(b), x \notin ToSet(b)
      PROVE  IsInjective(new)
  <2>1. \A i, j \in 1..m : b[i] = b[j] => i = j
    BY <1>1, <1>3 DEF IsInjective
  <2>2. \A i \in 1..m : b[i] # x
    BY <1>1, <1>3 DEF ToSet
  <2>3. \A i, j \in 1..(m + 1) : new[i] = new[j] => i = j
    BY <1>1, <2>1, <2>2
  <2>4. QED
    BY <1>1, <2>3 DEF IsInjective
<1>4. QED
  BY <1>1, <1>2, <1>3 DEF new

-----------------------------------------------------------------------------
(* The inductive invariant.                                                *)

DesiredOf(s) == [i \in DOMAIN s.desired |-> s.jobs[s.desired[i]]]

SearchOfSession ==
  /\ phase = "solving" => Reaches(desired_job_list, JobMap(job_state_map), solver)
  /\ phase = "idle" => Gives(desired_job_list, JobMap(job_state_map), run_list)

SearchOfSaved ==
  \A s \in saved : s.phase = "idle" => Gives(DesiredOf(s), s.jobs, s.run_list)

ResumeInv ==
  /\ ResumeTypeOK /\ ReadyInv /\ ReplayInv /\ RefusedForAReason
  /\ SearchOfSession /\ SearchOfSaved

SessionInv == ReadyInv /\ SessionIsKept /\ SearchOfSession

SavedInv ==
  /\ \A s, t \in saved : s = t
  /\ \A s \in saved : IsSaved(s)
  /\ SearchOfSaved

RestTypeOK ==
  /\ given \in InitialMaps
  /\ mode \in {"live", "replaying", "selecting", "corrupted", "incompatible"}
  /\ todo \in Seq(Names) /\ leftover_jobs \in Seq(Names)
  /\ leftover_shrunk \in BOOLEAN

ModeInv ==
  /\ mode \notin {"live", "selecting"} => phase = "idle"
  /\ saved = {} <=> mode = "live"
  /\ ReplayIsKept /\ SelectionIsKept /\ RefusedForAReason

LEMMA ResumeInvParts ==
  ResumeInv <=> SessionInv /\ SavedInv /\ RestTypeOK /\ ModeInv
<1>1. ResumeInv => SessionInv /\ SavedInv /\ RestTypeOK /\ ModeInv
  BY DEF ResumeInv, ResumeTypeOK, ReplayInv, SavedIsKept, SessionInv, SavedInv, RestTypeOK,
         ModeInv
<1>2. SessionInv => TypeOK /\ DOMAIN io_log = DOMAIN job_state_map
  BY MapOfStates DEF SessionInv, ReadyInv, SessionIsKept, LogsAreFollowed
<1>3. SessionInv /\ SavedInv /\ RestTypeOK /\ ModeInv => ResumeInv
  BY <1>2
  DEF ResumeInv, ResumeTypeOK, ReplayInv, SavedIsKept, SessionInv, SavedInv, RestTypeOK,
      ModeInv
<1>4. QED
  BY <1>1, <1>3

LEMMA ResumeInvPartsPrimed ==
  ResumeInv' <=> SessionInv' /\ SavedInv' /\ RestTypeOK' /\ ModeInv'
<1>1. (ResumeInv <=> SessionInv /\ SavedInv /\ RestTypeOK /\ ModeInv)'
  BY ResumeInvParts, PTL
<1>2. QED
  BY <1>1

LEMMA SessionUnchanged ==
  ASSUME SessionInv, UNCHANGED <<vars, given, io_log>>
  PROVE  SessionInv'
<1>1. /\ UNCHANGED <<job_state_map, desired_job_list, run_list, resource_map>>
      /\ UNCHANGED <<phase, solver, problems, requested, stale, given, io_log>>
  BY DEF vars, session, call
<1>2. ReadyInv'
  BY NextReady DEF SessionInv
<1>3. SessionIsKept'
  BY <1>1 DEF SessionInv, SessionIsKept, GivenAreKept
<1>4. SearchOfSession'
  BY <1>1 DEF SessionInv, SearchOfSession
<1>5. QED
  BY <1>2, <1>3, <1>4 DEF SessionInv

LEMMA SavedUnchanged ==
  ASSUME SavedInv, UNCHANGED <<saved, given>>
  PROVE  SavedInv'
BY DEF SavedInv, IsSaved, GivenAreKept, SearchOfSaved

\* What is known of a session that is replayed, from its one saved session.
LEMMA TheSaved ==
  ASSUME ResumeInv, mode # "live"
  PROVE  \E s : saved = {s} /\ IsSaved(s)
BY ResumeInvParts DEF ModeInv, SavedInv

-----------------------------------------------------------------------------
(* The steps that leave the session alone.                                 *)

LEMMA SavedFacts ==
  ASSUME NEW s, IsSaved(s)
  PROVE  /\ s.jobs \in JobMaps
         /\ \A n \in DOMAIN s.jobs : n \in Names /\ s.jobs[n] \in JobDefs
         /\ \A n \in DOMAIN s.jobs : s.outcome[n] \in Outcomes
         /\ DOMAIN s.io_log = DOMAIN s.jobs
         /\ \A n \in DOMAIN s.jobs :
              /\ IsLog(s.io_log[n], s.jobs[n])
              /\ s.jobs[n].plugin = "local" =>
                   \A i \in DOMAIN s.io_log[n].output :
                     s.io_log[n].output[i].name \in DOMAIN s.jobs
              /\ s.jobs[n].plugin = "resource" =>
                   s.io_log[n].output =
                     IF n \in DOMAIN s.resources THEN s.resources[n] ELSE {}
         /\ \A r \in DOMAIN s.resources :
              r \in DOMAIN s.jobs /\ s.jobs[r].plugin = "resource"
         /\ \A n \in DOMAIN given : n \in DOMAIN s.jobs /\ s.jobs[n] = given[n]
         /\ s.desired \in Seq(DOMAIN s.jobs)
         /\ s.phase \in {"idle", "raised"}
<1>1. s.jobs \in JobMaps
  BY DEF IsSaved, JobMaps
<1>2. QED
  BY <1>1 DEF IsSaved, LogsAreFollowed, GivenAreKept

IsBack(s, n) ==
  /\ n \in DOMAIN job_state_map
  /\ job_state_map[n].job = s.jobs[n]
  /\ job_state_map[n].outcome = s.outcome[n]
  /\ io_log[n] = s.io_log[n]
  /\ s.jobs[n].plugin = "resource" => n \in DOMAIN resource_map

\* ReplayIsKept, for the saved session s.
ReplayOf(s) ==
  /\ phase = "idle" /\ desired_job_list = <<>> /\ run_list = <<>>
  /\ IsInjective(todo \o leftover_jobs)
  /\ DOMAIN job_state_map \subseteq DOMAIN s.jobs
  /\ ToSet(todo \o leftover_jobs) \subseteq DOMAIN s.jobs
  /\ \A n \in DOMAIN job_state_map \ DOMAIN given :
       job_state_map[n].job \in Definitions(s, n)
  /\ \A n \in DOMAIN s.jobs \ ToSet(todo \o leftover_jobs) : IsBack(s, n)
  /\ ~leftover_shrunk =>
       \A i \in DOMAIN leftover_jobs : leftover_jobs[i] \notin DOMAIN job_state_map

LEMMA ReplayParts ==
  ASSUME NEW s, saved = {s}, mode = "replaying"
  PROVE  ReplayIsKept <=> ReplayOf(s)
BY DEF ReplayIsKept, NothingIsSkipped, ReplayIsOfSaved, Replayed, ReplayOf, IsBack

LEMMA ReplayPartsPrimed ==
  ASSUME NEW s, saved' = {s}, mode' = "replaying", ReplayOf(s)'
  PROVE  ReplayIsKept'
<1>1. NothingIsSkipped'
  BY DEF NothingIsSkipped, ReplayOf, IsBack
<1>2. \A t \in saved' : ReplayIsOfSaved(t)'
  BY DEF ReplayIsOfSaved, Replayed, ReplayOf, IsBack
<1>3. QED
  BY <1>1, <1>2 DEF ReplayIsKept

LEMMA ReplayFacts ==
  ASSUME ResumeInv, mode = "replaying"
  PROVE  \E s : saved = {s} /\ IsSaved(s) /\ ReplayOf(s)
<1>1. PICK s : saved = {s} /\ IsSaved(s)
  BY TheSaved
<1>2. ReplayIsKept
  BY DEF ResumeInv, ReplayInv
<1>3. QED
  BY <1>1, <1>2, ReplayParts

LEMMA QueueFacts ==
  ASSUME RestTypeOK
  PROVE  /\ todo \in Seq(Names) /\ leftover_jobs \in Seq(Names)
         /\ ToSet(todo \o leftover_jobs) = ToSet(todo) \cup ToSet(leftover_jobs)
         /\ IsInjective(todo \o leftover_jobs)
              <=> /\ IsInjective(todo) /\ IsInjective(leftover_jobs)
                  /\ ToSet(todo) \cap ToSet(leftover_jobs) = {}
BY ConcatFacts DEF RestTypeOK

\* Steps of the replay after which it goes on.
LEMMA ReplayGoesOn ==
  ASSUME ResumeInv, NEW s, saved = {s}, UNCHANGED <<saved, given>>,
         SessionInv', RestTypeOK', mode' = "replaying", ReplayOf(s)'
  PROVE  ResumeInv'
<1>1. SavedInv'
  BY ResumeInvParts, SavedUnchanged
<1>2. ModeInv'
  <2>1. ReplayIsKept'
    BY ReplayPartsPrimed
  <2>2. phase' = "idle"
    BY DEF ReplayOf
  <2>3. QED
    BY <2>1, <2>2 DEF ModeInv, SelectionIsKept, RefusedForAReason
<1>3. QED
  BY <1>1, <1>2, ResumeInvPartsPrimed

LEMMA LeaveJobKeeps ==
  ASSUME ResumeInv, NEW n \in Names, LeaveJob(n)
  PROVE  ResumeInv'
<1>1. /\ mode = "replaying" /\ todo # <<>> /\ n = Head(todo) /\ n \notin DOMAIN job_state_map
      /\ leftover_jobs' = Append(leftover_jobs, n) /\ todo' = Tail(todo)
      /\ UNCHANGED <<vars, given, io_log, mode, saved, leftover_shrunk>>
  BY DEF LeaveJob, Processing
<1>2. SessionInv /\ RestTypeOK /\ SessionInv'
  BY <1>1, ResumeInvParts, SessionUnchanged
<1>3. PICK s : saved = {s} /\ IsSaved(s) /\ ReplayOf(s)
  BY <1>1, ReplayFacts
<1>4. /\ todo' \in Seq(Names) /\ n \in Names
      /\ ToSet(todo) = ToSet(todo') \cup {n}
      /\ IsInjective(todo) => IsInjective(todo') /\ n \notin ToSet(todo')
  BY <1>1, <1>2, TailKeepsInjective DEF RestTypeOK
<1>5. /\ leftover_jobs' \in Seq(Names)
      /\ ToSet(leftover_jobs') = ToSet(leftover_jobs) \cup {n}
      /\ IsInjective(leftover_jobs) /\ n \notin ToSet(leftover_jobs)
           => IsInjective(leftover_jobs')
  BY <1>1, <1>2, <1>4, AppendKeepsInjective DEF RestTypeOK
<1>6. RestTypeOK'
  BY <1>1, <1>2, <1>4, <1>5 DEF RestTypeOK
<1>7. /\ ToSet(todo \o leftover_jobs)' = ToSet(todo \o leftover_jobs)
      /\ IsInjective(todo \o leftover_jobs) => IsInjective(todo \o leftover_jobs)'
  <2>1. /\ ToSet(todo \o leftover_jobs)' = ToSet(todo') \cup ToSet(leftover_jobs')
        /\ IsInjective(todo \o leftover_jobs)'
             <=> /\ IsInjective(todo') /\ IsInjective(leftover_jobs')
                 /\ ToSet(todo') \cap ToSet(leftover_jobs') = {}
    BY <1>4, <1>5, ConcatFacts
  <2>2. QED
    BY <1>2, <1>4, <1>5, <2>1, QueueFacts
<1>8. \A i \in DOMAIN leftover_jobs' :
        leftover_jobs'[i] = n \/ \E j \in DOMAIN leftover_jobs : leftover_jobs'[i] = leftover_jobs[j]
  <2>1. \A i \in DOMAIN leftover_jobs' : leftover_jobs'[i] \in ToSet(leftover_jobs) \cup {n}
    BY <1>5, InToSet
  <2>2. QED
    BY <2>1, InToSet
<1>9. ReplayOf(s)'
  <2>1. UNCHANGED <<job_state_map, desired_job_list, run_list, resource_map, phase>>
    BY <1>1 DEF vars, session, call
  <2>2. QED
    BY <1>1, <1>3, <1>7, <1>8, <2>1 DEF ReplayOf, IsBack, Definitions
<1>10. QED
  BY <1>1, <1>2, <1>3, <1>6, <1>9, ReplayGoesOn

\* The steps that refuse a session.
LEMMA RefusalKeeps ==
  ASSUME ResumeInv, mode = "replaying", mode' \in {"incompatible", "corrupted"},
         UNCHANGED <<vars, given, io_log, saved, todo, leftover_jobs, leftover_shrunk>>,
         RefusedForAReason'
  PROVE  ResumeInv'
<1>1. SessionInv' /\ SavedInv'
  BY ResumeInvParts, SessionUnchanged, SavedUnchanged
<1>2. RestTypeOK'
  BY ResumeInvParts DEF RestTypeOK
<1>3. ModeInv'
  <2>1. phase' = phase /\ phase = "idle"
    BY ResumeInvParts DEF vars, call, ModeInv
  <2>2. QED
    BY <2>1, ResumeInvParts DEF ModeInv, ReplayIsKept, SelectionIsKept
<1>4. QED
  BY <1>1, <1>2, <1>3, ResumeInvPartsPrimed

LEMMA RejectJobKeeps ==
  ASSUME ResumeInv, NEW n \in Names, RejectJob(n)
  PROVE  ResumeInv'
<1>1. /\ mode = "replaying" /\ mode' = "incompatible" /\ n \in DOMAIN job_state_map
      /\ UNCHANGED <<vars, given, io_log, saved, todo, leftover_jobs, leftover_shrunk>>
  BY DEF RejectJob, Processing
<1>2. PICK s : saved = {s} /\ IsSaved(s) /\ ReplayOf(s)
  BY <1>1, ReplayFacts
<1>3. job_state_map[n].job # s.jobs[n] /\ n \in DOMAIN s.jobs
  BY <1>1, <1>2 DEF RejectJob, ReplayOf
<1>4. n \notin DOMAIN given
  <2>1. GivenAreKept(JobMap(job_state_map)) /\ GivenAreKept(s.jobs)
    BY <1>2, ResumeInvParts DEF SessionInv, SessionIsKept, IsSaved
  <2>2. QED
    BY <1>1, <1>3, <2>1, MapOfStates DEF GivenAreKept
<1>5. job_state_map[n].job \in Definitions(s, n) \ {s.jobs[n]}
  BY <1>1, <1>2, <1>3, <1>4 DEF ReplayOf
<1>6. RefusedForAReason'
  <2>1. \E m \in DOMAIN s.jobs : Definitions(s, m) \ {s.jobs[m]} # {}
    BY <1>3, <1>5
  <2>2. saved' = {s}
    BY <1>1, <1>2
  <2>3. QED
    BY <1>1, <2>1, <2>2 DEF RefusedForAReason, Definitions
<1>7. QED
  BY <1>1, <1>6, RefusalKeeps

LEMMA RejectResultKeeps ==
  ASSUME ResumeInv, NEW n \in Names, RejectResult(n)
  PROVE  ResumeInv'
<1>1. /\ mode = "replaying" /\ mode' = "corrupted" /\ n \in DOMAIN job_state_map
      /\ UNCHANGED <<vars, given, io_log, saved, todo, leftover_jobs, leftover_shrunk>>
      /\ \E s \in saved : job_state_map[n].job = s.jobs[n] /\ s.io_log[n].no_file
  BY DEF RejectResult, Processing
<1>2. PICK s : saved = {s} /\ IsSaved(s) /\ ReplayOf(s)
  BY <1>1, ReplayFacts
<1>3. n \in DOMAIN s.jobs /\ s.io_log[n].no_file
  BY <1>1, <1>2 DEF ReplayOf
<1>4. RefusedForAReason'
  <2>1. saved' = {s}
    BY <1>1, <1>2
  <2>2. QED
    BY <1>1, <1>3, <2>1 DEF RefusedForAReason
<1>5. QED
  BY <1>1, <1>4, RefusalKeeps

\* A pass that made no progress: the jobs that are known are closed under what
\* their logs generate, and those that are left over are not among them.
LEMMA NoProgressKeeps ==
  ASSUME ResumeInv, NoProgress
  PROVE  ResumeInv'
<1>1. /\ mode = "replaying" /\ mode' = "corrupted" /\ todo = <<>>
      /\ leftover_jobs # <<>> /\ ~leftover_shrunk
      /\ UNCHANGED <<vars, given, io_log, saved, todo, leftover_jobs, leftover_shrunk>>
  BY DEF NoProgress, PassEnds
<1>2. PICK s : saved = {s} /\ IsSaved(s) /\ ReplayOf(s)
  BY <1>1, ReplayFacts
<1> DEFINE S == DOMAIN job_state_map
           lost == leftover_jobs[1]
<1>3. /\ ToSet(todo \o leftover_jobs) = ToSet(leftover_jobs)
      /\ 1 \in DOMAIN leftover_jobs /\ lost \in ToSet(leftover_jobs)
  <2>1. leftover_jobs \in Seq(Names)
    BY ResumeInvParts DEF RestTypeOK
  <2>2. 1 \in DOMAIN leftover_jobs
    BY <1>1, <2>1
  <2>3. todo \o leftover_jobs = leftover_jobs
    BY <1>1, <2>1
  <2>4. QED
    BY <2>2, <2>3, InToSet
<1>4. lost \notin S /\ lost \in DOMAIN s.jobs /\ S \in SUBSET DOMAIN s.jobs
  BY <1>1, <1>2, <1>3 DEF ReplayOf
<1>5. ASSUME NEW l \in S
      PROVE  l \in DOMAIN s.jobs /\ IsBack(s, l)
  <2>1. l \notin ToSet(leftover_jobs)
    BY <1>1, <1>2, <1>5, InToSet DEF ReplayOf
  <2>2. QED
    BY <1>2, <1>3, <1>4, <1>5, <2>1 DEF ReplayOf
<1>6. LogsAreFollowed(JobMap(job_state_map), io_log, resource_map)
      /\ GivenAreKept(JobMap(job_state_map))
  BY ResumeInvParts DEF SessionInv, SessionIsKept
<1>7. DOMAIN given \subseteq S
  BY <1>6, MapOfStates DEF GivenAreKept
<1>8. ASSUME NEW l \in S, s.jobs[l].plugin = "local", NEW job \in ToSet(s.io_log[l].output)
      PROVE  job.name \in S
  <2>1. job_state_map[l].job.plugin = "local" /\ io_log[l] = s.io_log[l]
    BY <1>5, <1>8 DEF IsBack
  <2>2. PICK i \in DOMAIN s.io_log[l].output : s.io_log[l].output[i] = job
    BY <1>8, InToSet
  <2>3. io_log[l].output[i].name \in DOMAIN JobMap(job_state_map)
    BY <1>6, <1>8, <2>1, <2>2, MapOfStates DEF LogsAreFollowed
  <2>4. QED
    BY <2>1, <2>2, <2>3, MapOfStates
<1>9. lost \notin Explained(s)
  BY <1>4, <1>7, <1>8 DEF Explained
<1>10. RefusedForAReason'
  <2>1. saved' = {s} /\ Explained(s)' = Explained(s)
    BY <1>1, <1>2 DEF Explained
  <2>2. QED
    BY <1>1, <1>4, <1>9, <2>1 DEF RefusedForAReason
<1>11. QED
  BY <1>1, <1>10, RefusalKeeps

LEMMA NextRoundKeeps ==
  ASSUME ResumeInv, NextRound
  PROVE  ResumeInv'
<1>1. /\ mode = "replaying" /\ todo = <<>> /\ todo' = leftover_jobs
      /\ leftover_jobs' = <<>>
      /\ UNCHANGED <<vars, given, io_log, mode, saved>> /\ leftover_shrunk' = FALSE
  BY DEF NextRound, PassEnds
<1>2. SessionInv /\ RestTypeOK /\ SessionInv'
  BY <1>1, ResumeInvParts, SessionUnchanged
<1>3. PICK s : saved = {s} /\ IsSaved(s) /\ ReplayOf(s)
  BY <1>1, ReplayFacts
<1>4. RestTypeOK'
  BY <1>1, <1>2 DEF RestTypeOK
<1>5. (todo \o leftover_jobs)' = todo \o leftover_jobs
  BY <1>1, <1>2 DEF RestTypeOK
<1>6. UNCHANGED <<job_state_map, desired_job_list, run_list, resource_map, phase>>
  BY <1>1 DEF vars, session, call
<1>7. ReplayOf(s)'
  BY <1>1, <1>3, <1>5, <1>6 DEF ReplayOf, IsBack, Definitions
<1>8. QED
  BY <1>1, <1>2, <1>3, <1>4, <1>7, ReplayGoesOn

-----------------------------------------------------------------------------
(* Results, of a live session and replayed ones.                           *)

LEMMA GivenStay ==
  ASSUME NEW old, NEW new, DOMAIN old \subseteq DOMAIN new,
         \A m \in DOMAIN old : new[m].job = old[m].job,
         GivenAreKept(JobMap(old))
  PROVE  GivenAreKept(JobMap(new))
BY MapOfStates DEF GivenAreKept

LEMMA PresentKeepsSession ==
  ASSUME SessionInv, NEW n \in DOMAIN job_state_map, NEW outcome \in Outcomes,
         NEW log, IsLog(log, job_state_map[n].job),
         PresentResult(n, outcome, log)
  PROVE  SessionInv'
<1>1. ReadyInv /\ SessionIsKept /\ SearchOfSession
  BY DEF SessionInv
<1>2. /\ ReadyInv'
      /\ phase # "solving" /\ stale' = {}
      /\ UNCHANGED <<desired_job_list, run_list, phase, problems, given>>
      /\ DOMAIN job_state_map \subseteq DOMAIN job_state_map'
      /\ \A m \in DOMAIN job_state_map : job_state_map'[m].job = job_state_map[m].job
  BY <1>1, PresentFacts
<1>3. SessionIsKept'
  <2>1. LogsAreFollowed(JobMap(job_state_map'), io_log', resource_map')
    BY <1>1, LogsStayFollowed DEF SessionIsKept
  <2>2. GivenAreKept(JobMap(job_state_map'))
    BY <1>1, <1>2, GivenStay DEF SessionIsKept
  <2>3. GivenAreKept(JobMap(job_state_map))'
    BY <1>2, <2>2 DEF GivenAreKept
  <2>4. QED
    BY <1>1, <1>2, <2>1, <2>3 DEF SessionIsKept
<1>4. SearchOfSession'
  <2>1. SUFFICES ASSUME phase = "idle"
                 PROVE  Gives(desired_job_list, JobMap(job_state_map'), run_list)
    BY <1>2 DEF SearchOfSession
  <2>2. Gives(desired_job_list, JobMap(job_state_map), run_list)
    BY <1>1, <2>1 DEF SearchOfSession
  <2>3. /\ DOMAIN JobMap(job_state_map) \subseteq DOMAIN JobMap(job_state_map')
        /\ \A m \in DOMAIN JobMap(job_state_map) :
             JobMap(job_state_map')[m] = JobMap(job_state_map)[m]
    BY <1>2, MapOfStates
  <2>4. QED
    BY <2>2, <2>3, GivesTheSame
<1>5. QED
  BY <1>2, <1>3, <1>4 DEF SessionInv

LEMMA ResultKeeps ==
  ASSUME ResumeInv, Result
  PROVE  ResumeInv'
<1>1. /\ mode = "live" /\ UNCHANGED <<mode, saved, todo, leftover_jobs, leftover_shrunk>>
  BY DEF Result, resume
<1>2. PICK n \in DOMAIN job_state_map, outcome \in Outcomes :
        \E output \in Outputs(job_state_map[n].job), no_file \in BOOLEAN :
          PresentResult(n, outcome, Log(output, no_file))
  BY DEF Result
<1> PICK output \in Outputs(job_state_map[n].job), no_file \in BOOLEAN :
      PresentResult(n, outcome, Log(output, no_file))
  BY <1>2
<1>3. SessionInv /\ SavedInv /\ RestTypeOK /\ ModeInv
  BY ResumeInvParts
<1>4. job_state_map[n].job \in JobDefs
  BY <1>3, StateType DEF SessionInv, ReadyInv, TypeOK
<1>5. IsLog(Log(output, no_file), job_state_map[n].job)
  BY <1>4, PluginType, SessionAssumption DEF IsLog, Log, Outputs
<1>6. SessionInv'
  BY <1>3, <1>5, PresentKeepsSession
<1>7. UNCHANGED given
  BY DEF PresentResult
<1>8. SavedInv' /\ RestTypeOK'
  BY <1>1, <1>3, <1>7, SavedUnchanged DEF RestTypeOK
<1>9. ModeInv'
  BY <1>1, <1>3 DEF ModeInv, ReplayIsKept, SelectionIsKept, RefusedForAReason
<1>10. QED
  BY <1>6, <1>8, <1>9, ResumeInvPartsPrimed

LEMMA ProcessJobKeeps ==
  ASSUME ResumeInv, NEW n \in Names, ProcessJob(n)
  PROVE  ResumeInv'
<1>1. /\ mode = "replaying" /\ todo # <<>> /\ n = Head(todo) /\ n \in DOMAIN job_state_map
      /\ todo' = Tail(todo) /\ leftover_shrunk' = TRUE
      /\ UNCHANGED <<mode, saved, leftover_jobs>>
  BY DEF ProcessJob, Processing
<1>2. SessionInv /\ RestTypeOK
  BY ResumeInvParts
<1>3. PICK s : saved = {s} /\ IsSaved(s) /\ ReplayOf(s)
  BY <1>1, ReplayFacts
<1>4. /\ job_state_map[n].job = s.jobs[n]
      /\ PresentResult(n, s.outcome[n], s.io_log[n])
      /\ n \in DOMAIN s.jobs
  BY <1>1, <1>3 DEF ProcessJob, ReplayOf
<1>5. /\ s.outcome[n] \in Outcomes
      /\ IsLog(s.io_log[n], s.jobs[n])
      /\ s.jobs[n].plugin = "local" =>
           \A i \in DOMAIN s.io_log[n].output :
             s.io_log[n].output[i].name \in DOMAIN s.jobs
  BY <1>3, <1>4, SavedFacts
<1>6. SessionInv'
  BY <1>1, <1>2, <1>4, <1>5, PresentKeepsSession
<1>7. /\ UNCHANGED <<desired_job_list, run_list, phase, given>>
      /\ DOMAIN job_state_map \subseteq DOMAIN job_state_map'
      /\ \A m \in DOMAIN job_state_map :
           /\ job_state_map'[m].job = job_state_map[m].job
           /\ job_state_map'[m].outcome =
                IF m = n THEN s.outcome[n] ELSE job_state_map[m].outcome
      /\ \A m \in DOMAIN job_state_map' \ DOMAIN job_state_map :
           /\ job_state_map[n].job.plugin = "local"
           /\ \E i \in DOMAIN s.io_log[n].output :
                s.io_log[n].output[i].name = m
                  /\ job_state_map'[m].job = s.io_log[n].output[i]
      /\ resource_map' = IF job_state_map[n].job.plugin = "resource"
                         THEN SetResource(resource_map, n, s.io_log[n].output)
                         ELSE resource_map
      /\ io_log' = [m \in DOMAIN job_state_map' |->
                      IF m = n THEN s.io_log[n]
                      ELSE IF m \in DOMAIN io_log THEN io_log[m]
                      ELSE EmptyLog(job_state_map'[m].job)]
  BY <1>1, <1>2, <1>4, <1>5, PresentFacts DEF SessionInv
<1>8. /\ todo' \in Seq(Names)
      /\ ToSet(todo) = ToSet(todo') \cup {n}
      /\ IsInjective(todo) => IsInjective(todo') /\ n \notin ToSet(todo')
  BY <1>1, <1>2, TailKeepsInjective DEF RestTypeOK
<1>9. RestTypeOK'
  BY <1>1, <1>2, <1>7, <1>8 DEF RestTypeOK
<1>10. /\ ToSet(todo \o leftover_jobs) = ToSet(todo \o leftover_jobs)' \cup {n}
       /\ IsInjective(todo \o leftover_jobs)'
  <2>1. /\ ToSet(todo \o leftover_jobs)' = ToSet(todo') \cup ToSet(leftover_jobs)
        /\ IsInjective(todo \o leftover_jobs)'
             <=> /\ IsInjective(todo') /\ IsInjective(leftover_jobs)
                 /\ ToSet(todo') \cap ToSet(leftover_jobs) = {}
    <3>1. todo' \in Seq(Names) /\ leftover_jobs \in Seq(Names)
      BY <1>2, <1>8 DEF RestTypeOK
    <3>2. /\ ToSet(todo' \o leftover_jobs) = ToSet(todo') \cup ToSet(leftover_jobs)
          /\ IsInjective(todo' \o leftover_jobs)
               <=> /\ IsInjective(todo') /\ IsInjective(leftover_jobs)
                   /\ ToSet(todo') \cap ToSet(leftover_jobs) = {}
      BY ONLY <3>1, ConcatFacts
    <3>3. UNCHANGED leftover_jobs
      BY <1>1
    <3>4. QED
      BY ONLY <3>2, <3>3
  <2>2. IsInjective(todo \o leftover_jobs)
    BY <1>3 DEF ReplayOf
  <2>3. QED
    BY <1>2, <1>8, <2>1, <2>2, QueueFacts
<1>11. DOMAIN job_state_map' \subseteq DOMAIN s.jobs
  <2>1. DOMAIN job_state_map \subseteq DOMAIN s.jobs
    BY <1>3 DEF ReplayOf
  <2>2. QED
    BY ONLY <1>4, <1>5, <1>7, <2>1
<1>12. ASSUME NEW m \in DOMAIN job_state_map' \ DOMAIN given
       PROVE  job_state_map'[m].job \in Definitions(s, m)
  <2>1. CASE m \in DOMAIN job_state_map
    <3>1. job_state_map[m].job \in Definitions(s, m)
      BY <1>3, <1>12, <2>1 DEF ReplayOf
    <3>2. QED
      BY <1>7, <2>1, <3>1
  <2>2. CASE m \notin DOMAIN job_state_map
    <3>1. PICK i \in DOMAIN s.io_log[n].output :
            s.io_log[n].output[i].name = m /\ job_state_map'[m].job = s.io_log[n].output[i]
      BY ONLY <1>7, <1>12, <2>2
    <3>2. s.jobs[n].plugin = "local"
      BY ONLY <1>4, <1>7, <1>12, <2>2
    <3>3. job_state_map'[m].job \in ToSet(s.io_log[n].output)
      BY <3>1, InToSet
    <3>4. QED
      BY <1>4, <3>1, <3>2, <3>3 DEF Definitions
  <2>3. QED
    BY <2>1, <2>2
<1>13. /\ io_log'[n] = s.io_log[n]
       /\ \A m \in DOMAIN job_state_map : m # n => io_log'[m] = io_log[m]
       /\ DOMAIN resource_map \subseteq DOMAIN resource_map'
       /\ s.jobs[n].plugin = "resource" => n \in DOMAIN resource_map'
  <2>1. DOMAIN io_log = DOMAIN job_state_map
    BY <1>2, MapOfStates DEF SessionInv, SessionIsKept, LogsAreFollowed
  <2>2. QED
    BY <1>1, <1>4, <1>7, <2>1 DEF SetResource
<1>14. ASSUME NEW m \in DOMAIN s.jobs \ ToSet(todo \o leftover_jobs)'
       PROVE  IsBack(s, m)'
  <2>1. CASE m = n
    BY <1>1, <1>4, <1>7, <1>13, <2>1 DEF IsBack
  <2>2. CASE m # n
    <3>1. IsBack(s, m)
      BY <1>3, <1>10, <1>14, <2>2 DEF ReplayOf
    <3>2. QED
      BY <1>7, <1>13, <2>2, <3>1 DEF IsBack
  <2>3. QED
    BY <2>1, <2>2
<1>15. ReplayOf(s)'
  <2>1. /\ phase = "idle" /\ desired_job_list = <<>> /\ run_list = <<>>
        /\ ToSet(todo \o leftover_jobs) \subseteq DOMAIN s.jobs
    BY <1>3 DEF ReplayOf
  <2>2. \A m \in DOMAIN job_state_map' \ DOMAIN given' :
          (job_state_map[m].job \in Definitions(s, m))'
    BY <1>7, <1>12 DEF Definitions
  <2>3. QED
    BY <1>1, <1>7, <1>10, <1>11, <1>14, <2>1, <2>2 DEF ReplayOf
<1>16. QED
  BY <1>1, <1>3, <1>6, <1>7, <1>9, <1>15, ReplayGoesOn

-----------------------------------------------------------------------------
(* A session that begins, and one that is suspended.                       *)

\* The session that a process starts with.
Fresh ==
  /\ given \in InitialMaps
  /\ job_state_map = NewStates(given) /\ io_log = NewLogs(given)
  /\ desired_job_list = <<>> /\ run_list = <<>>
  /\ resource_map = [n \in {} |-> {}]
  /\ phase = "idle" /\ solver = StartSolver(<<>>)
  /\ problems = <<>> /\ requested = <<>> /\ stale = {}

LEMMA NothingGivesNothing ==
  ASSUME NEW map \in JobMaps
  PROVE  Gives(<<>>, map, <<>>)
<1>1. <<>> \in Seq(Known(map))
  OBVIOUS
<1>2. Reaches(<<>>, map, StartSolver(<<>>))
  BY <1>1, StartReaches
<1>3. Solved(StartSolver(<<>>)) /\ StartSolver(<<>>).solution = <<>>
  BY DEF Solved, StartSolver
<1>4. QED
  BY <1>2, <1>3 DEF Gives

LEMMA FreshInv == Fresh => SessionInv
<1> SUFFICES ASSUME Fresh
             PROVE  SessionInv
  OBVIOUS
<1>1. ReadyInv
  <2>1. Init
    BY DEF Fresh, Init, NewStates
  <2>2. QED
    BY <2>1, InitReady
<1>2. /\ DOMAIN job_state_map = DOMAIN given /\ DOMAIN io_log = DOMAIN given
      /\ \A n \in DOMAIN given : /\ job_state_map[n].job = given[n]
                                 /\ io_log[n] = EmptyLog(given[n])
      /\ DOMAIN resource_map = {}
  BY NewStateFields DEF Fresh, NewStates, NewLogs
<1>3. JobMap(job_state_map) = given
  <2>1. given \in JobMaps
    BY SessionAssumption DEF Fresh
  <2>2. given = [n \in DOMAIN given |-> given[n]]
    BY <2>1 DEF JobMaps
  <2>3. QED
    BY <1>2, <2>2 DEF JobMap
<1>4. ASSUME NEW n \in DOMAIN given
      PROVE  /\ IsLog(io_log[n], given[n])
             /\ given[n].plugin = "local" =>
                  \A i \in DOMAIN io_log[n].output :
                    io_log[n].output[i].name \in DOMAIN given
             /\ given[n].plugin = "resource" =>
                  io_log[n].output = IF n \in DOMAIN resource_map THEN resource_map[n] ELSE {}
  BY <1>2, EmptyLogType
<1>5. LogsAreFollowed(given, io_log, resource_map)
  BY <1>2, <1>4 DEF LogsAreFollowed
<1>6. SessionIsKept
  BY <1>3, <1>5 DEF Fresh, SessionIsKept, GivenAreKept
<1>7. SearchOfSession
  <2>1. given \in JobMaps
    BY SessionAssumption DEF Fresh
  <2>2. QED
    BY <1>3, <2>1, NothingGivesNothing DEF Fresh, SearchOfSession
<1>8. QED
  BY <1>1, <1>6, <1>7 DEF SessionInv

LEMMA FreshInvPrimed == Fresh' => SessionInv'
<1>1. (Fresh => SessionInv)'
  BY FreshInv, PTL
<1>2. QED
  BY <1>1

LEMMA InitKeeps == ResumeInit => ResumeInv
<1> SUFFICES ASSUME ResumeInit
             PROVE  ResumeInv
  OBVIOUS
<1>1. SessionInv
  BY FreshInv DEF ResumeInit, Fresh
<1>2. /\ given \in InitialMaps /\ mode = "live" /\ saved = {}
      /\ todo = <<>> /\ leftover_jobs = <<>> /\ leftover_shrunk = TRUE
  BY DEF ResumeInit
<1>3. SavedInv /\ RestTypeOK
  BY <1>2 DEF SavedInv, SearchOfSaved, RestTypeOK
<1>4. ModeInv
  BY <1>2 DEF ModeInv, ReplayIsKept, SelectionIsKept, RefusedForAReason
<1>5. QED
  BY <1>1, <1>3, <1>4, ResumeInvParts

\* What suspend() saves is a session that could be.
LEMMA RepresentationIsSaved ==
  ASSUME SessionInv, phase # "solving", NEW s, s = Representation
  PROVE  /\ IsSaved(s)
         /\ s.phase = "idle" => Gives(DesiredOf(s), s.jobs, s.run_list)
<1>1. /\ s.jobs = JobMap(job_state_map)
      /\ s.outcome = [n \in DOMAIN job_state_map |-> job_state_map[n].outcome]
      /\ s.io_log = io_log
      /\ s.desired = [i \in DOMAIN desired_job_list |-> desired_job_list[i].name]
      /\ s.run_list = run_list
      /\ s.resources = resource_map
      /\ s.ready = {n \in DOMAIN job_state_map : CanStart(job_state_map[n])}
      /\ s.phase = phase
  BY DEF Representation
<1>2. ReadyInv /\ TypeOK /\ SessionIsKept /\ SearchOfSession
  BY DEF SessionInv, ReadyInv
<1>3. /\ IsJobStateMap(job_state_map)
      /\ desired_job_list \in Seq(KnownJobs) /\ run_list \in Seq(KnownJobs)
      /\ DOMAIN resource_map \subseteq Names
      /\ resource_map \in [DOMAIN resource_map -> SUBSET Records]
      /\ phase \in {"idle", "raised"}
  BY <1>2 DEF TypeOK
<1> HIDE DEF Representation
<1>4. /\ JobMap(job_state_map) \in JobMaps
      /\ DOMAIN s.jobs = DOMAIN job_state_map
      /\ \A n \in DOMAIN job_state_map : s.jobs[n] = job_state_map[n].job
  BY <1>1, <1>3, JobMapType
<1>5. /\ \A n \in DOMAIN s.jobs : s.jobs[n] \in JobDefs /\ s.jobs[n].name = n
      /\ DOMAIN s.jobs \subseteq Names
      /\ \A job \in KnownJobs : job.name \in DOMAIN s.jobs /\ job = s.jobs[job.name]
  BY <1>1, <1>4, MapType DEF KnownJobs
<1>6. s.jobs \in [DOMAIN s.jobs -> JobDefs]
  BY <1>1, <1>5 DEF JobMap
<1>7. \A n \in DOMAIN s.jobs : s.outcome[n] \in Outcomes
                               /\ s.outcome[n] = job_state_map[n].outcome
  BY <1>1, <1>3, <1>4, StateType
<1>8. DesiredOf(s) = desired_job_list /\ s.desired \in Seq(DOMAIN s.jobs)
  <2>1. PICK k \in Nat : DOMAIN desired_job_list = 1..k /\ desired_job_list \in [1..k -> KnownJobs]
    BY <1>3
  <2>2. \A i \in 1..k : /\ s.desired[i] = desired_job_list[i].name
                        /\ s.desired[i] \in DOMAIN s.jobs
                        /\ s.jobs[s.desired[i]] = desired_job_list[i]
    BY <1>1, <1>5, <2>1
  <2>3. DOMAIN s.desired = 1..k /\ s.desired = [i \in 1..k |-> s.desired[i]]
    BY <1>1, <2>1
  <2>4. desired_job_list = [i \in 1..k |-> desired_job_list[i]]
    BY <2>1
  <2>5. DesiredOf(s) = desired_job_list
    BY ONLY <2>2, <2>3, <2>4 DEF DesiredOf
  <2>6. s.desired \in [1..k -> DOMAIN s.jobs]
    BY ONLY <2>2, <2>3
  <2>7. QED
    BY <2>1, <2>5, <2>6
<1>9. ASSUME phase = "idle"
      PROVE  s.ready = {n \in DOMAIN s.jobs :
                 /\ \E i \in DOMAIN s.run_list : s.run_list[i].name = n
                 /\ \A d \in s.jobs[n].direct :
                      d \in DOMAIN s.jobs /\ s.outcome[d] = "pass"
                 /\ ProgramHolds(s.jobs[n], s.resources)}
  <2>1. stale = {} /\ ReadyIsExact
    BY <1>2, <1>9 DEF SessionIsKept, ReadyInv
  <2>2. ASSUME NEW n \in DOMAIN job_state_map
        PROVE  CanStart(job_state_map[n]) <=>
                 /\ \E i \in DOMAIN s.run_list : s.run_list[i].name = n
                 /\ \A d \in s.jobs[n].direct :
                      d \in DOMAIN s.jobs /\ s.outcome[d] = "pass"
                 /\ ProgramHolds(s.jobs[n], s.resources)
    <3>1. CanStart(job_state_map[n]) <=> OnRunList(n) /\ RequirementsMet(n)
      BY <2>1, <2>2 DEF ReadyIsExact, Ready
    <3>2. \A d : (d \in DOMAIN s.jobs /\ s.outcome[d] = "pass")
                   <=> (d \in DOMAIN job_state_map /\ Outcome(d) = "pass")
      BY <1>4, <1>7 DEF Outcome
    <3>3. s.jobs[n] = job_state_map[n].job
      BY <1>4, <2>2
    <3>4. QED
      BY <1>1, <3>1, <3>2, <3>3 DEF OnRunList, RequirementsMet
  <2>3. QED
    BY <1>1, <1>4, <2>2
<1>10. LogsAreFollowed(s.jobs, s.io_log, s.resources) /\ GivenAreKept(s.jobs)
  BY <1>1, <1>2 DEF SessionIsKept
<1>11. IsSaved(s)
  BY <1>1, <1>3, <1>5, <1>6, <1>7, <1>8, <1>9, <1>10 DEF IsSaved
<1>12. s.phase = "idle" => Gives(DesiredOf(s), s.jobs, s.run_list)
  BY <1>1, <1>2, <1>8 DEF SearchOfSession
<1>13. QED
  BY <1>11, <1>12

LEMMA SuspendKeeps ==
  ASSUME ResumeInv, Suspend
  PROVE  ResumeInv'
<1>1. /\ mode = "live" /\ phase # "solving"
      /\ saved' = {Representation} /\ mode' = "replaying"
      /\ todo' = Sorted(DOMAIN job_state_map)
      /\ leftover_jobs' = <<>> /\ leftover_shrunk' = TRUE
      /\ job_state_map' = NewStates(given) /\ io_log' = NewLogs(given)
      /\ desired_job_list' = <<>> /\ run_list' = <<>>
      /\ resource_map' = [n \in {} |-> {}]
      /\ phase' = "idle" /\ stale' = {}
      /\ UNCHANGED <<given, solver, problems, requested>>
  BY DEF Suspend
<1>2. SessionInv /\ SavedInv /\ RestTypeOK /\ ModeInv
  BY ResumeInvParts
<1>3. solver = StartSolver(<<>>) /\ requested = <<>> /\ problems = <<>>
      /\ IsJobStateMap(job_state_map) /\ GivenAreKept(JobMap(job_state_map))
  BY <1>1, <1>2 DEF SessionInv, ReadyInv, TypeOK, SessionIsKept
<1>4. SessionInv'
  BY <1>1, <1>2, <1>3, FreshInvPrimed DEF Fresh, RestTypeOK, NewStates, NewLogs
<1>5. PICK s : s = Representation
  OBVIOUS
<1>6. IsSaved(s) /\ (s.phase = "idle" => Gives(DesiredOf(s), s.jobs, s.run_list))
  BY <1>1, <1>2, <1>5, RepresentationIsSaved
<1>7. saved' = {s} /\ DOMAIN s.jobs = DOMAIN job_state_map
  BY <1>1, <1>5, MapOfStates DEF Representation
<1>8. SavedInv'
  <2>1. IsSaved(s)'
    BY <1>1, <1>6 DEF IsSaved, GivenAreKept
  <2>2. QED
    BY <1>6, <1>7, <2>1 DEF SavedInv, SearchOfSaved
<1>9. DOMAIN job_state_map \in SUBSET Names
  BY <1>3 DEF IsJobStateMap
<1>10. /\ todo' \in Seq(Names) /\ ToSet(todo') = DOMAIN job_state_map /\ IsInjective(todo')
  BY <1>1, <1>9, SortedAssumption
<1>11. RestTypeOK'
  BY <1>1, <1>2, <1>10 DEF RestTypeOK
<1>12. (todo \o leftover_jobs)' = todo'
  BY <1>1, <1>10
<1>13. DOMAIN given \subseteq DOMAIN job_state_map /\ DOMAIN job_state_map' = DOMAIN given
  BY <1>1, <1>3, MapOfStates DEF GivenAreKept, NewStates
<1>14. ReplayOf(s)'
  BY <1>1, <1>7, <1>10, <1>12, <1>13 DEF ReplayOf
<1>15. ModeInv'
  <2>1. ReplayIsKept'
    BY <1>1, <1>7, <1>14, ReplayPartsPrimed
  <2>2. QED
    BY <1>1, <1>7, <2>1 DEF ModeInv, SelectionIsKept, RefusedForAReason
<1>16. QED
  BY <1>4, <1>8, <1>11, <1>15, ResumeInvPartsPrimed

-----------------------------------------------------------------------------
(* Requests, of a live session and of one that is resumed.                 *)

LEMMA RequestKeepsSession ==
  ASSUME SessionInv, NEW jobs \in Seq(KnownJobs), UpdateDesiredJobList(jobs),
         UNCHANGED <<given, io_log>>
  PROVE  /\ SessionInv'
         /\ phase' = "solving" /\ desired_job_list' = jobs
         /\ UNCHANGED <<job_state_map, resource_map>>
<1>1. /\ phase' = "solving" /\ desired_job_list' = jobs /\ solver' = StartSolver(jobs)
      /\ UNCHANGED <<job_state_map, resource_map>>
  BY DEF UpdateDesiredJobList
<1>2. ReadyInv /\ SessionIsKept
  BY DEF SessionInv
<1>3. ReadyInv'
  BY <1>2, RequestKeepsReady
<1>4. SessionIsKept'
  BY <1>1, <1>2 DEF SessionIsKept, GivenAreKept
<1>5. SearchOfSession'
  <2>1. JobMap(job_state_map) \in JobMaps
    BY <1>2, JobMapType DEF ReadyInv, TypeOK
  <2>2. Reaches(jobs, JobMap(job_state_map), StartSolver(jobs))
    BY <2>1, StartReaches DEF KnownJobs
  <2>3. QED
    BY <1>1, <2>2 DEF SearchOfSession
<1>6. QED
  BY <1>1, <1>3, <1>4, <1>5 DEF SessionInv

LEMMA RequestKeeps ==
  ASSUME ResumeInv, Request
  PROVE  ResumeInv'
<1>1. PICK jobs \in JobLists : UpdateDesiredJobList(jobs)
  BY DEF Request
<1>2. /\ mode = "live" /\ UNCHANGED <<given, io_log>>
      /\ UNCHANGED <<mode, saved, todo, leftover_jobs, leftover_shrunk>>
  BY DEF Request, resume
<1>3. jobs \in Seq(KnownJobs)
  <2>1. PICK k \in 0..MaxDesired : jobs \in [1..k -> KnownJobs]
    BY <1>1 DEF JobLists
  <2>2. QED
    BY <2>1, SessionAssumption
<1>4. SessionInv /\ SavedInv /\ RestTypeOK /\ ModeInv
  BY ResumeInvParts
<1>5. SessionInv'
  BY <1>1, <1>2, <1>3, <1>4, RequestKeepsSession
<1>6. SavedInv' /\ RestTypeOK'
  BY <1>2, <1>4, SavedUnchanged DEF RestTypeOK
<1>7. ModeInv'
  BY <1>2, <1>4 DEF ModeInv, ReplayIsKept, SelectionIsKept, RefusedForAReason
<1>8. QED
  BY <1>5, <1>6, <1>7, ResumeInvPartsPrimed

LEMMA RestoreDesiredJobsKeeps ==
  ASSUME ResumeInv, RestoreDesiredJobs
  PROVE  ResumeInv'
<1>1. /\ mode = "replaying" /\ todo = <<>> /\ leftover_jobs = <<>> /\ mode' = "selecting"
      /\ UNCHANGED <<given, io_log, saved, todo, leftover_jobs, leftover_shrunk>>
  BY DEF RestoreDesiredJobs, PassEnds
<1>2. PICK s : saved = {s} /\ IsSaved(s) /\ ReplayOf(s)
  BY <1>1, ReplayFacts
<1> DEFINE jobs == [i \in DOMAIN s.desired |-> job_state_map[s.desired[i]].job]
<1>3. UpdateDesiredJobList(jobs)
  BY <1>2 DEF RestoreDesiredJobs
<1>4. SessionInv /\ SavedInv /\ RestTypeOK /\ ModeInv
  BY ResumeInvParts
<1>5. \A n \in DOMAIN s.jobs : IsBack(s, n)
  <2>1. ToSet(todo \o leftover_jobs) = {}
    BY <1>1 DEF ToSet
  <2>2. QED
    BY <1>2, <2>1 DEF ReplayOf
<1>6. DOMAIN job_state_map = DOMAIN s.jobs
  BY <1>2, <1>5 DEF ReplayOf, IsBack
<1>7. /\ s.jobs \in JobMaps
      /\ DOMAIN s.io_log = DOMAIN s.jobs
      /\ \A n \in DOMAIN s.jobs :
           s.jobs[n].plugin = "resource" =>
             s.io_log[n].output = IF n \in DOMAIN s.resources THEN s.resources[n] ELSE {}
      /\ \A r \in DOMAIN s.resources :
           r \in DOMAIN s.jobs /\ s.jobs[r].plugin = "resource"
      /\ s.desired \in Seq(DOMAIN s.jobs)
  BY <1>2, SavedFacts
<1>8. JobMap(job_state_map) = s.jobs
  <2>1. s.jobs = [n \in DOMAIN s.jobs |-> s.jobs[n]]
    BY <1>7 DEF JobMaps
  <2>2. \A n \in DOMAIN s.jobs : job_state_map[n].job = s.jobs[n]
    BY <1>5 DEF IsBack
  <2>3. QED
    BY ONLY <1>6, <2>1, <2>2 DEF JobMap
<1>9. jobs = DesiredOf(s) /\ jobs \in Seq(KnownJobs)
  <2>1. PICK k \in Nat : s.desired \in [1..k -> DOMAIN s.jobs]
    BY <1>7
  <2>2. \A i \in 1..k : /\ job_state_map[s.desired[i]].job = s.jobs[s.desired[i]]
                        /\ s.jobs[s.desired[i]] \in KnownJobs
    BY <1>5, <1>8, <2>1 DEF IsBack, KnownJobs, Known
  <2>3. DOMAIN s.desired = 1..k
    BY <2>1
  <2>4. QED
    BY <2>2, <2>3 DEF DesiredOf
<1> HIDE DEF jobs
<1>10. /\ SessionInv'
       /\ phase' = "solving" /\ desired_job_list' = jobs
       /\ UNCHANGED <<job_state_map, resource_map>>
  BY <1>1, <1>3, <1>4, <1>9, RequestKeepsSession
<1>11. SavedInv' /\ RestTypeOK'
  BY <1>1, <1>4, SavedUnchanged DEF RestTypeOK
<1>12. LogsAreFollowed(JobMap(job_state_map), io_log, resource_map)
  BY <1>4 DEF SessionInv, SessionIsKept
<1>13. ASSUME NEW n \in DOMAIN s.resources
       PROVE  n \in DOMAIN resource_map /\ resource_map[n] = s.resources[n]
  <2>1. IsBack(s, n) /\ s.jobs[n].plugin = "resource" /\ s.io_log[n].output = s.resources[n]
    BY <1>5, <1>7
  <2>2. n \in DOMAIN resource_map /\ io_log[n] = s.io_log[n]
    BY <2>1 DEF IsBack
  <2>3. io_log[n].output = resource_map[n]
    BY <1>7, <1>8, <1>12, <2>1, <2>2 DEF LogsAreFollowed
  <2>4. QED
    BY <2>1, <2>2, <2>3
<1>14. ASSUME NEW n \in DOMAIN resource_map \ DOMAIN s.resources
       PROVE  resource_map[n] = {}
  <2>1. n \in DOMAIN s.jobs /\ s.jobs[n].plugin = "resource"
    BY <1>8, <1>12 DEF LogsAreFollowed
  <2>2. io_log[n] = s.io_log[n] /\ s.io_log[n].output = {}
    BY <1>5, <1>7, <2>1 DEF IsBack
  <2>3. io_log[n].output = resource_map[n]
    BY <1>8, <1>12, <2>1 DEF LogsAreFollowed
  <2>4. QED
    BY <2>2, <2>3
<1>15. SelectionIsOfSaved(s)'
  <2>1. \A n \in DOMAIN s.jobs : job_state_map[n].outcome = s.outcome[n]
    BY <1>5 DEF IsBack
  <2>2. QED
    BY <1>8, <1>9, <1>10, <1>13, <1>14, <2>1 DEF SelectionIsOfSaved, DesiredOf
<1>16. ModeInv'
  BY <1>1, <1>2, <1>10, <1>15
  DEF ModeInv, ReplayIsKept, SelectionIsKept, RefusedForAReason
<1>17. QED
  BY <1>10, <1>11, <1>16, ResumeInvPartsPrimed

LEMMA ContinueKeeps ==
  ASSUME ResumeInv, Continue
  PROVE  ResumeInv'
<1>1. /\ mode = "selecting" /\ phase = "idle" /\ mode' = "live" /\ saved' = {}
      /\ UNCHANGED <<vars, given, io_log, todo, leftover_jobs, leftover_shrunk>>
  BY DEF Continue
<1>2. SessionInv' /\ RestTypeOK'
  BY <1>1, ResumeInvParts, SessionUnchanged DEF RestTypeOK
<1>3. SavedInv'
  BY <1>1 DEF SavedInv, SearchOfSaved
<1>4. ModeInv'
  BY <1>1 DEF ModeInv, ReplayIsKept, SelectionIsKept, RefusedForAReason
<1>5. QED
  BY <1>2, <1>3, <1>4, ResumeInvPartsPrimed

\* What update_desired_job_list() goes through.
LEMMA UpdateKeepsSession ==
  ASSUME SessionInv, UpdateStep, UNCHANGED <<given, io_log>>
  PROVE  /\ SessionInv' /\ phase = "solving"
         /\ JobMap(job_state_map') = JobMap(job_state_map)
         /\ \A n \in DOMAIN job_state_map : job_state_map'[n].outcome = job_state_map[n].outcome
         /\ UNCHANGED resource_map
         /\ solver.raised = {} => phase' # "raised" /\ UNCHANGED desired_job_list
<1>1. ReadyInv /\ TypeOK /\ SessionIsKept /\ SearchOfSession
  BY DEF SessionInv, ReadyInv
<1>2. ReadyInv' /\ TypeOK'
  <2>1. [Next]_vars
    BY DEF Next
  <2>2. QED
    BY <1>1, <2>1, NextReady DEF ReadyInv
<1>3. /\ IsJobStateMap(job_state_map) /\ JobMap(job_state_map) \in JobMaps
      /\ solver.solution \in Seq(Known(JobMap(job_state_map)))
      /\ SolverType(solver', JobMap(job_state_map'))
      /\ desired_job_list' \in Seq(Known(JobMap(job_state_map')))
  BY <1>1, <1>2, JobMapType, SolverFields DEF TypeOK, KnownJobs
<1>4. ASSUME UNCHANGED <<job_state_map, resource_map>>, phase' = "solving" \/ problems' = <<>>,
             phase' # "idle", SearchOfSession', phase = "solving",
             solver.raised = {} => phase' # "raised" /\ UNCHANGED desired_job_list
      PROVE  /\ SessionInv' /\ phase = "solving"
             /\ JobMap(job_state_map') = JobMap(job_state_map)
             /\ \A n \in DOMAIN job_state_map :
                  job_state_map'[n].outcome = job_state_map[n].outcome
             /\ UNCHANGED resource_map
             /\ solver.raised = {} => phase' # "raised" /\ UNCHANGED desired_job_list
  <2>1. SessionIsKept'
    BY <1>1, <1>4 DEF SessionIsKept, GivenAreKept
  <2>2. QED
    BY <1>2, <1>4, <2>1 DEF SessionInv
<1>5. CASE SolverStep
  <2>1. /\ phase = "solving" /\ phase' = "solving"
        /\ UNCHANGED <<job_state_map, resource_map, desired_job_list>>
    BY <1>5 DEF SolverStep, session
  <2>2. SearchStep(solver, solver', JobMap(job_state_map))
    BY <1>5, MapOfStates DEF SolverStep, SearchStep
  <2>3. Reaches(desired_job_list, JobMap(job_state_map), solver)
    BY <1>1, <2>1 DEF SearchOfSession
  <2>4. Reaches(desired_job_list, JobMap(job_state_map), solver')
    BY <1>3, <2>1, <2>2, <2>3, StepReaches
  <2>5. SearchOfSession'
    BY <2>1, <2>4 DEF SearchOfSession
  <2>6. QED
    BY <1>4, <2>1, <2>5
<1>6. CASE DropAffectedJob
  <2>1. /\ phase = "solving" /\ phase' = "solving" /\ solver.raised # {}
        /\ UNCHANGED <<job_state_map, resource_map>>
        /\ solver' = StartSolver(desired_job_list')
    BY <1>6 DEF DropAffectedJob
  <2>2. Reaches(desired_job_list', JobMap(job_state_map), solver')
    BY <1>3, <2>1, StartReaches
  <2>3. SearchOfSession'
    BY <2>1, <2>2 DEF SearchOfSession
  <2>4. QED
    BY <1>4, <2>1, <2>3
<1>7. CASE RemoveRaises
  <2>1. /\ phase = "solving" /\ phase' = "raised" /\ problems' = <<>> /\ solver.raised # {}
        /\ UNCHANGED <<job_state_map, resource_map>>
    BY <1>7 DEF RemoveRaises, session
  <2>2. SearchOfSession'
    BY <2>1 DEF SearchOfSession
  <2>3. QED
    BY <1>4, <2>1, <2>2
<1>8. CASE UpdateReturns
  <2>1. /\ phase = "solving" /\ phase' = "idle" /\ problems' = <<>> /\ Solved(solver)
        /\ UNCHANGED desired_job_list
        /\ RecomputeReadiness(job_state_map, solver.solution, resource_map)
    BY <1>8 DEF UpdateReturns
  <2>2. /\ job_state_map' = Recompute(job_state_map, solver.solution, resource_map)
        /\ run_list' = solver.solution /\ UNCHANGED resource_map /\ stale' = {}
    BY <2>1 DEF RecomputeReadiness
  <2>3. /\ JobMap(job_state_map') = JobMap(job_state_map)
        /\ \A n \in DOMAIN job_state_map : job_state_map'[n].outcome = job_state_map[n].outcome
    BY <1>3, <2>2, RecomputeType
  <2>4. SessionIsKept'
    BY <1>1, <2>1, <2>2, <2>3 DEF SessionIsKept, GivenAreKept
  <2>5. Gives(desired_job_list, JobMap(job_state_map), solver.solution)
    BY <1>1, <2>1 DEF SearchOfSession, Gives
  <2>6. SearchOfSession'
    BY <2>1, <2>2, <2>3, <2>5 DEF SearchOfSession
  <2>7. QED
    BY <1>2, <2>1, <2>2, <2>3, <2>4, <2>6 DEF SessionInv
<1>9. QED
  BY <1>5, <1>6, <1>7, <1>8 DEF UpdateStep

\* A search for what was saved has not raised: it gave a run list before.
LEMMA SearchAgainSolves ==
  ASSUME NEW map, NEW visit, NEW list, Gives(visit, map, list),
         NEW s, Reaches(visit, map, s)
  PROVE  /\ s.raised = {}
         /\ Solved(s) => s.solution = list
<1>1. PICK t : Reaches(visit, map, t) /\ Solved(t) /\ t.solution = list
  BY DEF Gives
<1>2. ASSUME SolverStopped(s)
      PROVE  s = t
  BY <1>1, <1>2, OneOutcome DEF SolverStopped
<1>3. QED
  BY <1>1, <1>2 DEF SolverStopped, Solved

LEMMA UpdateKeeps ==
  ASSUME ResumeInv, UpdateGoesOn
  PROVE  ResumeInv'
<1>1. /\ UpdateStep /\ UNCHANGED <<given, io_log>>
      /\ UNCHANGED <<mode, saved, todo, leftover_jobs, leftover_shrunk>>
  BY DEF UpdateGoesOn, resume
<1>2. SessionInv /\ SavedInv /\ RestTypeOK /\ ModeInv
  BY ResumeInvParts
<1>3. /\ SessionInv' /\ phase = "solving"
      /\ JobMap(job_state_map') = JobMap(job_state_map)
      /\ \A n \in DOMAIN job_state_map : job_state_map'[n].outcome = job_state_map[n].outcome
      /\ UNCHANGED resource_map
      /\ solver.raised = {} => phase' # "raised" /\ UNCHANGED desired_job_list
  BY <1>1, <1>2, UpdateKeepsSession
<1>4. SavedInv' /\ RestTypeOK'
  BY <1>1, <1>2, SavedUnchanged DEF RestTypeOK
<1>5. mode \in {"live", "selecting"}
  BY <1>2, <1>3 DEF ModeInv, RestTypeOK
<1>6. ASSUME mode = "selecting", NEW s \in saved
      PROVE  SelectionIsOfSaved(s)'
  <2>1. SelectionIsOfSaved(s)
    BY <1>2, <1>6 DEF ModeInv, SelectionIsKept
  <2>2. DOMAIN s.jobs = DOMAIN job_state_map
    BY <2>1, MapOfStates DEF SelectionIsOfSaved
  <2>3. ASSUME s.phase = "idle"
        PROVE  phase' # "raised" /\ desired_job_list' = DesiredOf(s)
    <3>1. desired_job_list = DesiredOf(s) /\ JobMap(job_state_map) = s.jobs
      BY <2>1, <2>3 DEF SelectionIsOfSaved, DesiredOf
    <3>2. Gives(DesiredOf(s), s.jobs, s.run_list)
      BY <1>2, <1>6, <2>3 DEF SavedInv, SearchOfSaved
    <3>3. Reaches(DesiredOf(s), s.jobs, solver)
      BY <1>2, <1>3, <3>1 DEF SessionInv, SearchOfSession
    <3>4. solver.raised = {}
      BY <3>2, <3>3, SearchAgainSolves
    <3>5. QED
      BY <1>3, <3>1, <3>4
  <2>4. QED
    BY <1>3, <2>1, <2>2, <2>3 DEF SelectionIsOfSaved, DesiredOf
<1>7. ModeInv'
  <2>1. \A s \in saved : s.phase \in {"idle", "raised"}
    BY <1>2 DEF SavedInv, IsSaved
  <2>2. SelectionIsKept'
    BY <1>1, <1>6 DEF SelectionIsKept
  <2>3. RefusedForAReason'
    BY <1>1, <1>5, <1>6, <2>1 DEF RefusedForAReason, SelectionIsOfSaved
  <2>4. QED
    BY <1>1, <1>2, <1>5, <2>2, <2>3 DEF ModeInv, ReplayIsKept
<1>8. QED
  BY <1>3, <1>4, <1>7, ResumeInvPartsPrimed

-----------------------------------------------------------------------------
(* Resuming is faithful.                                                   *)

\* A resource without records and one that is not known make the same
\* requirements hold.
LEMMA HoldsByRecords ==
  ASSUME NEW job, NEW map
  PROVE  ProgramHolds(job, map) <=>
           \A i \in DOMAIN job.requires :
             /\ job.requires[i].resource \in DOMAIN map
             /\ map[job.requires[i].resource] \cap job.requires[i].matches # {}
BY DEF ProgramHolds, CannotEvaluate, Failed

LEMMA EmptyResourceHolds ==
  ASSUME NEW job, NEW some, NEW more,
         \A n \in DOMAIN some : n \in DOMAIN more /\ more[n] = some[n],
         \A n \in DOMAIN more \ DOMAIN some : more[n] = {}
  PROVE  ProgramHolds(job, more) <=> ProgramHolds(job, some)
<1>1. ASSUME NEW i \in DOMAIN job.requires
      PROVE  (/\ job.requires[i].resource \in DOMAIN more
              /\ more[job.requires[i].resource] \cap job.requires[i].matches # {})
             <=> (/\ job.requires[i].resource \in DOMAIN some
                  /\ some[job.requires[i].resource] \cap job.requires[i].matches # {})
  OBVIOUS
<1>2. QED
  BY ONLY <1>1, HoldsByRecords

LEMMA SolutionIsRestored ==
  ASSUME NEW map, NEW visit, NEW list, NEW other,
         Gives(visit, map, list), Gives(visit, map, other)
  PROVE  list = other
<1>1. PICK s : Reaches(visit, map, s) /\ Solved(s) /\ s.solution = list
  BY DEF Gives
<1>2. QED
  BY <1>1, SearchAgainSolves

LEMMA InvIsFaithful == ResumeInv => ResumeIsFaithful
<1> SUFFICES ASSUME ResumeInv
             PROVE  ResumeIsFaithful
  OBVIOUS
<1>1. SessionInv /\ SavedInv /\ RestTypeOK /\ ModeInv
  BY ResumeInvParts
<1>2. NothingIsSkipped
  BY <1>1 DEF ModeInv, ReplayIsKept, NothingIsSkipped
<1>3. ASSUME Resumed, NEW s \in saved
      PROVE  /\ JobMap(job_state_map) = s.jobs
             /\ \A n \in DOMAIN s.jobs : job_state_map[n].outcome = s.outcome[n]
             /\ s.phase = "idle" =>
                  /\ run_list = s.run_list
                  /\ [i \in DOMAIN desired_job_list |-> desired_job_list[i].name] = s.desired
                  /\ {n \in DOMAIN s.jobs : CanStart(job_state_map[n])} = s.ready
             /\ \A n \in DOMAIN s.resources : resource_map[n] = s.resources[n]
             /\ \A n \in DOMAIN resource_map \ DOMAIN s.resources : resource_map[n] = {}
  <2>1. mode = "selecting" /\ phase = "idle" /\ IsSaved(s) /\ SelectionIsOfSaved(s)
    BY <1>1, <1>3 DEF Resumed, SavedInv, ModeInv, SelectionIsKept
  <2>2. /\ JobMap(job_state_map) = s.jobs
        /\ \A n \in DOMAIN s.jobs : job_state_map[n].outcome = s.outcome[n]
        /\ \A n \in DOMAIN s.resources :
             n \in DOMAIN resource_map /\ resource_map[n] = s.resources[n]
        /\ \A n \in DOMAIN resource_map \ DOMAIN s.resources : resource_map[n] = {}
    BY <2>1 DEF SelectionIsOfSaved
  <2>3. /\ DOMAIN job_state_map = DOMAIN s.jobs
        /\ \A n \in DOMAIN s.jobs : job_state_map[n].job = s.jobs[n]
    BY <2>2, MapOfStates
  <2>4. ASSUME s.phase = "idle"
        PROVE  run_list = s.run_list /\ desired_job_list = DesiredOf(s)
    <3>1. desired_job_list = DesiredOf(s)
      BY <2>1, <2>4 DEF SelectionIsOfSaved, DesiredOf
    <3>2. Gives(DesiredOf(s), s.jobs, s.run_list)
      BY <1>1, <1>3, <2>4 DEF SavedInv, SearchOfSaved
    <3>3. Gives(DesiredOf(s), s.jobs, run_list)
      BY <1>1, <2>1, <2>2, <3>1 DEF SessionInv, SearchOfSession
    <3>4. QED
      BY <3>1, <3>2, <3>3, SolutionIsRestored
  <2>5. ASSUME s.phase = "idle"
        PROVE  [i \in DOMAIN desired_job_list |-> desired_job_list[i].name] = s.desired
    <3>1. PICK k \in Nat : s.desired \in [1..k -> DOMAIN s.jobs]
      BY <2>1, SavedFacts
    <3>2. \A n \in DOMAIN s.jobs : s.jobs[n].name = n
      BY <2>1 DEF IsSaved
    <3>3. /\ DOMAIN desired_job_list = 1..k
          /\ \A i \in 1..k : desired_job_list[i].name = s.desired[i]
      BY <2>4, <2>5, <3>1, <3>2 DEF DesiredOf
    <3>4. s.desired = [i \in 1..k |-> s.desired[i]]
      BY <3>1
    <3>5. QED
      BY ONLY <3>3, <3>4
  <2>6. ASSUME s.phase = "idle"
        PROVE  {n \in DOMAIN s.jobs : CanStart(job_state_map[n])} = s.ready
    <3>1. s.ready = {n \in DOMAIN s.jobs :
                 /\ \E i \in DOMAIN s.run_list : s.run_list[i].name = n
                 /\ \A d \in s.jobs[n].direct :
                      d \in DOMAIN s.jobs /\ s.outcome[d] = "pass"
                 /\ ProgramHolds(s.jobs[n], s.resources)}
      BY <2>1, <2>6 DEF IsSaved
    <3>2. stale = {} /\ ReadyIsExact
      BY <1>1, <2>1 DEF SessionInv, SessionIsKept, ReadyInv
    <3>3. ASSUME NEW n \in DOMAIN s.jobs
          PROVE  CanStart(job_state_map[n]) <=>
                   /\ \E i \in DOMAIN s.run_list : s.run_list[i].name = n
                   /\ \A d \in s.jobs[n].direct :
                        d \in DOMAIN s.jobs /\ s.outcome[d] = "pass"
                   /\ ProgramHolds(s.jobs[n], s.resources)
      <4>1. CanStart(job_state_map[n]) <=> OnRunList(n) /\ RequirementsMet(n)
        BY <2>3, <3>2, <3>3 DEF ReadyIsExact, Ready
      <4>2. \A d : (d \in DOMAIN s.jobs /\ s.outcome[d] = "pass")
                     <=> (d \in DOMAIN job_state_map /\ Outcome(d) = "pass")
        BY <2>2, <2>3 DEF Outcome
      <4>3. ProgramHolds(s.jobs[n], resource_map) <=> ProgramHolds(s.jobs[n], s.resources)
        BY <2>2, EmptyResourceHolds
      <4>4. job_state_map[n].job = s.jobs[n] /\ run_list = s.run_list
        BY <2>3, <2>4, <2>6, <3>3
      <4>5. QED
        BY <4>1, <4>2, <4>3, <4>4 DEF OnRunList, RequirementsMet
    <3>4. QED
      BY <3>1, <3>3
  <2>7. QED
    BY <2>2, <2>4, <2>5, <2>6
<1>4. ResumedIsSaved
  BY <1>3 DEF ResumedIsSaved
<1>5. RefusedForAReason
  BY <1>1 DEF ModeInv
<1>6. QED
  BY <1>2, <1>4, <1>5 DEF ResumeIsFaithful

LEMMA NextKeeps == ResumeInv /\ [ResumeNext]_resume_vars => ResumeInv'
<1> SUFFICES ASSUME ResumeInv, [ResumeNext]_resume_vars
             PROVE  ResumeInv'
  OBVIOUS
<1>1. CASE Request
  BY <1>1, RequestKeeps
<1>2. CASE UpdateGoesOn
  BY <1>2, UpdateKeeps
<1>3. CASE Result
  BY <1>3, ResultKeeps
<1>4. CASE Suspend
  BY <1>4, SuspendKeeps
<1>5. CASE ResumeStep
  <2>1. ASSUME NEW n \in Names, LeaveJob(n) \/ RejectJob(n) \/ RejectResult(n) \/ ProcessJob(n)
        PROVE  ResumeInv'
    BY <2>1, LeaveJobKeeps, RejectJobKeeps, RejectResultKeeps, ProcessJobKeeps
  <2>2. QED
    BY <1>5, <2>1, NextRoundKeeps, NoProgressKeeps, RestoreDesiredJobsKeeps DEF ResumeStep
<1>6. CASE Continue
  BY <1>6, ContinueKeeps
<1>7. CASE UNCHANGED resume_vars
  <2>1. UNCHANGED <<vars, given, io_log>>
        /\ UNCHANGED <<mode, saved, todo, leftover_jobs, leftover_shrunk>>
    BY <1>7 DEF resume_vars, resume
  <2>2. /\ UNCHANGED <<job_state_map, desired_job_list, run_list, resource_map, phase>>
    BY <2>1 DEF vars, session, call
  <2>3. SessionInv' /\ SavedInv' /\ RestTypeOK'
    BY <2>1, ResumeInvParts, SessionUnchanged, SavedUnchanged DEF RestTypeOK
  <2>4. ReplayIsKept' /\ SelectionIsKept' /\ RefusedForAReason'
    <3>1. ModeInv
      BY ResumeInvParts
    <3>2. ReplayIsKept'
      BY <2>1, <2>2, <3>1
      DEF ModeInv, ReplayIsKept, NothingIsSkipped, ReplayIsOfSaved, Replayed, Definitions
    <3>3. SelectionIsKept'
      BY <2>1, <2>2, <3>1 DEF ModeInv, SelectionIsKept, SelectionIsOfSaved
    <3>4. RefusedForAReason'
      BY <2>1, <2>2, <3>1 DEF ModeInv, RefusedForAReason, Definitions, Explained
    <3>5. QED
      BY <3>2, <3>3, <3>4
  <2>5. QED
    BY <2>1, <2>2, <2>3, <2>4, ResumeInvParts, ResumeInvPartsPrimed DEF ModeInv
<1>8. QED
  BY <1>1, <1>2, <1>3, <1>4, <1>5, <1>6, <1>7 DEF ResumeNext

LEMMA ResumeInvHolds == ResumeSpec => []ResumeInv
BY InitKeeps, NextKeeps, PTL DEF ResumeSpec

\* The types of a session that is suspended and resumed, again and again.
THEOREM ResumeTypeCorrect == ResumeSpec => []ResumeTypeOK
<1>1. ResumeInv => ResumeTypeOK
  BY DEF ResumeInv
<1>2. QED
  BY <1>1, ResumeInvHolds, PTL

\* resume() gives back the session that was suspended, skips no result on its
\* way there and refuses only what it has a reason to refuse
\* (plainbox/impl/session/resume.py): for every database of jobs, whatever they
\* print and however deep they generate jobs.
THEOREM ResumeFaithful == ResumeSpec => []ResumeIsFaithful
BY InvIsFaithful, ResumeInvHolds, PTL

\* The session stays what SessionState says of it, also while results are
\* replayed to it: its run list is ordered, and it knows what is ready.
THEOREM ResumedReadinessTrue == ResumeSpec => []ReadinessIsTrue
<1>1. ResumeInv => ReadinessIsTrue
  BY DEF ResumeInv, ReadyInv, ReadinessIsTrue
<1>2. QED
  BY <1>1, ResumeInvHolds, PTL
=============================================================================
