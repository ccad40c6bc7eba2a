----------------------- MODULE DependencySolverLemmas -----------------------
(***************************************************************************)
(* What the steps of the depth-first search preserve, for any set of job   *)
(* definitions: one lemma per step, used by every module that runs the     *)
(* search.                                                                 *)
(***************************************************************************)
EXTENDS PlainboxJobs, SequenceTheorems, TLAPS

-----------------------------------------------------------------------------
(* Sequences.                                                              *)

LEMMA LastFacts ==
  ASSUME NEW S, NEW seq \in Seq(S), seq # <<>>
  PROVE  /\ Len(seq) \in Nat /\ Len(seq) > 0
         /\ DOMAIN seq = 1..Len(seq)
         /\ seq[Len(seq)] \in S
OBVIOUS

LEMMA TailFacts ==
  ASSUME NEW S, NEW seq \in Seq(S), seq # <<>>
  PROVE  /\ Head(seq) = seq[1] /\ 1 \in DOMAIN seq /\ Head(seq) \in S
         /\ Tail(seq) \in Seq(S)
         /\ \A i \in DOMAIN seq : i # 1 =>
              i - 1 \in DOMAIN Tail(seq) /\ Tail(seq)[i - 1] = seq[i]
         /\ \A i \in DOMAIN Tail(seq) :
              i + 1 \in DOMAIN seq /\ Tail(seq)[i] = seq[i + 1]
OBVIOUS

LEMMA ReplaceLastFacts ==
  ASSUME NEW S, NEW seq \in Seq(S), seq # <<>>, NEW e \in S
  PROVE  LET new == [seq EXCEPT ![Len(seq)] = e]
         IN  /\ new \in Seq(S)
             /\ Len(new) = Len(seq)
             /\ DOMAIN new = 1..Len(seq)
             /\ new[Len(seq)] = e
             /\ \A k \in 1..(Len(seq) - 1) : new[k] = seq[k]
OBVIOUS

LEMMA AppendFacts ==
  ASSUME NEW S, NEW seq \in Seq(S), NEW e \in S
  PROVE  LET new == Append(seq, e)
         IN  /\ new \in Seq(S)
             /\ Len(seq) \in Nat
             /\ Len(new) = Len(seq) + 1
             /\ DOMAIN seq = 1..Len(seq)
             /\ DOMAIN new = 1..(Len(seq) + 1)
             /\ new[Len(seq) + 1] = e
             /\ \A k \in 1..Len(seq) : new[k] = seq[k]
OBVIOUS

LEMMA SubSeqFacts ==
  ASSUME NEW S, NEW seq, NEW k \in Int, NEW m \in Int, k <= m + 1,
         \A i \in k..m : seq[i] \in S
  PROVE  /\ SubSeq(seq, k, m) \in Seq(S)
         /\ Len(SubSeq(seq, k, m)) = m + 1 - k
         /\ \A i \in 1..(m + 1 - k) : SubSeq(seq, k, m)[i] = seq[k + i - 1]
<1>1. /\ SubSeq(seq, k, m) \in Seq(S)
      /\ Len(SubSeq(seq, k, m)) = IF k <= m THEN m - k + 1 ELSE 0
      /\ \A i \in 1..(m - k + 1) : SubSeq(seq, k, m)[i] = seq[k + i - 1]
  BY SubSeqProperties
<1>2. QED
  BY <1>1

LEMMA FrontFacts ==
  ASSUME NEW S, NEW seq \in Seq(S), seq # <<>>
  PROVE  LET new == SubSeq(seq, 1, Len(seq) - 1)
         IN  /\ new \in Seq(S)
             /\ Len(new) = Len(seq) - 1
             /\ DOMAIN new = 1..(Len(seq) - 1)
             /\ \A k \in 1..(Len(seq) - 1) : new[k] = seq[k]
<1> DEFINE n == Len(seq) - 1
<1>1. /\ n \in Int /\ n >= 0 /\ 1 \in Int /\ 1 <= n + 1
      /\ \A i \in 1..n : seq[i] \in S
  BY LastFacts
<1> HIDE DEF n
<1>2. /\ SubSeq(seq, 1, n) \in Seq(S)
      /\ Len(SubSeq(seq, 1, n)) = n + 1 - 1
      /\ \A i \in 1..(n + 1 - 1) : SubSeq(seq, 1, n)[i] = seq[1 + i - 1]
  BY <1>1, SubSeqFacts
<1>3. /\ Len(SubSeq(seq, 1, n)) = n
      /\ \A i \in 1..n : SubSeq(seq, 1, n)[i] = seq[i]
  BY <1>1, <1>2
<1>4. QED
  BY <1>2, <1>3 DEF n

-----------------------------------------------------------------------------
(* Job definitions.                                                        *)

LEMMA DefinitionType ==
  ASSUME NEW job \in JobDefs
  PROVE  /\ job.name \in Names
         /\ job.direct \in SUBSET Names
         /\ job.requires \in Seq(Expression)
         /\ ResourceDependencies(job) \in SUBSET Names
         /\ DependencyNames(job) \in SUBSET Names
<1>1. job \in JobDefinition
  BY JobDefsAssumption
<1>2. /\ job.name \in Names
      /\ job.direct \in SUBSET Names
      /\ job.requires \in Seq(Expression)
  BY <1>1 DEF JobDefinition
<1>3. ASSUME NEW i \in DOMAIN job.requires
      PROVE  job.requires[i].resource \in Names
  <2>1. job.requires[i] \in Expression
    BY <1>2, <1>3
  <2>2. QED
    BY <2>1 DEF Expression
<1>4. QED
  BY <1>2, <1>3 DEF ResourceDependencies, DependencyNames

LEMMA MapType ==
  ASSUME NEW map \in JobMaps
  PROVE  /\ DOMAIN map \in SUBSET Names
         /\ \A n \in DOMAIN map : map[n] \in JobDefs /\ map[n].name = n
         /\ Known(map) \in SUBSET JobDefs
         /\ \A job \in Known(map) : /\ job.name \in DOMAIN map
                                    /\ job = map[job.name]
<1>1. PICK K \in SUBSET Names : map \in {m \in [K -> JobDefs] : \A n \in K : m[n].name = n}
  BY DEF JobMaps
<1>2. QED
  BY <1>1 DEF Known

\* sorted() loses no dependency and invents none.
LEMMA SortedDependenciesType ==
  ASSUME NEW job \in JobDefs
  PROVE  /\ SortedDependencies(job) \in Seq({"direct", "resource"} \X Names)
         /\ \A i \in DOMAIN SortedDependencies(job) :
              SortedDependencies(job)[i][2] \in DependencyNames(job)
         /\ \A d \in DependencyNames(job) :
              \E i \in DOMAIN SortedDependencies(job) :
                SortedDependencies(job)[i][2] = d
<1> DEFINE Pairs(type, seq) == [i \in DOMAIN seq |-> <<type, seq[i]>>]
           p == Pairs("direct", Sorted(job.direct))
           q == Pairs("resource", Sorted(ResourceDependencies(job)))
<1>1. /\ Sorted(job.direct) \in Seq(Names)
      /\ ToSet(Sorted(job.direct)) = job.direct
      /\ Sorted(ResourceDependencies(job)) \in Seq(Names)
      /\ ToSet(Sorted(ResourceDependencies(job))) = ResourceDependencies(job)
  BY DefinitionType, SortedAssumption
<1>2. /\ p \in Seq({"direct", "resource"} \X Names)
      /\ q \in Seq({"direct", "resource"} \X Names)
      /\ Len(p) = Len(Sorted(job.direct))
      /\ Len(q) = Len(Sorted(ResourceDependencies(job)))
  BY <1>1
<1>3. SortedDependencies(job) = p \o q
  BY DEF SortedDependencies
<1>4. ASSUME NEW i \in DOMAIN (p \o q)
      PROVE  (p \o q)[i][2] \in DependencyNames(job)
  <2>1. CASE i <= Len(p)
    BY <1>1, <1>2, <2>1 DEF ToSet, DependencyNames
  <2>2. CASE i > Len(p)
    <3>1. /\ i - Len(p) \in DOMAIN q
          /\ (p \o q)[i] = q[i - Len(p)]
      BY <1>2, <1>4, <2>2
    <3>2. q[i - Len(p)][2] = Sorted(ResourceDependencies(job))[i - Len(p)]
      BY <3>1
    <3>3. i - Len(p) \in DOMAIN Sorted(ResourceDependencies(job))
      BY <3>1
    <3>4. QED
      BY <1>1, <3>1, <3>2, <3>3 DEF ToSet, DependencyNames
  <2>3. QED
    BY <1>2, <2>1, <2>2
<1>5. ASSUME NEW d \in DependencyNames(job)
      PROVE  \E i \in DOMAIN (p \o q) : (p \o q)[i][2] = d
  <2>1. CASE d \in job.direct
    <3>1. PICK i \in DOMAIN Sorted(job.direct) : Sorted(job.direct)[i] = d
      BY <1>1, <2>1 DEF ToSet
    <3>2. /\ i \in DOMAIN (p \o q)
          /\ (p \o q)[i] = p[i]
      BY <1>1, <1>2, <3>1
    <3>3. QED
      BY <3>1, <3>2
  <2>2. CASE d \in ResourceDependencies(job)
    <3>1. PICK i \in DOMAIN Sorted(ResourceDependencies(job)) :
                 Sorted(ResourceDependencies(job))[i] = d
      BY <1>1, <2>2 DEF ToSet
    <3>2. i \in 1..Len(q) /\ q[i][2] = d
      BY <1>1, <1>2, <3>1
    <3>3. /\ Len(p) + i \in DOMAIN (p \o q)
          /\ (p \o q)[Len(p) + i] = q[i]
      BY <1>2, <3>2
    <3>4. QED
      BY <3>2, <3>3
  <2>3. QED
    BY <2>1, <2>2 DEF DependencyNames
<1>6. p \o q \in Seq({"direct", "resource"} \X Names)
  BY <1>2
<1>7. QED
  BY <1>3, <1>4, <1>5, <1>6

-----------------------------------------------------------------------------
(* The search starts in the invariant.                                     *)

LEMMA StartInv ==
  ASSUME NEW map \in JobMaps,
         NEW visit \in Seq(Known(map))
  PROVE  /\ SolverInv(StartSolver(visit), map)
         /\ VisitListKept(StartSolver(visit), visit)
<1> DEFINE s == StartSolver(visit)
<1>1. SolverType(s, map)
  BY DEF SolverType, StartSolver, Color
<1>2. BlackIsSolved(s) /\ GrayIsActive(s) /\ ActiveOnce(s)
  BY DEF BlackIsSolved, GrayIsActive, ActiveOnce, StartSolver
<1>3. StackIsPath(s) /\ NoDependencySkipped(s) /\ Ordered(s.solution)
  BY DEF StackIsPath, NoDependencySkipped, Ordered, StartSolver
<1>4. VisitListKept(s, visit)
  BY DEF VisitListKept, StartSolver
<1>5. QED
  BY <1>1, <1>2, <1>3, <1>4 DEF SolverInv

-----------------------------------------------------------------------------
(* Changes of one field of the state.                                      *)

LEMMA SolverFields ==
  ASSUME NEW map, NEW s, SolverType(s, map)
  PROVE  /\ s.visit \in Seq(Known(map))
         /\ s.stack \in Seq([job : Known(map),
                             deps : Seq({"direct", "resource"} \X Names)])
         /\ s.color \in [Names -> Color]
         /\ s.solution \in Seq(Known(map))
         /\ s.raised \in SUBSET Problems
BY DEF SolverType

LEMMA SetVisit ==
  ASSUME NEW map, NEW s, SolverType(s, map), NEW v
  PROVE  [s EXCEPT !.visit = v]
           = [visit |-> v, stack |-> s.stack, color |-> s.color,
              solution |-> s.solution, raised |-> s.raised]
<1> DEFINE Jobs == Seq(Known(map))
           Frames == Seq([job : Known(map),
                          deps : Seq({"direct", "resource"} \X Names)])
           Colors == [Names -> Color]
           Errors == SUBSET Problems
<1>1. s \in [visit : Jobs, stack : Frames, color : Colors,
             solution : Jobs, raised : Errors]
  BY DEF SolverType
<1> HIDE DEF Jobs, Frames, Colors, Errors
<1>2. QED
  BY <1>1

LEMMA SetStack ==
  ASSUME NEW map, NEW s, SolverType(s, map), NEW v
  PROVE  [s EXCEPT !.stack = v]
           = [visit |-> s.visit, stack |-> v, color |-> s.color,
              solution |-> s.solution, raised |-> s.raised]
<1> DEFINE Jobs == Seq(Known(map))
           Frames == Seq([job : Known(map),
                          deps : Seq({"direct", "resource"} \X Names)])
           Colors == [Names -> Color]
           Errors == SUBSET Problems
<1>1. s \in [visit : Jobs, stack : Frames, color : Colors,
             solution : Jobs, raised : Errors]
  BY DEF SolverType
<1> HIDE DEF Jobs, Frames, Colors, Errors
<1>2. QED
  BY <1>1

LEMMA SetRaised ==
  ASSUME NEW map, NEW s, SolverType(s, map), NEW v
  PROVE  [s EXCEPT !.raised = v]
           = [visit |-> s.visit, stack |-> s.stack, color |-> s.color,
              solution |-> s.solution, raised |-> v]
<1> DEFINE Jobs == Seq(Known(map))
           Frames == Seq([job : Known(map),
                          deps : Seq({"direct", "resource"} \X Names)])
           Colors == [Names -> Color]
           Errors == SUBSET Problems
<1>1. s \in [visit : Jobs, stack : Frames, color : Colors,
             solution : Jobs, raised : Errors]
  BY DEF SolverType
<1> HIDE DEF Jobs, Frames, Colors, Errors
<1>2. QED
  BY <1>1

-----------------------------------------------------------------------------
(* _visit(), by the color of the job.                                      *)

LEMMA VisitCases ==
  ASSUME NEW s, NEW job
  PROVE  /\ s.color[job.name] = "white" => Visit(s, job) = EnterWhite(s, job)
         /\ s.color[job.name] = "gray" => Visit(s, job) = RaiseCycle(s, job)
         /\ s.color[job.name] = "black" => Visit(s, job) = s
BY DEF Visit

-----------------------------------------------------------------------------
(* The for loop of _solve().                                               *)

LEMMA VisitNextInv ==
  ASSUME NEW map \in JobMaps,
         NEW s, SolverInv(s, map), CanVisitNext(s)
  PROVE  /\ SolverInv(VisitNext(s), map)
         /\ \A visit \in Seq(Known(map)) :
              VisitListKept(s, visit) => VisitListKept(VisitNext(s), visit)
         /\ ErrorsAreReal(VisitNext(s), map)
<1> DEFINE job == Head(s.visit)
           t == VisitNext(s)
           u == [s EXCEPT !.visit = Tail(@)]
<1>1. /\ SolverType(s, map) /\ BlackIsSolved(s) /\ GrayIsActive(s)
      /\ ActiveOnce(s) /\ StackIsPath(s) /\ NoDependencySkipped(s)
      /\ Ordered(s.solution)
  BY DEF SolverInv
<1>2. /\ s.raised = {} /\ s.stack = <<>> /\ s.visit # <<>>
      /\ s.visit \in Seq(Known(map))
      /\ s.solution \in Seq(Known(map))
      /\ s.color \in [Names -> Color]
  BY <1>1 DEF CanVisitNext, SolverType
<1>3. /\ job \in Known(map)
      /\ Tail(s.visit) \in Seq(Known(map))
      /\ job \in JobDefs
      /\ job.name \in Names
  BY <1>2, MapType, DefinitionType
<1>4. u = [visit |-> Tail(s.visit), stack |-> <<>>, color |-> s.color,
           solution |-> s.solution, raised |-> {}]
  BY <1>1, <1>2, SetVisit
<1> HIDE DEF u
<1>5. s.color[job.name] # "gray"
  BY <1>1, <1>2, <1>3 DEF GrayIsActive
<1>6. \A i \in DOMAIN s.visit :
        s.visit[i] = job \/ \E j \in DOMAIN Tail(s.visit) : Tail(s.visit)[j] = s.visit[i]
  <2>1. SUFFICES ASSUME NEW i \in DOMAIN s.visit, i # 1
                 PROVE  \E j \in DOMAIN Tail(s.visit) : Tail(s.visit)[j] = s.visit[i]
    BY <1>2
  <2>2. i - 1 \in DOMAIN Tail(s.visit) /\ Tail(s.visit)[i - 1] = s.visit[i]
    BY <1>2, <2>1
  <2>3. QED
    BY <2>2
<1>7. CASE s.color[job.name] = "white"
  <2> DEFINE frame == [job |-> job, deps |-> SortedDependencies(job)]
  <2>1. t = [visit |-> Tail(s.visit), stack |-> <<frame>>,
             color |-> [s.color EXCEPT ![job.name] = "gray"],
             solution |-> s.solution, raised |-> {}]
    <3>1. t = EnterWhite(u, job)
      BY <1>4, <1>7, VisitCases DEF VisitNext, u
    <3>2. Append(<<>>, frame) = <<frame>>
      OBVIOUS
    <3>3. QED
      BY <1>4, <3>1, <3>2 DEF EnterWhite
  <2>2. frame \in [job : Known(map),
                   deps : Seq({"direct", "resource"} \X Names)]
    BY <1>3, SortedDependenciesType
  <2>3. SolverType(t, map)
    BY <1>2, <1>3, <2>1, <2>2 DEF SolverType, Color
  <2>4. BlackIsSolved(t) /\ GrayIsActive(t)
    BY <1>1, <1>2, <1>3, <1>7, <2>1 DEF BlackIsSolved, GrayIsActive
  <2>5. ActiveOnce(t) /\ StackIsPath(t) /\ NoDependencySkipped(t)
    BY <1>3, <2>1, SortedDependenciesType
    DEF ActiveOnce, StackIsPath, NoDependencySkipped
  <2>6. \A visit \in Seq(Known(map)) : VisitListKept(s, visit) => VisitListKept(t, visit)
    <3>1. SUFFICES ASSUME NEW visit \in Seq(Known(map)), VisitListKept(s, visit),
                          NEW i \in DOMAIN visit, t.color[visit[i].name] = "white"
                   PROVE  \E j \in DOMAIN t.visit : t.visit[j] = visit[i]
      BY DEF VisitListKept
    <3>2. visit[i].name \in Names /\ visit[i] # job
      BY <1>2, <1>3, <2>1, <3>1, MapType
    <3>3. s.color[visit[i].name] = "white"
      BY <1>2, <1>3, <2>1, <3>1, <3>2
    <3>4. PICK j \in DOMAIN s.visit : s.visit[j] = visit[i]
      BY <1>2, <3>1, <3>3 DEF VisitListKept
    <3>5. PICK k \in DOMAIN Tail(s.visit) : Tail(s.visit)[k] = s.visit[j]
      BY <1>6, <3>2, <3>4
    <3>6. QED
      BY <2>1, <3>4, <3>5
  <2>7. t.solution = s.solution
    BY <2>1
  <2>8. SolverInv(t, map)
    BY <1>1, <2>3, <2>4, <2>5, <2>7 DEF SolverInv
  <2>9. ErrorsAreReal(t, map)
    BY <2>1 DEF ErrorsAreReal
  <2>10. QED
    BY <2>6, <2>8, <2>9
<1>8. CASE s.color[job.name] = "black"
  <2>1. t = u
    BY <1>4, <1>8, VisitCases DEF VisitNext, u
  <2>2. SolverType(t, map)
    BY <1>1, <1>2, <1>3, <1>4, <2>1 DEF SolverType
  <2>3. /\ BlackIsSolved(t) /\ GrayIsActive(t) /\ ActiveOnce(t)
        /\ StackIsPath(t) /\ NoDependencySkipped(t)
    BY <1>1, <1>2, <1>4, <2>1
    DEF BlackIsSolved, GrayIsActive, ActiveOnce, StackIsPath, NoDependencySkipped
  <2>4. \A visit \in Seq(Known(map)) : VisitListKept(s, visit) => VisitListKept(t, visit)
    <3>1. SUFFICES ASSUME NEW visit \in Seq(Known(map)), VisitListKept(s, visit),
                          NEW i \in DOMAIN visit, t.color[visit[i].name] = "white"
                   PROVE  \E j \in DOMAIN t.visit : t.visit[j] = visit[i]
      BY DEF VisitListKept
    <3>2. s.color[visit[i].name] = "white" /\ visit[i] # job
      BY <1>4, <1>8, <2>1, <3>1
    <3>3. PICK j \in DOMAIN s.visit : s.visit[j] = visit[i]
      BY <1>2, <3>1, <3>2 DEF VisitListKept
    <3>4. PICK k \in DOMAIN Tail(s.visit) : Tail(s.visit)[k] = s.visit[j]
      BY <1>6, <3>2, <3>3
    <3>5. QED
      BY <1>4, <2>1, <3>3, <3>4
  <2>5. t.solution = s.solution
    BY <1>4, <2>1
  <2>6. SolverInv(t, map)
    BY <1>1, <2>2, <2>3, <2>5 DEF SolverInv
  <2>7. ErrorsAreReal(t, map)
    BY <1>4, <2>1 DEF ErrorsAreReal
  <2>8. QED
    BY <2>4, <2>6, <2>7
<1>9. QED
  BY <1>2, <1>3, <1>5, <1>7, <1>8 DEF Color

-----------------------------------------------------------------------------
(* The for loop of _visit().                                               *)

\* The innermost active call.
LEMMA TopFacts ==
  ASSUME NEW map \in JobMaps,
         NEW s, SolverInv(s, map), s.stack # <<>>
  PROVE  /\ Len(s.stack) \in DOMAIN s.stack
         /\ DOMAIN s.stack = 1..Len(s.stack)
         /\ Top(s) = s.stack[Len(s.stack)]
         /\ Top(s).job \in Known(map)
         /\ Top(s).job \in JobDefs
         /\ Top(s).job.name \in Names
         /\ Top(s).deps \in Seq({"direct", "resource"} \X Names)
         /\ s.color[Top(s).job.name] = "gray"
         /\ DependencyNames(Top(s).job) \in SUBSET Names
<1> DEFINE Frames == [job : Known(map), deps : Seq({"direct", "resource"} \X Names)]
<1>1. SolverType(s, map) /\ GrayIsActive(s)
  BY DEF SolverInv
<1>2. s.stack \in Seq(Frames)
  BY <1>1, SolverFields
<1> HIDE DEF Frames
<1>3. /\ Len(s.stack) \in DOMAIN s.stack
      /\ DOMAIN s.stack = 1..Len(s.stack)
      /\ Top(s) = s.stack[Len(s.stack)]
      /\ Top(s) \in Frames
  BY <1>2, LastFacts DEF Top
<1> USE DEF Frames
<1>4. Top(s).job \in JobDefs /\ Top(s).job.name \in Names
  BY <1>3, MapType, DefinitionType
<1>5. s.color[Top(s).job.name] = "gray"
  BY <1>1, <1>3, <1>4 DEF GrayIsActive
<1>6. DependencyNames(Top(s).job) \in SUBSET Names
  BY <1>4, DefinitionType
<1>7. QED
  BY <1>3, <1>4, <1>5, <1>6

\* The next dependency, taken off the innermost call.
LEMMA PopDependencyFacts ==
  ASSUME NEW map \in JobMaps,
         NEW s, SolverInv(s, map), CanVisitDependency(s)
  PROVE  LET p == PopDependency(s)
             n == Len(s.stack)
             d == NextDependency(s)[2]
         IN  /\ SolverType(p, map)
             /\ p.visit = s.visit /\ p.color = s.color
             /\ p.solution = s.solution /\ p.raised = {}
             /\ Len(p.stack) = n
             /\ \A k \in 1..n : p.stack[k].job = s.stack[k].job
             /\ \A k \in 1..(n - 1) : p.stack[k].deps = s.stack[k].deps
             /\ StackIsPath(p)
             /\ d \in DependencyNames(Top(s).job)
             /\ d \in Names
             /\ \A e \in DependencyNames(Top(s).job) :
                  \/ s.color[e] = "black"
                  \/ e = d
                  \/ \E i \in DOMAIN p.stack[n].deps : p.stack[n].deps[i][2] = e
<1> DEFINE p == PopDependency(s)
           n == Len(s.stack)
           top == Top(s)
           d == NextDependency(s)[2]
           frame == [job |-> top.job, deps |-> Tail(top.deps)]
           Frames == [job : Known(map), deps : Seq({"direct", "resource"} \X Names)]
<1>1. /\ SolverType(s, map) /\ GrayIsActive(s) /\ StackIsPath(s)
      /\ NoDependencySkipped(s)
  BY DEF SolverInv
<1>2. /\ s.raised = {} /\ s.stack # <<>> /\ top.deps # <<>>
      /\ s.visit \in Seq(Known(map)) /\ s.stack \in Seq(Frames)
      /\ s.color \in [Names -> Color] /\ s.solution \in Seq(Known(map))
  BY <1>1, SolverFields DEF CanVisitDependency
<1>3. /\ n \in DOMAIN s.stack /\ n \in Nat /\ n > 0
      /\ top = s.stack[n]
      /\ top.job \in Known(map)
      /\ top.deps \in Seq({"direct", "resource"} \X Names)
  BY <1>2, TopFacts, LastFacts
<1>4. p = [visit |-> s.visit, stack |-> [s.stack EXCEPT ![n] = frame],
           color |-> s.color, solution |-> s.solution, raised |-> s.raised]
  BY <1>1, SetStack DEF PopDependency
<1>16. DOMAIN s.stack = 1..n
  BY <1>2
<1> HIDE DEF p, n
<1>5. /\ frame \in Frames
      /\ p.stack = [s.stack EXCEPT ![n] = frame]
  BY <1>2, <1>3, <1>4
<1>6. /\ p.stack \in Seq(Frames)
      /\ Len(p.stack) = n
      /\ p.stack[n] = frame
      /\ \A k \in 1..(n - 1) : p.stack[k] = s.stack[k]
  BY <1>2, <1>5, ReplaceLastFacts DEF n
<1>7. /\ p.visit = s.visit /\ p.color = s.color
      /\ p.solution = s.solution /\ p.raised = {}
  BY <1>2, <1>4
<1>8. SolverType(p, map)
  BY <1>2, <1>4, <1>5, <1>6 DEF SolverType
<1>19. /\ frame.job = top.job /\ frame.deps = Tail(top.deps)
       /\ DOMAIN p.stack = 1..n
  BY <1>6
<1>20. d = Head(top.deps)[2]
  BY DEF NextDependency
<1> HIDE DEF top, d, frame, Frames
<1>9. \A k \in 1..n : p.stack[k].job = s.stack[k].job
  <2>1. frame.job = s.stack[n].job
    BY <1>3, <1>19
  <2>2. SUFFICES ASSUME NEW k \in 1..n, k # n
                 PROVE  p.stack[k] = s.stack[k]
    BY <1>6, <2>1
  <2>3. k \in 1..(n - 1)
    BY <1>3, <2>2
  <2>4. QED
    BY <1>6, <2>3
<1>10. /\ d = top.deps[1][2]
       /\ \A i \in DOMAIN top.deps : i # 1 =>
            i - 1 \in DOMAIN Tail(top.deps) /\ Tail(top.deps)[i - 1] = top.deps[i]
       /\ \A i \in DOMAIN Tail(top.deps) :
            i + 1 \in DOMAIN top.deps /\ Tail(top.deps)[i] = top.deps[i + 1]
  BY <1>2, <1>3, <1>20, TailFacts
<1>17. \A k \in 1..n :
         /\ k > 1 => s.stack[k].job.name \in DependencyNames(s.stack[k - 1].job)
         /\ \A i \in DOMAIN s.stack[k].deps :
              s.stack[k].deps[i][2] \in DependencyNames(s.stack[k].job)
  BY <1>1, <1>16 DEF StackIsPath
<1>11. \A i \in DOMAIN top.deps : top.deps[i][2] \in DependencyNames(top.job)
  BY <1>3, <1>17
<1>12. d \in DependencyNames(top.job) /\ d \in Names
  <2>1. 1 \in DOMAIN top.deps
    BY <1>2, <1>3
  <2>2. top.deps[1] \in {"direct", "resource"} \X Names
    BY <1>3, <2>1
  <2>3. QED
    BY <1>10, <1>11, <2>1, <2>2
<1>13. StackIsPath(p)
  <2>1. SUFFICES ASSUME NEW k \in 1..n
                 PROVE  /\ k > 1 => p.stack[k].job.name \in DependencyNames(p.stack[k - 1].job)
                        /\ \A i \in DOMAIN p.stack[k].deps :
                             p.stack[k].deps[i][2] \in DependencyNames(p.stack[k].job)
    BY <1>19 DEF StackIsPath
  <2>2. k > 1 => p.stack[k].job.name \in DependencyNames(p.stack[k - 1].job)
    <3>1. p.stack[k].job = s.stack[k].job
      BY <1>9
    <3>2. k > 1 => p.stack[k - 1].job = s.stack[k - 1].job
      <4>1. k > 1 => k - 1 \in 1..n
        BY <1>3
      <4>2. QED
        BY <1>9, <4>1
    <3>3. k > 1 => s.stack[k].job.name \in DependencyNames(s.stack[k - 1].job)
      BY <1>17
    <3>4. QED
      BY <3>1, <3>2, <3>3
  <2>3. CASE k = n
    <3>1. p.stack[k] = frame
      BY <1>6, <2>3
    <3>2. p.stack[k].job = top.job /\ p.stack[k].deps = Tail(top.deps)
      BY <1>19, <3>1
    <3>3. QED
      BY <1>10, <1>11, <2>2, <3>2
  <2>4. CASE k # n
    <3>1. p.stack[k] = s.stack[k]
      BY <1>3, <1>6, <2>4
    <3>2. QED
      BY <1>17, <2>2, <3>1
  <2>5. QED
    BY <2>3, <2>4
<1>14. ASSUME NEW e \in DependencyNames(top.job), s.color[e] # "black", e # d
       PROVE  \E i \in DOMAIN p.stack[n].deps : p.stack[n].deps[i][2] = e
  <2>1. \A k \in DOMAIN s.stack : \A dep \in DependencyNames(s.stack[k].job) :
          \/ s.color[dep] = "black"
          \/ \E i \in DOMAIN s.stack[k].deps : s.stack[k].deps[i][2] = dep
          \/ k < n /\ s.stack[k + 1].job.name = dep
    BY <1>1, <1>2 DEF NoDependencySkipped, n
  <2>2. PICK i \in DOMAIN top.deps : top.deps[i][2] = e
    <3>1. \/ s.color[e] = "black"
          \/ \E i \in DOMAIN s.stack[n].deps : s.stack[n].deps[i][2] = e
          \/ n < n /\ s.stack[n + 1].job.name = e
      BY <1>3, <1>14, <2>1
    <3>2. ~(n < n)
      BY <1>3
    <3>3. QED
      BY <1>3, <1>14, <3>1, <3>2
  <2>3. i # 1
    BY <1>10, <1>14, <2>2
  <2>4. p.stack[n].deps = Tail(top.deps)
    BY <1>6, <1>19
  <2>5. i - 1 \in DOMAIN Tail(top.deps) /\ Tail(top.deps)[i - 1] = top.deps[i]
    BY <1>10, <2>3
  <2>6. QED
    BY <2>2, <2>4, <2>5
<1>15. \A k \in 1..(n - 1) : p.stack[k].deps = s.stack[k].deps
  BY <1>6
<1>18. QED
  BY <1>6, <1>7, <1>8, <1>9, <1>12, <1>13, <1>14, <1>15 DEF p, n, top, d

\* The trail that _visit() cuts when it meets an active job: it starts with
\* that job, ends with it, follows dependencies and meets no other job twice.
LEMMA CycleFacts ==
  ASSUME NEW map \in JobMaps,
         NEW p, SolverType(p, map), GrayIsActive(p), ActiveOnce(p), StackIsPath(p),
         p.stack # <<>>,
         NEW job \in Known(map),
         p.color[job.name] = "gray",
         job.name \in DependencyNames(p.stack[Len(p.stack)].job)
  PROVE  \E cycle \in Seq(Known(map)) :
           /\ RaiseCycle(p, job) = [p EXCEPT !.raised =
                {[kind |-> "cycle", affected |-> job, trail |-> cycle]}]
           /\ cycle[1] = job
           /\ IsCycle(cycle)
<1> DEFINE Frames == [job : Known(map), deps : Seq({"direct", "resource"} \X Names)]
           n == Len(p.stack)
           trail == Append([i \in DOMAIN p.stack |-> p.stack[i].job], job)
           First(i) == trail[i] = job /\ \A j \in 1..(i - 1) : trail[j] # job
           index == CHOOSE i \in DOMAIN trail : First(i)
           cycle == SubSeq(trail, index, Len(trail))
<1>1. p.stack \in Seq(Frames)
  BY SolverFields
<1>2. /\ n \in Nat /\ n > 0
      /\ DOMAIN p.stack = 1..n
      /\ \A k \in 1..n : p.stack[k].job \in Known(map)
  <2> HIDE DEF Frames
  <2>1. n \in Nat /\ n > 0 /\ DOMAIN p.stack = 1..n
    BY <1>1, LastFacts
  <2>2. \A k \in 1..n : p.stack[k] \in Frames
    BY <1>1, <2>1
  <2>3. QED
    BY <2>1, <2>2 DEF Frames
<1> HIDE DEF n
<1>3. [i \in DOMAIN p.stack |-> p.stack[i].job] \in Seq(Known(map))
  BY <1>2
<1>4. Len([i \in DOMAIN p.stack |-> p.stack[i].job]) = n
  BY <1>2
<1>5. /\ trail \in Seq(Known(map))
      /\ Len(trail) = n + 1
      /\ DOMAIN trail = 1..(n + 1)
      /\ trail[n + 1] = job
      /\ \A k \in 1..n : trail[k] = p.stack[k].job
  <2>1. \A k \in 1..n : [i \in DOMAIN p.stack |-> p.stack[i].job][k] = p.stack[k].job
    BY <1>2
  <2>2. QED
    BY <1>3, <1>4, <2>1, AppendFacts
<1> HIDE DEF trail
<1>6. PICK k \in 1..n : p.stack[k].job.name = job.name
  <2>1. job.name \in Names
    BY MapType
  <2>2. QED
    BY <1>2, <2>1 DEF GrayIsActive
<1>7. p.stack[k].job = job
  BY <1>2, <1>6, MapType
<1>8. \A j \in 1..n : trail[j] = job => j = k
  BY <1>2, <1>5, <1>6, <1>7 DEF ActiveOnce
<1>9. First(k) /\ k \in DOMAIN trail
  BY <1>2, <1>5, <1>6, <1>7, <1>8
<1>10. \A i \in DOMAIN trail : First(i) => i = k
  <2>1. SUFFICES ASSUME NEW i \in DOMAIN trail, First(i), i # k
                 PROVE  FALSE
    OBVIOUS
  <2>2. i = n + 1
    BY <1>2, <1>5, <1>8, <2>1
  <2>3. k \in 1..(i - 1) /\ trail[k] = job
    BY <1>2, <1>6, <1>9, <2>2
  <2>4. QED
    BY <2>1, <2>3
<1>11. index = k
  BY <1>9, <1>10
<1> HIDE DEF index, First
<1>12. /\ cycle \in Seq(Known(map))
       /\ Len(cycle) = n + 2 - k
       /\ \A i \in 1..(n + 2 - k) : cycle[i] = trail[k + i - 1]
  <2>2. \A i \in k..(n + 1) : trail[i] \in Known(map)
    BY <1>2, <1>5, <1>6
  <2> DEFINE m == n + 1
  <2>3. k \in Int /\ m \in Int /\ k <= m + 1 /\ Len(trail) = m
    BY <1>2, <1>5, <1>6
  <2>4. m + 1 - k = n + 2 - k
    BY <1>2, <1>6
  <2>5. \A i \in k..m : trail[i] \in Known(map)
    BY <2>2
  <2> HIDE DEF m
  <2>6. /\ SubSeq(trail, k, m) \in Seq(Known(map))
        /\ Len(SubSeq(trail, k, m)) = m + 1 - k
        /\ \A i \in 1..(m + 1 - k) : SubSeq(trail, k, m)[i] = trail[k + i - 1]
    BY <2>3, <2>5, SubSeqFacts
  <2>7. cycle = SubSeq(trail, k, m)
    BY <1>11, <2>3
  <2> HIDE DEF cycle
  <2>8. QED
    BY <2>4, <2>6, <2>7
<1> HIDE DEF cycle
<1>13. cycle[1] = job /\ cycle[Len(cycle)] = job /\ Len(cycle) > 1
  BY <1>2, <1>5, <1>6, <1>7, <1>12
<1>14. ASSUME NEW i \in 1..(Len(cycle) - 1)
       PROVE  /\ cycle[i + 1].name \in DependencyNames(cycle[i])
              /\ \A j \in 1..(Len(cycle) - 1) : cycle[i] = cycle[j] => i = j
  <2>1. k + i - 1 \in 1..n /\ i + 1 \in 1..(n + 2 - k)
    BY <1>2, <1>6, <1>12, <1>14
  <2>2. cycle[i] = p.stack[k + i - 1].job /\ cycle[i + 1] = trail[k + i]
    <3>1. i \in 1..(n + 2 - k) /\ k + (i + 1) - 1 = k + i
      BY <1>2, <1>6, <1>12, <1>14
    <3>2. cycle[i] = trail[k + i - 1] /\ cycle[i + 1] = trail[k + (i + 1) - 1]
      BY <1>12, <2>1, <3>1
    <3>3. QED
      BY <1>5, <2>1, <3>1, <3>2
  <2>3. cycle[i + 1].name \in DependencyNames(cycle[i])
    <3>1. CASE k + i - 1 = n
      <4>1. k + i = n + 1
        BY <1>2, <1>6, <1>14, <2>1, <3>1
      <4>2. cycle[i + 1] = job /\ cycle[i] = p.stack[n].job
        BY <1>5, <2>2, <3>1, <4>1
      <4>3. job.name \in DependencyNames(p.stack[n].job)
        BY DEF n
      <4>4. QED
        BY <4>2, <4>3
    <3>2. CASE k + i - 1 # n
      <4>1. k + i \in 1..n /\ k + i > 1 /\ (k + i) - 1 = k + i - 1
        BY <1>2, <1>6, <1>14, <2>1, <3>2
      <4>2. p.stack[k + i].job.name \in DependencyNames(p.stack[(k + i) - 1].job)
        BY <1>2, <4>1 DEF StackIsPath
      <4>3. QED
        BY <1>5, <2>2, <4>1, <4>2
    <3>3. QED
      BY <3>1, <3>2
  <2>4. ASSUME NEW j \in 1..(Len(cycle) - 1), cycle[i] = cycle[j]
        PROVE  i = j
    <3>1. k + j - 1 \in 1..n /\ cycle[j] = p.stack[k + j - 1].job
      BY <1>2, <1>5, <1>6, <1>12, <2>4
    <3>2. k + i - 1 = k + j - 1
      BY <1>2, <2>1, <2>2, <2>4, <3>1 DEF ActiveOnce
    <3>3. QED
      BY <1>6, <3>2
  <2>5. QED
    BY <2>3, <2>4
<1>15. RaiseCycle(p, job) = [p EXCEPT !.raised =
         {[kind |-> "cycle", affected |-> job, trail |-> cycle]}]
  <2>1. RaiseCycle(p, job) = [p EXCEPT !.raised = {CycleError(cycle)}]
    BY DEF RaiseCycle, cycle, index, First, trail
  <2>2. QED
    BY <1>13, <2>1 DEF CycleError
<1>16. IsCycle(cycle)
  BY <1>13, <1>14 DEF IsCycle
<1>17. QED
  BY <1>12, <1>13, <1>15, <1>16

\* A dependency that is a known job.
LEMMA VisitDependencyInv ==
  ASSUME NEW map \in JobMaps,
         NEW s, SolverInv(s, map), CanVisitDependency(s),
         NextDependency(s)[2] \in DOMAIN map
  PROVE  /\ SolverInv(VisitDependency(s, map), map)
         /\ \A visit \in Seq(Known(map)) :
              VisitListKept(s, visit) => VisitListKept(VisitDependency(s, map), visit)
         /\ ErrorsAreReal(VisitDependency(s, map), map)
<1> DEFINE Frames == [job : Known(map), deps : Seq({"direct", "resource"} \X Names)]
           p == PopDependency(s)
           n == Len(s.stack)
           d == NextDependency(s)[2]
           job == map[d]
           t == VisitDependency(s, map)
<1>1. /\ SolverType(s, map) /\ BlackIsSolved(s) /\ GrayIsActive(s)
      /\ ActiveOnce(s) /\ StackIsPath(s) /\ NoDependencySkipped(s)
      /\ Ordered(s.solution)
  BY DEF SolverInv
<1>2. /\ n \in Nat /\ n > 0 /\ n \in DOMAIN s.stack
      /\ DOMAIN s.stack = 1..n
      /\ Top(s) = s.stack[n]
      /\ s.raised = {}
  BY <1>1, SolverFields, LastFacts DEF CanVisitDependency, Top
<1>3. /\ job \in Known(map) /\ job \in JobDefs /\ job.name = d /\ d \in Names
  BY MapType DEF Known
<1>4. /\ SolverType(p, map)
      /\ p.visit = s.visit /\ p.color = s.color
      /\ p.solution = s.solution /\ p.raised = {}
      /\ Len(p.stack) = n
      /\ \A k \in 1..n : p.stack[k].job = s.stack[k].job
      /\ \A k \in 1..(n - 1) : p.stack[k].deps = s.stack[k].deps
      /\ StackIsPath(p)
      /\ d \in DependencyNames(Top(s).job)
      /\ \A e \in DependencyNames(Top(s).job) :
           \/ s.color[e] = "black"
           \/ e = d
           \/ \E i \in DOMAIN p.stack[n].deps : p.stack[n].deps[i][2] = e
  BY PopDependencyFacts
<1>5. t = Visit(p, job)
  BY DEF VisitDependency
<1> HIDE DEF p, n, d, job, t
<1>6. /\ p.stack \in Seq(Frames) /\ p.visit \in Seq(Known(map))
      /\ p.color \in [Names -> Color] /\ p.solution \in Seq(Known(map))
  BY <1>4, SolverFields
<1> HIDE DEF Frames
<1>13. DOMAIN p.stack = 1..n
  BY <1>4, <1>6
<1>7. BlackIsSolved(p)
  BY <1>1, <1>4 DEF BlackIsSolved
<1>14. p.color = s.color
  BY <1>4
<1>15. \A i \in 1..n : p.stack[i].job = s.stack[i].job
  BY <1>4
<1>8. GrayIsActive(p) /\ ActiveOnce(p)
  <2>1. GrayIsActive(p)
    BY <1>1, <1>2, <1>13, <1>14, <1>15 DEF GrayIsActive
  <2>2. ActiveOnce(p)
    BY <1>1, <1>2, <1>13, <1>15 DEF ActiveOnce
  <2>3. QED
    BY <2>1, <2>2
<1>9. CASE p.color[d] = "white"
  <2> DEFINE frame == [job |-> job, deps |-> SortedDependencies(job)]
             stack == Append(p.stack, frame)
             color == [p.color EXCEPT ![d] = "gray"]
  <2>1. t = [visit |-> p.visit, stack |-> stack, color |-> color,
             solution |-> p.solution, raised |-> p.raised]
    BY <1>3, <1>5, <1>9, VisitCases DEF EnterWhite
  <2>2. /\ frame \in Frames
        /\ \A i \in DOMAIN frame.deps : frame.deps[i][2] \in DependencyNames(job)
        /\ \A e \in DependencyNames(job) : \E i \in DOMAIN frame.deps : frame.deps[i][2] = e
    BY <1>3, SortedDependenciesType DEF Frames
  <2>3. /\ stack \in Seq(Frames)
        /\ Len(stack) = n + 1
        /\ DOMAIN stack = 1..(n + 1)
        /\ stack[n + 1] = frame
        /\ \A k \in 1..n : stack[k] = p.stack[k]
    BY <1>4, <1>6, <1>13, <2>2, AppendFacts
  <2>4. frame.job = job
    OBVIOUS
  <2>5. color \in [Names -> Color] /\ color[d] = "gray"
        /\ \A e \in Names : e # d => color[e] = p.color[e]
    BY <1>3, <1>6 DEF Color
  <2> HIDE DEF frame, stack, color
  <2>6. /\ t.visit = p.visit /\ t.stack = stack /\ t.color = color
        /\ t.solution = p.solution /\ t.raised = {}
    BY <1>4, <2>1
  <2>7. SolverType(t, map)
    BY <1>4, <1>6, <1>13, <2>1, <2>3, <2>5 DEF SolverType, Frames
  <2>8. BlackIsSolved(t)
    BY <1>7, <1>9, <2>5, <2>6 DEF BlackIsSolved
  <2>9. \A k \in 1..n : p.stack[k].job.name # d
    BY <1>3, <1>6, <1>13, <1>8, <1>9 DEF GrayIsActive
  <2>10. GrayIsActive(t)
    <3>1. ASSUME NEW e \in Names
          PROVE  t.color[e] = "gray" <=> \E k \in DOMAIN t.stack : t.stack[k].job.name = e
      <4>1. CASE e = d
        BY <1>2, <1>3, <2>3, <2>4, <2>5, <2>6, <4>1
      <4>2. CASE e # d
        <5>1. t.color[e] = "gray" <=> \E k \in 1..n : p.stack[k].job.name = e
          BY <1>6, <1>13, <1>8, <2>5, <2>6, <4>2 DEF GrayIsActive
        <5>2. \A k \in 1..(n + 1) : t.stack[k].job.name = e => k \in 1..n
          BY <1>2, <1>3, <2>3, <2>4, <2>6, <4>2
        <5>3. \A k \in 1..n : k \in 1..(n + 1) /\ t.stack[k] = p.stack[k]
          BY <1>2, <2>3, <2>6
        <5>4. QED
          BY <2>3, <2>6, <5>1, <5>2, <5>3
      <4>3. QED
        BY <4>1, <4>2
    <3>2. QED
      BY <3>1 DEF GrayIsActive
  <2>11. ActiveOnce(t)
    <3>1. SUFFICES ASSUME NEW k \in 1..(n + 1), NEW l \in 1..(n + 1),
                          stack[k].job.name = stack[l].job.name
                   PROVE  k = l
      BY <2>3, <2>6 DEF ActiveOnce
    <3>2. \A i \in 1..(n + 1) : i # n + 1 => i \in 1..n /\ stack[i] = p.stack[i]
      BY <1>2, <2>3
    <3>3. stack[n + 1].job.name = d
      BY <1>3, <2>3, <2>4
    <3>4. QED
      BY <1>6, <1>13, <1>8, <2>9, <3>1, <3>2, <3>3 DEF ActiveOnce
  <2>12. StackIsPath(t)
    <3>1. SUFFICES ASSUME NEW k \in 1..(n + 1)
                   PROVE  /\ k > 1 => stack[k].job.name \in DependencyNames(stack[k - 1].job)
                          /\ \A i \in DOMAIN stack[k].deps :
                               stack[k].deps[i][2] \in DependencyNames(stack[k].job)
      BY <2>3, <2>6 DEF StackIsPath
    <3>2. CASE k = n + 1
      <4>1. stack[k] = frame /\ (n + 1) - 1 = n /\ n \in 1..n
        BY <1>2, <2>3, <3>2
      <4>2. stack[n].job = Top(s).job
        BY <1>2, <1>4, <2>3
      <4>3. QED
        BY <1>3, <1>4, <2>2, <2>4, <3>2, <4>1, <4>2
    <3>3. CASE k # n + 1
      <4>1. k \in 1..n /\ stack[k] = p.stack[k]
            /\ (k > 1 => stack[k - 1] = p.stack[k - 1])
        BY <1>2, <2>3, <3>3
      <4>2. QED
        BY <1>4, <1>6, <1>13, <4>1 DEF StackIsPath
    <3>4. QED
      BY <3>2, <3>3
  <2>13. NoDependencySkipped(t)
    <3>1. SUFFICES ASSUME NEW k \in 1..(n + 1), NEW e \in DependencyNames(stack[k].job)
                   PROVE  \/ color[e] = "black"
                          \/ \E i \in DOMAIN stack[k].deps : stack[k].deps[i][2] = e
                          \/ k < n + 1 /\ stack[k + 1].job.name = e
      BY <2>3, <2>6 DEF NoDependencySkipped
    <3>2. CASE k = n + 1
      BY <2>2, <2>3, <2>4, <3>2
    <3>3. CASE k = n
      <4>1. stack[k].job = Top(s).job /\ stack[k].deps = p.stack[n].deps
        BY <1>2, <1>4, <2>3, <3>3
      <4>2. CASE e = d
        BY <1>2, <1>3, <2>3, <2>4, <3>3, <4>2
      <4>3. CASE s.color[e] = "black"
        <5>1. e \in Names
          BY <4>1, TopFacts DEF CanVisitDependency
        <5>2. e # d
          BY <1>4, <1>9, <4>3
        <5>3. QED
          BY <1>4, <2>5, <4>3, <5>1, <5>2
      <4>4. CASE \E i \in DOMAIN p.stack[n].deps : p.stack[n].deps[i][2] = e
        BY <4>1, <4>4
      <4>5. QED
        BY <1>4, <3>1, <4>1, <4>2, <4>3, <4>4
    <3>4. CASE k < n
      <4>1. /\ k \in 1..n /\ k \in 1..(n - 1) /\ k + 1 \in 1..n
            /\ stack[k].job = s.stack[k].job /\ stack[k].deps = s.stack[k].deps
            /\ stack[k + 1].job = s.stack[k + 1].job
        BY <1>2, <1>4, <2>3, <3>4
      <4>2. \/ s.color[e] = "black"
            \/ \E i \in DOMAIN s.stack[k].deps : s.stack[k].deps[i][2] = e
            \/ s.stack[k + 1].job.name = e
        BY <1>1, <1>2, <3>1, <4>1 DEF NoDependencySkipped
      <4>3. e \in Names
        <5>1. s.stack[k].job \in Known(map)
          <6>1. p.stack[k] \in Frames
            BY <1>4, <1>6, <4>1
          <6>2. QED
            BY <1>4, <4>1, <6>1 DEF Frames
        <5>2. QED
          BY <3>1, <4>1, <5>1, MapType, DefinitionType
      <4>4. s.color[e] = "black" => color[e] = "black"
        BY <1>4, <1>9, <2>5, <4>3
      <4>5. QED
        BY <3>4, <4>1, <4>2, <4>4, <1>2
    <3>5. QED
      BY <1>2, <3>2, <3>3, <3>4
  <2>14. SolverInv(t, map)
    BY <1>1, <1>4, <2>6, <2>7, <2>8, <2>10, <2>11, <2>12, <2>13 DEF SolverInv
  <2>15. ASSUME NEW visit \in Seq(Known(map)), VisitListKept(s, visit)
         PROVE  VisitListKept(t, visit)
    <3>1. SUFFICES ASSUME NEW i \in DOMAIN visit, t.color[visit[i].name] = "white"
                   PROVE  \E j \in DOMAIN t.visit : t.visit[j] = visit[i]
      BY DEF VisitListKept
    <3>2. visit[i].name \in Names
      BY <3>1, MapType
    <3>3. s.color[visit[i].name] = "white"
      BY <1>4, <2>5, <2>6, <3>1, <3>2
    <3>4. QED
      BY <1>2, <1>4, <2>6, <2>15, <3>3 DEF VisitListKept
  <2>16. ErrorsAreReal(t, map)
    BY <2>6 DEF ErrorsAreReal
  <2>17. QED
    BY <2>14, <2>15, <2>16 DEF t
<1>10. CASE p.color[d] = "gray"
  <2>1. p.stack # <<>> /\ d \in DependencyNames(p.stack[Len(p.stack)].job)
    BY <1>2, <1>4, <1>6
  <2>2. PICK cycle \in Seq(Known(map)) :
          /\ RaiseCycle(p, job) = [p EXCEPT !.raised =
               {[kind |-> "cycle", affected |-> job, trail |-> cycle]}]
          /\ cycle[1] = job
          /\ IsCycle(cycle)
    BY <1>3, <1>4, <1>8, <1>10, <2>1, CycleFacts
  <2> DEFINE error == [kind |-> "cycle", affected |-> job, trail |-> cycle]
  <2>3. error \in Problems
    <3>1. cycle \in Seq(JobDefs)
      BY MapType
    <3>2. QED
      BY <1>3, <3>1 DEF Problems
  <2>4. error.kind = "cycle" /\ error.trail = cycle /\ error.affected = cycle[1]
    BY <2>2
  <2>5. t = [p EXCEPT !.raised = {error}]
    BY <1>3, <1>5, <1>10, <2>2, VisitCases
  <2> HIDE DEF error
  <2>6. t = [visit |-> p.visit, stack |-> p.stack, color |-> p.color,
             solution |-> p.solution, raised |-> {error}]
    BY <1>4, <2>5, SetRaised
  <2>7. /\ t.visit = p.visit /\ t.stack = p.stack /\ t.color = p.color
        /\ t.solution = p.solution /\ t.raised = {error}
    BY <2>6
  <2>8. SolverType(t, map)
    BY <1>4, <1>6, <1>13, <2>3, <2>6 DEF SolverType, Frames
  <2>9. BlackIsSolved(t) /\ GrayIsActive(t) /\ ActiveOnce(t) /\ StackIsPath(t)
    BY <1>4, <1>7, <1>8, <2>7 DEF BlackIsSolved, GrayIsActive, ActiveOnce, StackIsPath
  <2>10. NoDependencySkipped(t) /\ \A visit \in Seq(Known(map)) : VisitListKept(t, visit)
    BY <2>7 DEF NoDependencySkipped, VisitListKept
  <2>11. ErrorsAreReal(t, map)
    BY <1>3, <2>2, <2>4, <2>7 DEF ErrorsAreReal
  <2>12. SolverInv(t, map)
    BY <1>1, <1>4, <2>7, <2>8, <2>9, <2>10 DEF SolverInv
  <2>13. QED
    BY <2>10, <2>11, <2>12 DEF t
<1>11. CASE p.color[d] = "black"
  <2>1. t = p
    BY <1>3, <1>5, <1>11, VisitCases
  <2>2. NoDependencySkipped(p)
    <3>1. SUFFICES ASSUME NEW k \in 1..n, NEW e \in DependencyNames(p.stack[k].job)
                   PROVE  \/ p.color[e] = "black"
                          \/ \E i \in DOMAIN p.stack[k].deps : p.stack[k].deps[i][2] = e
                          \/ k < Len(p.stack) /\ p.stack[k + 1].job.name = e
      BY <1>4, <1>13 DEF NoDependencySkipped
    <3>2. CASE k = n
      BY <1>2, <1>4, <1>11, <3>1, <3>2
    <3>3. CASE k # n
      <4>1. /\ k \in 1..(n - 1) /\ k + 1 \in 1..n /\ k < n
            /\ p.stack[k].job = s.stack[k].job /\ p.stack[k].deps = s.stack[k].deps
            /\ p.stack[k + 1].job = s.stack[k + 1].job
        BY <1>2, <1>4, <3>3
      <4>2. \/ s.color[e] = "black"
            \/ \E i \in DOMAIN s.stack[k].deps : s.stack[k].deps[i][2] = e
            \/ s.stack[k + 1].job.name = e
        BY <1>1, <1>2, <3>1, <4>1 DEF NoDependencySkipped
      <4>3. QED
        BY <1>4, <4>1, <4>2
    <3>4. QED
      BY <3>2, <3>3
  <2>3. SolverInv(p, map)
    BY <1>1, <1>4, <1>7, <1>8, <2>2 DEF SolverInv
  <2>4. \A visit \in Seq(Known(map)) : VisitListKept(s, visit) => VisitListKept(p, visit)
    BY <1>2, <1>4 DEF VisitListKept
  <2>5. ErrorsAreReal(p, map)
    BY <1>4 DEF ErrorsAreReal
  <2>6. QED
    BY <2>1, <2>3, <2>4, <2>5 DEF t
<1>12. QED
  BY <1>3, <1>6, <1>13, <1>9, <1>10, <1>11 DEF p, n, d, job, t, Color

\* A dependency that is not.
LEMMA RaiseMissingInv ==
  ASSUME NEW map \in JobMaps,
         NEW s, SolverInv(s, map), CanVisitDependency(s),
         NextDependency(s)[2] \notin DOMAIN map
  PROVE  /\ SolverInv(RaiseMissing(s), map)
         /\ \A visit \in Seq(Known(map)) : VisitListKept(RaiseMissing(s), visit)
         /\ ErrorsAreReal(RaiseMissing(s), map)
<1> DEFINE t == RaiseMissing(s)
           error == MissingError(Top(s).job, NextDependency(s)[2], NextDependency(s)[1])
<1>1. /\ SolverType(s, map) /\ BlackIsSolved(s) /\ GrayIsActive(s)
      /\ ActiveOnce(s) /\ StackIsPath(s) /\ Ordered(s.solution)
  BY DEF SolverInv
<1>2. /\ Top(s).job \in JobDefs /\ Top(s).job \in Known(map)
      /\ Top(s).deps \in Seq({"direct", "resource"} \X Names)
      /\ Top(s).deps # <<>>
  BY TopFacts DEF CanVisitDependency
<1>3. NextDependency(s) \in {"direct", "resource"} \X Names
  BY <1>2, TailFacts DEF NextDependency
<1>4. NextDependency(s)[2] \in DependencyNames(Top(s).job)
  BY PopDependencyFacts
<1>5. error \in Problems
  BY <1>2, <1>3 DEF MissingError, Problems
<1>6. /\ error.kind = "missing"
      /\ error.affected = Top(s).job
      /\ error.missing = NextDependency(s)[2]
  BY DEF MissingError
<1>7. t = [s EXCEPT !.raised = {error}]
  BY DEF RaiseMissing
<1> HIDE DEF error, t
<1>8. t = [visit |-> s.visit, stack |-> s.stack, color |-> s.color,
           solution |-> s.solution, raised |-> {error}]
  BY <1>1, <1>7, SetRaised
<1>9. /\ t.visit = s.visit /\ t.stack = s.stack /\ t.color = s.color
      /\ t.solution = s.solution /\ t.raised = {error}
  BY <1>8
<1>10. SolverType(t, map)
  BY <1>1, <1>5, <1>8 DEF SolverType
<1>11. BlackIsSolved(t) /\ GrayIsActive(t) /\ ActiveOnce(t) /\ StackIsPath(t)
  BY <1>1, <1>9 DEF BlackIsSolved, GrayIsActive, ActiveOnce, StackIsPath
<1>12. NoDependencySkipped(t) /\ \A visit \in Seq(Known(map)) : VisitListKept(t, visit)
  BY <1>9 DEF NoDependencySkipped, VisitListKept
<1>13. ErrorsAreReal(t, map)
  BY <1>2, <1>4, <1>6, <1>9 DEF ErrorsAreReal
<1>14. SolverInv(t, map)
  BY <1>1, <1>9, <1>10, <1>11, <1>12 DEF SolverInv
<1>15. QED
  BY <1>12, <1>13, <1>14 DEF t

\* The for loop over the dependencies is over.
LEMMA FinishInv ==
  ASSUME NEW map \in JobMaps,
         NEW s, SolverInv(s, map), CanFinish(s)
  PROVE  /\ SolverInv(Finish(s), map)
         /\ \A visit \in Seq(Known(map)) :
              VisitListKept(s, visit) => VisitListKept(Finish(s), visit)
         /\ ErrorsAreReal(Finish(s), map)
<1> DEFINE Frames == [job : Known(map), deps : Seq({"direct", "resource"} \X Names)]
           n == Len(s.stack)
           job == Top(s).job
           t == Finish(s)
           stack == SubSeq(s.stack, 1, n - 1)
           color == [s.color EXCEPT ![job.name] = "black"]
           solution == Append(s.solution, job)
           m == Len(s.solution)
<1>1. /\ SolverType(s, map) /\ BlackIsSolved(s) /\ GrayIsActive(s)
      /\ ActiveOnce(s) /\ StackIsPath(s) /\ NoDependencySkipped(s)
      /\ Ordered(s.solution)
  BY DEF SolverInv
<1>2. s.raised = {} /\ s.stack # <<>> /\ Top(s).deps = <<>>
  BY DEF CanFinish
<1>3. /\ n \in DOMAIN s.stack /\ DOMAIN s.stack = 1..n
      /\ Top(s) = s.stack[n]
      /\ job \in Known(map) /\ job \in JobDefs /\ job.name \in Names
      /\ s.color[job.name] = "gray"
      /\ DependencyNames(job) \in SUBSET Names
  BY <1>2, TopFacts
<1>4. t = [visit |-> s.visit, stack |-> stack, color |-> color,
           solution |-> solution, raised |-> s.raised]
  BY DEF Finish
<1> HIDE DEF t, job
<1>5. s.stack \in Seq(Frames)
  BY <1>1, SolverFields
<1> HIDE DEF Frames
<1>6. /\ n \in Nat /\ n > 0
      /\ stack \in Seq(Frames) /\ Len(stack) = n - 1
      /\ DOMAIN stack = 1..(n - 1)
      /\ \A k \in 1..(n - 1) : stack[k] = s.stack[k]
  BY <1>2, <1>5, FrontFacts, LastFacts
<1>7. /\ s.solution \in Seq(Known(map)) /\ s.color \in [Names -> Color]
      /\ s.visit \in Seq(Known(map)) /\ s.raised \in SUBSET Problems
  BY <1>1, SolverFields
<1>8. /\ solution \in Seq(Known(map)) /\ m \in Nat
      /\ Len(solution) = m + 1
      /\ DOMAIN s.solution = 1..m
      /\ DOMAIN solution = 1..(m + 1)
      /\ solution[m + 1] = job
      /\ \A k \in 1..m : solution[k] = s.solution[k]
  BY <1>3, <1>7, AppendFacts
<1>9. color \in [Names -> Color] /\ color[job.name] = "black"
      /\ \A e \in Names : e # job.name => color[e] = s.color[e]
  BY <1>3, <1>7 DEF Color
<1> HIDE DEF n, m, stack, color, solution
<1>10. /\ t.visit = s.visit /\ t.stack = stack /\ t.color = color
       /\ t.solution = solution /\ t.raised = {}
  BY <1>2, <1>4
<1>11. SolverType(t, map)
  BY <1>4, <1>6, <1>7, <1>8, <1>9 DEF SolverType, Frames
<1>12. BlackIsSolved(t)
  <2>1. ASSUME NEW e \in Names
        PROVE  t.color[e] = "black" <=> \E i \in DOMAIN t.solution : t.solution[i].name = e
    <3>1. CASE e = job.name
      BY <1>8, <1>9, <1>10, <3>1
    <3>2. CASE e # job.name
      <4>1. t.color[e] = "black" <=> \E i \in 1..m : s.solution[i].name = e
        BY <1>1, <1>8, <1>9, <1>10, <3>2 DEF BlackIsSolved
      <4>2. \A i \in 1..(m + 1) : t.solution[i].name = e => i \in 1..m
        BY <1>8, <1>10, <3>2
      <4>3. \A i \in 1..m : i \in 1..(m + 1) /\ t.solution[i] = s.solution[i]
        BY <1>8, <1>10
      <4>4. QED
        BY <1>8, <1>10, <4>1, <4>2, <4>3
    <3>3. QED
      BY <3>1, <3>2
  <2>2. QED
    BY <2>1 DEF BlackIsSolved
<1>13. s.stack[n].job = job
  BY <1>3 DEF job
<1>14. \A k \in 1..(n - 1) : s.stack[k].job.name # job.name
  <2>1. SUFFICES ASSUME NEW k \in 1..(n - 1), s.stack[k].job.name = s.stack[n].job.name
                 PROVE  FALSE
    BY <1>13
  <2>2. k = n
    BY <1>1, <1>3, <1>6, <2>1 DEF ActiveOnce
  <2>3. QED
    BY <1>6, <2>1, <2>2
<1>15. GrayIsActive(t)
  <2>1. ASSUME NEW e \in Names
        PROVE  t.color[e] = "gray" <=> \E k \in 1..(n - 1) : s.stack[k].job.name = e
    <3>1. CASE e = job.name
      BY <1>9, <1>10, <1>14, <3>1
    <3>2. CASE e # job.name
      <4>1. t.color[e] = "gray" <=> \E k \in 1..n : s.stack[k].job.name = e
        BY <1>1, <1>3, <1>9, <1>10, <3>2 DEF GrayIsActive
      <4>2. \A k \in 1..n : s.stack[k].job.name = e => k \in 1..(n - 1)
        BY <1>6, <1>13, <3>2
      <4>3. \A k \in 1..(n - 1) : k \in 1..n
        BY <1>6
      <4>4. QED
        BY <4>1, <4>2, <4>3
    <3>3. QED
      BY <3>1, <3>2
  <2>2. QED
    BY <1>6, <1>10, <2>1 DEF GrayIsActive
<1>16. \A k \in 1..(n - 1) : k \in 1..n /\ (k > 1 => k - 1 \in 1..(n - 1))
  BY <1>6
<1>17. ActiveOnce(t)
  BY <1>1, <1>3, <1>6, <1>10, <1>16 DEF ActiveOnce
<1>18. StackIsPath(t)
  <2>1. SUFFICES ASSUME NEW k \in 1..(n - 1)
                 PROVE  /\ k > 1 => stack[k].job.name \in DependencyNames(stack[k - 1].job)
                        /\ \A i \in DOMAIN stack[k].deps :
                             stack[k].deps[i][2] \in DependencyNames(stack[k].job)
    BY <1>6, <1>10 DEF StackIsPath
  <2>2. stack[k] = s.stack[k] /\ (k > 1 => stack[k - 1] = s.stack[k - 1])
    BY <1>6, <1>16
  <2>3. QED
    BY <1>1, <1>3, <1>16, <2>2 DEF StackIsPath
<1>19. NoDependencySkipped(t)
  <2>1. SUFFICES ASSUME NEW k \in 1..(n - 1), NEW e \in DependencyNames(stack[k].job)
                 PROVE  \/ color[e] = "black"
                        \/ \E i \in DOMAIN stack[k].deps : stack[k].deps[i][2] = e
                        \/ k < n - 1 /\ stack[k + 1].job.name = e
    BY <1>6, <1>10 DEF NoDependencySkipped
  <2>2. stack[k] = s.stack[k] /\ k \in 1..n /\ s.stack[k] \in Frames
    BY <1>3, <1>5, <1>6, <1>16
  <2>3. e \in Names
    BY <2>1, <2>2, MapType, DefinitionType DEF Frames
  <2>4. \/ s.color[e] = "black"
        \/ \E i \in DOMAIN s.stack[k].deps : s.stack[k].deps[i][2] = e
        \/ s.stack[k + 1].job.name = e
    BY <1>1, <1>2, <1>3, <2>1, <2>2 DEF NoDependencySkipped
  <2>5. s.color[e] = "black" => color[e] = "black"
    BY <1>9, <2>3
  <2>6. CASE s.stack[k + 1].job.name = e
    <3>1. CASE k = n - 1
      <4>1. k + 1 = n
        BY <1>6, <3>1
      <4>2. QED
        BY <1>9, <1>13, <2>6, <4>1
    <3>2. CASE k # n - 1
      <4>1. k + 1 \in 1..(n - 1) /\ k < n - 1
        BY <1>6, <3>2
      <4>2. QED
        BY <1>6, <2>6, <4>1
    <3>3. QED
      BY <3>1, <3>2
  <2>7. QED
    BY <2>2, <2>4, <2>5, <2>6
<1>20. Ordered(solution)
  <2>1. \A e \in DependencyNames(job) : \E j \in 1..m : s.solution[j].name = e
    <3>1. ASSUME NEW e \in DependencyNames(job)
          PROVE  s.color[e] = "black"
      <4>1. \/ s.color[e] = "black"
            \/ \E i \in DOMAIN s.stack[n].deps : s.stack[n].deps[i][2] = e
            \/ n < n /\ s.stack[n + 1].job.name = e
        BY <1>1, <1>2, <1>3, <1>13, <3>1 DEF NoDependencySkipped, n
      <4>2. s.stack[n].deps = <<>>
        BY <1>2, <1>3
      <4>3. QED
        BY <1>6, <4>1, <4>2
    <3>2. QED
      BY <1>1, <1>3, <1>8, <3>1 DEF BlackIsSolved
  <2>2. \A j \in 1..m : s.solution[j].name # job.name
    BY <1>1, <1>3, <1>8 DEF BlackIsSolved
  <2>3. SUFFICES ASSUME NEW i \in 1..(m + 1)
                 PROVE  /\ \A j \in 1..(m + 1) : solution[i].name = solution[j].name => i = j
                        /\ \A e \in DependencyNames(solution[i]) :
                             \E j \in 1..(i - 1) : solution[j].name = e
    BY <1>8 DEF Ordered
  <2>4. \A j \in 1..(m + 1) : j # m + 1 => j \in 1..m /\ solution[j] = s.solution[j]
    BY <1>8
  <2>5. CASE i = m + 1
    <3>1. \A e \in DependencyNames(solution[i]) : \E j \in 1..m : solution[j].name = e
      BY <1>8, <2>1, <2>5
    <3>2. i - 1 = m
      BY <1>8, <2>5
    <3>3. QED
      BY <1>8, <2>2, <2>4, <2>5, <3>1, <3>2
  <2>6. CASE i # m + 1
    <3>1. i \in 1..m /\ solution[i] = s.solution[i]
      BY <2>4, <2>6
    <3>2. ASSUME NEW j \in 1..(m + 1), solution[i].name = solution[j].name
          PROVE  i = j
      <4>1. CASE j = m + 1
        BY <1>8, <2>2, <3>1, <3>2, <4>1
      <4>2. CASE j # m + 1
        <5>1. j \in 1..m /\ s.solution[i].name = s.solution[j].name
          BY <2>4, <3>1, <3>2, <4>2
        <5>2. QED
          BY <1>1, <1>8, <3>1, <5>1 DEF Ordered
      <4>3. QED
        BY <4>1, <4>2
    <3>3. \A j \in 1..(i - 1) : solution[j] = s.solution[j]
      BY <1>8, <3>1
    <3>4. \A e \in DependencyNames(solution[i]) : \E j \in 1..(i - 1) : s.solution[j].name = e
      BY <1>1, <1>8, <3>1 DEF Ordered
    <3>5. QED
      BY <3>2, <3>3, <3>4
  <2>7. QED
    BY <2>5, <2>6
<1>21. SolverInv(t, map)
  BY <1>10, <1>11, <1>12, <1>15, <1>17, <1>18, <1>19, <1>20 DEF SolverInv
<1>22. ASSUME NEW visit \in Seq(Known(map)), VisitListKept(s, visit)
       PROVE  VisitListKept(t, visit)
  <2>1. SUFFICES ASSUME NEW i \in DOMAIN visit, t.color[visit[i].name] = "white"
                 PROVE  \E j \in DOMAIN t.visit : t.visit[j] = visit[i]
    BY DEF VisitListKept
  <2>2. visit[i].name \in Names
    BY <2>1, MapType
  <2>3. s.color[visit[i].name] = "white"
    BY <1>9, <1>10, <2>1, <2>2
  <2>4. QED
    BY <1>2, <1>10, <1>22, <2>3 DEF VisitListKept
<1>23. ErrorsAreReal(t, map)
  BY <1>10 DEF ErrorsAreReal
<1>24. QED
  BY <1>21, <1>22, <1>23 DEF t

-----------------------------------------------------------------------------
(* The search does not leave a closed set of names.                        *)

LEMMA NeededIsClosed ==
  ASSUME NEW map \in JobMaps, NEW names \in SUBSET Names
  PROVE  /\ NeededBy(names, map) \in SUBSET Names
         /\ names \subseteq NeededBy(names, map)
         /\ Closed(NeededBy(names, map), map)
<1>1. names \subseteq NeededBy(names, map) /\ NeededBy(names, map) \in SUBSET Names
  BY DEF NeededBy
<1>2. ASSUME NEW n \in NeededBy(names, map) \cap DOMAIN map,
             NEW d \in DependencyNames(map[n])
      PROVE  d \in NeededBy(names, map)
  <2>1. d \in Names
    BY MapType, DefinitionType
  <2>2. ASSUME NEW S \in SUBSET Names, names \subseteq S, Closed(S, map)
        PROVE  d \in S
    <3>1. n \in S
      BY <2>2 DEF NeededBy
    <3>2. QED
      BY <2>2, <3>1 DEF Closed
  <2>3. QED
    BY <2>1, <2>2 DEF NeededBy
<1>3. QED
  BY <1>1, <1>2 DEF Closed

LEMMA StartWithin ==
  ASSUME NEW map, NEW visit \in Seq(Known(map)), NEW S,
         \A i \in DOMAIN visit : visit[i].name \in S
  PROVE  Within(StartSolver(visit), S)
BY DEF Within, StartSolver

LEMMA VisitWithin ==
  ASSUME NEW map \in JobMaps, NEW S,
         NEW s, SolverType(s, map), Within(s, S),
         NEW job \in Known(map), job.name \in S,
         s.color[job.name] = "gray" =>
           \E cycle : RaiseCycle(s, job) = [s EXCEPT !.raised =
             {[kind |-> "cycle", affected |-> job, trail |-> cycle]}]
  PROVE  Within(Visit(s, job), S)
<1> DEFINE Frames == [job : Known(map), deps : Seq({"direct", "resource"} \X Names)]
<1>1. s.stack \in Seq(Frames) /\ s.color \in [Names -> Color]
  BY SolverFields
<1>2. CASE s.color[job.name] = "white"
  <2> DEFINE frame == [job |-> job, deps |-> SortedDependencies(job)]
             stack == Append(s.stack, frame)
             t == EnterWhite(s, job)
  <2>1. frame \in Frames
    BY MapType, SortedDependenciesType
  <2>2. frame.job = job
    OBVIOUS
  <2>3. t.visit = s.visit /\ t.stack = stack /\ t.solution = s.solution /\ t.raised = s.raised
    BY DEF EnterWhite
  <2> HIDE DEF frame, Frames
  <2>4. /\ Len(s.stack) \in Nat
        /\ DOMAIN s.stack = 1..Len(s.stack)
        /\ DOMAIN stack = 1..(Len(s.stack) + 1)
        /\ stack[Len(s.stack) + 1] = frame
        /\ \A k \in 1..Len(s.stack) : stack[k] = s.stack[k]
    BY <1>1, <2>1, AppendFacts
  <2> HIDE DEF stack, t
  <2>5. \A k \in DOMAIN stack : stack[k].job.name \in S
    <3>1. SUFFICES ASSUME NEW k \in DOMAIN stack
                   PROVE  stack[k].job.name \in S
      OBVIOUS
    <3>2. CASE k = Len(s.stack) + 1
      BY <2>2, <2>4, <3>2
    <3>3. CASE k # Len(s.stack) + 1
      <4>1. k \in DOMAIN s.stack /\ stack[k] = s.stack[k]
        BY <2>4, <3>3
      <4>2. QED
        BY <4>1 DEF Within
    <3>4. QED
      BY <3>2, <3>3
  <2>6. Within(t, S)
    BY <2>3, <2>5 DEF Within
  <2>7. QED
    BY <1>2, <2>6, VisitCases DEF t
<1>3. CASE s.color[job.name] = "gray"
  <2> DEFINE t == RaiseCycle(s, job)
  <2>1. PICK cycle : t = [s EXCEPT !.raised =
                            {[kind |-> "cycle", affected |-> job, trail |-> cycle]}]
    BY <1>3
  <2>2. /\ t.visit = s.visit /\ t.stack = s.stack /\ t.solution = s.solution
        /\ \A e \in t.raised : e.affected = job
    BY <2>1, SetRaised
  <2> HIDE DEF t
  <2>3. Within(t, S)
    BY <2>2 DEF Within
  <2>4. QED
    BY <1>3, <2>3, VisitCases DEF t
<1>4. CASE s.color[job.name] = "black"
  BY <1>4, VisitCases
<1>5. job.name \in Names
  BY MapType, DefinitionType
<1>6. QED
  BY <1>1, <1>2, <1>3, <1>4, <1>5 DEF Color

LEMMA VisitNextWithin ==
  ASSUME NEW map \in JobMaps, NEW S,
         NEW s, SolverInv(s, map), CanVisitNext(s), Within(s, S)
  PROVE  Within(VisitNext(s), S)
<1> DEFINE u == [s EXCEPT !.visit = Tail(@)]
           job == Head(s.visit)
<1>1. SolverType(s, map) /\ GrayIsActive(s) /\ s.stack = <<>> /\ s.visit # <<>>
  BY DEF SolverInv, CanVisitNext
<1>2. /\ s.visit \in Seq(Known(map)) /\ s.stack \in Seq([job : Known(map),
                             deps : Seq({"direct", "resource"} \X Names)])
      /\ s.color \in [Names -> Color] /\ s.solution \in Seq(Known(map))
      /\ s.raised \in SUBSET Problems
  BY <1>1, SolverFields
<1>3. u = [visit |-> Tail(s.visit), stack |-> s.stack, color |-> s.color,
           solution |-> s.solution, raised |-> s.raised]
  BY <1>1, SetVisit
<1>4. /\ job = s.visit[1] /\ 1 \in DOMAIN s.visit /\ job \in Known(map)
      /\ Tail(s.visit) \in Seq(Known(map))
      /\ \A i \in DOMAIN Tail(s.visit) :
           i + 1 \in DOMAIN s.visit /\ Tail(s.visit)[i] = s.visit[i + 1]
  BY <1>1, <1>2, TailFacts
<1> HIDE DEF u, job
<1>5. SolverType(u, map)
  BY <1>2, <1>3, <1>4 DEF SolverType
<1>6. /\ u.visit = Tail(s.visit) /\ u.stack = s.stack /\ u.color = s.color
      /\ u.solution = s.solution /\ u.raised = s.raised
  BY <1>3
<1>7. Within(u, S) /\ job.name \in S
  BY <1>4, <1>6 DEF Within
<1>8. u.color[job.name] # "gray"
  <2>1. job.name \in Names
    BY <1>4, MapType, DefinitionType
  <2>2. QED
    BY <1>1, <1>6, <2>1 DEF GrayIsActive
<1>9. Within(Visit(u, job), S)
  BY <1>4, <1>5, <1>7, <1>8, VisitWithin
<1>10. QED
  BY <1>9 DEF VisitNext, u, job

LEMMA VisitDependencyWithin ==
  ASSUME NEW map \in JobMaps, NEW S, Closed(S, map),
         NEW s, SolverInv(s, map), CanVisitDependency(s), Within(s, S),
         NextDependency(s)[2] \in DOMAIN map
  PROVE  Within(VisitDependency(s, map), S)
<1> DEFINE Frames == [job : Known(map), deps : Seq({"direct", "resource"} \X Names)]
           p == PopDependency(s)
           n == Len(s.stack)
           d == NextDependency(s)[2]
           job == map[d]
<1>1. SolverType(s, map) /\ GrayIsActive(s) /\ ActiveOnce(s) /\ s.raised = {}
  BY DEF SolverInv, CanVisitDependency
<1>2. /\ n \in DOMAIN s.stack /\ DOMAIN s.stack = 1..n /\ Top(s) = s.stack[n]
      /\ Top(s).job \in Known(map)
  BY TopFacts DEF CanVisitDependency
<1>3. /\ SolverType(p, map)
      /\ p.visit = s.visit /\ p.color = s.color
      /\ p.solution = s.solution /\ p.raised = {}
      /\ Len(p.stack) = n
      /\ \A k \in 1..n : p.stack[k].job = s.stack[k].job
      /\ StackIsPath(p)
      /\ d \in DependencyNames(Top(s).job)
  BY PopDependencyFacts
<1>4. job \in Known(map) /\ job.name = d
  BY MapType DEF Known
<1> HIDE DEF p, n, d, job
<1>5. p.stack \in Seq(Frames)
  BY <1>3, SolverFields
<1> HIDE DEF Frames
<1>6. DOMAIN p.stack = 1..n
  BY <1>3, <1>5
<1>7. GrayIsActive(p) /\ ActiveOnce(p)
  <2>1. ASSUME NEW m \in Names
        PROVE  p.color[m] = "gray" <=>
                 \E k \in DOMAIN p.stack : p.stack[k].job.name = m
    <3>1. s.color[m] = "gray" <=>
            \E k \in 1..n : s.stack[k].job.name = m
      BY <1>1, <1>2 DEF GrayIsActive
    <3>2. QED
      BY <1>3, <1>6, <3>1
  <2>2. ASSUME NEW k \in 1..n, NEW l \in 1..n,
               p.stack[k].job.name = p.stack[l].job.name
        PROVE  k = l
    <3>1. s.stack[k].job.name = s.stack[l].job.name
      BY <1>3, <2>2
    <3>2. QED
      BY <1>1, <1>2, <3>1 DEF ActiveOnce
  <2>3. QED
    BY <1>6, <2>1, <2>2 DEF GrayIsActive, ActiveOnce
<1>8. Top(s).job.name \in S /\ Top(s).job.name \in DOMAIN map
      /\ Top(s).job = map[Top(s).job.name]
  BY <1>2, MapType DEF Within
<1>9. job.name \in S
  BY <1>3, <1>4, <1>8 DEF Closed
<1>10. Within(p, S)
  <2>1. \A k \in 1..n : s.stack[k].job.name \in S
    BY <1>2 DEF Within
  <2>2. \A k \in 1..n : p.stack[k].job.name \in S
    BY <1>3, <2>1
  <2>3. QED
    BY <1>1, <1>3, <1>6, <2>2 DEF Within
<1>11. ASSUME p.color[job.name] = "gray"
       PROVE  \E cycle : RaiseCycle(p, job) = [p EXCEPT !.raised =
                {[kind |-> "cycle", affected |-> job, trail |-> cycle]}]
  <2>1. p.stack # <<>> /\ job.name \in DependencyNames(p.stack[Len(p.stack)].job)
    BY <1>2, <1>3, <1>4, <1>6
  <2>2. PICK cycle \in Seq(Known(map)) : RaiseCycle(p, job) = [p EXCEPT !.raised =
               {[kind |-> "cycle", affected |-> job, trail |-> cycle]}]
    BY <1>3, <1>4, <1>7, <1>11, <2>1, CycleFacts
  <2>3. QED
    BY <2>2
<1>12. Within(Visit(p, job), S)
  BY <1>3, <1>4, <1>9, <1>10, <1>11, VisitWithin
<1>13. QED
  BY <1>12 DEF VisitDependency, p, d, job

LEMMA RaiseMissingWithin ==
  ASSUME NEW map \in JobMaps, NEW S,
         NEW s, SolverInv(s, map), CanVisitDependency(s), Within(s, S)
  PROVE  Within(RaiseMissing(s), S)
<1> DEFINE error == MissingError(Top(s).job, NextDependency(s)[2], NextDependency(s)[1])
           t == RaiseMissing(s)
<1>1. SolverType(s, map)
  BY DEF SolverInv
<1>2. error.affected = Top(s).job
  BY DEF MissingError
<1>3. Top(s).job.name \in S
  BY TopFacts DEF Within, CanVisitDependency
<1> HIDE DEF error
<1>4. /\ t.visit = s.visit /\ t.stack = s.stack /\ t.solution = s.solution
      /\ t.raised = {error}
  BY <1>1, SetRaised DEF RaiseMissing, error
<1> HIDE DEF t
<1>5. Within(t, S)
  BY <1>2, <1>3, <1>4 DEF Within
<1>6. QED
  BY <1>5 DEF t

LEMMA FinishWithin ==
  ASSUME NEW map \in JobMaps, NEW S,
         NEW s, SolverInv(s, map), CanFinish(s), Within(s, S)
  PROVE  Within(Finish(s), S)
<1> DEFINE Frames == [job : Known(map), deps : Seq({"direct", "resource"} \X Names)]
           job == Top(s).job
           t == Finish(s)
<1>1. SolverType(s, map) /\ s.stack # <<>> /\ s.raised = {}
  BY DEF SolverInv, CanFinish
<1>2. s.stack \in Seq(Frames) /\ s.solution \in Seq(Known(map))
  BY <1>1, SolverFields
<1> HIDE DEF Frames
<1>3. job.name \in S /\ job \in Known(map)
  BY <1>1, TopFacts DEF Within
<1>4. /\ t.visit = s.visit
      /\ t.stack = SubSeq(s.stack, 1, Len(s.stack) - 1)
      /\ t.solution = Append(s.solution, job)
      /\ t.raised = {}
  BY <1>1 DEF Finish
<1> HIDE DEF job, t
<1>5. \A k \in DOMAIN t.stack : k \in DOMAIN s.stack /\ t.stack[k] = s.stack[k]
  BY <1>1, <1>2, <1>4, FrontFacts, LastFacts
<1>6. ASSUME NEW i \in DOMAIN t.solution
      PROVE  t.solution[i] = job \/ (i \in DOMAIN s.solution /\ t.solution[i] = s.solution[i])
  <2>1. /\ Len(s.solution) \in Nat
        /\ DOMAIN s.solution = 1..Len(s.solution)
        /\ DOMAIN t.solution = 1..(Len(s.solution) + 1)
        /\ t.solution[Len(s.solution) + 1] = job
        /\ \A k \in 1..Len(s.solution) : t.solution[k] = s.solution[k]
    BY <1>2, <1>3, <1>4, AppendFacts
  <2>2. CASE i = Len(s.solution) + 1
    BY <2>1, <2>2
  <2>3. CASE i # Len(s.solution) + 1
    <3>1. i \in 1..Len(s.solution)
      BY <1>6, <2>1, <2>3
    <3>2. QED
      BY <2>1, <3>1
  <2>4. QED
    BY <2>2, <2>3
<1>7. Within(t, S)
  BY <1>3, <1>4, <1>5, <1>6 DEF Within
<1>8. QED
  BY <1>7 DEF t

-----------------------------------------------------------------------------
(* What a set of names needs.                                              *)

\* It is the least set that will do.
LEMMA NeededIsLeast ==
  ASSUME NEW map, NEW names, NEW S \in SUBSET Names, names \subseteq S, Closed(S, map)
  PROVE  NeededBy(names, map) \subseteq S
BY DEF NeededBy

\* What is needed is needed by one of the names.
LEMMA NeededByOne ==
  ASSUME NEW map \in JobMaps, NEW names \in SUBSET Names,
         NEW n \in NeededBy(names, map)
  PROVE  \E m \in names : n \in NeededBy({m}, map)
<1> DEFINE S == UNION {NeededBy({m}, map) : m \in names}
<1>1. ASSUME NEW m \in names
      PROVE  /\ NeededBy({m}, map) \in SUBSET Names
             /\ m \in NeededBy({m}, map)
             /\ Closed(NeededBy({m}, map), map)
  <2>1. {m} \in SUBSET Names
    OBVIOUS
  <2>2. QED
    BY <2>1, NeededIsClosed
<1>2. S \in SUBSET Names /\ names \subseteq S
  BY <1>1
<1>3. Closed(S, map)
  <2>1. SUFFICES ASSUME NEW k \in S \cap DOMAIN map
                 PROVE  DependencyNames(map[k]) \subseteq S
    BY DEF Closed
  <2>2. PICK m \in names : k \in NeededBy({m}, map)
    OBVIOUS
  <2>3. DependencyNames(map[k]) \subseteq NeededBy({m}, map)
    BY <1>1, <2>1, <2>2 DEF Closed
  <2>4. QED
    BY <2>3
<1>4. NeededBy(names, map) \subseteq S
  BY <1>2, <1>3, NeededIsLeast
<1>5. QED
  BY <1>4

\* Jobs that nobody needs do not matter: new ones change nothing for names
\* all of whose needs are known.
LEMMA NeededIsKept ==
  ASSUME NEW map \in JobMaps, NEW new \in JobMaps,
         DOMAIN map \subseteq DOMAIN new,
         \A n \in DOMAIN map : new[n] = map[n],
         NEW names \in SUBSET Names,
         NeededBy(names, map) \subseteq DOMAIN map
  PROVE  NeededBy(names, new) = NeededBy(names, map)
<1>1. Closed(NeededBy(names, map), new)
  BY NeededIsClosed DEF Closed
<1>2. NeededBy(names, new) \subseteq NeededBy(names, map)
  BY <1>1, NeededIsClosed, NeededIsLeast
<1>3. Closed(NeededBy(names, new), map)
  BY NeededIsClosed DEF Closed
<1>4. NeededBy(names, map) \subseteq NeededBy(names, new)
  BY <1>3, NeededIsClosed, NeededIsLeast
<1>5. QED
  BY <1>2, <1>4

\* A solution is what the visit list needs, all of it known.
LEMMA SolutionIsNeeded ==
  ASSUME NEW map \in JobMaps, NEW visit \in Seq(Known(map)),
         NEW s, SolverInv(s, map), Solved(s), VisitListKept(s, visit),
         NEW needed, Within(s, needed),
         needed = NeededBy({visit[i].name : i \in DOMAIN visit}, map)
  PROVE  /\ needed \subseteq DOMAIN map
         /\ {s.solution[i] : i \in DOMAIN s.solution} = {map[n] : n \in needed}
<1> DEFINE asked == {visit[i].name : i \in DOMAIN visit}
           names == {s.solution[i].name : i \in DOMAIN s.solution}
<1>1. /\ SolverType(s, map) /\ BlackIsSolved(s) /\ GrayIsActive(s)
      /\ Ordered(s.solution) /\ s.solution \in Seq(Known(map))
  BY SolverFields DEF SolverInv
<1>2. ASSUME NEW i \in DOMAIN s.solution
      PROVE  /\ s.solution[i].name \in DOMAIN map
             /\ s.solution[i] = map[s.solution[i].name]
             /\ s.solution[i].name \in needed
  <2>1. s.solution[i] \in Known(map)
    BY <1>1
  <2>2. QED
    BY <2>1, MapType DEF Within
<1>3. asked \subseteq names
  <2>1. SUFFICES ASSUME NEW i \in DOMAIN visit
                 PROVE  visit[i].name \in names
    OBVIOUS
  <2>2. visit[i].name \in Names
    BY MapType, DefinitionType
  <2>3. s.color[visit[i].name] \notin {"white", "gray"}
    BY <1>1, <2>2 DEF Solved, VisitListKept, GrayIsActive
  <2>4. s.color[visit[i].name] \in Color
    BY <1>1, <2>2, SolverFields
  <2>5. QED
    BY <1>1, <2>2, <2>3, <2>4 DEF BlackIsSolved, Color
<1>4. Closed(names, map)
  <2>1. SUFFICES ASSUME NEW n \in names, NEW d \in DependencyNames(map[n])
                 PROVE  d \in names
    BY DEF Closed
  <2>2. PICK i \in DOMAIN s.solution : s.solution[i].name = n
    OBVIOUS
  <2>3. s.solution[i] = map[n]
    BY <1>2, <2>2
  <2>4. PICK j \in 1..(i - 1) : s.solution[j].name = d
    BY <1>1, <2>1, <2>3 DEF Ordered
  <2>5. j \in DOMAIN s.solution
    BY <1>1, <2>2, <2>4
  <2>6. QED
    BY <2>4, <2>5
<1>5. names \in SUBSET Names
  BY <1>2, MapType
<1>6. needed \subseteq names
  BY <1>3, <1>4, <1>5, NeededIsLeast
<1>7. needed \subseteq DOMAIN map
  BY <1>2, <1>6
<1>8. ASSUME NEW n \in needed
      PROVE  \E i \in DOMAIN s.solution : s.solution[i] = map[n]
  <2>1. PICK i \in DOMAIN s.solution : s.solution[i].name = n
    BY <1>6
  <2>2. QED
    BY <1>2, <2>1
<1>9. {s.solution[i] : i \in DOMAIN s.solution} = {map[n] : n \in needed}
  <2> DEFINE solved == {s.solution[i] : i \in DOMAIN s.solution}
             wanted == {map[n] : n \in needed}
  <2>1. ASSUME NEW job \in solved
        PROVE  job \in wanted
    <3>1. PICK i \in DOMAIN s.solution : job = s.solution[i]
      OBVIOUS
    <3>2. s.solution[i].name \in needed /\ job = map[s.solution[i].name]
      BY <1>2, <3>1
    <3>3. QED
      BY <3>2
  <2>2. ASSUME NEW job \in wanted
        PROVE  job \in solved
    <3>1. PICK n \in needed : job = map[n]
      OBVIOUS
    <3>2. PICK i \in DOMAIN s.solution : s.solution[i] = map[n]
      BY <1>8
    <3>3. QED
      BY <3>1, <3>2
  <2> HIDE DEF solved, wanted
  <2>3. solved = wanted
    BY <2>1, <2>2
  <2>4. QED
    BY <2>3 DEF solved, wanted
<1>10. QED
  BY <1>7, <1>9

-----------------------------------------------------------------------------
(* The search takes the visit list in order.                               *)

LEMMA FirstFacts ==
  ASSUME NEW map \in JobMaps, NEW visit \in Seq(Known(map)),
         NEW i \in 0..Len(visit)
  PROVE  /\ \A k \in 1..i : visit[k].name \in NeededByFirst(i, visit, map)
         /\ Closed(NeededByFirst(i, visit, map), map)
         /\ \A j \in 0..i : NeededByFirst(j, visit, map) \subseteq NeededByFirst(i, visit, map)
<1> DEFINE First(j) == {visit[k].name : k \in 1..j}
<1>1. \A k \in 1..Len(visit) : visit[k].name \in Names
  <2>1. \A k \in 1..Len(visit) : visit[k] \in Known(map)
    OBVIOUS
  <2>2. QED
    BY <2>1, MapType
<1>2. \A j \in 0..i : First(j) \in SUBSET Names /\ First(j) \subseteq First(i)
  BY <1>1
<1>3. First(i) \in SUBSET Names
  BY <1>1
<1>4. \A k \in 1..i : visit[k].name \in First(i)
  OBVIOUS
<1> HIDE DEF First
<1>5. /\ First(i) \subseteq NeededBy(First(i), map)
      /\ NeededBy(First(i), map) \in SUBSET Names
      /\ Closed(NeededBy(First(i), map), map)
  BY <1>3, NeededIsClosed
<1>6. ASSUME NEW j \in 0..i
      PROVE  NeededBy(First(j), map) \subseteq NeededBy(First(i), map)
  <2>1. First(j) \subseteq NeededBy(First(i), map)
    BY <1>2, <1>5
  <2>2. QED
    BY <1>5, <2>1, NeededIsLeast
<1>7. QED
  BY <1>4, <1>5, <1>6 DEF NeededByFirst, First

\* What a call of _visit() that raises nothing does.
LEMMA VisitEffect ==
  ASSUME NEW map \in JobMaps, NEW s, SolverType(s, map), NEW job \in Known(map)
  PROVE  LET t == Visit(s, job)
             n == Len(s.stack)
         IN  /\ t.visit = s.visit /\ t.solution = s.solution
             /\ t.raised = {} =>
                  \/ s.color[job.name] = "black" /\ t = s
                  \/ /\ s.color[job.name] = "white"
                     /\ t.color = [s.color EXCEPT ![job.name] = "gray"]
                     /\ DOMAIN t.stack = 1..(n + 1)
                     /\ t.stack[n + 1].job = job
                     /\ \A k \in 1..n : t.stack[k] = s.stack[k]
<1> DEFINE Frames == [job : Known(map), deps : Seq({"direct", "resource"} \X Names)]
           t == Visit(s, job)
<1>1. s.stack \in Seq(Frames) /\ s.color \in [Names -> Color] /\ job.name \in Names
  BY SolverFields, MapType
<1>2. CASE s.color[job.name] = "white"
  <2> DEFINE frame == [job |-> job, deps |-> SortedDependencies(job)]
  <2>1. frame \in Frames
    BY MapType, SortedDependenciesType
  <2>2. frame.job = job
    OBVIOUS
  <2>3. /\ t.visit = s.visit /\ t.solution = s.solution
        /\ t.stack = Append(s.stack, frame)
        /\ t.color = [s.color EXCEPT ![job.name] = "gray"]
    BY <1>2, VisitCases DEF EnterWhite
  <2> HIDE DEF frame, Frames, t
  <2>4. /\ DOMAIN t.stack = 1..(Len(s.stack) + 1)
        /\ t.stack[Len(s.stack) + 1] = frame
        /\ \A k \in 1..Len(s.stack) : t.stack[k] = s.stack[k]
    BY <1>1, <2>1, <2>3, AppendFacts
  <2>5. QED
    BY <1>2, <2>2, <2>3, <2>4 DEF t
<1>3. CASE s.color[job.name] = "gray"
  <2> DEFINE trail == Append([i \in DOMAIN s.stack |-> s.stack[i].job], job)
             index == CHOOSE i \in DOMAIN trail :
                        trail[i] = job /\ \A j \in 1..i-1 : trail[j] # job
             error == CycleError(SubSeq(trail, index, Len(trail)))
  <2>1. t = [s EXCEPT !.raised = {error}]
    BY <1>3, VisitCases DEF RaiseCycle
  <2> HIDE DEF error
  <2>2. t.visit = s.visit /\ t.solution = s.solution /\ t.raised # {}
    BY <2>1, SetRaised
  <2>3. QED
    BY <2>2
<1>4. CASE s.color[job.name] = "black"
  BY <1>4, VisitCases
<1>5. QED
  BY <1>1, <1>2, <1>3, <1>4 DEF Color

LEMMA VisitNextInOrder ==
  ASSUME NEW map \in JobMaps, NEW visit \in Seq(Known(map)),
         NEW s, SolverInv(s, map), CanVisitNext(s), VisitOrderKept(s, visit, map)
  PROVE  VisitOrderKept(VisitNext(s), visit, map)
<1> DEFINE p == Taken(s, visit)
           job == Head(s.visit)
           u == [s EXCEPT !.visit = Tail(@)]
           t == VisitNext(s)
<1>1. SolverType(s, map) /\ s.visit \in Seq(Known(map)) /\ s.visit # <<>>
  BY SolverFields DEF SolverInv, CanVisitNext
<1>2. /\ s.stack \in Seq([job : Known(map), deps : Seq({"direct", "resource"} \X Names)])
      /\ s.color \in [Names -> Color] /\ s.solution \in Seq(Known(map))
      /\ s.raised \in SUBSET Problems
  BY <1>1, SolverFields
<1>3. u = [visit |-> Tail(s.visit), stack |-> s.stack, color |-> s.color,
           solution |-> s.solution, raised |-> s.raised]
  BY <1>1, SetVisit
<1>4. /\ job = s.visit[1] /\ 1 \in DOMAIN s.visit /\ job \in Known(map)
      /\ Tail(s.visit) \in Seq(Known(map))
      /\ Len(Tail(s.visit)) = Len(s.visit) - 1
      /\ \A k \in DOMAIN Tail(s.visit) :
           k + 1 \in DOMAIN s.visit /\ Tail(s.visit)[k] = s.visit[k + 1]
  BY <1>1, TailFacts
<1>5. t = Visit(u, job)
  BY DEF VisitNext
<1> HIDE DEF u, job
<1>6. /\ u.visit = Tail(s.visit) /\ u.stack = <<>> /\ u.color = s.color
      /\ u.solution = s.solution
  BY <1>3 DEF CanVisitNext
<1>7. SolverType(u, map)
  BY <1>2, <1>3, <1>4 DEF SolverType
<1>8. /\ t.visit = Tail(s.visit) /\ t.solution = s.solution
      /\ t.raised = {} =>
           \/ s.color[job.name] = "black" /\ t = u
           \/ /\ s.color[job.name] = "white"
              /\ t.color = [s.color EXCEPT ![job.name] = "gray"]
              /\ DOMAIN t.stack = 1..1
              /\ t.stack[1].job = job
  <2>1. /\ Visit(u, job).visit = u.visit /\ Visit(u, job).solution = u.solution
        /\ Visit(u, job).raised = {} =>
             \/ u.color[job.name] = "black" /\ Visit(u, job) = u
             \/ /\ u.color[job.name] = "white"
                /\ Visit(u, job).color = [u.color EXCEPT ![job.name] = "gray"]
                /\ DOMAIN Visit(u, job).stack = 1..(Len(u.stack) + 1)
                /\ Visit(u, job).stack[Len(u.stack) + 1].job = job
                /\ \A k \in 1..Len(u.stack) : Visit(u, job).stack[k] = u.stack[k]
    <3>1. job \in Known(map)
      BY <1>4
    <3>2. QED
      BY <1>7, <3>1, VisitEffect
  <2>2. Len(u.stack) + 1 = 1
    BY <1>6
  <2>3. QED
    BY <1>5, <1>6, <2>1, <2>2
<1> HIDE DEF t
<1>9. p \in Nat /\ Len(s.visit) \in Nat /\ Len(visit) \in Nat
  BY <1>1 DEF VisitOrderKept
<1>10. Taken(t, visit) = p + 1 /\ p + 1 \in 1..Len(visit)
  <2>1. Len(t.visit) = Len(s.visit) - 1
    BY <1>4, <1>8
  <2>2. Len(s.visit) > 0
    BY <1>1
  <2>3. QED
    BY <1>9, <2>1, <2>2 DEF Taken
<1>11. job = visit[p + 1]
  BY <1>4 DEF VisitOrderKept
<1>12. job.name \in NeededByFirst(p + 1, visit, map)
  BY <1>10, <1>11, FirstFacts
<1>13. ASSUME NEW k \in DOMAIN t.visit
       PROVE  t.visit[k] = visit[(p + 1) + k]
  <2>1. k + 1 \in DOMAIN s.visit /\ t.visit[k] = s.visit[k + 1]
    BY <1>4, <1>8, <1>13
  <2>2. s.visit[k + 1] = visit[p + (k + 1)]
    BY <2>1 DEF VisitOrderKept
  <2>3. k \in Nat
    BY <1>4, <1>8, <1>13
  <2>4. p + (k + 1) = (p + 1) + k
    BY <1>9, <2>3
  <2>5. QED
    BY <2>1, <2>2, <2>4
<1>14. \A i \in DOMAIN visit, l \in DOMAIN t.solution :
         (\A m \in 1..(l - 1) : t.solution[m].name # visit[i].name)
           => t.solution[l].name \in NeededByFirst(i, visit, map)
  BY <1>8 DEF VisitOrderKept
<1>15. ASSUME NEW i \in 1..p
       PROVE  s.color[visit[i].name] = "black"
  BY DEF VisitOrderKept, CanVisitNext
<1>16. job.name \in Names
  BY <1>4, MapType
<1>17. ASSUME t.raised = {}
       PROVE  /\ \A k \in DOMAIN t.stack :
                   t.stack[k].job.name \in NeededByFirst(p + 1, visit, map)
              /\ t.stack # <<>> => t.stack[1].job = visit[p + 1]
              /\ \A i \in 1..(p + 1) : \/ t.color[visit[i].name] = "black"
                                       \/ i = p + 1 /\ t.stack # <<>>
  <2>1. CASE s.color[job.name] = "black" /\ t = u
    BY <1>6, <1>9, <1>11, <1>15, <2>1
  <2>2. CASE /\ s.color[job.name] = "white"
             /\ t.color = [s.color EXCEPT ![job.name] = "gray"]
             /\ DOMAIN t.stack = 1..1
             /\ t.stack[1].job = job
    <3>1. t.stack # <<>>
      BY <2>2
    <3>2. \A i \in 1..p : t.color[visit[i].name] = "black"
      BY <1>2, <1>15, <1>16, <2>2
    <3>3. \A i \in 1..(p + 1) : i \in 1..p \/ i = p + 1
      BY <1>9
    <3>4. QED
      BY <1>11, <1>12, <2>2, <3>1, <3>2, <3>3
  <2>3. QED
    BY <1>8, <1>17, <2>1, <2>2
<1> HIDE DEF p
<1>18. p + 1 \in Nat /\ p + 1 > 0
  BY <1>9
<1>19. QED
  BY <1>10, <1>13, <1>14, <1>17, <1>18 DEF VisitOrderKept, t

LEMMA VisitDependencyInOrder ==
  ASSUME NEW map \in JobMaps, NEW visit \in Seq(Known(map)),
         NEW s, SolverInv(s, map), CanVisitDependency(s),
         NextDependency(s)[2] \in DOMAIN map, VisitOrderKept(s, visit, map)
  PROVE  VisitOrderKept(VisitDependency(s, map), visit, map)
<1> DEFINE p == Taken(s, visit)
           d == NextDependency(s)[2]
           job == map[d]
           n == Len(s.stack)
           u == PopDependency(s)
           t == VisitDependency(s, map)
           needed == NeededByFirst(p, visit, map)
<1>1. /\ SolverType(u, map)
      /\ u.visit = s.visit /\ u.color = s.color
      /\ u.solution = s.solution /\ u.raised = {}
      /\ Len(u.stack) = n
      /\ \A k \in 1..n : u.stack[k].job = s.stack[k].job
      /\ d \in DependencyNames(Top(s).job)
  BY PopDependencyFacts
<1>2. /\ n \in DOMAIN s.stack /\ DOMAIN s.stack = 1..n
      /\ Top(s) = s.stack[n] /\ Top(s).job \in Known(map)
      /\ s.raised = {} /\ s.stack # <<>>
  BY TopFacts DEF CanVisitDependency
<1>3. n \in Nat /\ n > 0 /\ 1 \in 1..n /\ n + 1 \in Nat
  BY <1>2
<1>4. job \in Known(map) /\ job.name = d /\ d \in Names
  BY MapType DEF Known
<1>5. t = Visit(u, job)
  BY DEF VisitDependency
<1>6. u.stack \in Seq([job : Known(map), deps : Seq({"direct", "resource"} \X Names)])
      /\ s.color \in [Names -> Color]
  BY <1>1, SolverFields
<1>7. DOMAIN u.stack = 1..n /\ u.stack # <<>>
  <2> DEFINE Frames == [job : Known(map), deps : Seq({"direct", "resource"} \X Names)]
  <2>1. u.stack \in Seq(Frames)
    BY <1>6
  <2> HIDE DEF Frames, u
  <2>2. QED
    BY <1>1, <1>3, <2>1
<1> HIDE DEF u, job, d, n
<1>8. /\ t.visit = s.visit /\ t.solution = s.solution
      /\ t.raised = {} =>
           \/ s.color[d] = "black" /\ t = u
           \/ /\ s.color[d] = "white"
              /\ t.color = [s.color EXCEPT ![d] = "gray"]
              /\ DOMAIN t.stack = 1..(n + 1)
              /\ t.stack[n + 1].job = job
              /\ \A k \in 1..n : t.stack[k] = u.stack[k]
  <2>1. SolverType(u, map) /\ job \in Known(map)
    BY <1>1, <1>4
  <2>2. /\ Visit(u, job).visit = u.visit /\ Visit(u, job).solution = u.solution
        /\ Visit(u, job).raised = {} =>
             \/ u.color[job.name] = "black" /\ Visit(u, job) = u
             \/ /\ u.color[job.name] = "white"
                /\ Visit(u, job).color = [u.color EXCEPT ![job.name] = "gray"]
                /\ DOMAIN Visit(u, job).stack = 1..(Len(u.stack) + 1)
                /\ Visit(u, job).stack[Len(u.stack) + 1].job = job
                /\ \A k \in 1..Len(u.stack) : Visit(u, job).stack[k] = u.stack[k]
    BY <2>1, VisitEffect
  <2>3. QED
    BY <1>1, <1>4, <1>5, <2>2
<1> HIDE DEF t
<1>9. /\ p \in Nat /\ p > 0 /\ p <= Len(visit) /\ s.stack[1].job = visit[p]
      /\ \A k \in 1..n : s.stack[k].job.name \in needed
      /\ \A i \in 1..p : s.color[visit[i].name] = "black" \/ i = p
  <2>1. /\ p \in Nat /\ p > 0 /\ s.stack[1].job = visit[p]
        /\ \A k \in 1..n : s.stack[k].job.name \in needed
        /\ \A i \in 1..p : s.color[visit[i].name] = "black" \/ i = p
    BY <1>2 DEF VisitOrderKept
  <2>2. Len(s.visit) \in Nat
    <3>1. s.visit \in Seq(Known(map))
      BY SolverFields DEF SolverInv
    <3>2. QED
      BY <3>1
  <2>3. QED
    BY <2>1, <2>2 DEF Taken
<1>10. Taken(t, visit) = p
  BY <1>8 DEF Taken
<1>11. d \in needed
  <2>1. p \in 0..Len(visit)
    BY <1>9
  <2>2. Closed(needed, map)
    BY <2>1, FirstFacts
  <2>3. Top(s).job.name \in needed \cap DOMAIN map /\ map[Top(s).job.name] = Top(s).job
    BY <1>2, <1>9, MapType
  <2>4. QED
    BY <1>1, <2>2, <2>3 DEF Closed
<1> HIDE DEF p, needed
<1>12. ASSUME t.raised = {}
       PROVE  /\ \A k \in DOMAIN t.stack : t.stack[k].job.name \in needed
              /\ t.stack # <<>> /\ t.stack[1].job = visit[p]
              /\ \A i \in 1..p : t.color[visit[i].name] = "black" \/ i = p
  <2>1. CASE s.color[d] = "black" /\ t = u
    BY <1>1, <1>3, <1>7, <1>9, <2>1
  <2>2. CASE /\ s.color[d] = "white"
             /\ t.color = [s.color EXCEPT ![d] = "gray"]
             /\ DOMAIN t.stack = 1..(n + 1)
             /\ t.stack[n + 1].job = job
             /\ \A k \in 1..n : t.stack[k] = u.stack[k]
    <3>1. n + 1 \in DOMAIN t.stack
      BY <1>3, <2>2
    <3>2. t.stack # <<>>
      BY <3>1
    <3>3. t.stack[1].job = visit[p]
      BY <1>1, <1>3, <1>9, <2>2
    <3>4. \A k \in 1..(n + 1) : k \in 1..n \/ k = n + 1
      BY <1>3
    <3>5. \A k \in 1..n : t.stack[k].job.name \in needed
      BY <1>1, <1>9, <2>2
    <3>6. t.stack[n + 1].job.name \in needed
      BY <1>4, <1>11, <2>2
    <3>7. \A k \in DOMAIN t.stack : t.stack[k].job.name \in needed
      BY <2>2, <3>4, <3>5, <3>6
    <3>8. \A i \in 1..p : t.color[visit[i].name] = "black" \/ i = p
      BY <1>4, <1>6, <1>9, <2>2
    <3>9. QED
      BY <3>2, <3>3, <3>7, <3>8
  <2>3. QED
    BY <1>8, <1>12, <2>1, <2>2
<1>13. QED
  BY <1>8, <1>9, <1>10, <1>12 DEF VisitOrderKept, p, t, needed

LEMMA RaiseMissingInOrder ==
  ASSUME NEW map, NEW visit, NEW s, SolverInv(s, map), VisitOrderKept(s, visit, map)
  PROVE  VisitOrderKept(RaiseMissing(s), visit, map)
<1> DEFINE error == MissingError(Top(s).job, NextDependency(s)[2], NextDependency(s)[1])
           t == RaiseMissing(s)
<1>1. t = [s EXCEPT !.raised = {error}]
  BY DEF RaiseMissing
<1> HIDE DEF error, t
<1>2. t = [visit |-> s.visit, stack |-> s.stack, color |-> s.color,
           solution |-> s.solution, raised |-> {error}]
  BY <1>1, SetRaised DEF SolverInv
<1>3. t.visit = s.visit /\ t.solution = s.solution /\ t.raised # {}
  BY <1>2
<1>4. Taken(t, visit) = Taken(s, visit)
  BY <1>3 DEF Taken
<1>5. QED
  BY <1>3, <1>4 DEF VisitOrderKept, t

LEMMA FinishInOrder ==
  ASSUME NEW map \in JobMaps, NEW visit \in Seq(Known(map)),
         NEW s, SolverInv(s, map), CanFinish(s), VisitOrderKept(s, visit, map)
  PROVE  VisitOrderKept(Finish(s), visit, map)
<1> DEFINE p == Taken(s, visit)
           n == Len(s.stack)
           m == Len(s.solution)
           job == Top(s).job
           t == Finish(s)
           needed == NeededByFirst(p, visit, map)
<1>1. SolverType(s, map) /\ BlackIsSolved(s)
  BY DEF SolverInv
<1>2. /\ s.stack \in Seq([job : Known(map), deps : Seq({"direct", "resource"} \X Names)])
      /\ s.solution \in Seq(Known(map))
      /\ s.color \in [Names -> Color] /\ s.visit \in Seq(Known(map))
  BY <1>1, SolverFields
<1>3. /\ n \in DOMAIN s.stack /\ DOMAIN s.stack = 1..n
      /\ job = s.stack[n].job /\ job \in Known(map) /\ job.name \in Names
      /\ s.raised = {} /\ s.stack # <<>>
  BY TopFacts DEF CanFinish
<1>4. n \in Nat /\ n > 0
  BY <1>3
<1>5. /\ t.visit = s.visit /\ t.stack = SubSeq(s.stack, 1, n - 1)
      /\ t.color = [s.color EXCEPT ![job.name] = "black"]
      /\ t.solution = Append(s.solution, job)
  BY DEF Finish
<1> HIDE DEF t, job
<1>6. /\ DOMAIN t.stack = 1..(n - 1)
      /\ \A k \in 1..(n - 1) : t.stack[k] = s.stack[k]
      /\ t.stack # <<>> => n > 1
  <2> DEFINE Frames == [job : Known(map), deps : Seq({"direct", "resource"} \X Names)]
  <2>1. s.stack \in Seq(Frames)
    BY <1>2
  <2> HIDE DEF Frames, n
  <2>2. /\ SubSeq(s.stack, 1, n - 1) \in Seq(Frames)
        /\ Len(SubSeq(s.stack, 1, n - 1)) = n - 1
        /\ DOMAIN SubSeq(s.stack, 1, n - 1) = 1..(n - 1)
        /\ \A k \in 1..(n - 1) : SubSeq(s.stack, 1, n - 1)[k] = s.stack[k]
    BY <1>3, <2>1, FrontFacts DEF n
  <2>3. SubSeq(s.stack, 1, n - 1) # <<>> => n > 1
    BY <1>4, <2>2
  <2>4. QED
    BY <1>5, <2>2, <2>3
<1>7. /\ m \in Nat /\ DOMAIN s.solution = 1..m
      /\ DOMAIN t.solution = 1..(m + 1)
      /\ t.solution[m + 1] = job
      /\ \A k \in 1..m : t.solution[k] = s.solution[k]
  BY <1>2, <1>3, <1>5, AppendFacts
<1> HIDE DEF n, m
<1>8. /\ p \in Nat /\ p > 0 /\ s.stack[1].job = visit[p]
      /\ \A k \in 1..n : s.stack[k].job.name \in needed
      /\ \A i \in 1..p : s.color[visit[i].name] = "black" \/ i = p
      /\ \A k \in DOMAIN s.visit : s.visit[k] = visit[p + k]
  BY <1>3 DEF VisitOrderKept
<1>9. Taken(t, visit) = p /\ p <= Len(visit) /\ Len(visit) \in Nat
  <2>1. Len(s.visit) \in Nat
    BY <1>2
  <2>2. QED
    BY <1>5, <1>8, <2>1 DEF Taken
<1>10. ASSUME NEW i \in DOMAIN visit, NEW l \in DOMAIN s.solution,
              \A k \in 1..(l - 1) : s.solution[k].name # visit[i].name
       PROVE  s.solution[l].name \in NeededByFirst(i, visit, map)
  BY <1>10 DEF VisitOrderKept
<1> HIDE DEF p, needed
<1>11. ASSUME NEW i \in DOMAIN visit, NEW l \in DOMAIN t.solution,
              \A k \in 1..(l - 1) : t.solution[k].name # visit[i].name
       PROVE  t.solution[l].name \in NeededByFirst(i, visit, map)
  <2>1. i \in 1..Len(visit)
    OBVIOUS
  <2>2. CASE l \in 1..m
    <3>1. \A k \in 1..(l - 1) : k \in 1..m
      BY <1>7, <2>2
    <3>2. \A k \in 1..(l - 1) : s.solution[k].name # visit[i].name
      BY <1>7, <1>11, <3>1
    <3>3. QED
      BY <1>7, <1>10, <2>2, <3>2
  <2>3. CASE l = m + 1
    <3>1. \A k \in DOMAIN s.solution : s.solution[k].name # visit[i].name
      BY <1>7, <1>11, <2>3
    <3>2. visit[i].name \in Names
      BY <2>1, MapType
    <3>3. s.color[visit[i].name] # "black"
      BY <1>1, <3>1, <3>2 DEF BlackIsSolved
    <3>4. p \in 0..i
      BY <1>8, <1>9, <2>1, <3>3
    <3>5. i \in 0..Len(visit)
      BY <1>9, <2>1
    <3>6. needed \subseteq NeededByFirst(i, visit, map)
      BY <3>4, <3>5, FirstFacts DEF needed
    <3>7. job.name \in needed
      BY <1>3, <1>8
    <3>8. QED
      BY <1>7, <2>3, <3>6, <3>7
  <2>4. QED
    BY <1>7, <2>2, <2>3
<1>12. \A k \in DOMAIN t.stack : t.stack[k].job.name \in needed
  BY <1>4, <1>6, <1>8
<1>13. t.stack # <<>> => t.stack[1].job = visit[p]
  BY <1>4, <1>6, <1>8
<1>14. ASSUME NEW i \in 1..p
       PROVE  t.color[visit[i].name] = "black" \/ (i = p /\ t.stack # <<>>)
  <2>1. i \in 1..Len(visit)
    BY <1>8, <1>9
  <2>2. visit[i].name \in Names
    BY <2>1, MapType
  <2>3. CASE s.color[visit[i].name] = "black"
    BY <1>2, <1>3, <1>5, <2>2, <2>3
  <2>4. CASE i = p /\ n > 1
    <3>1. 1 \in DOMAIN t.stack
      BY <1>4, <1>6, <2>4
    <3>2. t.stack # <<>>
      BY <3>1
    <3>3. QED
      BY <2>4, <3>2
  <2>5. CASE i = p /\ ~(n > 1)
    <3>1. visit[i] = job
      BY <1>3, <1>4, <1>8, <2>5
    <3>2. QED
      BY <1>2, <1>3, <1>5, <3>1
  <2>6. QED
    BY <1>8, <2>3, <2>4, <2>5
<1>15. QED
  BY <1>5, <1>8, <1>9, <1>11, <1>12, <1>13, <1>14 DEF VisitOrderKept, t, p, needed

LEMMA StartInOrder ==
  ASSUME NEW map \in JobMaps, NEW visit \in Seq(Known(map))
  PROVE  VisitOrderKept(StartSolver(visit), visit, map)
<1> DEFINE s == StartSolver(visit)
<1>1. s.visit = visit /\ s.stack = <<>> /\ s.solution = <<>>
  BY DEF StartSolver
<1> HIDE DEF s
<1>2. Taken(s, visit) = 0
  BY <1>1 DEF Taken
<1>3. \A k \in DOMAIN s.visit : s.visit[k] = visit[0 + k]
  BY <1>1
<1>4. QED
  BY <1>1, <1>2, <1>3 DEF VisitOrderKept, s
=============================================================================
