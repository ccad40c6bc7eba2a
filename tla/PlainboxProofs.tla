--------------------------- MODULE PlainboxProofs ---------------------------
(***************************************************************************)
(* Proofs about the components of plainbox that MCPlainbox looks at, for   *)
(* every chain of delegates and every number of lines, and for every set   *)
(* of jobs of the D-Bus service.                                           *)
(***************************************************************************)
EXTENDS MCPlainbox, FiniteSetTheorems, WellFoundedInduction, TLAPS

-----------------------------------------------------------------------------
(* Sequences.                                                              *)

LEMMA AppendFacts ==
  ASSUME NEW S, NEW s \in Seq(S), NEW e \in S
  PROVE  /\ Append(s, e) \in Seq(S)
         /\ Len(s) \in Nat /\ DOMAIN s = 1..Len(s)
         /\ Len(Append(s, e)) = Len(s) + 1
         /\ DOMAIN Append(s, e) = 1..(Len(s) + 1)
         /\ \A k \in 1..Len(s) : Append(s, e)[k] = s[k]
         /\ Append(s, e)[Len(s) + 1] = e
OBVIOUS

LEMMA TailFacts ==
  ASSUME NEW S, NEW s \in Seq(S), s # <<>>
  PROVE  /\ Tail(s) \in Seq(S)
         /\ Len(s) \in Nat /\ Len(s) >= 1 /\ DOMAIN s = 1..Len(s)
         /\ Len(Tail(s)) = Len(s) - 1
         /\ DOMAIN Tail(s) = 1..(Len(s) - 1)
         /\ \A k \in 1..(Len(s) - 1) : Tail(s)[k] = s[k + 1]
         /\ Head(s) = s[1] /\ Head(s) \in S
OBVIOUS

LEMMA SeqFacts ==
  ASSUME NEW S, NEW s \in Seq(S)
  PROVE  /\ Len(s) \in Nat /\ DOMAIN s = 1..Len(s)
         /\ \A k \in 1..Len(s) : s[k] \in S
         /\ s = <<>> <=> Len(s) = 0
OBVIOUS

\* What a sequence of lines has, when one is added and when the first is taken.
LEMMA HasFacts ==
  ASSUME NEW S, NEW s \in Seq(S), NEW e \in S
  PROVE  /\ \A l : Command!Has(Append(s, e), l) <=> Command!Has(s, l) \/ l = e
         /\ \A l : s # <<>> => (Command!Has(s, l) <=> l = Head(s) \/ Command!Has(Tail(s), l))
         /\ \A l : s = <<>> => ~Command!Has(s, l)
<1>1. ASSUME NEW l
      PROVE  Command!Has(Append(s, e), l) <=> Command!Has(s, l) \/ l = e
  BY AppendFacts DEF Command!Has
<1>2. ASSUME NEW l, s # <<>>
      PROVE  Command!Has(s, l) <=> l = Head(s) \/ Command!Has(Tail(s), l)
  <2>1. ASSUME NEW k \in 2..Len(s), s[k] = l
        PROVE  Command!Has(Tail(s), l)
    <3>1. k - 1 \in 1..(Len(s) - 1) /\ Tail(s)[k - 1] = l
      BY <1>2, <2>1, TailFacts
    <3>2. QED
      BY <1>2, <3>1, TailFacts DEF Command!Has
  <2>2. Command!Has(Tail(s), l) => Command!Has(s, l)
    <3>1. SUFFICES ASSUME NEW k \in 1..(Len(s) - 1), Tail(s)[k] = l
                   PROVE  Command!Has(s, l)
      BY <1>2, TailFacts DEF Command!Has
    <3>2. k + 1 \in 1..Len(s) /\ s[k + 1] = l
      BY <1>2, <3>1, TailFacts
    <3>3. QED
      BY <1>2, <3>2, TailFacts DEF Command!Has
  <2>3. Command!Has(s, Head(s))
    BY <1>2, TailFacts DEF Command!Has
  <2>4. QED
    BY <1>2, <2>1, <2>2, <2>3, TailFacts DEF Command!Has
<1>3. ASSUME NEW l, s = <<>>
      PROVE  ~Command!Has(s, l)
  BY <1>3 DEF Command!Has
<1>4. QED
  BY <1>1, <1>2, <1>3

-----------------------------------------------------------------------------
(* An external command.                                                    *)

Given == Command!ToSet(CommandDelegates)

LEMMA DelegatesFacts ==
  /\ CommandDelegates \in Seq(Given) /\ MaxLines \in Nat
  /\ Len(CommandDelegates) \in Nat
  /\ DOMAIN CommandDelegates = 1..Len(CommandDelegates)
  /\ \A d \in Given : \E i \in 1..Len(CommandDelegates) : CommandDelegates[i] = d
  /\ \A i \in 1..Len(CommandDelegates) : CommandDelegates[i] \in Given
  /\ \A i, j \in 1..Len(CommandDelegates) :
       CommandDelegates[i] = CommandDelegates[j] => i = j
  /\ FailingDelegates \subseteq Given
<1>1. /\ CommandDelegates \in Seq(Given) /\ Command!IsInjective(CommandDelegates)
      /\ MaxLines \in Nat /\ FailingDelegates \subseteq Given
  BY PartsAssumption DEF Command!CommandAssumption, Given
<1>2. Len(CommandDelegates) \in Nat /\ DOMAIN CommandDelegates = 1..Len(CommandDelegates)
  BY <1>1
<1>3. Given = {CommandDelegates[i] : i \in 1..Len(CommandDelegates)}
  BY <1>2 DEF Given, Command!ToSet
<1>4. QED
  BY <1>1, <1>2, <1>3 DEF Command!IsInjective

LEMMA NextDelegate ==
  /\ Len(CommandDelegates) \in Nat
  /\ \A i \in 1..(Len(CommandDelegates) - 1) :
       /\ i \in 1..Len(CommandDelegates) /\ i + 1 \in 1..Len(CommandDelegates)
       /\ i # Len(CommandDelegates)
<1>1. Len(CommandDelegates) \in Nat
  BY DelegatesFacts
<1>2. QED
  BY <1>1

LEMMA LineFacts ==
  /\ \A s \in Command!Streams, n \in 1..MaxLines : <<s, n>> \in Command!Line
  /\ \A l \in Command!Line : \E s \in Command!Streams, n \in 1..MaxLines : l = <<s, n>>
  /\ \A l \in Command!Line : l # Command!Stop
BY DEF Command!Line, Command!Streams, Command!Stop

LEMMA InitCommand == Command!Init => Command!IInv
<1> SUFFICES ASSUME Command!Init
             PROVE  Command!IInv
  OBVIOUS
<1>1. \A S : <<>> \in Seq(S) /\ Len(<<>>) = 0 /\ DOMAIN <<>> = {}
  OBVIOUS
<1>2. Command!ThreadsOK
  BY <1>1, DelegatesFacts DEF Command!Init, Command!ThreadsOK, Given
<1>3. \A l : ~Command!Has(<<>>, l)
  BY <1>1 DEF Command!Has
<1>4. Command!PipeInOrder /\ Command!QueueInOrder /\ Command!LineIsNext
  BY <1>1 DEF Command!Init, Command!PipeInOrder, Command!QueueInOrder, Command!LineIsNext
<1>5. Command!GotAreRead
  BY <1>1, <1>3, DelegatesFacts
     DEF Command!Init, Command!GotAreRead, Command!Read, Given, Command!Streams
<1>6. Command!LeftAreLast /\ Command!DelegatesAgree
  <2>1. \A i \in 1..Len(CommandDelegates) : got[CommandDelegates[i]] = <<>>
    BY DelegatesFacts DEF Command!Init, Given
  <2>2. left = <<>> /\ Len(left) = 0
    BY <1>1 DEF Command!Init
  <2>3. DOMAIN left = {} /\ worker = "none"
    BY <1>1, <2>2 DEF Command!Init
  <2>4. Command!LeftAreLast
    <3>1. ASSUME NEW i \in 1..(Len(CommandDelegates) - 1)
          PROVE  /\ got[CommandDelegates[i]] = got[CommandDelegates[i + 1]]
                 /\ i # Len(CommandDelegates) - Len(left)
      <4>1. i \in 1..Len(CommandDelegates) /\ i + 1 \in 1..Len(CommandDelegates)
            /\ i # Len(CommandDelegates) - Len(left)
        BY <2>2, NextDelegate
      <4>2. QED
        BY <2>1, <2>2, <4>1
    <3>2. Len(left) <= Len(CommandDelegates)
      BY <2>2, DelegatesFacts
    <3>3. QED
      BY <2>2, <2>3, <3>1, <3>2 DEF Command!LeftAreLast
  <2>5. Command!DelegatesAgree
    <3>1. ASSUME NEW i \in 1..(Len(CommandDelegates) - 1)
          PROVE  /\ Len(got[CommandDelegates[i]]) - Len(got[CommandDelegates[i + 1]]) \in {0, 1}
                 /\ DOMAIN got[CommandDelegates[i + 1]] = {}
      BY <1>1, <2>1, DelegatesFacts
    <3>2. QED
      BY <3>1 DEF Command!DelegatesAgree
  <2>6. QED
    BY <2>4, <2>5
<1>7. Command!LinesInOrder
  BY <1>1 DEF Command!Init, Command!LinesInOrder, Command!InOrder
<1>8. Command!ThreadsEnd /\ Command!WorkerStops
  BY <1>1, <1>3 DEF Command!Init, Command!ThreadsEnd, Command!WorkerStops, Command!Stopped,
       Command!Finally, Command!Streams
<1>9. QED
  BY <1>2, <1>4, <1>5, <1>6, <1>7, <1>8 DEF Command!IInv

\* What IInv says of the lines, of their places only: lines of which `rd' have been
\* read are on the queue, and with the worker, and delegates got them.
Queued(qu, rd, k, s, n) ==
  /\ n <= rd[s]
  /\ \A m \in 1..k-1 : qu[m] # qu[k]
  /\ \A q \in n+1..rd[s] : \E m \in k+1..Len(qu) : qu[m] = <<s, q>>

QueueOf(qu, rd) ==
  \A k \in DOMAIN qu : \A s \in Command!Streams, n \in 1..MaxLines :
    qu[k] = <<s, n>> => Queued(qu, rd, k, s, n)

NextOf(li, le, qu, rd) ==
  le # <<>> =>
    \A s \in Command!Streams, n \in 1..MaxLines :
      li = <<s, n>> =>
        /\ n <= rd[s] /\ ~Command!Has(qu, li)
        /\ \A q \in n+1..rd[s] : Command!Has(qu, <<s, q>>)

GotOf(go, li, le, qu, rd, wo) ==
  \A d \in Given, s \in Command!Streams, n \in 1..MaxLines :
    /\ Command!Has(go[d], <<s, n>>) =>
         /\ n <= rd[s] /\ ~Command!Has(qu, <<s, n>>)
         /\ Command!Has(le, d) => li # <<s, n>>
    /\ n <= rd[s] /\ wo # "died" =>
         Command!Has(go[d], <<s, n>>) \/ Command!Has(qu, <<s, n>>)
           \/ (li = <<s, n>> /\ Command!Has(le, d))

ChainOf(go, li, le, wo) ==
  LET n == Len(CommandDelegates)
  IN  /\ Len(le) <= n
      /\ \A k \in DOMAIN le : le[k] = CommandDelegates[n - Len(le) + k]
      /\ wo # "died" =>
           \A i \in 1..(n - 1) :
             go[CommandDelegates[i]] = IF i = n - Len(le)
                                       THEN Append(go[CommandDelegates[i + 1]], li)
                                       ELSE go[CommandDelegates[i + 1]]

ReadSoFar == [s \in Command!Streams |-> Command!Read(s)]

Data ==
  /\ QueueOf(queue, ReadSoFar) /\ NextOf(line, left, queue, ReadSoFar)
  /\ GotOf(got, line, left, queue, ReadSoFar, worker) /\ ChainOf(got, line, left, worker)
  /\ Command!LinesInOrder /\ Command!DelegatesAgree

LEMMA DataIsKept ==
  Command!IInv <=>
    Command!ThreadsOK /\ Command!PipeInOrder /\ Data /\ Command!ThreadsEnd /\ Command!WorkerStops
<1>1. Command!QueueInOrder <=> QueueOf(queue, ReadSoFar)
  BY DEF Command!QueueInOrder, QueueOf, Queued, ReadSoFar
<1>2. Command!LineIsNext <=> NextOf(line, left, queue, ReadSoFar)
  BY DEF Command!LineIsNext, NextOf, ReadSoFar
<1>3. Command!GotAreRead <=> GotOf(got, line, left, queue, ReadSoFar, worker)
  BY DEF Command!GotAreRead, GotOf, ReadSoFar, Given
<1>4. Command!LeftAreLast <=> ChainOf(got, line, left, worker)
  BY DEF Command!LeftAreLast, ChainOf
<1>5. QED
  BY ONLY <1>1, <1>2, <1>3, <1>4 DEF Command!IInv, Data

LEMMA DataIsKeptNext ==
  (Command!IInv <=>
     Command!ThreadsOK /\ Command!PipeInOrder /\ Data /\ Command!ThreadsEnd
       /\ Command!WorkerStops)'
BY DataIsKept, PTL

\* A step that moves no line keeps the lines in order.
LEMMA SameData ==
  ASSUME Data, UNCHANGED <<queue, line, left, got>>, ReadSoFar' = ReadSoFar,
         (worker' = "died") <=> (worker = "died")
  PROVE  Data'
<1>1. Command!LinesInOrder' /\ Command!DelegatesAgree'
  BY DEF Data, Command!LinesInOrder, Command!DelegatesAgree, Command!InOrder
<1>2. GotOf(got', line', left', queue', ReadSoFar', worker')
  BY DEF Data, GotOf
<1>3. ChainOf(got', line', left', worker')
  BY DEF Data, ChainOf
<1>4. QueueOf(queue', ReadSoFar') /\ NextOf(line', left', queue', ReadSoFar')
  BY DEF Data
<1>5. QED
  BY <1>1, <1>2, <1>3, <1>4 DEF Data

\* The command writes a line.
LEMMA NextWrite ==
  ASSUME Command!IInv, NEW w \in Command!Streams, Command!Write(w)
  PROVE  Command!IInv'
<1> DEFINE l == <<w, written[w] + 1>>
<1>1. /\ written[w] < MaxLines /\ (child = "running" \/ other = "running")
      /\ written' = [written EXCEPT ![w] = @ + 1]
      /\ pipe' = [pipe EXCEPT ![w] = Append(@, <<w, written'[w]>>)]
      /\ UNCHANGED <<child, other, reader, queue, worker, line, left, got, main, failed,
                     escaped>>
  BY DEF Command!Write, Command!threads, Command!worker_vars, Command!history
<1>2. /\ written \in [Command!Streams -> 0..MaxLines]
      /\ pipe \in [Command!Streams -> Seq(Command!Line)]
  BY DEF Command!IInv, Command!ThreadsOK
<1>3. /\ written'[w] = written[w] + 1 /\ written'[w] \in 1..MaxLines
      /\ \A t \in Command!Streams \ {w} : written'[t] = written[t] /\ pipe'[t] = pipe[t]
      /\ pipe'[w] = Append(pipe[w], l) /\ l \in Command!Line /\ pipe[w] \in Seq(Command!Line)
      /\ written' \in [Command!Streams -> 0..MaxLines]
  BY <1>1, <1>2, LineFacts, DelegatesFacts
<1>4. /\ pipe' \in [Command!Streams -> Seq(Command!Line)]
      /\ Len(pipe'[w]) = Len(pipe[w]) + 1 /\ Len(pipe[w]) \in Nat
      /\ DOMAIN pipe[w] = 1..Len(pipe[w]) /\ DOMAIN pipe'[w] = 1..(Len(pipe[w]) + 1)
      /\ \A k \in 1..Len(pipe[w]) : pipe'[w][k] = pipe[w][k]
      /\ pipe'[w][Len(pipe[w]) + 1] = l
  <2>1. Append(pipe[w], l) \in Seq(Command!Line)
    BY <1>3, AppendFacts
  <2>2. pipe' \in [Command!Streams -> Seq(Command!Line)]
    BY <1>1, <1>2, <1>3, <2>1
  <2> HIDE DEF l
  <2>3. QED
    BY <1>3, <2>2, AppendFacts
<1>5. \A t \in Command!Streams : Command!Read(t)' = Command!Read(t)
  <2>1. written[w] \in Int /\ written'[w] = written[w] + 1
    BY <1>2, <1>3, DelegatesFacts
  <2>2. Command!Read(w)' = Command!Read(w)
    BY ONLY <1>4, <2>1 DEF Command!Read
  <2>3. ASSUME NEW t \in Command!Streams \ {w}
        PROVE  Command!Read(t)' = Command!Read(t)
    BY <1>3 DEF Command!Read
  <2>4. QED
    BY <2>2, <2>3
<1>6. Command!ThreadsOK'
  BY <1>1, <1>3, <1>4 DEF Command!IInv, Command!ThreadsOK
<1>7. Command!PipeInOrder'
  <2>1. /\ Len(pipe[w]) <= written[w]
        /\ \A k \in 1..Len(pipe[w]) : pipe[w][k] = <<w, Command!Read(w) + k>>
    BY <1>4 DEF Command!IInv, Command!PipeInOrder
  <2>2. l = <<w, Command!Read(w) + (Len(pipe[w]) + 1)>>
    BY <1>2, <1>4 DEF Command!Read
  <2>3. Len(pipe'[w]) <= written'[w]
    BY <1>2, <1>3, <1>4, <2>1
  <2> HIDE DEF l
  <2>4. ASSUME NEW k \in DOMAIN pipe'[w]
        PROVE  pipe'[w][k] = <<w, Command!Read(w)' + k>>
    BY <1>4, <1>5, <2>1, <2>2, <2>4
  <2>5. ASSUME NEW t \in Command!Streams \ {w}
        PROVE  /\ Len(pipe'[t]) <= written'[t]
               /\ \A k \in DOMAIN pipe'[t] : pipe'[t][k] = <<t, Command!Read(t)' + k>>
    BY <1>3, <1>5, <2>5 DEF Command!IInv, Command!PipeInOrder
  <2>6. QED
    BY <2>3, <2>4, <2>5 DEF Command!PipeInOrder
<1>8. Data'
  <2>1. ReadSoFar' = ReadSoFar
    BY <1>5 DEF ReadSoFar
  <2>2. QED
    BY <1>1, <2>1, DataIsKept, SameData
<1>9. Command!ThreadsEnd'
  <2>1. \A t \in Command!Streams : reader[t] # "done"
    BY <1>1 DEF Command!IInv, Command!ThreadsEnd
  <2>2. QED
    BY <1>1, <2>1 DEF Command!IInv, Command!ThreadsEnd, Command!Stopped
<1>10. Command!WorkerStops'
  BY <1>1 DEF Command!IInv, Command!WorkerStops, Command!Has
<1>11. QED
  BY <1>6, <1>7, <1>8, <1>9, <1>10, DataIsKeptNext

\* The queue when a line is read, when an element is taken, and when the worker
\* is told to stop.
Element == Command!Line \cup {Command!Stop}

LEMMA QueueGrows ==
  ASSUME NEW qu \in Seq(Element), NEW rd \in [Command!Streams -> Nat],
         NEW rd2 \in [Command!Streams -> Nat], NEW w \in Command!Streams, NEW e \in Element,
         QueueOf(qu, rd), rd2[w] = rd[w] + 1, e = <<w, rd2[w]>>,
         \A s \in Command!Streams \ {w} : rd2[s] = rd[s]
  PROVE  QueueOf(Append(qu, e), rd2)
<1> DEFINE new == Append(qu, e)
           N == Len(qu)
<1>1. /\ N \in Nat /\ DOMAIN qu = 1..N /\ DOMAIN new = 1..(N + 1) /\ Len(new) = N + 1
      /\ \A k \in 1..N : new[k] = qu[k]
      /\ new[N + 1] = e
  BY AppendFacts
<1> HIDE DEF new, N
<1>2. ASSUME NEW k \in 1..N, NEW s \in Command!Streams, NEW n \in 1..MaxLines, new[k] = <<s, n>>
      PROVE  /\ n <= rd2[s]
             /\ \A m \in 1..k-1 : new[m] # new[k]
             /\ \A q \in n+1..rd2[s] : \E m \in k+1..N+1 : new[m] = <<s, q>>
  <2>1. /\ n <= rd[s]
        /\ \A m \in 1..k-1 : qu[m] # qu[k]
        /\ \A q \in n+1..rd[s] : \E m \in k+1..N : qu[m] = <<s, q>>
    <3>1. k \in DOMAIN qu /\ qu[k] = <<s, n>>
      BY <1>1, <1>2
    <3>2. Queued(qu, rd, k, s, n)
      BY <3>1 DEF QueueOf
    <3>3. QED
      BY <3>2 DEF Queued, N
  <2>2. n <= rd2[s] /\ (rd2[s] = rd[s] \/ (s = w /\ rd2[s] = rd[s] + 1))
    BY <2>1, DelegatesFacts
  <2>3. \A m \in 1..k-1 : new[m] # new[k]
    BY <1>1, <2>1
  <2>4. ASSUME NEW q \in n+1..rd2[s]
        PROVE  \E m \in k+1..N+1 : new[m] = <<s, q>>
    <3>1. CASE q \in n+1..rd[s]
      <4>1. PICK m \in k+1..N : qu[m] = <<s, q>>
        BY <2>1, <3>1
      <4>2. m \in 1..N /\ m \in k+1..N+1
        BY <1>1
      <4>3. QED
        BY <1>1, <4>1, <4>2
    <3>2. CASE q \notin n+1..rd[s]
      <4>1. s = w /\ q = rd2[w]
        BY <2>1, <2>2, <3>2
      <4>2. N + 1 \in k+1..N+1
        BY <1>1
      <4>3. QED
        BY <1>1, <4>1, <4>2
    <3>3. QED
      BY <3>1, <3>2
  <2>5. QED
    BY <2>2, <2>3, <2>4
<1>3. ASSUME NEW s \in Command!Streams, NEW n \in 1..MaxLines, new[N + 1] = <<s, n>>
      PROVE  /\ n <= rd2[s]
             /\ \A m \in 1..N : new[m] # new[N + 1]
             /\ \A q \in n+1..rd2[s] : FALSE
  <2>1. s = w /\ n = rd2[w]
    BY <1>1, <1>3
  <2>2. ASSUME NEW m \in 1..N, qu[m] = e
        PROVE  FALSE
    <3>1. qu[m] = <<w, n>> /\ n \in 1..MaxLines
      BY <2>1, <2>2
    <3>2. m \in DOMAIN qu
      BY <1>1, <2>2
    <3>3. Queued(qu, rd, m, w, n)
      BY <3>1, <3>2 DEF QueueOf
    <3>4. n <= rd[w]
      BY <3>3 DEF Queued
    <3>5. QED
      BY <2>1, <3>4
  <2>3. n <= rd2[s] /\ ~\E q \in n+1..rd2[s] : TRUE
    BY <2>1
  <2>4. \A m \in 1..N : new[m] # new[N + 1]
    BY <1>1, <2>2
  <2>5. QED
    BY <2>3, <2>4
<1>4. ASSUME NEW k \in 1..(N + 1), NEW s \in Command!Streams, NEW n \in 1..MaxLines, new[k] = <<s, n>>
      PROVE  Queued(new, rd2, k, s, n)
  <2>1. CASE k \in 1..N
    <3>1. /\ n <= rd2[s]
          /\ \A m \in 1..k-1 : new[m] # new[k]
          /\ \A q \in n+1..rd2[s] : \E m \in k+1..N+1 : new[m] = <<s, q>>
      BY ONLY <1>2, <1>4, <2>1
    <3>2. Len(new) = N+1
      BY <1>1
    <3>3. QED
      BY ONLY <3>1, <3>2 DEF Queued
  <2>2. CASE k = N + 1
    <3>1. k - 1 = N
      BY <1>1, <2>2
    <3>2. /\ n <= rd2[s]
          /\ \A m \in 1..N : new[m] # new[N + 1]
          /\ \A q \in n+1..rd2[s] : FALSE
      BY <1>3, <1>4, <2>2
    <3>3. QED
      BY <2>2, <3>1, <3>2 DEF Queued
  <2>3. QED
    BY <1>1, <2>1, <2>2
<1>5. QueueOf(new, rd2)
  BY <1>1, <1>4 DEF QueueOf
<1>6. QED
  BY <1>5 DEF new

LEMMA QueueShrinks ==
  ASSUME NEW qu \in Seq(Element), NEW rd \in [Command!Streams -> Nat], QueueOf(qu, rd),
         qu # <<>>
  PROVE  /\ QueueOf(Tail(qu), rd)
         /\ \A s \in Command!Streams, n \in 1..MaxLines : Head(qu) = <<s, n>> =>
              /\ n <= rd[s]
              /\ ~Command!Has(Tail(qu), Head(qu))
              /\ \A q \in n+1..rd[s] : Command!Has(Tail(qu), <<s, q>>)
<1> DEFINE new == Tail(qu)
           N == Len(qu)
<1>1. /\ N \in Nat /\ N >= 1 /\ DOMAIN qu = 1..N /\ DOMAIN new = 1..(N - 1) /\ Len(new) = N - 1
      /\ \A k \in 1..(N - 1) : new[k] = qu[k + 1]
      /\ Head(qu) = qu[1]
  BY TailFacts
<1> HIDE DEF new, N
<1>2. ASSUME NEW k \in 1..(N - 1), NEW s \in Command!Streams, NEW n \in 1..MaxLines, new[k] = <<s, n>>
      PROVE  /\ n <= rd[s]
             /\ \A m \in 1..k-1 : new[m] # new[k]
             /\ \A q \in n+1..rd[s] : \E m \in k+1..N-1 : new[m] = <<s, q>>
  <2>1. k + 1 \in 1..N /\ qu[k + 1] = <<s, n>>
    BY <1>1, <1>2
  <2>2. /\ n <= rd[s]
        /\ \A m \in 1..(k+1)-1 : qu[m] # qu[k + 1]
        /\ \A q \in n+1..rd[s] : \E m \in (k+1)+1..N : qu[m] = <<s, q>>
    <3>1. Queued(qu, rd, k + 1, s, n)
      BY <1>1, <2>1 DEF QueueOf
    <3>2. QED
      BY <3>1 DEF Queued, N
  <2>3. ASSUME NEW m \in 1..k-1
        PROVE  new[m] # new[k]
    <3>1. m \in 1..N-1 /\ m + 1 \in 1..(k+1)-1
      BY <1>1
    <3>2. QED
      BY <1>1, <2>2, <3>1
  <2>4. ASSUME NEW q \in n+1..rd[s]
        PROVE  \E m \in k+1..N-1 : new[m] = <<s, q>>
    <3>1. PICK m \in (k+1)+1..N : qu[m] = <<s, q>>
      BY <2>2
    <3>2. m - 1 \in k+1..N-1 /\ m - 1 \in 1..N-1 /\ (m - 1) + 1 = m
      BY <1>1
    <3>3. QED
      BY <1>1, <3>1, <3>2
  <2>5. QED
    BY <2>2, <2>3, <2>4
<1>3. ASSUME NEW s \in Command!Streams, NEW n \in 1..MaxLines, qu[1] = <<s, n>>
      PROVE  /\ n <= rd[s]
             /\ ~Command!Has(new, qu[1])
             /\ \A q \in n+1..rd[s] : Command!Has(new, <<s, q>>)
  <2>1. /\ n <= rd[s]
        /\ \A q \in n+1..rd[s] : \E m \in 1+1..N : qu[m] = <<s, q>>
    <3>1. Queued(qu, rd, 1, s, n)
      BY <1>1, <1>3 DEF QueueOf
    <3>2. QED
      BY <3>1 DEF Queued, N
  <2>2. ASSUME NEW k \in 1..(N - 1), new[k] = qu[1]
        PROVE  FALSE
    <3>1. k + 1 \in 1..N /\ qu[k + 1] = <<s, n>> /\ 1 \in 1..(k+1)-1
      BY <1>1, <1>3, <2>2
    <3>2. \A m \in 1..(k+1)-1 : qu[m] # qu[k + 1]
      BY <1>1, <3>1 DEF QueueOf, Queued
    <3>3. QED
      BY <1>3, <3>1, <3>2
  <2>3. ASSUME NEW q \in n+1..rd[s]
        PROVE  Command!Has(new, <<s, q>>)
    <3>1. PICK m \in 1+1..N : qu[m] = <<s, q>>
      BY <2>1
    <3>2. m - 1 \in 1..N-1 /\ (m - 1) + 1 = m
      BY <1>1
    <3>3. QED
      BY <1>1, <3>1, <3>2 DEF Command!Has
  <2>4. QED
    BY <1>1, <2>1, <2>2, <2>3 DEF Command!Has
<1>4. QueueOf(new, rd)
  <2>1. ASSUME NEW k \in 1..(N - 1), NEW s \in Command!Streams, NEW n \in 1..MaxLines, new[k] = <<s, n>>
        PROVE  Queued(new, rd, k, s, n)
    <3>1. /\ n <= rd[s]
          /\ \A m \in 1..k-1 : new[m] # new[k]
          /\ \A q \in n+1..rd[s] : \E m \in k+1..N-1 : new[m] = <<s, q>>
      BY ONLY <1>2, <2>1
    <3>2. Len(new) = N-1
      BY <1>1
    <3>3. QED
      BY ONLY <3>1, <3>2 DEF Queued
  <2>2. QED
    BY <1>1, <2>1 DEF QueueOf
<1>5. QED
  BY <1>1, <1>3, <1>4 DEF new

LEMMA QueueStops ==
  ASSUME NEW qu \in Seq(Element), NEW rd \in [Command!Streams -> Nat], QueueOf(qu, rd)
  PROVE  QueueOf(Append(qu, Command!Stop), rd)
<1> DEFINE new == Append(qu, Command!Stop)
           N == Len(qu)
<1>1. /\ N \in Nat /\ DOMAIN qu = 1..N /\ DOMAIN new = 1..(N + 1) /\ Len(new) = N + 1
      /\ \A k \in 1..N : new[k] = qu[k]
      /\ new[N + 1] = Command!Stop
  BY AppendFacts DEF Element
<1> HIDE DEF new, N
<1>2. ASSUME NEW k \in 1..(N + 1), NEW s \in Command!Streams, NEW n \in 1..MaxLines, new[k] = <<s, n>>
      PROVE  /\ n <= rd[s]
             /\ \A m \in 1..k-1 : new[m] # new[k]
             /\ \A q \in n+1..rd[s] : \E m \in k+1..N+1 : new[m] = <<s, q>>
  <2>1. k \in 1..N
    <3>1. <<s, n>> # Command!Stop
      BY LineFacts
    <3>2. k # N + 1
      BY <1>1, <1>2, <3>1
    <3>3. QED
      BY <1>1, <3>2
  <2>2. /\ n <= rd[s]
        /\ \A m \in 1..k-1 : qu[m] # qu[k]
        /\ \A q \in n+1..rd[s] : \E m \in k+1..N : qu[m] = <<s, q>>
    <3>1. Queued(qu, rd, k, s, n)
      BY <1>1, <1>2, <2>1 DEF QueueOf
    <3>2. QED
      BY <3>1 DEF Queued, N
  <2>3. \A m \in 1..k-1 : new[m] # new[k]
    BY <1>1, <2>1, <2>2
  <2>4. ASSUME NEW q \in n+1..rd[s]
        PROVE  \E m \in k+1..N+1 : new[m] = <<s, q>>
    <3>1. PICK m \in k+1..N : qu[m] = <<s, q>>
      BY <2>2
    <3>2. m \in 1..N /\ m \in k+1..N+1
      BY <1>1
    <3>3. QED
      BY <1>1, <3>1, <3>2
  <2>5. QED
    BY <2>2, <2>3, <2>4
<1>3. QueueOf(new, rd)
  <2>1. ASSUME NEW k \in 1..(N + 1), NEW s \in Command!Streams, NEW n \in 1..MaxLines, new[k] = <<s, n>>
        PROVE  Queued(new, rd, k, s, n)
    <3>1. /\ n <= rd[s]
          /\ \A m \in 1..k-1 : new[m] # new[k]
          /\ \A q \in n+1..rd[s] : \E m \in k+1..N+1 : new[m] = <<s, q>>
      BY ONLY <1>2, <2>1
    <3>2. Len(new) = N+1
      BY <1>1
    <3>3. QED
      BY ONLY <3>1, <3>2 DEF Queued
  <2>2. QED
    BY <1>1, <2>1 DEF QueueOf
<1>4. QED
  BY <1>3 DEF new

\* A reader puts a line on the queue.
LEMMA LineIsRead ==
  ASSUME NEW qu \in Seq(Element), NEW rd \in [Command!Streams -> Nat],
         NEW rd2 \in [Command!Streams -> Nat], NEW w \in Command!Streams, NEW e \in Element,
         rd2[w] = rd[w] + 1, e = <<w, rd2[w]>>,
         \A s \in Command!Streams \ {w} : rd2[s] = rd[s],
         NEW go, NEW li, NEW le, NEW wo
  PROVE  /\ NextOf(li, le, qu, rd) => NextOf(li, le, Append(qu, e), rd2)
         /\ GotOf(go, li, le, qu, rd, wo) => GotOf(go, li, le, Append(qu, e), rd2, wo)
<1> DEFINE new == Append(qu, e)
<1>1. \A l : Command!Has(new, l) <=> Command!Has(qu, l) \/ l = e
  BY HasFacts
<1> HIDE DEF new
<1>2. \A s \in Command!Streams, n \in 1..MaxLines :
        /\ n <= rd[s] => n <= rd2[s] /\ <<s, n>> # e
        /\ n <= rd2[s] => n <= rd[s] \/ <<s, n>> = e
  <2>1. ASSUME NEW s \in Command!Streams, NEW n \in 1..MaxLines
        PROVE  /\ n <= rd[s] => n <= rd2[s] /\ <<s, n>> # e
               /\ n <= rd2[s] => n <= rd[s] \/ <<s, n>> = e
    <3>1. CASE s = w
      BY <3>1
    <3>2. CASE s # w
      BY <3>2
    <3>3. QED
      BY <3>1, <3>2
  <2>2. QED
    BY <2>1
<1>3. ASSUME NextOf(li, le, qu, rd)
      PROVE  NextOf(li, le, new, rd2)
  <2>1. SUFFICES ASSUME le # <<>>, NEW s \in Command!Streams, NEW n \in 1..MaxLines, li = <<s, n>>
                 PROVE  /\ n <= rd2[s] /\ ~Command!Has(new, li)
                        /\ \A q \in n+1..rd2[s] : Command!Has(new, <<s, q>>)
    BY DEF NextOf
  <2>2. /\ n <= rd[s] /\ ~Command!Has(qu, li)
        /\ \A q \in n+1..rd[s] : Command!Has(qu, <<s, q>>)
    BY <1>3, <2>1 DEF NextOf
  <2>3. n <= rd2[s] /\ ~Command!Has(new, li)
    BY <1>1, <1>2, <2>1, <2>2
  <2>4. ASSUME NEW q \in n+1..rd2[s]
        PROVE  Command!Has(new, <<s, q>>)
    <3>1. CASE q \in n+1..rd[s]
      BY <1>1, <2>2, <3>1
    <3>2. CASE q \notin n+1..rd[s]
      <4>1. s = w /\ q = rd2[w]
        BY <2>2, <3>2
      <4>2. QED
        BY <1>1, <4>1
    <3>3. QED
      BY <3>1, <3>2
  <2>5. QED
    BY <2>3, <2>4
<1>4. ASSUME GotOf(go, li, le, qu, rd, wo)
      PROVE  GotOf(go, li, le, new, rd2, wo)
  <2>1. ASSUME NEW d \in Given, NEW s \in Command!Streams, NEW n \in 1..MaxLines
        PROVE  /\ Command!Has(go[d], <<s, n>>) =>
                    /\ n <= rd2[s] /\ ~Command!Has(new, <<s, n>>)
                    /\ Command!Has(le, d) => li # <<s, n>>
               /\ n <= rd2[s] /\ wo # "died" =>
                    Command!Has(go[d], <<s, n>>) \/ Command!Has(new, <<s, n>>)
                      \/ (li = <<s, n>> /\ Command!Has(le, d))
    <3>1. /\ Command!Has(go[d], <<s, n>>) =>
               /\ n <= rd[s] /\ ~Command!Has(qu, <<s, n>>)
               /\ Command!Has(le, d) => li # <<s, n>>
          /\ n <= rd[s] /\ wo # "died" =>
               Command!Has(go[d], <<s, n>>) \/ Command!Has(qu, <<s, n>>)
                 \/ (li = <<s, n>> /\ Command!Has(le, d))
      BY <1>4 DEF GotOf
    <3>2. /\ n <= rd[s] => n <= rd2[s] /\ <<s, n>> # e
          /\ n <= rd2[s] => n <= rd[s] \/ <<s, n>> = e
      BY <1>2
    <3>3. Command!Has(new, <<s, n>>) <=> Command!Has(qu, <<s, n>>) \/ <<s, n>> = e
      BY <1>1
    <3>4. QED
      BY ONLY <3>1, <3>2, <3>3
  <2>2. QED
    BY <2>1 DEF GotOf
<1>5. QED
  BY <1>3, <1>4 DEF new

\* The worker takes an element from the queue: a line, which all delegates are to
\* get, or what ends it.
LEMMA ElementIsTaken ==
  ASSUME NEW qu \in Seq(Element), NEW rd \in [Command!Streams -> Nat], QueueOf(qu, rd),
         qu # <<>>, NEW go, NEW li, NEW wo, GotOf(go, li, <<>>, qu, rd, wo)
  PROVE  /\ Head(qu) # Command!Stop =>
              /\ NextOf(Head(qu), CommandDelegates, Tail(qu), rd)
              /\ GotOf(go, Head(qu), CommandDelegates, Tail(qu), rd, wo)
         /\ Head(qu) = Command!Stop => GotOf(go, li, <<>>, Tail(qu), rd, wo)
<1> DEFINE new == Tail(qu)
           h == Head(qu)
<1>1. \A l : Command!Has(qu, l) <=> l = h \/ Command!Has(new, l)
  BY HasFacts DEF Element
<1>2. \A d : ~Command!Has(<<>>, d)
  BY DEF Command!Has
<1>3. \A d \in Given : Command!Has(CommandDelegates, d)
  BY DelegatesFacts DEF Command!Has
<1>4. \A s \in Command!Streams, n \in 1..MaxLines : h = <<s, n>> =>
        /\ n <= rd[s]
        /\ ~Command!Has(new, h)
        /\ \A q \in n+1..rd[s] : Command!Has(new, <<s, q>>)
  BY QueueShrinks
<1> HIDE DEF new, h
<1>5. ASSUME NEW d \in Given, NEW s \in Command!Streams, NEW n \in 1..MaxLines
      PROVE  /\ Command!Has(go[d], <<s, n>>) => n <= rd[s] /\ ~Command!Has(new, <<s, n>>) /\ h # <<s, n>>
             /\ n <= rd[s] /\ wo # "died" =>
                  Command!Has(go[d], <<s, n>>) \/ Command!Has(new, <<s, n>>) \/ h = <<s, n>>
  <2>1. /\ Command!Has(go[d], <<s, n>>) => n <= rd[s] /\ ~Command!Has(qu, <<s, n>>)
        /\ n <= rd[s] /\ wo # "died" =>
             Command!Has(go[d], <<s, n>>) \/ Command!Has(qu, <<s, n>>) \/ Command!Has(<<>>, d)
    BY DEF GotOf
  <2>2. QED
    BY <1>1, <1>2, <2>1
<1>6. h # Command!Stop => NextOf(h, CommandDelegates, new, rd)
  BY <1>4 DEF NextOf
<1>7. GotOf(go, h, CommandDelegates, new, rd, wo)
  BY <1>3, <1>5 DEF GotOf
<1>8. h = Command!Stop => GotOf(go, li, <<>>, new, rd, wo)
  <2>1. \A s \in Command!Streams, n \in 1..MaxLines : <<s, n>> # Command!Stop
    BY LineFacts
  <2>2. QED
    BY <1>2, <1>5, <2>1 DEF GotOf
<1>9. QED
  BY <1>6, <1>7, <1>8 DEF new, h

\* A delegate gets the line: it is the first of those that are left.
LEMMA FirstOfLeft ==
  ASSUME NEW go, NEW li, NEW le \in Seq(Given), NEW wo, ChainOf(go, li, le, wo), le # <<>>
  PROVE  LET m == Len(CommandDelegates) - Len(le)
         IN  /\ m \in Nat /\ m + 1 \in 1..Len(CommandDelegates)
             /\ Head(le) = CommandDelegates[m + 1]
             /\ \A d : Command!Has(le, d) <=> d = Head(le) \/ Command!Has(Tail(le), d)
             /\ ~Command!Has(Tail(le), Head(le))
<1> DEFINE N == Len(CommandDelegates)
           m == N - Len(le)
<1>1. /\ Len(le) \in Nat /\ Len(le) >= 1 /\ DOMAIN le = 1..Len(le)
      /\ Head(le) = le[1] /\ DOMAIN Tail(le) = 1..(Len(le) - 1)
      /\ \A k \in 1..(Len(le) - 1) : Tail(le)[k] = le[k + 1]
  BY TailFacts
<1>2. /\ Len(le) <= N
      /\ \A k \in 1..Len(le) : le[k] = CommandDelegates[m + k]
  BY <1>1 DEF ChainOf
<1>3. N \in Nat /\ \A i, j \in 1..N : CommandDelegates[i] = CommandDelegates[j] => i = j
  BY DelegatesFacts
<1> HIDE DEF N
<1>4. m \in Nat /\ m + 1 \in 1..N /\ Head(le) = CommandDelegates[m + 1]
  BY <1>1, <1>2, <1>3
<1>5. \A d : Command!Has(le, d) <=> d = Head(le) \/ Command!Has(Tail(le), d)
  BY HasFacts, <1>1, TailFacts
<1>6. ASSUME NEW k \in 1..(Len(le) - 1), Tail(le)[k] = Head(le)
      PROVE  FALSE
  <2>1. k + 1 \in 1..Len(le) /\ m + (k + 1) \in 1..N /\ m + (k + 1) # m + 1
    BY <1>1, <1>2, <1>3, <1>4
  <2>2. CommandDelegates[m + (k + 1)] = CommandDelegates[m + 1]
    BY <1>1, <1>2, <1>4, <1>6, <2>1
  <2>3. QED
    BY <1>3, <1>4, <2>1, <2>2
<1>7. ~Command!Has(Tail(le), Head(le))
  BY <1>1, <1>6 DEF Command!Has
<1>8. QED
  BY <1>4, <1>5, <1>7 DEF N

LEMMA LineIsPassedOn ==
  ASSUME NEW go \in [Given -> Seq(Command!Line)], NEW go2 \in [Given -> Seq(Command!Line)],
         NEW li \in Command!Line, NEW le \in Seq(Given), le # <<>>, NEW wo, wo # "died",
         ChainOf(go, li, le, wo), go2[Head(le)] = Append(go[Head(le)], li),
         \A d \in Given \ {Head(le)} : go2[d] = go[d]
  PROVE  ChainOf(go2, li, Tail(le), wo)
<1> DEFINE N == Len(CommandDelegates)
           m == N - Len(le)
           D(i) == CommandDelegates[i]
           e == Head(le)
<1>1. /\ Len(le) \in Nat /\ Len(le) >= 1 /\ Len(Tail(le)) = Len(le) - 1
      /\ DOMAIN le = 1..Len(le) /\ DOMAIN Tail(le) = 1..(Len(le) - 1)
      /\ \A k \in 1..(Len(le) - 1) : Tail(le)[k] = le[k + 1]
  BY TailFacts
<1>2. /\ Len(le) <= N
      /\ \A k \in 1..Len(le) : le[k] = D(m + k)
      /\ \A i \in 1..(N - 1) : go[D(i)] = IF i = m THEN Append(go[D(i + 1)], li) ELSE go[D(i + 1)]
  BY <1>1 DEF ChainOf
<1>3. /\ N \in Nat /\ \A i \in 1..N : D(i) \in Given
      /\ \A i, j \in 1..N : D(i) = D(j) => i = j
  BY DelegatesFacts
<1>4. m \in Nat /\ m + 1 \in 1..N /\ e = D(m + 1)
  BY FirstOfLeft
<1>5. /\ go2[e] = Append(go[e], li)
      /\ \A d \in Given \ {e} : go2[d] = go[d]
  OBVIOUS
<1> HIDE DEF N, D, e
<1>6. ASSUME NEW i \in 1..(N - 1)
      PROVE  go2[D(i)] = IF i = m + 1 THEN Append(go2[D(i + 1)], li) ELSE go2[D(i + 1)]
  <2>1. i \in 1..N /\ i + 1 \in 1..N
    BY <1>3
  <2>2. \A j \in 1..N : j # m + 1 => go2[D(j)] = go[D(j)]
    BY <1>3, <1>4, <1>5
  <2>3. go[D(i)] = IF i = m THEN Append(go[D(i + 1)], li) ELSE go[D(i + 1)]
    BY <1>2
  <2>4. CASE i = m
    <3>1. go2[D(i)] = go[D(i)] /\ go2[D(i + 1)] = Append(go[D(i + 1)], li)
      BY <1>4, <1>5, <2>1, <2>2, <2>4
    <3>2. i # m + 1
      BY <2>4, <1>4
    <3>3. QED
      BY <2>3, <2>4, <3>1, <3>2
  <2>5. CASE i = m + 1
    <3>1. go2[D(i)] = Append(go[D(i)], li)
      BY <1>4, <1>5, <2>5
    <3>2. i # m /\ i + 1 # m + 1
      BY <2>5, <1>4
    <3>3. go2[D(i + 1)] = go[D(i + 1)]
      BY <2>1, <2>2, <3>2
    <3>4. QED
      BY <2>3, <2>5, <3>1, <3>2, <3>3
  <2>6. CASE i # m /\ i # m + 1
    <3>1. i + 1 # m + 1
      BY <2>6, <1>4
    <3>2. go2[D(i)] = go[D(i)] /\ go2[D(i + 1)] = go[D(i + 1)]
      BY <2>1, <2>2, <2>6, <3>1
    <3>3. QED
      BY <2>3, <2>6, <3>2
  <2>7. QED
    BY <2>4, <2>5, <2>6
<1>7. Len(Tail(le)) <= N /\ N - Len(Tail(le)) = m + 1
  BY <1>1, <1>2, <1>3
<1>8. ASSUME NEW k \in DOMAIN Tail(le)
      PROVE  Tail(le)[k] = D(m + 1 + k)
  <2>1. k + 1 \in 1..Len(le) /\ Tail(le)[k] = le[k + 1] /\ m + (k + 1) = m + 1 + k
    <3>1. k \in 1..(Len(le) - 1)
      BY ONLY <1>1, <1>8
    <3>2. Tail(le)[k] = le[k + 1]
      BY ONLY <1>1, <3>1
    <3>3. Len(le) \in Nat /\ m \in Nat /\ k \in Int /\ 1 <= k /\ k <= Len(le) - 1
      BY ONLY <1>1, <1>4, <3>1
    <3>4. k + 1 \in 1..Len(le) /\ m + (k + 1) = m + 1 + k
      BY ONLY <3>3
    <3>5. QED
      BY <3>2, <3>4
  <2>2. QED
    BY <1>2, <2>1
<1>9. QED
  BY <1>6, <1>7, <1>8 DEF ChainOf, N, D

LEMMA LineIsGot ==
  ASSUME NEW go \in [Given -> Seq(Command!Line)], NEW go2 \in [Given -> Seq(Command!Line)],
         NEW li \in Command!Line, NEW le \in Seq(Given), le # <<>>, NEW wo, wo # "died",
         NEW qu, NEW rd, ChainOf(go, li, le, wo), go2[Head(le)] = Append(go[Head(le)], li),
         \A d \in Given \ {Head(le)} : go2[d] = go[d],
         NextOf(li, le, qu, rd), GotOf(go, li, le, qu, rd, wo)
  PROVE  GotOf(go2, li, Tail(le), qu, rd, wo)
<1> DEFINE e == Head(le)
<1>1. ASSUME NEW d \in Given, NEW s \in Command!Streams, NEW n \in 1..MaxLines
      PROVE  /\ Command!Has(go2[d], <<s, n>>) =>
                  /\ n <= rd[s] /\ ~Command!Has(qu, <<s, n>>)
                  /\ Command!Has(Tail(le), d) => li # <<s, n>>
             /\ n <= rd[s] /\ wo # "died" =>
                  Command!Has(go2[d], <<s, n>>) \/ Command!Has(qu, <<s, n>>)
                    \/ (li = <<s, n>> /\ Command!Has(Tail(le), d))
  <2>1. /\ Command!Has(go[d], <<s, n>>) =>
             /\ n <= rd[s] /\ ~Command!Has(qu, <<s, n>>)
             /\ Command!Has(le, d) => li # <<s, n>>
        /\ n <= rd[s] /\ wo # "died" =>
             Command!Has(go[d], <<s, n>>) \/ Command!Has(qu, <<s, n>>)
               \/ (li = <<s, n>> /\ Command!Has(le, d))
    BY DEF GotOf
  <2>2. li = <<s, n>> => n <= rd[s] /\ ~Command!Has(qu, li)
    BY DEF NextOf
  <2>3. (Command!Has(le, d) <=> d = e \/ Command!Has(Tail(le), d)) /\ ~Command!Has(Tail(le), e)
    BY FirstOfLeft
  <2>4. Command!Has(go2[d], <<s, n>>) <=>
          Command!Has(go[d], <<s, n>>) \/ (d = e /\ <<s, n>> = li)
    <3>1. CASE d = e
      <4>1. go2[d] = Append(go[d], li) /\ go[d] \in Seq(Command!Line)
        BY <3>1
      <4>2. \A l : Command!Has(Append(go[d], li), l) <=> Command!Has(go[d], l) \/ l = li
        BY <4>1, HasFacts
      <4>3. QED
        BY <3>1, <4>1, <4>2
    <3>2. CASE d # e
      BY <3>2
    <3>3. QED
      BY <3>1, <3>2
  <2> HIDE DEF e
  <2>5. QED
    BY ONLY <2>1, <2>2, <2>3, <2>4
<1>2. QED
  BY <1>1 DEF GotOf

\* What makes the lines of a delegate stay in order.
LEMMA LineIsInOrder ==
  ASSUME NEW go \in [Given -> Seq(Command!Line)], NEW d \in Given, NEW li \in Command!Line,
         NEW le \in Seq(Given), le # <<>>, Command!Has(le, d), NEW wo, wo # "died",
         NEW qu \in Seq(Element), NEW rd \in [Command!Streams -> Nat], QueueOf(qu, rd),
         NextOf(li, le, qu, rd), GotOf(go, li, le, qu, rd, wo), Command!InOrder(go[d])
  PROVE  Command!InOrder(Append(go[d], li))
<1> DEFINE old == go[d]
           new == Append(old, li)
           K == Len(old)
<1>1. /\ old \in Seq(Command!Line) /\ K \in Nat /\ DOMAIN old = 1..K
      /\ DOMAIN new = 1..(K + 1) /\ new[K + 1] = li
      /\ \A k \in 1..K : new[k] = old[k] /\ old[k] \in Command!Line
  BY AppendFacts, SeqFacts
<1>2. PICK s \in Command!Streams, n \in 1..MaxLines : li = <<s, n>>
  BY LineFacts
<1>3. /\ n <= rd[s] /\ ~Command!Has(qu, li)
      /\ \A q \in n+1..rd[s] : Command!Has(qu, <<s, q>>)
  BY <1>2 DEF NextOf
<1>4. /\ \A i \in 1..K : \A k \in 1..i-1 : old[k][1] = old[i][1] => old[k][2] < old[i][2]
      /\ \A i \in 1..K : old[i][2] > 1 =>
           \E k \in 1..i-1 : old[k] = <<old[i][1], old[i][2] - 1>>
  BY <1>1 DEF Command!InOrder
<1> HIDE DEF new, K
<1>5. ASSUME NEW k \in 1..K, old[k][1] = s
      PROVE  old[k][2] < n
  <2>1. PICK t \in Command!Streams, q \in 1..MaxLines : old[k] = <<t, q>>
    BY <1>1, LineFacts
  <2>2. t = s /\ Command!Has(go[d], <<s, q>>) /\ old[k][2] = q
    <3>1. <<t, q>>[1] = t /\ <<t, q>>[2] = q
      OBVIOUS
    <3>2. t = s /\ old[k][2] = q /\ k \in DOMAIN old
      BY <1>1, <1>5, <2>1, <3>1
    <3>3. Command!Has(old, old[k])
      BY <3>2 DEF Command!Has
    <3>4. QED
      BY <2>1, <3>2, <3>3
  <2>3. q <= rd[s] /\ ~Command!Has(qu, <<s, q>>) /\ li # <<s, q>>
    BY <2>2 DEF GotOf
  <2>4. q # n /\ q \notin n+1..rd[s]
    BY <1>2, <1>3, <2>3
  <2>5. QED
    BY <2>2, <2>3, <2>4
<1>6. ASSUME n > 1
      PROVE  \E k \in 1..K : old[k] = <<s, n - 1>>
  <2>1. n - 1 \in 1..MaxLines /\ n - 1 <= rd[s]
    BY <1>3, <1>6, DelegatesFacts
  <2>2. ASSUME Command!Has(qu, <<s, n - 1>>)
        PROVE  FALSE
    <3>1. PICK k \in DOMAIN qu : qu[k] = <<s, n - 1>>
      BY <2>2 DEF Command!Has
    <3>2. Queued(qu, rd, k, s, n - 1)
      BY <2>1, <3>1 DEF QueueOf
    <3>3. n \in (n-1)+1..rd[s]
      BY <1>3
    <3>4. PICK m \in k+1..Len(qu) : qu[m] = <<s, n>>
      BY <3>2, <3>3 DEF Queued
    <3>5. m \in DOMAIN qu
      BY <3>1, <3>4, SeqFacts
    <3>6. QED
      BY <1>2, <1>3, <3>4, <3>5 DEF Command!Has
  <2>3. Command!Has(go[d], <<s, n - 1>>)
    <3>1. n - 1 <= rd[s] /\ wo # "died" =>
             Command!Has(go[d], <<s, n - 1>>) \/ Command!Has(qu, <<s, n - 1>>)
               \/ (li = <<s, n - 1>> /\ Command!Has(le, d))
      BY <2>1 DEF GotOf
    <3>2. li # <<s, n - 1>>
      BY <1>2
    <3>3. QED
      BY <2>1, <2>2, <3>1, <3>2
  <2>4. QED
    BY <1>1, <2>3 DEF Command!Has
<1>7. ASSUME NEW i \in 1..(K + 1)
      PROVE  /\ \A k \in 1..i-1 : new[k][1] = new[i][1] => new[k][2] < new[i][2]
             /\ new[i][2] > 1 => \E k \in 1..i-1 : new[k] = <<new[i][1], new[i][2] - 1>>
  <2>1. CASE i \in 1..K
    <3>1. \A k \in 1..i-1 : k \in 1..K /\ new[k] = old[k]
      BY <1>1, <2>1
    <3>2. new[i] = old[i]
      BY <1>1, <2>1
    <3>3. /\ \A k \in 1..i-1 : old[k][1] = old[i][1] => old[k][2] < old[i][2]
          /\ old[i][2] > 1 => \E k \in 1..i-1 : old[k] = <<old[i][1], old[i][2] - 1>>
      BY <1>4, <2>1
    <3>4. QED
      BY <3>1, <3>2, <3>3
  <2>2. CASE i = K + 1
    <3>1. new[i] = <<s, n>> /\ new[i][1] = s /\ new[i][2] = n /\ i - 1 = K
      BY <1>1, <1>2, <2>2
    <3>2. \A k \in 1..i-1 : new[k] = old[k]
      BY <1>1, <3>1
    <3>3. QED
      BY <1>5, <1>6, <3>1, <3>2
  <2>3. QED
    BY <1>1, <2>1, <2>2
<1>8. Command!InOrder(new)
  BY <1>1, <1>7 DEF Command!InOrder
<1>9. QED
  BY <1>8 DEF new

LEMMA DelegatesStayClose ==
  Command!ThreadsOK /\ ChainOf(got, line, left, worker) /\ worker # "died" => Command!DelegatesAgree
<1> SUFFICES ASSUME Command!ThreadsOK, ChainOf(got, line, left, worker), worker # "died",
                    NEW i \in 1..(Len(CommandDelegates) - 1)
             PROVE  /\ Len(got[CommandDelegates[i]]) - Len(got[CommandDelegates[i + 1]]) \in {0, 1}
                    /\ \A k \in DOMAIN got[CommandDelegates[i + 1]] :
                         got[CommandDelegates[i + 1]][k] = got[CommandDelegates[i]][k]
  BY DEF Command!DelegatesAgree
<1> DEFINE f == got[CommandDelegates[i]]
           g == got[CommandDelegates[i + 1]]
<1>1. /\ f \in Seq(Element) /\ g \in Seq(Element) /\ line \in Element
      /\ \A S : Seq(Command!Line) \subseteq Seq(Command!Line \cup S)
  <2>1. /\ got \in [Given -> Seq(Command!Line)] /\ line \in Element
    BY DEF Command!ThreadsOK, Given, Element
  <2>2. CommandDelegates[i] \in Given /\ CommandDelegates[i + 1] \in Given
    BY NextDelegate, DelegatesFacts
  <2>3. \A S : Seq(Command!Line) \subseteq Seq(Command!Line \cup S)
    OBVIOUS
  <2>4. QED
    BY <2>1, <2>2, <2>3 DEF Element
<1>2. f = Append(g, line) \/ f = g
  BY DEF ChainOf
<1> HIDE DEF f, g
<1>3. CASE f = g
  BY <1>1, <1>3 DEF f, g
<1>4. CASE f = Append(g, line)
  <2>1. /\ Len(g) \in Nat /\ DOMAIN g = 1..Len(g) /\ Len(f) = Len(g) + 1
        /\ \A k \in 1..Len(g) : f[k] = g[k]
    BY <1>1, <1>4, AppendFacts
  <2>2. QED
    BY <2>1 DEF f, g
<1>5. QED
  BY <1>2, <1>3, <1>4

LEMMA DelegatesStayCloseNext ==
  (Command!ThreadsOK /\ ChainOf(got, line, left, worker) /\ worker # "died"
     => Command!DelegatesAgree)'
BY DelegatesStayClose, PTL

\* How much has been read.
LEMMA ReadFacts ==
  ASSUME Command!ThreadsOK, Command!PipeInOrder
  PROVE  /\ ReadSoFar \in [Command!Streams -> Nat]
         /\ \A s \in Command!Streams :
              /\ written[s] \in Nat /\ Len(pipe[s]) \in Nat /\ Len(pipe[s]) <= written[s]
              /\ written[s] <= MaxLines /\ pipe[s] \in Seq(Command!Line)
              /\ ReadSoFar[s] = written[s] - Len(pipe[s])
<1>1. /\ written \in [Command!Streams -> 0..MaxLines]
      /\ pipe \in [Command!Streams -> Seq(Command!Line)] /\ MaxLines \in Nat
  BY DelegatesFacts DEF Command!ThreadsOK
<1>2. ASSUME NEW s \in Command!Streams
      PROVE  /\ written[s] \in Nat /\ Len(pipe[s]) \in Nat /\ Len(pipe[s]) <= written[s]
             /\ written[s] <= MaxLines /\ pipe[s] \in Seq(Command!Line)
             /\ Command!Read(s) = written[s] - Len(pipe[s])
  <2>1. pipe[s] \in Seq(Command!Line) /\ written[s] \in 0..MaxLines
    BY <1>1
  <2>2. Len(pipe[s]) <= written[s]
    BY DEF Command!PipeInOrder
  <2>3. Len(pipe[s]) \in Nat
    BY <2>1, SeqFacts
  <2>4. QED
    BY <1>1, <2>1, <2>2, <2>3 DEF Command!Read
<1>3. QED
  BY <1>2 DEF ReadSoFar

LEMMA DataTypes ==
  Command!ThreadsOK =>
    /\ queue \in Seq(Element) /\ line \in Element /\ left \in Seq(Given)
    /\ got \in [Given -> Seq(Command!Line)] /\ (left # <<>> => line \in Command!Line)
BY DEF Command!ThreadsOK, Given, Element

\* A reader reads a line.
LEMMA NextReadLine ==
  ASSUME Command!IInv, NEW w \in Command!Streams, Command!ReadLine(w)
  PROVE  Command!IInv'
<1> DEFINE e == Head(pipe[w])
<1>1. /\ reader[w] = "reading" /\ pipe[w] # <<>>
      /\ pipe' = [pipe EXCEPT ![w] = Tail(pipe[w])] /\ queue' = Append(queue, e)
      /\ UNCHANGED <<child, other, written, reader, worker, line, left, got, main, failed,
                     escaped>>
  BY DEF Command!ReadLine, Command!processes, Command!worker_vars, Command!history
<1>2. Command!ThreadsOK /\ Command!PipeInOrder /\ Data /\ Command!ThreadsEnd /\ Command!WorkerStops
  BY DataIsKept
<1>3. /\ queue \in Seq(Element) /\ ReadSoFar \in [Command!Streams -> Nat]
      /\ pipe \in [Command!Streams -> Seq(Command!Line)]
  BY <1>2, DataTypes, ReadFacts DEF Command!ThreadsOK
<1>4. /\ pipe[w] \in Seq(Command!Line) /\ written[w] \in Nat /\ Len(pipe[w]) <= written[w]
      /\ ReadSoFar[w] = written[w] - Len(pipe[w])
  BY <1>2, ReadFacts
<1>5. /\ pipe'[w] = Tail(pipe[w])
      /\ \A s \in Command!Streams \ {w} : pipe'[s] = pipe[s]
  BY <1>1, <1>3
<1>6. /\ Tail(pipe[w]) \in Seq(Command!Line) /\ Len(pipe[w]) \in Nat /\ Len(pipe[w]) >= 1
      /\ DOMAIN pipe[w] = 1..Len(pipe[w]) /\ Len(pipe'[w]) = Len(pipe[w]) - 1
      /\ DOMAIN pipe'[w] = 1..(Len(pipe[w]) - 1)
      /\ \A k \in 1..(Len(pipe[w]) - 1) : pipe'[w][k] = pipe[w][k + 1]
      /\ e = pipe[w][1] /\ e \in Command!Line
  <2>1. /\ Tail(pipe[w]) \in Seq(Command!Line) /\ Len(pipe[w]) \in Nat /\ Len(pipe[w]) >= 1
        /\ DOMAIN pipe[w] = 1..Len(pipe[w]) /\ Len(Tail(pipe[w])) = Len(pipe[w]) - 1
        /\ DOMAIN Tail(pipe[w]) = 1..(Len(pipe[w]) - 1)
        /\ \A k \in 1..(Len(pipe[w]) - 1) : Tail(pipe[w])[k] = pipe[w][k + 1]
        /\ e = pipe[w][1] /\ e \in Command!Line
    BY ONLY <1>1, <1>4, TailFacts
  <2> HIDE DEF e
  <2>2. QED
    BY <1>5, <2>1
<1> HIDE DEF e
<1>7. \A k \in 1..Len(pipe[w]) : pipe[w][k] = <<w, ReadSoFar[w] + k>>
  BY <1>2, <1>6 DEF Command!PipeInOrder, ReadSoFar
<1>8. /\ ReadSoFar'[w] = ReadSoFar[w] + 1 /\ e = <<w, ReadSoFar'[w]>>
      /\ \A s \in Command!Streams \ {w} : ReadSoFar'[s] = ReadSoFar[s]
  <2>1. \A s \in Command!Streams : ReadSoFar'[s] = written[s] - Len(pipe'[s])
    BY <1>1 DEF ReadSoFar, Command!Read
  <2>2. ReadSoFar'[w] = ReadSoFar[w] + 1
    BY <1>4, <1>6, <2>1
  <2>3. \A s \in Command!Streams \ {w} : ReadSoFar'[s] = ReadSoFar[s]
    BY <1>5, <2>1 DEF ReadSoFar, Command!Read
  <2>4. e = <<w, ReadSoFar[w] + 1>>
    BY <1>6, <1>7
  <2>5. QED
    BY <2>2, <2>3, <2>4
<1>9. e \in Element /\ e # Command!Stop
  BY <1>6, LineFacts DEF Element
<1>10. Command!ThreadsOK'
  <2>1. pipe' \in [Command!Streams -> Seq(Command!Line)]
    BY <1>1, <1>3, <1>6
  <2>2. queue' \in Seq(Element)
    BY <1>1, <1>3, <1>9, AppendFacts
  <2>3. QED
    BY <1>1, <1>2, <2>1, <2>2 DEF Command!ThreadsOK, Element
<1>11. Command!PipeInOrder'
  <2>1. ASSUME NEW k \in 1..(Len(pipe[w]) - 1)
        PROVE  pipe'[w][k] = <<w, ReadSoFar'[w] + k>>
    <3>1. k + 1 \in 1..Len(pipe[w]) /\ pipe'[w][k] = pipe[w][k + 1]
          /\ ReadSoFar[w] + (k + 1) = ReadSoFar'[w] + k
      <4>1. ReadSoFar[w] \in Nat /\ ReadSoFar'[w] = ReadSoFar[w] + 1 /\ Len(pipe[w]) \in Nat
        BY <1>3, <1>6, <1>8
      <4>2. pipe'[w][k] = pipe[w][k + 1]
        BY <1>6
      <4>3. k \in Int /\ 1 <= k /\ k <= Len(pipe[w]) - 1
        BY <4>1
      <4>4. k + 1 \in 1..Len(pipe[w])
        BY <4>1, <4>3
      <4>5. ReadSoFar[w] + (k + 1) = ReadSoFar'[w] + k
        BY <4>1, <4>3
      <4>6. QED
        BY <4>2, <4>4, <4>5
    <3>2. QED
      BY <1>7, <3>1
  <2>2. ASSUME NEW s \in Command!Streams
        PROVE  /\ Len(pipe'[s]) <= written[s]
               /\ \A k \in DOMAIN pipe'[s] : pipe'[s][k] = <<s, ReadSoFar'[s] + k>>
    <3>1. CASE s = w
      <4>1. DOMAIN pipe'[w] = 1..(Len(pipe[w]) - 1)
        BY ONLY <1>6
      <4>2. \A k \in DOMAIN pipe'[w] : pipe'[w][k] = <<w, ReadSoFar'[w] + k>>
        BY ONLY <2>1, <4>1
      <4>3. Len(pipe'[w]) <= written[w]
        BY ONLY <1>4, <1>6
      <4>4. QED
        BY ONLY <3>1, <4>2, <4>3
    <3>2. CASE s # w
      <4>1. /\ Len(pipe[s]) <= written[s]
            /\ \A k \in DOMAIN pipe[s] : pipe[s][k] = <<s, ReadSoFar[s] + k>>
        BY <1>2 DEF Command!PipeInOrder, ReadSoFar
      <4>2. QED
        BY <1>5, <1>8, <3>2, <4>1
    <3>3. QED
      BY <3>1, <3>2
  <2>3. \A s \in Command!Streams : Command!Read(s)' = ReadSoFar'[s]
    BY DEF ReadSoFar
  <2>4. QED
    BY <1>1, <2>2, <2>3 DEF Command!PipeInOrder
<1>12. Data'
  <2>1. ReadSoFar' \in [Command!Streams -> Nat]
    <3>1. ASSUME NEW s \in Command!Streams
          PROVE  ReadSoFar'[s] \in Nat
      <4>1. ReadSoFar[s] \in Nat
        BY <1>3
      <4>2. ReadSoFar'[s] = ReadSoFar[s] + 1 \/ ReadSoFar'[s] = ReadSoFar[s]
        BY <1>8
      <4>3. QED
        BY <4>1, <4>2
    <3>2. QED
      BY <3>1 DEF ReadSoFar
  <2>2. QueueOf(queue, ReadSoFar) /\ NextOf(line, left, queue, ReadSoFar)
        /\ GotOf(got, line, left, queue, ReadSoFar, worker) /\ ChainOf(got, line, left, worker)
        /\ Command!LinesInOrder /\ Command!DelegatesAgree
    BY <1>2 DEF Data
  <2>3. PICK rd2 \in [Command!Streams -> Nat] : rd2 = ReadSoFar'
    BY <2>1
  <2>4. /\ rd2[w] = ReadSoFar[w] + 1 /\ e = <<w, rd2[w]>>
        /\ \A s \in Command!Streams \ {w} : rd2[s] = ReadSoFar[s]
    BY <1>8, <2>3
  <2>5. QueueOf(Append(queue, e), rd2)
    <3>1. queue \in Seq(Element) /\ ReadSoFar \in [Command!Streams -> Nat] /\ e \in Element
          /\ QueueOf(queue, ReadSoFar)
      BY <1>3, <1>9, <2>2
    <3>2. QED
      BY ONLY <2>4, <3>1, QueueGrows, w \in Command!Streams, rd2 \in [Command!Streams -> Nat]
  <2>6. NextOf(line, left, Append(queue, e), rd2)
        /\ GotOf(got, line, left, Append(queue, e), rd2, worker)
    BY <1>3, <1>9, <2>2, <2>4, LineIsRead
  <2>7. Command!LinesInOrder' /\ Command!DelegatesAgree'
    BY <1>1, <2>2 DEF Command!LinesInOrder, Command!DelegatesAgree, Command!InOrder
  <2>8. QED
    BY <1>1, <2>2, <2>3, <2>5, <2>6, <2>7 DEF Data
<1>13. Command!ThreadsEnd'
  <2>1. ASSUME NEW s \in Command!Streams, reader[s] = "done"
        PROVE  pipe'[s] = <<>> /\ child = "dead" /\ other # "running"
    <3>1. s # w /\ pipe[s] = <<>> /\ child = "dead" /\ other # "running"
      BY <1>1, <1>2, <2>1 DEF Command!ThreadsEnd
    <3>2. QED
      BY <1>5, <3>1
  <2>2. QED
    BY <1>1, <1>2, <2>1 DEF Command!ThreadsEnd, Command!Stopped
<1>14. Command!WorkerStops'
  <2>1. ~Command!Has(queue, Command!Stop) /\ worker # "done"
    BY <1>1, <1>2 DEF Command!WorkerStops
  <2>2. ~Command!Has(queue', Command!Stop)
    BY <1>1, <1>3, <1>9, <2>1, HasFacts
  <2>3. \A k \in DOMAIN queue' : queue'[k] # Command!Stop
    BY <2>2 DEF Command!Has
  <2>4. worker' # "running" => left' = <<>>
    BY <1>1, <1>2 DEF Command!WorkerStops
  <2>5. QED
    BY <1>1, <2>1, <2>2, <2>3, <2>4 DEF Command!WorkerStops
<1>15. QED
  BY <1>10, <1>11, <1>12, <1>13, <1>14, DataIsKeptNext

\* The worker takes an element from the queue.
LEMMA NextGet ==
  ASSUME Command!IInv, Command!Get
  PROVE  Command!IInv'
<1> DEFINE h == Head(queue)
<1>1. /\ worker = "running" /\ left = <<>> /\ queue # <<>> /\ queue' = Tail(queue)
      /\ IF h = Command!Stop THEN worker' = "done" /\ line' = line /\ left' = left
         ELSE line' = h /\ left' = CommandDelegates /\ worker' = worker
      /\ UNCHANGED <<child, other, written, pipe, reader, got, main, failed, escaped>>
  BY DEF Command!Get, Command!processes, Command!history
<1>2. Command!ThreadsOK /\ Command!PipeInOrder /\ Data /\ Command!ThreadsEnd /\ Command!WorkerStops
  BY DataIsKept
<1>3. /\ queue \in Seq(Element) /\ line \in Element /\ left \in Seq(Given)
      /\ ReadSoFar \in [Command!Streams -> Nat]
  BY <1>2, DataTypes, ReadFacts
<1>4. /\ Tail(queue) \in Seq(Element) /\ Len(queue) \in Nat /\ Len(queue) >= 1
      /\ DOMAIN queue = 1..Len(queue) /\ Len(Tail(queue)) = Len(queue) - 1
      /\ DOMAIN Tail(queue) = 1..(Len(queue) - 1)
      /\ \A k \in 1..(Len(queue) - 1) : Tail(queue)[k] = queue[k + 1]
      /\ h = queue[1] /\ h \in Element
  BY ONLY <1>1, <1>3, TailFacts
<1>5. ReadSoFar' = ReadSoFar
  BY <1>1 DEF ReadSoFar, Command!Read
<1>6. \A l : Command!Has(queue, l) <=> l = h \/ Command!Has(Tail(queue), l)
  BY <1>1, <1>3, <1>4, HasFacts
<1> HIDE DEF h
<1>7. \A k \in DOMAIN queue : queue[k] = Command!Stop => k = Len(queue)
  BY <1>2 DEF Command!WorkerStops
<1>8. h = Command!Stop => Tail(queue) = <<>>
  <2>1. SUFFICES ASSUME h = Command!Stop
                 PROVE  Tail(queue) = <<>>
    OBVIOUS
  <2>2. 1 = Len(queue)
    <3>1. 1 \in DOMAIN queue /\ queue[1] = Command!Stop
      BY <1>4, <2>1
    <3>2. QED
      BY <1>7, <3>1
  <2>3. QED
    BY <1>4, <2>2, SeqFacts
<1>9. h # Command!Stop => h \in Command!Line
  BY <1>4 DEF Element
<1>10. Command!ThreadsOK'
  <2>1. left' \in Seq(Given) /\ line' \in Element
    BY <1>1, <1>3, <1>4, DelegatesFacts
  <2>2. left' # <<>> => line' \in Command!Line
    BY <1>1, <1>9
  <2>3. worker' \in {"none", "running", "done", "died"}
    BY <1>1
  <2>4. QED
    BY <1>1, <1>2, <1>4, <2>1, <2>2, <2>3 DEF Command!ThreadsOK, Element, Given
<1>11. Command!PipeInOrder'
  BY <1>1, <1>2 DEF Command!PipeInOrder, Command!Read
<1>12. Data'
  <2>1. QueueOf(queue, ReadSoFar)
        /\ GotOf(got, line, <<>>, queue, ReadSoFar, worker) /\ ChainOf(got, line, <<>>, worker)
        /\ Command!LinesInOrder /\ Command!DelegatesAgree
    BY <1>1, <1>2 DEF Data
  <2>2. QueueOf(Tail(queue), ReadSoFar)
    BY <1>1, <1>3, <2>1, QueueShrinks
  <2>3. /\ h # Command!Stop =>
             /\ NextOf(h, CommandDelegates, Tail(queue), ReadSoFar)
             /\ GotOf(got, h, CommandDelegates, Tail(queue), ReadSoFar, worker)
        /\ h = Command!Stop => GotOf(got, line, <<>>, Tail(queue), ReadSoFar, worker)
    BY <1>1, <1>3, <2>1, ElementIsTaken DEF h
  <2>4. Command!LinesInOrder' /\ Command!DelegatesAgree'
    BY <1>1, <2>1 DEF Command!LinesInOrder, Command!DelegatesAgree, Command!InOrder
  <2>5. CASE h = Command!Stop
    <3>1. left' = <<>> /\ line' = line /\ worker' = "done" /\ worker = "running"
      BY <1>1, <2>5
    <3>2. NextOf(line', left', queue', ReadSoFar')
      BY <3>1 DEF NextOf
    <3>3. GotOf(got', line', left', queue', ReadSoFar', worker')
      <4>1. GotOf(got, line, <<>>, Tail(queue), ReadSoFar, "running")
        BY <2>3, <2>5, <3>1
      <4>2. GotOf(got, line, <<>>, Tail(queue), ReadSoFar, "done")
        BY <4>1 DEF GotOf
      <4>3. QED
        BY <1>1, <1>5, <3>1, <4>2
    <3>4. ChainOf(got', line', left', worker')
      <4>1. ChainOf(got, line, <<>>, "running")
        BY <2>1, <3>1
      <4>2. ChainOf(got, line, <<>>, "done")
        BY <4>1 DEF ChainOf
      <4>3. QED
        BY <1>1, <3>1, <4>2
    <3>5. QED
      BY <1>1, <1>5, <2>2, <2>4, <3>2, <3>3, <3>4 DEF Data
  <2>6. CASE h # Command!Stop
    <3>1. left' = CommandDelegates /\ line' = h /\ worker' = worker /\ worker = "running"
      BY <1>1, <2>6
    <3>2. ChainOf(got, h, CommandDelegates, worker)
      <4> DEFINE N == Len(CommandDelegates)
      <4>1. /\ N \in Nat /\ N <= N /\ N - N = 0 /\ Len(<<>>) = 0 /\ N - Len(<<>>) = N
            /\ \A i \in 1..(N - 1) : i # N /\ i # 0
            /\ \A k \in DOMAIN CommandDelegates : 0 + k = k
        <5>1. N \in Nat /\ DOMAIN CommandDelegates = 1..N
          BY DelegatesFacts
        <5> HIDE DEF N
        <5>2. Len(<<>>) = 0
          OBVIOUS
        <5>3. QED
          BY <5>1, <5>2
      <4>2. \A i \in 1..(N - 1) : got[CommandDelegates[i]] = got[CommandDelegates[i + 1]]
        BY <2>1, <3>1, <4>1 DEF ChainOf
      <4>3. QED
        BY <3>1, <4>1, <4>2 DEF ChainOf
    <3>3. QED
      BY <1>1, <1>5, <2>2, <2>3, <2>4, <2>6, <3>1, <3>2 DEF Data
  <2>7. QED
    BY <2>5, <2>6
<1>13. Command!ThreadsEnd'
  <2>1. worker' # "none" /\ (worker' = "running" => worker = "running")
    BY <1>1
  <2>2. QED
    BY <1>1, <1>2, <2>1 DEF Command!ThreadsEnd, Command!Stopped
<1>14. Command!WorkerStops'
  <2>1. Command!Has(queue', Command!Stop) \/ worker' = "done" => Command!Has(queue, Command!Stop)
    BY <1>1, <1>6
  <2>2. Command!Has(queue', Command!Stop) \/ worker' = "done" =>
          /\ main' \in {"join_worker", "end"} \cup Command!Over
          /\ \A s \in Command!Streams : reader'[s] # "reading"
    BY <1>1, <1>2, <2>1 DEF Command!WorkerStops
  <2>3. ASSUME NEW k \in DOMAIN queue', queue'[k] = Command!Stop
        PROVE  k = Len(queue')
    <3>1. k \in 1..(Len(queue) - 1) /\ queue[k + 1] = Command!Stop /\ k + 1 \in DOMAIN queue
      BY <1>1, <1>4, <2>3
    <3>2. k + 1 = Len(queue)
      BY <1>7, <3>1
    <3>3. QED
      BY <1>1, <1>4, <3>1, <3>2
  <2>4. worker' # "running" => left' = <<>>
    BY <1>1
  <2>5. worker' = "done" => queue' = <<>>
    BY <1>1, <1>8
  <2>6. QED
    BY <2>2, <2>3, <2>4, <2>5 DEF Command!WorkerStops
<1>15. QED
  BY <1>10, <1>11, <1>12, <1>13, <1>14, DataIsKeptNext

\* A delegate gets the line or fails.
LEMMA NextOnLine ==
  ASSUME Command!IInv, Command!OnLine
  PROVE  Command!IInv'
<1> DEFINE e == Head(left)
<1>1. /\ worker = "running" /\ left # <<>>
      /\ UNCHANGED <<child, other, written, pipe, reader, queue, line, main, failed, escaped>>
      /\ \/ /\ got' = [got EXCEPT ![e] = Append(got[e], line)]
            /\ left' = Tail(left) /\ worker' = worker
         \/ /\ worker' = "died" /\ left' = <<>> /\ got' = got
  BY DEF Command!OnLine, Command!processes, Command!history
<1>2. Command!ThreadsOK /\ Command!PipeInOrder /\ Data /\ Command!ThreadsEnd /\ Command!WorkerStops
  BY DataIsKept
<1>3. /\ queue \in Seq(Element) /\ line \in Command!Line /\ left \in Seq(Given)
      /\ got \in [Given -> Seq(Command!Line)]
      /\ ReadSoFar \in [Command!Streams -> Nat]
  BY <1>1, <1>2, DataTypes, ReadFacts
<1>4. e \in Given /\ Tail(left) \in Seq(Given) /\ Command!Has(left, e)
  <2>1. e \in Given /\ Tail(left) \in Seq(Given) /\ e = left[1] /\ 1 \in DOMAIN left
    BY ONLY <1>1, <1>3, TailFacts
  <2>2. QED
    BY <2>1 DEF Command!Has
<1>5. ReadSoFar' = ReadSoFar
  BY <1>1 DEF ReadSoFar, Command!Read
<1>6. Command!PipeInOrder'
  BY <1>1, <1>2 DEF Command!PipeInOrder, Command!Read
<1>7. /\ QueueOf(queue, ReadSoFar) /\ NextOf(line, left, queue, ReadSoFar)
      /\ GotOf(got, line, left, queue, ReadSoFar, worker) /\ ChainOf(got, line, left, worker)
      /\ Command!LinesInOrder /\ Command!DelegatesAgree
  BY <1>2 DEF Data
<1>8. Command!ThreadsEnd'
  <2>1. worker' # "none" /\ (worker' = "running" => worker = "running")
    BY <1>1
  <2>2. QED
    BY <1>1, <1>2, <2>1 DEF Command!ThreadsEnd, Command!Stopped
<1>9. Command!WorkerStops'
  <2>1. worker' # "done" /\ (worker' # "running" => left' = <<>>)
    BY <1>1
  <2>2. QED
    BY <1>1, <1>2, <2>1 DEF Command!WorkerStops, Command!Has
<1>10. CASE /\ got' = [got EXCEPT ![e] = Append(got[e], line)]
            /\ left' = Tail(left) /\ worker' = worker
  <2>1. /\ got' \in [Given -> Seq(Command!Line)] /\ got'[e] = Append(got[e], line)
        /\ \A d \in Given \ {e} : got'[d] = got[d]
    <3>1. Append(got[e], line) \in Seq(Command!Line)
      BY <1>3, <1>4, AppendFacts
    <3> HIDE DEF e
    <3>2. QED
      BY <1>3, <1>4, <1>10, <3>1
  <2>2. Command!ThreadsOK'
    <3>1. left' \in Seq(Given) /\ line' \in Command!Line /\ worker' = "running"
      BY <1>1, <1>3, <1>4, <1>10
    <3>2. QED
      BY <1>1, <1>2, <2>1, <3>1 DEF Command!ThreadsOK, Given
  <2>3. PICK go2 \in [Given -> Seq(Command!Line)] : go2 = got'
    BY <2>1
  <2>4. go2[Head(left)] = Append(got[Head(left)], line) /\ \A d \in Given \ {Head(left)} : go2[d] = got[d]
    BY <2>1, <2>3
  <2>5. worker # "died"
    BY <1>1
  <2>6. ChainOf(go2, line, Tail(left), worker)
    BY <1>1, <1>3, <1>7, <2>4, <2>5, LineIsPassedOn
  <2>7. GotOf(go2, line, Tail(left), queue, ReadSoFar, worker)
    BY <1>1, <1>3, <1>7, <2>4, <2>5, LineIsGot
  <2>8. NextOf(line, Tail(left), queue, ReadSoFar)
    BY <1>1, <1>7 DEF NextOf
  <2>9. Command!LinesInOrder'
    <3>1. ASSUME NEW d \in Given
          PROVE  Command!InOrder(go2[d])
      <4>1. Command!InOrder(got[d])
        BY <1>7 DEF Command!LinesInOrder, Given
      <4>2. CASE d = e
        <5>1. Command!InOrder(Append(got[e], line))
          BY <1>1, <1>3, <1>4, <1>7, <2>5, <4>1, <4>2, LineIsInOrder
        <5>2. QED
          BY <2>4, <4>2, <5>1
      <4>3. CASE d # e
        BY <2>4, <4>1, <4>3
      <4>4. QED
        BY <4>2, <4>3
    <3>2. \A d \in Given : Command!InOrder(got'[d])
      BY <2>3, <3>1
    <3>3. QED
      BY <3>2 DEF Command!LinesInOrder, Command!InOrder, Given
  <2>10. ChainOf(got', line', left', worker') /\ worker' # "died"
    BY <1>1, <1>10, <2>3, <2>6
  <2>11. Command!DelegatesAgree'
    BY <2>2, <2>10, DelegatesStayCloseNext
  <2>12. Data'
    BY <1>1, <1>5, <1>7, <1>10, <2>3, <2>7, <2>8, <2>9, <2>10, <2>11 DEF Data
  <2>13. QED
    BY <1>6, <1>8, <1>9, <2>2, <2>12, DataIsKeptNext
<1>11. CASE worker' = "died" /\ left' = <<>> /\ got' = got
  <2>1. Command!ThreadsOK'
    <3>1. left' \in Seq(Given)
      BY <1>11
    <3>2. QED
      BY <1>1, <1>2, <1>11, <3>1 DEF Command!ThreadsOK, Given
  <2>2. NextOf(line, <<>>, queue, ReadSoFar)
    BY DEF NextOf
  <2>3. GotOf(got, line, <<>>, queue, ReadSoFar, "died")
    <3>1. \A d : ~Command!Has(<<>>, d)
      BY DEF Command!Has
    <3>2. QED
      BY <1>7, <3>1 DEF GotOf
  <2>4. ChainOf(got, line, <<>>, "died")
    BY DelegatesFacts DEF ChainOf
  <2>5. Command!LinesInOrder' /\ Command!DelegatesAgree'
    BY <1>7, <1>11 DEF Command!LinesInOrder, Command!DelegatesAgree, Command!InOrder
  <2>6. Data'
    BY <1>1, <1>5, <1>7, <1>11, <2>2, <2>3, <2>4, <2>5 DEF Data
  <2>7. QED
    BY <1>6, <1>8, <1>9, <2>1, <2>6, DataIsKeptNext
<1>12. QED
  BY <1>1, <1>10, <1>11

\* What the command does besides writing, and how call() goes on.
LEMMA NextEnvironment ==
  ASSUME Command!IInv, Command!LeaveBehind \/ Command!ChildExits \/ Command!OtherExits
  PROVE  Command!IInv'
<1>1. /\ UNCHANGED <<written, pipe, reader, queue, worker, line, left, got, main, failed, escaped>>
      /\ child' \in {"running", "dead"} /\ other' \in {"running", "dead", other}
      /\ child # "none" /\ (child' = "running" => child = "running")
      /\ (other' = "running" => other = "running" \/ child = "running")
      /\ (child = "dead" => child' = "dead")
  <2>1. Command!LeaveBehind => child' = child /\ child = "running" /\ other' = "running"
    BY DEF Command!LeaveBehind
  <2>2. Command!ChildExits => child' = "dead" /\ child = "running" /\ other' = other
    BY DEF Command!ChildExits
  <2>3. Command!OtherExits => child' = child /\ other = "running" /\ other' = "dead"
    BY DEF Command!OtherExits
  <2>4. other = "running" => child # "none"
    BY DEF Command!IInv, Command!ThreadsEnd
  <2>5. child \in {"none", "running", "dead"}
    BY DEF Command!IInv, Command!ThreadsOK
  <2>6. UNCHANGED <<written, pipe, reader, queue, worker, line, left, got, main, failed, escaped>>
    BY DEF Command!LeaveBehind, Command!ChildExits, Command!OtherExits, Command!threads,
           Command!worker_vars, Command!history
  <2>7. QED
    BY ONLY <2>1, <2>2, <2>3, <2>4, <2>5, <2>6,
            Command!LeaveBehind \/ Command!ChildExits \/ Command!OtherExits
<1>2. Command!ThreadsOK /\ Command!PipeInOrder /\ Data /\ Command!ThreadsEnd /\ Command!WorkerStops
  BY DataIsKept
<1>3. Command!ThreadsOK' /\ Command!PipeInOrder'
  BY <1>1, <1>2 DEF Command!ThreadsOK, Command!PipeInOrder, Command!Read
<1>4. Data'
  <2>1. ReadSoFar' = ReadSoFar
    BY <1>1 DEF ReadSoFar, Command!Read
  <2>2. QED
    BY <1>1, <1>2, <2>1, SameData
<1>5. Command!ThreadsEnd'
  <2>1. \A s \in Command!Streams :
          reader[s] = "done" => pipe[s] = <<>> /\ child = "dead" /\ other # "running"
    BY <1>2 DEF Command!ThreadsEnd
  <2>2. \A s \in Command!Streams :
          reader'[s] = "done" => pipe'[s] = <<>> /\ child' = "dead" /\ other' # "running"
    BY <1>1, <2>1
  <2>3. QED
    BY <1>1, <1>2, <2>2 DEF Command!ThreadsEnd, Command!Stopped
<1>6. Command!WorkerStops'
  BY <1>1, <1>2 DEF Command!WorkerStops, Command!Has
<1>7. QED
  BY <1>3, <1>4, <1>5, <1>6, DataIsKeptNext

LEMMA NextReadEnd ==
  ASSUME Command!IInv, NEW w \in Command!Streams, Command!ReadEnd(w)
  PROVE  Command!IInv'
<1>1. /\ reader[w] = "reading" /\ pipe[w] = <<>> /\ child # "running" /\ other # "running"
      /\ reader' = [reader EXCEPT ![w] = "done"]
      /\ UNCHANGED <<child, other, written, pipe, queue, worker, line, left, got, main, failed,
                     escaped>>
  BY DEF Command!ReadEnd, Command!EndOfFile, Command!processes, Command!worker_vars,
         Command!history
<1>2. Command!ThreadsOK /\ Command!PipeInOrder /\ Data /\ Command!ThreadsEnd /\ Command!WorkerStops
  BY DataIsKept
<1>3. reader \in [Command!Streams -> {"none", "reading", "done"}] /\ child # "none"
      /\ child \in {"none", "running", "dead"}
  BY <1>1, <1>2 DEF Command!ThreadsOK, Command!ThreadsEnd
<1>4. /\ reader'[w] = "done" /\ \A s \in Command!Streams \ {w} : reader'[s] = reader[s]
      /\ reader' \in [Command!Streams -> {"none", "reading", "done"}]
  BY <1>1, <1>3
<1>5. Command!ThreadsOK' /\ Command!PipeInOrder' /\ Data'
  <2>1. ReadSoFar' = ReadSoFar
    BY <1>1 DEF ReadSoFar, Command!Read
  <2>2. Data'
    BY <1>1, <1>2, <2>1, SameData
  <2>3. QED
    BY <1>1, <1>2, <1>4, <2>2 DEF Command!ThreadsOK, Command!PipeInOrder, Command!Read
<1>6. Command!ThreadsEnd'
  <2>1. ASSUME NEW s \in Command!Streams
        PROVE  /\ reader'[s] = "done" => pipe[s] = <<>> /\ child = "dead" /\ other # "running"
               /\ reader'[s] = "reading" => reader[s] = "reading"
               /\ reader'[s] = "none" => reader[s] = "none"
    <3>1. CASE s = w
      BY <1>1, <1>3, <1>4, <3>1
    <3>2. CASE s # w
      BY <1>2, <1>4, <3>2 DEF Command!ThreadsEnd
    <3>3. QED
      BY <3>1, <3>2
  <2>2. QED
    BY <1>1, <1>2, <1>3, <2>1 DEF Command!ThreadsEnd, Command!Stopped, Command!Streams
<1>7. Command!WorkerStops'
  <2>1. \A s \in Command!Streams : reader'[s] = "reading" => reader[s] = "reading"
    BY <1>1, <1>4
  <2>2. QED
    BY <1>1, <1>2, <2>1 DEF Command!WorkerStops, Command!Has
<1>8. QED
  BY <1>5, <1>6, <1>7, DataIsKeptNext

LEMMA NextStopWorker ==
  ASSUME Command!IInv, Command!StopWorker
  PROVE  Command!IInv'
<1>1. /\ main = "stop_worker" /\ main' = "join_worker"
      /\ queue' = IF child = "none" THEN queue ELSE Append(queue, Command!Stop)
      /\ UNCHANGED <<child, other, written, pipe, reader, worker, line, left, got, failed, escaped>>
  BY DEF Command!StopWorker, Command!At, Command!processes, Command!worker_vars, Command!history
<1>2. Command!ThreadsOK /\ Command!PipeInOrder /\ Data /\ Command!ThreadsEnd /\ Command!WorkerStops
  BY DataIsKept
<1>3. queue \in Seq(Element) /\ Command!Stop \in Element /\ ReadSoFar \in [Command!Streams -> Nat]
  BY <1>2, DataTypes, ReadFacts DEF Element
<1>4. /\ Append(queue, Command!Stop) \in Seq(Element)
      /\ Len(queue) \in Nat /\ DOMAIN queue = 1..Len(queue)
      /\ DOMAIN Append(queue, Command!Stop) = 1..(Len(queue) + 1)
      /\ Len(Append(queue, Command!Stop)) = Len(queue) + 1
      /\ \A k \in 1..Len(queue) : Append(queue, Command!Stop)[k] = queue[k]
  BY ONLY <1>3, AppendFacts
<1>5. \A l : Command!Has(Append(queue, Command!Stop), l) <=>
               Command!Has(queue, l) \/ l = Command!Stop
  BY <1>3, HasFacts
<1>6. ReadSoFar' = ReadSoFar
  BY <1>1 DEF ReadSoFar, Command!Read
<1>7. ~Command!Has(queue, Command!Stop) /\ worker # "done"
  BY <1>1, <1>2 DEF Command!WorkerStops, Command!Over
<1>8. Command!ThreadsOK' /\ Command!PipeInOrder'
  <2>1. queue' \in Seq(Element)
    BY <1>1, <1>3, <1>4
  <2>2. QED
    BY <1>1, <1>2, <2>1 DEF Command!ThreadsOK, Command!PipeInOrder, Command!Read, Element
<1>9. Data'
  <2>1. CASE child = "none"
    BY <1>1, <1>2, <1>6, <2>1, SameData
  <2>2. CASE child # "none"
    <3>1. /\ QueueOf(queue, ReadSoFar) /\ NextOf(line, left, queue, ReadSoFar)
          /\ GotOf(got, line, left, queue, ReadSoFar, worker) /\ ChainOf(got, line, left, worker)
          /\ Command!LinesInOrder /\ Command!DelegatesAgree
      BY <1>2 DEF Data
    <3>2. queue' = Append(queue, Command!Stop)
      BY <1>1, <2>2
    <3>3. QueueOf(queue', ReadSoFar)
      BY <1>3, <3>1, <3>2, QueueStops
    <3>4. \A s \in Command!Streams, n \in 1..MaxLines :
            Command!Has(queue', <<s, n>>) <=> Command!Has(queue, <<s, n>>)
      <4>1. \A s \in Command!Streams, n \in 1..MaxLines : <<s, n>> # Command!Stop
        BY LineFacts
      <4>2. QED
        BY <1>5, <3>2, <4>1
    <3>5. NextOf(line, left, queue', ReadSoFar)
      <4>1. SUFFICES ASSUME left # <<>>, NEW s \in Command!Streams, NEW n \in 1..MaxLines, line = <<s, n>>
                     PROVE  /\ n <= ReadSoFar[s] /\ ~Command!Has(queue', line)
                            /\ \A q \in n+1..ReadSoFar[s] : Command!Has(queue', <<s, q>>)
        BY DEF NextOf
      <4>2. /\ n <= ReadSoFar[s] /\ ~Command!Has(queue, line)
            /\ \A q \in n+1..ReadSoFar[s] : Command!Has(queue, <<s, q>>)
        BY <3>1, <4>1 DEF NextOf
      <4>3. QED
        BY <1>5, <3>2, <3>4, <4>1, <4>2
    <3>6. GotOf(got, line, left, queue', ReadSoFar, worker)
      BY <3>1, <3>4 DEF GotOf
    <3>7. Command!LinesInOrder' /\ Command!DelegatesAgree'
      BY <1>1, <3>1 DEF Command!LinesInOrder, Command!DelegatesAgree, Command!InOrder
    <3>8. QED
      BY <1>1, <1>6, <3>1, <3>3, <3>5, <3>6, <3>7 DEF Data
  <2>3. QED
    BY <2>1, <2>2
<1>10. Command!ThreadsEnd'
  BY <1>1, <1>2 DEF Command!ThreadsEnd, Command!Stopped, Command!Finally, Command!Starting
<1>11. Command!WorkerStops'
  <2>1. reader["stdout"] # "reading" /\ reader["stderr"] # "reading"
    BY <1>1, <1>2 DEF Command!ThreadsEnd, Command!Stopped, Command!Finally, Command!Starting
  <2>2. \A k \in DOMAIN queue : queue[k] # Command!Stop
    BY <1>7 DEF Command!Has
  <2>3. \A k \in DOMAIN queue' : queue'[k] = Command!Stop => k = Len(queue')
    <3>1. CASE child = "none"
      <4>1. queue' = queue
        BY <1>1, <3>1
      <4>2. QED
        BY <2>2, <4>1
    <3>2. CASE child # "none"
      <4>1. queue' = Append(queue, Command!Stop)
        BY <1>1, <3>2
      <4>2. \A k \in 1..(Len(queue) + 1) : k # Len(queue) + 1 => k \in 1..Len(queue)
        BY <1>4
      <4>3. \A k \in 1..Len(queue) : queue'[k] # Command!Stop
        BY <1>4, <2>2, <4>1
      <4>4. DOMAIN queue' = 1..(Len(queue) + 1) /\ Len(queue') = Len(queue) + 1
        BY <1>4, <4>1
      <4>5. QED
        BY <4>2, <4>3, <4>4
    <3>3. QED
      BY <3>1, <3>2
  <2>4. \A s \in Command!Streams : reader'[s] # "reading"
    BY <1>1, <2>1 DEF Command!Streams
  <2>5. QED
    BY <1>1, <1>2, <1>7, <2>3, <2>4 DEF Command!WorkerStops
<1>12. QED
  BY <1>8, <1>9, <1>10, <1>11, DataIsKeptNext

\* A step of call() moves no line.
LEMMA Quiet ==
  ASSUME Command!ThreadsOK, Command!PipeInOrder, Data,
         UNCHANGED <<written, pipe, queue, line, left, got>>,
         worker' = worker \/ (worker = "none" /\ worker' = "running"),
         child' \in {"none", "running", "dead"}, other' = other,
         reader' \in [Command!Streams -> {"none", "reading", "done"}]
  PROVE  Command!ThreadsOK' /\ Command!PipeInOrder' /\ Data'
<1>1. Command!ThreadsOK'
  BY DEF Command!ThreadsOK
<1>2. Command!PipeInOrder'
  BY DEF Command!PipeInOrder, Command!Read
<1>3. ReadSoFar' = ReadSoFar
  BY DEF ReadSoFar, Command!Read
<1>4. QED
  BY <1>1, <1>2, <1>3, SameData

LEMMA NextCaller ==
  ASSUME Command!IInv,
         Command!OnBegin \/ Command!Popen \/ Command!StartThreads \/ Command!Wait
           \/ Command!Kill \/ Command!Join \/ Command!OnEnd \/ Command!Interrupt
  PROVE  Command!IInv'
<1>1. Command!ThreadsOK /\ Command!PipeInOrder /\ Data /\ Command!ThreadsEnd /\ Command!WorkerStops
  BY DataIsKept
<1>2. /\ child \in {"none", "running", "dead"} /\ worker \in {"none", "running", "done", "died"}
      /\ reader \in [Command!Streams -> {"none", "reading", "done"}]
  BY <1>1 DEF Command!ThreadsOK
<1> DEFINE Same == UNCHANGED <<written, pipe, queue, line, left, got>> /\ other' = other
           OK == Command!ThreadsEnd' /\ Command!WorkerStops'
<1>3. ASSUME Same, OK, worker' = worker \/ (worker = "none" /\ worker' = "running"),
             child' \in {"none", "running", "dead"},
             reader' \in [Command!Streams -> {"none", "reading", "done"}]
      PROVE  Command!IInv'
  BY <1>1, <1>3, Quiet, DataIsKeptNext
<1> USE DEF Command!ThreadsEnd, Command!WorkerStops, Command!Stopped, Command!Finally,
            Command!Starting, Command!Over, Command!Has, Command!At, Command!processes,
            Command!threads, Command!worker_vars, Command!history, Command!Streams
<1>4. CASE Command!OnBegin
  <2>1. Same /\ UNCHANGED <<worker, child, reader>>
    BY <1>4 DEF Command!OnBegin
  <2>2. OK
    BY <1>1, <1>4 DEF Command!OnBegin
  <2>3. QED
    BY ONLY <1>2, <1>3, <2>1, <2>2
<1>5. CASE Command!Popen
  <2>1. Same /\ UNCHANGED <<worker, reader>> /\ child' \in {"running", child}
    BY <1>5 DEF Command!Popen
  <2>2. OK
    BY <1>1, <1>5 DEF Command!Popen
  <2>3. QED
    BY ONLY <1>2, <1>3, <2>1, <2>2
<1>6. CASE Command!StartThreads
  <2>1. Same /\ UNCHANGED child
    BY <1>6 DEF Command!StartThreads
  <2>2. worker' = worker \/ (worker = "none" /\ worker' = "running")
    BY <1>1, <1>6 DEF Command!StartThreads
  <2>3. reader' \in [Command!Streams -> {"none", "reading", "done"}]
    BY <1>2, <1>6 DEF Command!StartThreads
  <2>4. UNCHANGED <<child, other, pipe, queue, left, failed, escaped>>
    BY <1>6 DEF Command!StartThreads
  <2>5. \/ main = "start_worker" /\ main' = "start_stdout" /\ worker' = "running" /\ reader' = reader
        \/ /\ main = "start_stdout" /\ main' = "start_stderr" /\ worker' = worker
           /\ reader' = [reader EXCEPT !["stdout"] = "reading"]
        \/ /\ main = "start_stderr" /\ main' = "wait" /\ worker' = worker
           /\ reader' = [reader EXCEPT !["stderr"] = "reading"]
    BY <1>6 DEF Command!StartThreads
  <2>6. OK
    <3>1. CASE main = "start_worker"
      BY <1>1, <1>2, <2>4, <2>5, <3>1
    <3>2. CASE main = "start_stdout"
      <4>1. reader'["stdout"] = "reading" /\ reader'["stderr"] = reader["stderr"]
        BY <1>2, <2>5, <3>2
      <4>2. Command!ThreadsEnd'
        BY <1>1, <2>4, <2>5, <3>2, <4>1
      <4>3. Command!WorkerStops'
        BY <1>1, <2>4, <2>5, <3>2
      <4>4. QED
        BY <4>2, <4>3
    <3>3. CASE main = "start_stderr"
      <4>1. reader'["stderr"] = "reading" /\ reader'["stdout"] = reader["stdout"]
        BY <1>2, <2>5, <3>3
      <4>2. Command!ThreadsEnd'
        BY <1>1, <2>4, <2>5, <3>3, <4>1
      <4>3. Command!WorkerStops'
        BY <1>1, <2>4, <2>5, <3>3
      <4>4. QED
        BY <4>2, <4>3
    <3>4. QED
      BY <2>5, <3>1, <3>2, <3>3
  <2>7. QED
    BY ONLY <1>2, <1>3, <2>1, <2>2, <2>3, <2>6
<1>7. CASE Command!Wait
  <2>1. Same /\ UNCHANGED <<worker, child, reader>>
    BY <1>7 DEF Command!Wait
  <2>2. OK
    BY <1>1, <1>7 DEF Command!Wait
  <2>3. QED
    BY ONLY <1>2, <1>3, <2>1, <2>2
<1>8. CASE Command!Kill
  <2>1. Same /\ UNCHANGED <<worker, reader>> /\ child' \in {"dead", child}
    BY <1>8 DEF Command!Kill
  <2>2. OK
    BY <1>1, <1>2, <1>8 DEF Command!Kill
  <2>3. QED
    BY ONLY <1>2, <1>3, <2>1, <2>2
<1>9. CASE Command!Join
  <2>1. Same /\ UNCHANGED <<worker, child, reader>>
    BY <1>9 DEF Command!Join
  <2>2. OK
    BY <1>1, <1>2, <1>9 DEF Command!Join
  <2>3. QED
    BY ONLY <1>2, <1>3, <2>1, <2>2
<1>10. CASE Command!OnEnd
  <2>1. Same /\ UNCHANGED <<worker, child, reader>>
    BY <1>10 DEF Command!OnEnd
  <2>2. OK
    BY <1>1, <1>2, <1>10 DEF Command!OnEnd
  <2>3. QED
    BY ONLY <1>2, <1>3, <2>1, <2>2
<1>11. CASE Command!Interrupt
  <2>1. Same /\ UNCHANGED <<worker, child, reader>>
    BY <1>11 DEF Command!Interrupt
  <2>2. OK
    <3>1. UNCHANGED <<child, other, pipe, reader, queue, worker, left>>
      BY <1>11 DEF Command!Interrupt
    <3>2. \/ main = "wait" /\ main' = main /\ failed' = failed /\ escaped' = escaped
          \/ /\ main \in {"popen", "start_worker", "start_stdout", "start_stderr"}
             /\ main' = "kill" /\ failed' = TRUE /\ escaped' = escaped
          \/ main \notin Command!Over /\ main' = "raised" /\ escaped' = TRUE /\ failed' = failed
      BY <1>11 DEF Command!Interrupt
    <3>3. CASE main = "wait" /\ main' = main /\ failed' = failed /\ escaped' = escaped
      BY <1>1, <3>1, <3>3
    <3>4. CASE /\ main \in {"popen", "start_worker", "start_stdout", "start_stderr"}
               /\ main' = "kill" /\ failed' = TRUE /\ escaped' = escaped
      BY <1>1, <3>1, <3>4
    <3>5. CASE main \notin Command!Over /\ main' = "raised" /\ escaped' = TRUE /\ failed' = failed
      <4>1. Command!ThreadsEnd'
        BY <1>1, <3>1, <3>5
      <4>2. Command!WorkerStops'
        BY <1>1, <3>1, <3>5
      <4>3. QED
        BY <4>1, <4>2
    <3>6. QED
      BY <3>2, <3>3, <3>4, <3>5
  <2>3. QED
    BY ONLY <1>2, <1>3, <2>1, <2>2
<1>12. QED
  BY <1>4, <1>5, <1>6, <1>7, <1>8, <1>9, <1>10, <1>11

LEMMA NextCommand == Command!IInv /\ [Command!Next]_command_vars => Command!IInv'
<1> SUFFICES ASSUME Command!IInv, [Command!Next]_command_vars
             PROVE  Command!IInv'
  OBVIOUS
<1>1. CASE UNCHANGED command_vars
  <2>1. UNCHANGED <<child, other, written, pipe, reader, queue, worker, line, left, got, main,
                    failed, escaped>>
    BY <1>1 DEF command_vars
  <2>2. Command!ThreadsOK /\ Command!PipeInOrder /\ Data /\ Command!ThreadsEnd /\ Command!WorkerStops
    BY DataIsKept
  <2>3. Command!ThreadsOK' /\ Command!PipeInOrder' /\ Data'
    <3>1. ReadSoFar' = ReadSoFar
      BY <2>1 DEF ReadSoFar, Command!Read
    <3>2. Data'
      BY <2>1, <2>2, <3>1, SameData
    <3>3. QED
      BY <2>1, <2>2, <3>2 DEF Command!ThreadsOK, Command!PipeInOrder, Command!Read
  <2>4. Command!ThreadsEnd' /\ Command!WorkerStops'
    BY <2>1, <2>2 DEF Command!ThreadsEnd, Command!Stopped, Command!WorkerStops, Command!Has
  <2>5. QED
    BY <2>3, <2>4, DataIsKeptNext
<1>2. CASE Command!Environment
  BY <1>2, NextEnvironment, NextWrite DEF Command!Environment
<1>3. CASE Command!Threads
  <2>1. ASSUME NEW s \in Command!Streams, Command!ReadLine(s) \/ Command!ReadEnd(s)
        PROVE  Command!IInv'
    BY <2>1, NextReadLine, NextReadEnd
  <2>2. QED
    BY <1>3, <2>1, NextGet, NextOnLine DEF Command!Threads
<1>4. CASE Command!Caller \/ Command!Interrupt
  BY <1>4, NextCaller, NextStopWorker DEF Command!Caller
<1>5. QED
  BY <1>1, <1>2, <1>3, <1>4 DEF Command!Next

LEMMA CommandIsKept ==
  Command!IInv => Command!LinesInOrder /\ Command!DelegatesAgree /\ Command!ReturnsComplete
                    /\ Command!NothingIsLeftRunning
<1> SUFFICES ASSUME Command!IInv
             PROVE  Command!LinesInOrder /\ Command!DelegatesAgree /\ Command!ReturnsComplete
                      /\ Command!NothingIsLeftRunning
  OBVIOUS
<1>1. Command!ThreadsOK /\ Command!PipeInOrder /\ Data /\ Command!ThreadsEnd /\ Command!WorkerStops
  BY DataIsKept
<1>2. Command!LinesInOrder /\ Command!DelegatesAgree
  BY DEF Command!IInv
<1>3. Command!NothingIsLeftRunning
  <2>1. SUFFICES ASSUME main \in {"end", "returned", "raised"}, ~escaped
                 PROVE  /\ worker # "running" /\ child # "running"
                        /\ reader["stdout"] # "reading" /\ reader["stderr"] # "reading"
    BY DEF Command!NothingIsLeftRunning, Command!Over, Command!Streams
  <2>2. QED
    BY <1>1, <2>1 DEF Command!ThreadsEnd, Command!Stopped
<1>4. Command!ReturnsComplete
  <2>1. SUFFICES ASSUME main \in {"end", "returned"}, worker # "died", NEW d \in Given,
                        NEW s \in Command!Streams, NEW n \in 1..written[s]
                 PROVE  Command!Has(got[d], <<s, n>>)
    BY DEF Command!ReturnsComplete, Given
  <2>2. worker # "running" /\ worker # "none" /\ reader[s] # "none"
    BY <1>1, <2>1 DEF Command!ThreadsEnd, Command!Stopped
  <2>3. worker = "done" /\ reader[s] \in {"none", "reading", "done"}
    BY <1>1, <2>1, <2>2 DEF Command!ThreadsOK
  <2>4. reader[s] # "reading" /\ queue = <<>> /\ left = <<>>
    BY <1>1, <2>3 DEF Command!WorkerStops
  <2>5. pipe[s] = <<>>
    BY <1>1, <2>2, <2>3, <2>4 DEF Command!ThreadsEnd
  <2>6. n \in 1..MaxLines /\ n <= ReadSoFar[s]
    <3>1. /\ written[s] \in Nat /\ written[s] <= MaxLines /\ MaxLines \in Nat
          /\ ReadSoFar[s] = written[s] - Len(pipe[s])
      BY <1>1, ReadFacts, DelegatesFacts
    <3>2. Len(pipe[s]) = 0
      BY <2>5
    <3>3. QED
      BY <3>1, <3>2
  <2>7. \A l : ~Command!Has(<<>>, l)
    BY DEF Command!Has
  <2>8. GotOf(got, line, left, queue, ReadSoFar, worker)
    BY <1>1 DEF Data
  <2>9. QED
    BY <2>1, <2>4, <2>6, <2>7, <2>8 DEF GotOf
<1>5. QED
  BY <1>2, <1>3, <1>4

-----------------------------------------------------------------------------
(* The life cycle of legacy sessions.                                      *)

Linked(p) ==
  \A k \in 1..(Len(p) - 1) : <<p[k], p[k + 1]>> \in Legacy!Followed

Ordered(p) ==
  Linked(p) /\ (p # <<>> => p[Len(p)] \in {"adopt", "save"})

LEMMA OrderedIs ==
  todo \in Seq(Legacy!SystemCalls) => (Legacy!CallsInOrder <=> Ordered(todo))
<1> SUFFICES ASSUME todo \in Seq(Legacy!SystemCalls)
             PROVE  Legacy!CallsInOrder <=> Ordered(todo)
  OBVIOUS
<1> DEFINE N == Len(todo)
<1>1. N \in Nat /\ DOMAIN todo = 1..N /\ (todo = <<>> <=> N = 0)
  BY SeqFacts
<1> HIDE DEF N
<1>2. ASSUME Legacy!CallsInOrder
      PROVE  Ordered(todo)
  <2>1. ASSUME NEW k \in 1..(N - 1)
        PROVE  <<todo[k], todo[k + 1]>> \in Legacy!Followed
    <3>1. k \in DOMAIN todo /\ k # N
      BY <1>1
    <3>2. QED
      BY <1>2, <3>1 DEF Legacy!CallsInOrder, N
  <2>2. ASSUME todo # <<>>
        PROVE  todo[N] \in {"adopt", "save"}
    <3>1. N \in DOMAIN todo
      BY <1>1, <2>2
    <3>2. QED
      BY <1>2, <3>1 DEF Legacy!CallsInOrder, N
  <2>3. QED
    BY <2>1, <2>2 DEF Ordered, Linked, N
<1>3. ASSUME Ordered(todo)
      PROVE  Legacy!CallsInOrder
  <2>1. ASSUME NEW k \in DOMAIN todo
        PROVE  IF k = N THEN todo[k] \in {"adopt", "save"}
               ELSE <<todo[k], todo[k + 1]>> \in Legacy!Followed
    <3>1. todo # <<>> /\ (k # N => k \in 1..(N - 1))
      BY <1>1
    <3>2. QED
      BY <1>3, <3>1 DEF Ordered, Linked, N
  <2>2. QED
    BY <2>1 DEF Legacy!CallsInOrder, N
<1>4. QED
  BY <1>2, <1>3

LEMMA OrderedIsNext ==
  (todo \in Seq(Legacy!SystemCalls) => (Legacy!CallsInOrder <=> Ordered(todo)))'
BY OrderedIs, PTL

\* What is left of a call when its first step is done.
LEMMA CallGoesOn ==
  ASSUME NEW p \in Seq(Legacy!SystemCalls), p # <<>>, Ordered(p)
  PROVE  /\ Tail(p) \in Seq(Legacy!SystemCalls) /\ Ordered(Tail(p))
         /\ Tail(p) = <<>> => Head(p) \in {"adopt", "save"}
         /\ Tail(p) # <<>> => <<Head(p), Head(Tail(p))>> \in Legacy!Followed
<1> DEFINE N == Len(p)
           q == Tail(p)
<1>1. /\ q \in Seq(Legacy!SystemCalls) /\ N \in Nat /\ N >= 1 /\ DOMAIN p = 1..N
      /\ Len(q) = N - 1 /\ \A k \in 1..(N - 1) : q[k] = p[k + 1]
      /\ Head(p) = p[1]
  BY TailFacts
<1>2. q # <<>> => Head(q) = q[1] /\ Len(q) >= 1
  BY <1>1, TailFacts
<1>3. (q = <<>> => Len(q) = 0) /\ (Len(q) = 0 => q = <<>>)
  BY <1>1, SeqFacts
<1> HIDE DEF N, q
<1>4. /\ \A k \in 1..(N - 1) : <<p[k], p[k + 1]>> \in Legacy!Followed
      /\ p[N] \in {"adopt", "save"}
  BY DEF Ordered, Linked, N
<1>5. ASSUME NEW k \in 1..(Len(q) - 1)
      PROVE  <<q[k], q[k + 1]>> \in Legacy!Followed
  <2>1. k \in 1..(N - 1) /\ k + 1 \in 1..(N - 1)
    BY <1>1
  <2>2. QED
    BY <1>1, <1>4, <2>1
<1>6. ASSUME q # <<>>
      PROVE  q[Len(q)] \in {"adopt", "save"}
  <2>1. N - 1 \in 1..(N - 1) /\ (N - 1) + 1 = N
    BY <1>1, <1>2, <1>6
  <2>2. QED
    BY <1>1, <1>4, <2>1
<1>7. q = <<>> => Head(p) \in {"adopt", "save"}
  <2>1. q = <<>> => N = 1
    BY <1>1, <1>3
  <2>2. QED
    BY <1>1, <1>4, <2>1
<1>8. q # <<>> => <<Head(p), Head(q)>> \in Legacy!Followed
  <2>1. SUFFICES ASSUME q # <<>>
                 PROVE  <<p[1], q[1]>> \in Legacy!Followed
    BY <1>1, <1>2
  <2>2. 1 \in 1..(N - 1) /\ 1 + 1 = 2
    BY <1>1, <1>2, <2>1
  <2>3. q[1] = p[1 + 1]
    BY <1>1, <2>2
  <2>4. QED
    BY <1>4, <2>2, <2>3
<1>9. QED
  BY <1>1, <1>5, <1>6, <1>7, <1>8 DEF Ordered, Linked, q

\* Steps are put in front of a call.
LEMMA CallIsPrefixed ==
  ASSUME NEW p \in Seq(Legacy!SystemCalls), p # <<>>, Linked(p),
         NEW q \in Seq(Legacy!SystemCalls), Ordered(q),
         q = <<>> => p[Len(p)] \in {"adopt", "save"},
         q # <<>> => <<p[Len(p)], q[1]>> \in Legacy!Followed
  PROVE  /\ p \o q \in Seq(Legacy!SystemCalls) /\ Ordered(p \o q)
         /\ p \o q # <<>> /\ Head(p \o q) = p[1]
         /\ Len(p \o q) = Len(p) + Len(q) /\ \A k \in 1..Len(p) : (p \o q)[k] = p[k]
<1> DEFINE M == Len(p)
           N == Len(q)
           r == p \o q
           Q == Len(r)
<1>1. /\ r \in Seq(Legacy!SystemCalls) /\ Len(r) = M + N
      /\ \A k \in 1..M : r[k] = p[k]
      /\ \A k \in 1..(M + N) : k > M => r[k] = q[k - M]
  OBVIOUS
<1>2. Q = M + N
  BY <1>1
<1>3. M \in Nat /\ N \in Nat /\ M >= 1 /\ (q = <<>> <=> N = 0)
  BY SeqFacts
<1>4. /\ \A k \in 1..(M - 1) : <<p[k], p[k + 1]>> \in Legacy!Followed
      /\ \A k \in 1..(N - 1) : <<q[k], q[k + 1]>> \in Legacy!Followed
      /\ q # <<>> => q[N] \in {"adopt", "save"} /\ <<p[M], q[1]>> \in Legacy!Followed
      /\ q = <<>> => p[M] \in {"adopt", "save"}
  BY DEF Ordered, Linked
<1>5. r # <<>> /\ Head(r) = p[1]
  <2>1. r # <<>>
    BY <1>1, <1>3, SeqFacts
  <2>2. Head(r) = r[1]
    BY <1>1, <2>1, TailFacts
  <2>3. QED
    BY <1>1, <1>3, <2>1, <2>2
<1> HIDE DEF M, N, r, Q
<1>6. ASSUME NEW k \in 1..(Q - 1)
      PROVE  <<r[k], r[k + 1]>> \in Legacy!Followed
  <2>1. CASE k + 1 <= M
    <3>1. k \in 1..M /\ k + 1 \in 1..M /\ k \in 1..(M - 1)
      BY <1>3, <2>1
    <3>2. QED
      BY <1>1, <1>4, <3>1
  <2>2. CASE k = M
    <3>1. k \in 1..M /\ k + 1 \in 1..(M + N) /\ k + 1 > M /\ (k + 1) - M = 1 /\ N # 0
      BY <1>3, <1>2, <2>2
    <3>2. r[k] = p[M] /\ r[k + 1] = q[1]
      BY <1>1, <2>2, <3>1
    <3>3. QED
      BY <1>3, <1>4, <3>1, <3>2
  <2>3. CASE k > M
    <3>1. /\ k \in 1..(M + N) /\ k + 1 \in 1..(M + N) /\ k + 1 > M
          /\ (k + 1) - M = (k - M) + 1 /\ k - M \in 1..(N - 1)
      BY <1>3, <1>2, <2>3
    <3>2. r[k] = q[k - M] /\ r[k + 1] = q[(k - M) + 1]
      BY <1>1, <2>3, <3>1
    <3>3. QED
      BY <1>4, <3>1, <3>2
  <2>4. QED
    BY <1>3, <1>2, <2>1, <2>2, <2>3
<1>7. r[Q] \in {"adopt", "save"}
  <2>1. CASE N = 0
    BY <1>1, <1>3, <1>4, <1>2, <2>1
  <2>2. CASE N # 0
    <3>1. M + N \in 1..(M + N) /\ M + N > M /\ (M + N) - M = N
      BY <1>3, <2>2
    <3>2. QED
      BY <1>1, <1>3, <1>4, <1>2, <2>2, <3>1
  <2>3. QED
    BY <2>1, <2>2
<1>8. Ordered(r)
  BY <1>6, <1>7 DEF Ordered, Linked, Q
<1>9. QED
  BY <1>1, <1>5, <1>8 DEF r, M, N

\* The first step of what is left of a call, if any; that of the call that is being
\* made, and what will then come.
StepOf(t) == IF t = <<>> THEN "" ELSE Head(t)

Coming == StepOf(todo)

After == StepOf(Tail(todo))

\* What the invariants say, when x comes and then y.
KnowsAt(x) ==
  /\ manager # {} /\ x \notin {"symlink", "adopt"} => link = manager
  /\ x \in {"readlink", "clear", "rmdir", "unlink", "symlink", "adopt"} => storage # {}
  /\ x \in {"readlink", "clear"} => storage \subseteq exists /\ storage \cap checkpoint = {}
  /\ x = "symlink" => link = {}
  /\ x = "adopt" => link = storage
  /\ x = "clear_own" => "clean" \in Legacy!Hints
  /\ x = "rmdir" => checkpoint \cap link = {}
  /\ x = "rmdir_own" => checkpoint \cap manager = {}
  /\ "open" \in Legacy!Hints /\ "resume" \in Legacy!Hints /\ x # ""
       => x \in {"load", "adopt", "save"}

UsedAt(x, y) ==
  crashes = 0 /\ ~cleaned =>
    /\ x \notin {"clear_own", "rmdir_own"}
    /\ x = "mkdtemp" => y = "readlink"
    /\ "clean" \in Legacy!Hints /\ "resume" \notin Legacy!Hints => manager = {}
    /\ x \notin {"readlink", "clear", "rmdir", "unlink", "symlink"} => exists = link
    /\ x \in {"readlink", "clear", "rmdir"} => exists = link \cup storage /\ storage \cap link = {}
    /\ x \in {"unlink", "symlink"} => exists = storage

View ==
  /\ todo \in Seq(Legacy!SystemCalls) /\ checkpoint \subseteq exists /\ crashes \in Nat
  /\ Ordered(todo) /\ KnowsAt(Coming) /\ UsedAt(Coming, After)

\* What is there of a call of more than one step.
LEMMA SecondStep ==
  ASSUME NEW S, NEW t \in Seq(S), t # <<>>, "" \notin S
  PROVE  /\ StepOf(t) = t[1] /\ StepOf(t) \in S
         /\ Len(t) > 1 => StepOf(Tail(t)) = t[2] /\ Tail(t) # <<>>
         /\ ~(Len(t) > 1) => StepOf(Tail(t)) = ""
<1> DEFINE u == Tail(t)
           N == Len(t)
<1>1. /\ u \in Seq(S) /\ N \in Nat /\ N >= 1 /\ Len(u) = N - 1
      /\ \A k \in 1..(N - 1) : u[k] = t[k + 1]
      /\ Head(t) = t[1] /\ Head(t) \in S
  BY TailFacts
<1>2. (u = <<>> <=> Len(u) = 0) /\ (u # <<>> => Head(u) = u[1])
  BY <1>1, SeqFacts, TailFacts
<1> HIDE DEF u, N
<1>3. ASSUME N > 1
      PROVE  StepOf(u) = t[2] /\ u # <<>>
  <2>1. u # <<>>
    BY ONLY <1>1, <1>2, <1>3
  <2>2. 1 \in 1..(N - 1) /\ 1 + 1 = 2
    BY ONLY <1>1, <1>3
  <2>3. u[1] = t[2]
    BY <1>1, <2>2
  <2>4. QED
    BY ONLY <1>2, <2>1, <2>3 DEF StepOf
<1>4. ASSUME ~(N > 1)
      PROVE  StepOf(u) = ""
  <2>1. u = <<>>
    BY ONLY <1>1, <1>2, <1>4
  <2>2. QED
    BY ONLY <2>1 DEF StepOf
<1>5. StepOf(t) = Head(t)
  BY DEF StepOf
<1>6. QED
  BY <1>1, <1>3, <1>4, <1>5 DEF u, N

LEMMA KnowsIs ==
  todo \in Seq(Legacy!SystemCalls) => (Legacy!CallKnows <=> KnowsAt(Coming))
<1> SUFFICES ASSUME todo \in Seq(Legacy!SystemCalls)
             PROVE  Legacy!CallKnows <=> KnowsAt(Coming)
  OBVIOUS
<1>1. CASE todo = <<>>
  <2>1. Coming = ""
    BY <1>1 DEF Coming, StepOf
  <2>2. \A steps : ~Legacy!Now(steps)
    BY <1>1 DEF Legacy!Now
  <2>3. QED
    BY ONLY <1>1, <2>1, <2>2 DEF Legacy!CallKnows, KnowsAt
<1>2. CASE todo # <<>>
  <2>1. Coming = Head(todo) /\ Coming \in Legacy!SystemCalls
    BY <1>2, TailFacts DEF Coming, StepOf
  <2>2. \A steps : Legacy!Now(steps) <=> Coming \in steps
    BY ONLY <1>2, <2>1 DEF Legacy!Now
  <2>3. Coming # ""
    BY <2>1 DEF Legacy!SystemCalls
  <2> HIDE DEF Coming
  <2>4. QED
    BY ONLY <1>2, <2>2, <2>3 DEF Legacy!CallKnows, KnowsAt
<1>3. QED
  BY <1>1, <1>2

LEMMA UsedIs ==
  todo \in Seq(Legacy!SystemCalls) => (Legacy!UsedWell <=> UsedAt(Coming, After))
<1> SUFFICES ASSUME todo \in Seq(Legacy!SystemCalls)
             PROVE  Legacy!UsedWell <=> UsedAt(Coming, After)
  OBVIOUS
<1>1. CASE todo = <<>>
  <2>1. Coming = ""
    BY <1>1 DEF Coming, StepOf
  <2>2. \A steps : ~Legacy!Now(steps)
    BY <1>1 DEF Legacy!Now
  <2>3. QED
    BY ONLY <1>1, <2>1, <2>2 DEF Legacy!UsedWell, UsedAt
<1>2. CASE todo # <<>>
  <2>1. Coming = Head(todo)
    BY <1>2 DEF Coming, StepOf
  <2>2. \A steps : Legacy!Now(steps) <=> Coming \in steps
    BY ONLY <1>2, <2>1 DEF Legacy!Now
  <2>3. (Len(todo) > 1 /\ todo[2] = "readlink") <=> After = "readlink"
    <3>1. "" \notin Legacy!SystemCalls
      BY DEF Legacy!SystemCalls
    <3>2. /\ Len(todo) > 1 => After = todo[2]
          /\ ~(Len(todo) > 1) => After = ""
      BY <1>2, <3>1, SecondStep DEF After
    <3>3. QED
      BY ONLY <3>2
  <2> HIDE DEF Coming, After
  <2>4. QED
    BY ONLY <2>2, <2>3 DEF Legacy!UsedWell, UsedAt
<1>3. QED
  BY <1>1, <1>2

LEMMA ViewIs == Legacy!IInv <=> View
BY OrderedIs, KnowsIs, UsedIs DEF Legacy!IInv, View

LEMMA ViewIsNext == (Legacy!IInv <=> View)'
BY ViewIs, PTL

\* A step of a call: the rest of the call is left, or nothing.
Stays == todo' \in Seq(Legacy!SystemCalls) /\ Ordered(todo')

LEMMA ReturnIs ==
  ASSUME View, todo # <<>>, Legacy!Return
  PROVE  /\ Stays /\ Coming' = After
         /\ After = "" => Coming \in {"adopt", "save"}
         /\ After # "" => <<Coming, After>> \in Legacy!Followed
<1>1. todo \in Seq(Legacy!SystemCalls) /\ Ordered(todo) /\ todo' = Tail(todo)
  BY DEF View, Legacy!Return
<1>2. /\ Tail(todo) \in Seq(Legacy!SystemCalls) /\ Ordered(Tail(todo))
      /\ Tail(todo) = <<>> => Head(todo) \in {"adopt", "save"}
      /\ Tail(todo) # <<>> => <<Head(todo), Head(Tail(todo))>> \in Legacy!Followed
  BY <1>1, CallGoesOn
<1>3. Coming = Head(todo)
  BY DEF Coming, StepOf
<1>4. After # "" => Tail(todo) # <<>> /\ After = Head(Tail(todo))
  BY DEF After, StepOf
<1>5. After = "" => Tail(todo) = <<>>
  <2>1. SUFFICES ASSUME Tail(todo) # <<>>
                 PROVE  After # ""
    OBVIOUS
  <2>2. Head(Tail(todo)) \in Legacy!SystemCalls
    BY <1>2, <2>1, TailFacts
  <2>3. After = Head(Tail(todo))
    BY <2>1 DEF After, StepOf
  <2>4. QED
    BY ONLY <2>2, <2>3 DEF Legacy!SystemCalls
<1>6. Coming' = After
  BY <1>1 DEF Coming, After
<1>7. Stays
  BY <1>1, <1>2 DEF Stays
<1>8. QED
  BY ONLY <1>2, <1>3, <1>4, <1>5, <1>6, <1>7

LEMMA RaiseIs == todo' = <<>> => Stays /\ Coming' = ""
<1>1. todo' = <<>> => todo' \in Seq(Legacy!SystemCalls) /\ Len(todo') = 0
  OBVIOUS
<1>2. QED
  BY <1>1 DEF Stays, Ordered, Linked, Coming, StepOf

LEMMA NextIs ==
  ASSUME View, NEW x \in Legacy!SystemCalls, Legacy!Next1(x)
  PROVE  todo # <<>> /\ Coming = x
BY DEF Legacy!Next1, Coming, StepOf

LEMMA MkdtempKnows ==
  ASSUME View, Legacy!Mkdtemp
  PROVE  View'
<1>1. Coming = "mkdtemp" /\ todo # <<>> /\ Legacy!Return
  BY NextIs DEF Legacy!Mkdtemp, Legacy!SystemCalls
<1>2. Stays /\ Coming' = After /\ After \in {"mkdtemp", "readlink"}
  BY <1>1, ReturnIs DEF Legacy!Followed
<1> HIDE DEF Coming, After
<1>3. PICK d \in Dirs \ exists : exists' = exists \cup {d} /\ storage' = {d}
  BY DEF Legacy!Mkdtemp
<1>4. UNCHANGED <<checkpoint, link, manager, hint, crashes, cleaned>>
  BY DEF Legacy!Mkdtemp
<1>5. checkpoint \subseteq exists /\ crashes \in Nat /\ KnowsAt("mkdtemp") /\ UsedAt("mkdtemp", After)
  BY <1>1 DEF View
<1>6. checkpoint' \subseteq exists' /\ crashes' \in Nat
  BY ONLY <1>3, <1>4, <1>5
<1>7. KnowsAt(Coming)'
  BY ONLY <1>2, <1>3, <1>4, <1>5 DEF KnowsAt, Legacy!Hints
<1>8. UsedAt(Coming, After)'
  BY ONLY <1>2, <1>3, <1>4, <1>5 DEF UsedAt, Legacy!Hints
<1>9. QED
  BY ONLY <1>2, <1>6, <1>7, <1>8 DEF View, Stays

LEMMA ReadlinkKnows ==
  ASSUME View, Legacy!Readlink
  PROVE  View'
<1>1. Coming = "readlink" /\ todo # <<>>
  BY NextIs DEF Legacy!Readlink, Legacy!SystemCalls
<1> DEFINE p == IF link = {} THEN <<"symlink">> ELSE <<"clear", "rmdir", "unlink", "symlink">>
<1>2. todo' = p \o Tail(todo)
  BY DEF Legacy!Readlink
<1>3. /\ Tail(todo) \in Seq(Legacy!SystemCalls) /\ Ordered(Tail(todo))
      /\ Tail(todo) # <<>> => <<"readlink", Head(Tail(todo))>> \in Legacy!Followed
      /\ Tail(todo) = <<>> => "readlink" \in {"adopt", "save"}
  <2>1. Head(todo) = "readlink"
    BY <1>1 DEF Coming, StepOf
  <2>2. QED
    BY <1>1, <2>1, CallGoesOn DEF View
<1>4. Tail(todo) # <<>> /\ Tail(todo)[1] = "adopt"
  <2>1. Tail(todo) # <<>>
    BY <1>3
  <2>2. Head(Tail(todo)) = Tail(todo)[1]
    BY <1>3, <2>1, TailFacts
  <2>3. QED
    BY <1>3, <2>1, <2>2 DEF Legacy!Followed
<1>5. /\ p \in Seq(Legacy!SystemCalls) /\ p # <<>> /\ Linked(p) /\ p[Len(p)] = "symlink"
      /\ p[1] = IF link = {} THEN "symlink" ELSE "clear"
  <2>1. CASE link = {}
    BY <2>1 DEF Linked, Legacy!SystemCalls
  <2>2. CASE link # {}
    <3>1. p = <<"clear", "rmdir", "unlink", "symlink">>
      BY <2>2
    <3> HIDE DEF p
    <3>2. /\ p # <<>> /\ Len(p) = 4
          /\ p[1] = "clear" /\ p[2] = "rmdir" /\ p[3] = "unlink" /\ p[4] = "symlink"
      BY ONLY <3>1
    <3>3. p \in Seq(Legacy!SystemCalls)
      BY ONLY <3>1 DEF Legacy!SystemCalls
    <3>4. ASSUME NEW k \in 1..(Len(p) - 1)
          PROVE  <<p[k], p[k + 1]>> \in Legacy!Followed
      <4>1. k = 1 \/ k = 2 \/ k = 3
        BY <3>2
      <4>2. QED
        BY ONLY <3>2, <4>1 DEF Legacy!Followed
    <3>5. QED
      BY ONLY <2>2, <3>2, <3>4, <3>3 DEF Linked
  <2>3. QED
    BY <2>1, <2>2
<1> HIDE DEF p
<1>6. <<p[Len(p)], Tail(todo)[1]>> \in Legacy!Followed
  BY <1>4, <1>5 DEF Legacy!Followed
<1>7. /\ p \o Tail(todo) \in Seq(Legacy!SystemCalls) /\ Ordered(p \o Tail(todo))
      /\ p \o Tail(todo) # <<>> /\ Head(p \o Tail(todo)) = p[1]
  BY <1>3, <1>4, <1>5, <1>6, CallIsPrefixed
<1>8. Stays /\ Coming' = IF link = {} THEN "symlink" ELSE "clear"
  BY <1>2, <1>5, <1>7 DEF Stays, Coming, StepOf
<1> HIDE DEF Coming, After
<1>9. UNCHANGED <<exists, checkpoint, link, manager, hint, storage, crashes, cleaned>>
  BY DEF Legacy!Readlink, Legacy!files
<1>10. /\ checkpoint \subseteq exists /\ crashes \in Nat
       /\ KnowsAt("readlink") /\ UsedAt("readlink", After)
  BY <1>1 DEF View
<1>11. KnowsAt(Coming)'
  BY ONLY <1>8, <1>9, <1>10 DEF KnowsAt, Legacy!Hints
<1>12. UsedAt(Coming, After)'
  BY ONLY <1>8, <1>9, <1>10 DEF UsedAt, Legacy!Hints
<1>13. QED
  BY ONLY <1>8, <1>9, <1>10, <1>11, <1>12 DEF View, Stays

LEMMA ClearLinkedKnows ==
  ASSUME View, Legacy!ClearLinked
  PROVE  View'
<1>1. Coming = "clear" /\ todo # <<>>
  BY NextIs DEF Legacy!ClearLinked, Legacy!SystemCalls
<1>2. /\ \/ checkpoint' = checkpoint \ link /\ Legacy!Return
         \/ ~(link \subseteq exists) /\ checkpoint' = checkpoint /\ todo' = <<>>
      /\ UNCHANGED <<exists, link, manager, hint, storage, crashes, cleaned>>
  BY DEF Legacy!ClearLinked, Legacy!files, Legacy!Raise, Legacy!Clear
<1>3. Legacy!Return => Stays /\ Coming' = After /\ After \in {"rmdir"}
  BY <1>1, ReturnIs DEF Legacy!Followed
<1>4. todo' = <<>> => Stays /\ Coming' = ""
  BY RaiseIs
<1>5. /\ checkpoint \subseteq exists /\ crashes \in Nat
      /\ KnowsAt("clear") /\ UsedAt("clear", After)
  BY <1>1 DEF View
<1> HIDE DEF Coming, After
<1>6. checkpoint' \subseteq exists' /\ crashes' \in Nat
  BY ONLY <1>2, <1>5
<1>7. KnowsAt(Coming)'
  BY ONLY <1>2, <1>3, <1>4, <1>5 DEF KnowsAt, Legacy!Hints
<1>8. UsedAt(Coming, After)'
  BY ONLY <1>2, <1>3, <1>4, <1>5 DEF UsedAt, KnowsAt, Legacy!Hints
<1>9. QED
  BY ONLY <1>2, <1>3, <1>4, <1>6, <1>7, <1>8 DEF View, Stays

LEMMA ClearOwnKnows ==
  ASSUME View, Legacy!ClearOwn
  PROVE  View'
<1>1. Coming = "clear_own" /\ todo # <<>>
  BY NextIs DEF Legacy!ClearOwn, Legacy!SystemCalls
<1>2. /\ \/ checkpoint' = checkpoint \ manager /\ Legacy!Return
         \/ checkpoint' = checkpoint /\ todo' = <<>>
      /\ UNCHANGED <<exists, link, manager, hint, storage, crashes, cleaned>>
  BY DEF Legacy!ClearOwn, Legacy!files, Legacy!Raise, Legacy!Clear
<1>3. Legacy!Return => Stays /\ Coming' = After /\ After \in {"rmdir_own"}
  BY <1>1, ReturnIs DEF Legacy!Followed
<1>4. todo' = <<>> => Stays /\ Coming' = ""
  BY RaiseIs
<1>5. /\ checkpoint \subseteq exists /\ crashes \in Nat
      /\ KnowsAt("clear_own") /\ UsedAt("clear_own", After)
  BY <1>1 DEF View
<1> HIDE DEF Coming, After
<1>6. checkpoint' \subseteq exists' /\ crashes' \in Nat
  BY ONLY <1>2, <1>5
<1>7. KnowsAt(Coming)'
  BY ONLY <1>2, <1>3, <1>4, <1>5 DEF KnowsAt, Legacy!Hints
<1>8. UsedAt(Coming, After)'
  BY ONLY <1>2, <1>3, <1>4, <1>5 DEF UsedAt, KnowsAt, Legacy!Hints
<1>9. QED
  BY ONLY <1>2, <1>3, <1>4, <1>6, <1>7, <1>8 DEF View, Stays

LEMMA UnlinkKnows ==
  ASSUME View, Legacy!Unlink
  PROVE  View'
<1>1. Coming = "unlink" /\ todo # <<>> /\ Legacy!Return
  BY NextIs DEF Legacy!Unlink, Legacy!SystemCalls
<1>2. Stays /\ Coming' = After /\ After \in {"symlink"}
  BY <1>1, ReturnIs DEF Legacy!Followed
<1> HIDE DEF Coming, After
<1>3. /\ link' = {}
      /\ UNCHANGED <<exists, checkpoint, manager, hint, storage, crashes, cleaned>>
  BY DEF Legacy!Unlink, Legacy!files
<1>4. /\ checkpoint \subseteq exists /\ crashes \in Nat
      /\ KnowsAt("unlink") /\ UsedAt("unlink", After)
  BY <1>1 DEF View
<1>5. checkpoint' \subseteq exists' /\ crashes' \in Nat
  BY ONLY <1>3, <1>4 DEF KnowsAt
<1>6. KnowsAt(Coming)'
  BY ONLY <1>2, <1>3, <1>4 DEF KnowsAt, Legacy!Hints
<1>7. UsedAt(Coming, After)'
  BY ONLY <1>2, <1>3, <1>4 DEF UsedAt, KnowsAt, Legacy!Hints
<1>8. QED
  BY ONLY <1>2, <1>5, <1>6, <1>7 DEF View, Stays

LEMMA SymlinkKnows ==
  ASSUME View, Legacy!Symlink
  PROVE  View'
<1>1. Coming = "symlink" /\ todo # <<>> /\ Legacy!Return
  BY NextIs DEF Legacy!Symlink, Legacy!SystemCalls
<1>2. Stays /\ Coming' = After /\ After \in {"adopt"}
  BY <1>1, ReturnIs DEF Legacy!Followed
<1> HIDE DEF Coming, After
<1>3. /\ link' = IF link = {} THEN storage ELSE link
      /\ UNCHANGED <<exists, checkpoint, manager, hint, storage, crashes, cleaned>>
  BY DEF Legacy!Symlink, Legacy!files
<1>4. /\ checkpoint \subseteq exists /\ crashes \in Nat
      /\ KnowsAt("symlink") /\ UsedAt("symlink", After)
  BY <1>1 DEF View
<1>5. checkpoint' \subseteq exists' /\ crashes' \in Nat
  BY ONLY <1>3, <1>4 DEF KnowsAt
<1>6. KnowsAt(Coming)'
  BY ONLY <1>2, <1>3, <1>4 DEF KnowsAt, Legacy!Hints
<1>7. UsedAt(Coming, After)'
  BY ONLY <1>2, <1>3, <1>4 DEF UsedAt, KnowsAt, Legacy!Hints
<1>8. QED
  BY ONLY <1>2, <1>5, <1>6, <1>7 DEF View, Stays

LEMMA LoadKnows ==
  ASSUME View, Legacy!Load
  PROVE  View'
<1>1. Coming = "load" /\ todo # <<>>
  BY NextIs DEF Legacy!Load, Legacy!SystemCalls
<1>2. /\ \/ link # {} /\ storage' = link /\ Legacy!Return
         \/ storage' = storage /\ todo' = <<>>
      /\ UNCHANGED <<exists, checkpoint, link, manager, hint, crashes, cleaned>>
  BY DEF Legacy!Load, Legacy!files, Legacy!Raise
<1>3. Legacy!Return => Stays /\ Coming' = After /\ After \in {"adopt"}
  BY <1>1, ReturnIs DEF Legacy!Followed
<1>4. todo' = <<>> => Stays /\ Coming' = ""
  BY RaiseIs
<1>5. /\ checkpoint \subseteq exists /\ crashes \in Nat
      /\ KnowsAt("load") /\ UsedAt("load", After)
  BY <1>1 DEF View
<1> HIDE DEF Coming, After
<1>6. checkpoint' \subseteq exists' /\ crashes' \in Nat
  BY ONLY <1>2, <1>5
<1>7. KnowsAt(Coming)'
  BY ONLY <1>2, <1>3, <1>4, <1>5 DEF KnowsAt, Legacy!Hints
<1>8. UsedAt(Coming, After)'
  BY ONLY <1>2, <1>3, <1>4, <1>5 DEF UsedAt, KnowsAt, Legacy!Hints
<1>9. QED
  BY ONLY <1>2, <1>3, <1>4, <1>6, <1>7, <1>8 DEF View, Stays

LEMMA AdoptKnows ==
  ASSUME View, Legacy!Adopt
  PROVE  View'
<1>1. Coming = "adopt" /\ todo # <<>> /\ Legacy!Return
  BY NextIs DEF Legacy!Adopt, Legacy!SystemCalls
<1>2. Stays /\ Coming' = After /\ After \in {"", "save"}
  BY <1>1, ReturnIs DEF Legacy!Followed
<1> HIDE DEF Coming, After
<1>3. /\ manager' = storage /\ hint' = {}
      /\ UNCHANGED <<exists, checkpoint, link, storage, crashes, cleaned>>
  BY DEF Legacy!Adopt, Legacy!files
<1>4. /\ checkpoint \subseteq exists /\ crashes \in Nat
      /\ KnowsAt("adopt") /\ UsedAt("adopt", After)
  BY <1>1 DEF View
<1>5. checkpoint' \subseteq exists' /\ crashes' \in Nat
  BY ONLY <1>3, <1>4 DEF KnowsAt
<1>6. KnowsAt(Coming)'
  BY ONLY <1>2, <1>3, <1>4 DEF KnowsAt, Legacy!Hints
<1>7. UsedAt(Coming, After)'
  BY ONLY <1>2, <1>3, <1>4 DEF UsedAt, KnowsAt, Legacy!Hints
<1>8. QED
  BY ONLY <1>2, <1>5, <1>6, <1>7 DEF View, Stays

LEMMA SaveKnows ==
  ASSUME View, Legacy!Save
  PROVE  View'
<1>1. Coming = "save" /\ todo # <<>>
  BY NextIs DEF Legacy!Save, Legacy!SystemCalls
<1>2. /\ \/ manager \subseteq exists /\ checkpoint' = checkpoint \cup manager /\ Legacy!Return
         \/ checkpoint' = checkpoint /\ todo' = <<>>
      /\ UNCHANGED <<exists, link, manager, hint, storage, crashes, cleaned>>
  BY DEF Legacy!Save, Legacy!files, Legacy!Raise
<1>3. Legacy!Return => Stays /\ Coming' = After /\ After \in {""}
  BY <1>1, ReturnIs DEF Legacy!Followed
<1>4. todo' = <<>> => Stays /\ Coming' = ""
  BY RaiseIs
<1>5. /\ checkpoint \subseteq exists /\ crashes \in Nat
      /\ KnowsAt("save") /\ UsedAt("save", After)
  BY <1>1 DEF View
<1> HIDE DEF Coming, After
<1>6. checkpoint' \subseteq exists' /\ crashes' \in Nat
  BY ONLY <1>2, <1>5
<1>7. KnowsAt(Coming)'
  BY ONLY <1>2, <1>3, <1>4, <1>5 DEF KnowsAt, Legacy!Hints
<1>8. UsedAt(Coming, After)'
  BY ONLY <1>2, <1>3, <1>4, <1>5 DEF UsedAt, KnowsAt, Legacy!Hints
<1>9. QED
  BY ONLY <1>2, <1>3, <1>4, <1>6, <1>7, <1>8 DEF View, Stays

LEMMA RmdirKnows ==
  ASSUME View, Legacy!Rmdir
  PROVE  View'
<1>1. /\ todo # <<>> /\ Legacy!Return
      /\ \/ Coming = "rmdir" /\ exists' = exists \ link
         \/ Coming = "rmdir_own" /\ exists' = exists \ manager
      /\ UNCHANGED <<checkpoint, link, manager, hint, storage, crashes, cleaned>>
  BY NextIs DEF Legacy!Rmdir, Legacy!SystemCalls
<1>2. /\ Stays /\ Coming' = After
      /\ Coming = "rmdir" => After = "unlink"
      /\ Coming = "rmdir_own" => After = "mkdtemp"
  BY <1>1, ReturnIs DEF Legacy!Followed
<1> HIDE DEF Coming, After
<1>3. /\ checkpoint \subseteq exists /\ crashes \in Nat
      /\ KnowsAt(Coming) /\ UsedAt(Coming, After)
  BY DEF View
<1>4. checkpoint' \subseteq exists' /\ crashes' \in Nat
  BY ONLY <1>1, <1>3 DEF KnowsAt
<1>5. KnowsAt(Coming)'
  BY ONLY <1>1, <1>2, <1>3 DEF KnowsAt, Legacy!Hints
<1>6. UsedAt(Coming, After)'
  BY ONLY <1>1, <1>2, <1>3 DEF UsedAt, Legacy!Hints
<1>7. QED
  BY ONLY <1>2, <1>4, <1>5, <1>6 DEF View, Stays

LEMMA CrashKnows ==
  ASSUME View, Legacy!Crash
  PROVE  View'
<1>1. /\ crashes' = crashes + 1 /\ manager' = {} /\ hint' = {} /\ todo' = <<>> /\ storage' = {}
      /\ UNCHANGED <<exists, checkpoint, link>>
  BY DEF Legacy!Crash, Legacy!files
<1>2. Stays /\ Coming' = ""
  BY <1>1, RaiseIs
<1> HIDE DEF Coming, After
<1>3. checkpoint \subseteq exists /\ crashes \in Nat
  BY DEF View
<1>4. crashes' \in Nat /\ crashes' # 0
  BY ONLY <1>1, <1>3
<1>5. KnowsAt(Coming)'
  BY ONLY <1>1, <1>2 DEF KnowsAt, Legacy!Hints
<1>6. UsedAt(Coming, After)'
  BY ONLY <1>4 DEF UsedAt
<1>7. QED
  BY ONLY <1>1, <1>2, <1>3, <1>4, <1>5, <1>6 DEF View, Stays

\* What the methods ask for.
Create == <<"mkdtemp", "readlink", "adopt">>

Recreate == <<"clear_own", "rmdir_own">> \o <<"mkdtemp">> \o <<"mkdtemp", "readlink", "adopt">>

LEMMA LoadIs ==
  /\ <<"load", "adopt">> \in Seq(Legacy!SystemCalls) /\ Linked(<<"load", "adopt">>)
  /\ Len(<<"load", "adopt">>) = 2
<1>1. <<"load", "adopt">> \in Seq(Legacy!SystemCalls) /\ Len(<<"load", "adopt">>) = 2
  BY DEF Legacy!SystemCalls
<1>2. ASSUME NEW k \in 1..(Len(<<"load", "adopt">>) - 1)
      PROVE  <<<<"load", "adopt">>[k], <<"load", "adopt">>[k + 1]>> \in Legacy!Followed
  <2>1. k = 1
    BY <1>1
  <2>2. QED
    BY ONLY <2>1 DEF Legacy!Followed
<1>3. QED
  BY ONLY <1>1, <1>2 DEF Linked

LEMMA CreateIs ==
  ASSUME NEW p, p = Create
  PROVE  /\ p \in Seq(Legacy!SystemCalls) /\ Linked(p) /\ Len(p) = 3 /\ p # <<>>
         /\ p[1] = "mkdtemp" /\ p[2] = "readlink" /\ p[3] = "adopt"
<1>1. p # <<>> /\ Len(p) = 3 /\ p[1] = "mkdtemp" /\ p[2] = "readlink" /\ p[3] = "adopt"
  BY DEF Create
<1>2. p \in Seq(Legacy!SystemCalls)
  BY DEF Create, Legacy!SystemCalls
<1>3. ASSUME NEW k \in 1..(Len(p) - 1)
      PROVE  <<p[k], p[k + 1]>> \in Legacy!Followed
  <2>1. k = 1 \/ k = 2
    BY ONLY <1>1, <1>3
  <2>2. QED
    BY ONLY <1>1, <2>1 DEF Legacy!Followed
<1>4. QED
  BY ONLY <1>1, <1>2, <1>3 DEF Linked

LEMMA ConcatFacts ==
  ASSUME NEW S, NEW p \in Seq(S), NEW q \in Seq(S)
  PROVE  /\ p \o q \in Seq(S) /\ Len(p \o q) = Len(p) + Len(q)
         /\ \A k \in 1..Len(p) : (p \o q)[k] = p[k]
         /\ \A k \in 1..Len(q) : (p \o q)[Len(p) + k] = q[k]
OBVIOUS

LEMMA RecreateIs ==
  ASSUME NEW p, p = Recreate
  PROVE  /\ p \in Seq(Legacy!SystemCalls) /\ Linked(p) /\ Len(p) = 6 /\ p # <<>>
         /\ p[1] = "clear_own" /\ p[6] = "adopt"
<1> DEFINE a == <<"clear_own", "rmdir_own">>
           b == <<"mkdtemp">>
           c == <<"mkdtemp", "readlink", "adopt">>
<1>1. /\ a \in Seq(Legacy!SystemCalls) /\ Len(a) = 2 /\ a[1] = "clear_own" /\ a[2] = "rmdir_own"
      /\ b \in Seq(Legacy!SystemCalls) /\ Len(b) = 1 /\ b[1] = "mkdtemp"
  BY DEF Legacy!SystemCalls
<1>2. /\ c \in Seq(Legacy!SystemCalls) /\ Len(c) = 3
      /\ c[1] = "mkdtemp" /\ c[2] = "readlink" /\ c[3] = "adopt"
  BY DEF Legacy!SystemCalls
<1>3. p = (a \o b) \o c
  BY DEF Recreate
<1> HIDE DEF a, b, c
<1> DEFINE d == a \o b
<1>4. d \in Seq(Legacy!SystemCalls) /\ Len(d) = 3 /\ d[1] = a[1] /\ d[2] = a[2] /\ d[3] = b[1]
  <2>1. /\ d \in Seq(Legacy!SystemCalls) /\ Len(d) = Len(a) + Len(b)
        /\ \A k \in 1..Len(a) : d[k] = a[k]
        /\ \A k \in 1..Len(b) : d[Len(a) + k] = b[k]
    <3>1. a \in Seq(Legacy!SystemCalls) /\ b \in Seq(Legacy!SystemCalls)
      BY ONLY <1>1
    <3>2. QED
      BY ONLY <3>1, ConcatFacts
  <2> HIDE DEF d
  <2>2. d[1] = a[1] /\ d[2] = a[2] /\ d[2 + 1] = b[1]
    BY ONLY <1>1, <2>1
  <2>3. QED
    BY ONLY <1>1, <2>1, <2>2
<1>5. p = d \o c
  BY ONLY <1>3
<1> HIDE DEF d
<1>6. /\ p \in Seq(Legacy!SystemCalls) /\ Len(p) = 3 + 3
      /\ \A k \in 1..3 : p[k] = d[k]
      /\ \A k \in 1..3 : p[3 + k] = c[k]
  <2>1. d \in Seq(Legacy!SystemCalls) /\ c \in Seq(Legacy!SystemCalls)
    BY ONLY <1>2, <1>4
  <2>2. /\ d \o c \in Seq(Legacy!SystemCalls) /\ Len(d \o c) = Len(d) + Len(c)
        /\ \A k \in 1..Len(d) : (d \o c)[k] = d[k]
        /\ \A k \in 1..Len(c) : (d \o c)[Len(d) + k] = c[k]
    BY ONLY <2>1, ConcatFacts
  <2>3. QED
    BY ONLY <1>2, <1>4, <1>5, <2>2
<1>7. Len(p) = 6
  BY ONLY <1>6
<1>8. /\ p[1] = d[1] /\ p[2] = d[2] /\ p[3] = d[3]
      /\ p[4] = c[1] /\ p[5] = c[2] /\ p[6] = c[3]
  <2>1. p[3 + 1] = c[1] /\ p[3 + 2] = c[2] /\ p[3 + 3] = c[3]
    BY ONLY <1>6
  <2>2. QED
    BY ONLY <1>6, <2>1
<1>9. /\ p[1] = "clear_own" /\ p[2] = "rmdir_own"
      /\ p[3] = "mkdtemp" /\ p[4] = "mkdtemp" /\ p[5] = "readlink" /\ p[6] = "adopt"
  BY ONLY <1>1, <1>2, <1>4, <1>8
<1>10. p # <<>>
  BY ONLY <1>7
<1>11. ASSUME NEW k \in 1..(Len(p) - 1)
       PROVE  <<p[k], p[k + 1]>> \in Legacy!Followed
  <2>1. k = 1 \/ k = 2 \/ k = 3 \/ k = 4 \/ k = 5
    BY ONLY <1>7, <1>11
  <2>2. QED
    BY ONLY <1>9, <2>1 DEF Legacy!Followed
<1>12. QED
  BY ONLY <1>6, <1>7, <1>9, <1>10, <1>11 DEF Linked

LEMMA CommitIs ==
  ASSUME NEW h
  PROVE  \/ "open" \notin h /\ Legacy!Commit(h) = <<>>
         \/ {"open", "resume"} \subseteq h /\ Legacy!Commit(h) = <<"load", "adopt">>
         \/ /\ "open" \in h /\ "resume" \notin h /\ ("clean" \in h => manager = {})
            /\ Legacy!Commit(h) = Create
         \/ /\ {"open", "clean"} \subseteq h /\ "resume" \notin h /\ manager # {}
            /\ Legacy!Commit(h) = Recreate
<1>1. CASE "open" \notin h
  BY <1>1 DEF Legacy!Commit
<1>2. CASE "open" \in h /\ "resume" \in h
  BY <1>2 DEF Legacy!Commit
<1>3. CASE "open" \in h /\ "resume" \notin h /\ "clean" \in h
  <2>1. Legacy!Commit(h) = Legacy!CommitClean(h)
    BY <1>3 DEF Legacy!Commit
  <2>2. CASE manager = {}
    BY <1>3, <2>1, <2>2 DEF Legacy!CommitClean, Legacy!CreateLegacy, Create
  <2>3. CASE manager # {}
    <3>1. Legacy!Commit(h) = Recreate
      BY ONLY <2>1, <2>3
         DEF Legacy!CommitClean, Legacy!CreateLegacy, Legacy!CreateOther, Recreate
    <3>2. QED
      BY ONLY <1>3, <2>3, <3>1
  <2>4. QED
    BY <2>2, <2>3
<1>4. CASE "open" \in h /\ "resume" \notin h /\ "clean" \notin h
  BY <1>4 DEF Legacy!Commit, Legacy!CreateLegacy, Create
<1>5. QED
  BY <1>1, <1>2, <1>3, <1>4

\* A call of more than one step, with persistent_save() at its end or not.
LEMMA ProgramIs ==
  ASSUME NEW p \in Seq(Legacy!SystemCalls), p # <<>>, Linked(p), Len(p) > 1,
         p[Len(p)] = "adopt",
         NEW q \in {<<>>, <<"save">>}, todo' = p \o q
  PROVE  Stays /\ Coming' = p[1] /\ After' = p[2]
<1>1. q \in Seq(Legacy!SystemCalls) /\ (q # <<>> => Len(q) = 1 /\ q[1] = "save")
  <2>1. CASE q = <<>>
    BY ONLY <2>1
  <2>2. CASE q = <<"save">>
    BY ONLY <2>2 DEF Legacy!SystemCalls
  <2>3. QED
    BY ONLY <2>1, <2>2, q \in {<<>>, <<"save">>}
<1>2. Ordered(q)
  <2>1. q = <<>> => Len(q) = 0
    OBVIOUS
  <2>2. Linked(q)
    BY <1>1, <2>1 DEF Linked
  <2>3. QED
    BY <1>1, <2>2 DEF Ordered
<1>3. /\ q = <<>> => p[Len(p)] \in {"adopt", "save"}
      /\ q # <<>> => <<p[Len(p)], q[1]>> \in Legacy!Followed
  BY <1>1 DEF Legacy!Followed
<1> DEFINE r == p \o q
<1>4. /\ r \in Seq(Legacy!SystemCalls) /\ Ordered(r) /\ r # <<>> /\ Head(r) = p[1]
      /\ Len(r) = Len(p) + Len(q) /\ \A k \in 1..Len(p) : r[k] = p[k]
  BY <1>1, <1>2, <1>3, CallIsPrefixed
<1> HIDE DEF r
<1>5. Len(r) > 1 /\ r[1] = p[1] /\ r[2] = p[2]
  <2>1. Len(p) \in Nat /\ Len(q) \in Nat
    BY <1>1, SeqFacts
  <2>2. QED
    BY ONLY <1>4, <2>1, Len(p) > 1
<1>6. StepOf(r) = r[1] /\ StepOf(Tail(r)) = r[2]
  <2>1. "" \notin Legacy!SystemCalls
    BY DEF Legacy!SystemCalls
  <2>2. QED
    BY <1>4, <1>5, <2>1, SecondStep
<1>7. todo' = r
  BY DEF r
<1>8. QED
  BY ONLY <1>4, <1>5, <1>6, <1>7 DEF Stays, Coming, After

LEMMA CallIs ==
  ASSUME NEW h, NEW q \in {<<>>, <<"save">>}, Legacy!Call(h, q)
  PROVE  /\ Stays /\ Coming = ""
         /\ UNCHANGED <<exists, checkpoint, link, manager, crashes>>
         /\ \/ hint' = {} /\ Coming' \in {"", "save"}
            \/ {"open", "resume"} \subseteq h /\ hint' = {h} /\ Coming' = "load"
            \/ /\ "open" \in h /\ "resume" \notin h /\ ("clean" \in h => manager = {})
               /\ hint' = {h} /\ Coming' = "mkdtemp" /\ After' = "readlink"
            \/ /\ {"open", "clean"} \subseteq h /\ "resume" \notin h /\ manager # {}
               /\ hint' = {h} /\ Coming' = "clear_own"
<1>1. /\ todo = <<>> /\ todo' = Legacy!Commit(h) \o q
      /\ hint' = IF Legacy!Commit(h) = <<>> THEN {} ELSE {h}
      /\ UNCHANGED <<exists, checkpoint, link, manager, crashes>>
  BY DEF Legacy!Call, Legacy!files
<1>2. Coming = ""
  BY <1>1 DEF Coming, StepOf
<1>3. CASE "open" \notin h /\ Legacy!Commit(h) = <<>>
  <2>1. hint' = {} /\ todo' = q
    BY <1>1, <1>3
  <2>2. q = <<>> => Stays /\ Coming' = ""
    BY <2>1, RaiseIs
  <2>3. q = <<"save">> => Stays /\ Coming' = "save"
    <3>1. SUFFICES ASSUME q = <<"save">>
                   PROVE  Stays /\ Coming' = "save"
      OBVIOUS
    <3>2. q \in Seq(Legacy!SystemCalls) /\ Len(q) = 1 /\ q[1] = "save" /\ q # <<>> /\ Head(q) = "save"
      BY <3>1 DEF Legacy!SystemCalls
    <3>3. Linked(q)
      BY <3>2 DEF Linked
    <3>4. QED
      BY <2>1, <3>2, <3>3 DEF Stays, Ordered, Coming, StepOf
  <2>4. QED
    BY ONLY <1>1, <1>2, <2>1, <2>2, <2>3, q \in {<<>>, <<"save">>}
<1>4. CASE {"open", "resume"} \subseteq h /\ Legacy!Commit(h) = <<"load", "adopt">>
  <2> DEFINE p == <<"load", "adopt">>
  <2>1. p # <<>> /\ p[1] = "load" /\ p[2] = "adopt"
    OBVIOUS
  <2>2. p \in Seq(Legacy!SystemCalls) /\ Linked(p) /\ Len(p) = 2
    BY LoadIs
  <2>3. hint' = {h} /\ todo' = p \o q
    BY <1>1, <1>4, <2>1
  <2> HIDE DEF p
  <2>4. p[Len(p)] = "adopt" /\ Len(p) > 1
    BY <2>1, <2>2
  <2>5. Stays /\ Coming' = p[1]
    BY <2>1, <2>2, <2>3, <2>4, ProgramIs
  <2>6. QED
    BY ONLY <1>1, <1>2, <1>4, <2>1, <2>3, <2>5
<1>5. CASE /\ "open" \in h /\ "resume" \notin h /\ ("clean" \in h => manager = {})
           /\ Legacy!Commit(h) = Create
  <2>1. PICK p : p = Create
    OBVIOUS
  <2>2. /\ p \in Seq(Legacy!SystemCalls) /\ Linked(p) /\ Len(p) = 3 /\ p # <<>>
        /\ p[1] = "mkdtemp" /\ p[2] = "readlink" /\ p[3] = "adopt"
    BY <2>1, CreateIs
  <2>3. hint' = {h} /\ todo' = p \o q
    BY <1>1, <1>5, <2>1, <2>2
  <2>4. p[Len(p)] = "adopt" /\ Len(p) > 1
    BY <2>2
  <2>5. Stays /\ Coming' = p[1] /\ After' = p[2]
    BY <2>2, <2>3, <2>4, ProgramIs
  <2>6. QED
    BY ONLY <1>1, <1>2, <1>5, <2>2, <2>3, <2>5
<1>6. CASE /\ {"open", "clean"} \subseteq h /\ "resume" \notin h /\ manager # {}
           /\ Legacy!Commit(h) = Recreate
  <2>1. PICK p : p = Recreate
    OBVIOUS
  <2>2. /\ p \in Seq(Legacy!SystemCalls) /\ Linked(p) /\ Len(p) = 6 /\ p # <<>>
        /\ p[1] = "clear_own" /\ p[6] = "adopt"
    BY <2>1, RecreateIs
  <2>3. hint' = {h} /\ todo' = p \o q
    BY <1>1, <1>6, <2>1, <2>2
  <2>4. p[Len(p)] = "adopt" /\ Len(p) > 1
    BY <2>2
  <2>5. Stays /\ Coming' = p[1]
    BY <2>2, <2>3, <2>4, ProgramIs
  <2>6. QED
    BY ONLY <1>1, <1>2, <1>6, <2>2, <2>3, <2>5
<1>7. QED
  BY <1>3, <1>4, <1>5, <1>6, CommitIs

\* A method that looks at the hints h; clean() without an earlier manager, or with one,
\* which the history remembers.
LEMMA MethodKnows ==
  ASSUME View, NEW h, NEW q \in {<<>>, <<"save">>}, Legacy!Call(h, q),
         cleaned => cleaned',
         ~cleaned' /\ crashes = 0 /\ {"open", "clean"} \subseteq h /\ "resume" \notin h
           => manager = {}
  PROVE  View'
<1>1. /\ Stays /\ Coming = ""
      /\ UNCHANGED <<exists, checkpoint, link, manager, crashes>>
      /\ \/ hint' = {} /\ Coming' \in {"", "save"}
         \/ {"open", "resume"} \subseteq h /\ hint' = {h} /\ Coming' = "load"
         \/ /\ "open" \in h /\ "resume" \notin h /\ ("clean" \in h => manager = {})
            /\ hint' = {h} /\ Coming' = "mkdtemp" /\ After' = "readlink"
         \/ /\ {"open", "clean"} \subseteq h /\ "resume" \notin h /\ manager # {}
            /\ hint' = {h} /\ Coming' = "clear_own"
  BY CallIs
<1>2. hint' = {} => Legacy!Hints' = {}
  BY DEF Legacy!Hints
<1>3. hint' = {h} => Legacy!Hints' = h
  BY DEF Legacy!Hints
<1> HIDE DEF Coming, After
<1>4. checkpoint \subseteq exists /\ crashes \in Nat /\ KnowsAt("") /\ UsedAt("", After)
  BY <1>1 DEF View
<1>5. KnowsAt(Coming)'
  BY ONLY <1>1, <1>2, <1>3, <1>4 DEF KnowsAt
<1>6. UsedAt(Coming, After)'
  BY <1>1, <1>2, <1>3, <1>4 DEF UsedAt
<1>7. QED
  BY ONLY <1>1, <1>4, <1>5, <1>6 DEF View, Stays

LEMMA InitLegacy == Legacy!Init => Legacy!IInv
<1> SUFFICES ASSUME Legacy!Init
             PROVE  View
  BY ViewIs
<1>1. /\ exists = {} /\ checkpoint = {} /\ link = {} /\ manager = {} /\ hint = {}
      /\ todo = <<>> /\ storage = {} /\ crashes = 0 /\ ~cleaned
  BY DEF Legacy!Init
<1>2. todo \in Seq(Legacy!SystemCalls) /\ Ordered(todo) /\ Coming = ""
  <2>1. todo \in Seq(Legacy!SystemCalls) /\ Len(todo) = 0
    BY ONLY <1>1
  <2>2. QED
    BY ONLY <1>1, <2>1 DEF Ordered, Linked, Coming, StepOf
<1> HIDE DEF Coming, After
<1>3. KnowsAt(Coming) /\ UsedAt(Coming, After)
  BY ONLY <1>1, <1>2 DEF KnowsAt, UsedAt, Legacy!Hints
<1>4. QED
  BY ONLY <1>1, <1>2, <1>3 DEF View

\* The methods that are no calls of _commit_manager().
LEMMA QuickKnows ==
  ASSUME View, Legacy!Open \/ Legacy!Close \/ UNCHANGED Legacy!vars
  PROVE  View'
<1>1. CASE Legacy!Open
  <2>1. /\ todo = <<>> /\ hint' = {Legacy!Hints \cup {"open"}}
        /\ UNCHANGED <<exists, checkpoint, link, manager, todo, storage, crashes, cleaned>>
    BY <1>1 DEF Legacy!Open, Legacy!files
  <2>2. Coming = "" /\ Coming' = "" /\ Stays
    BY <2>1 DEF Coming, StepOf, Stays, View
  <2>3. Legacy!Hints' = Legacy!Hints \cup {"open"}
    BY <2>1 DEF Legacy!Hints
  <2> HIDE DEF Coming, After
  <2>4. checkpoint \subseteq exists /\ crashes \in Nat /\ KnowsAt("") /\ UsedAt("", After)
    BY <2>2 DEF View
  <2>5. KnowsAt(Coming)'
    BY ONLY <2>1, <2>2, <2>3, <2>4 DEF KnowsAt
  <2>6. UsedAt(Coming, After)'
    BY ONLY <2>1, <2>2, <2>3, <2>4 DEF UsedAt
  <2>7. QED
    BY ONLY <2>1, <2>2, <2>4, <2>5, <2>6 DEF View, Stays
<1>2. CASE Legacy!Close
  <2>1. /\ todo = <<>> /\ hint' = {} /\ manager' = {}
        /\ UNCHANGED <<exists, checkpoint, link, todo, storage, crashes, cleaned>>
    BY <1>2 DEF Legacy!Close, Legacy!files
  <2>2. Coming = "" /\ Coming' = "" /\ Stays
    BY <2>1 DEF Coming, StepOf, Stays, View
  <2>3. Legacy!Hints' = {}
    BY <2>1 DEF Legacy!Hints
  <2> HIDE DEF Coming, After
  <2>4. checkpoint \subseteq exists /\ crashes \in Nat /\ KnowsAt("") /\ UsedAt("", After)
    BY <2>2 DEF View
  <2>5. KnowsAt(Coming)'
    BY ONLY <2>1, <2>2, <2>3, <2>4 DEF KnowsAt
  <2>6. UsedAt(Coming, After)'
    BY ONLY <2>1, <2>2, <2>3, <2>4 DEF UsedAt
  <2>7. QED
    BY ONLY <2>1, <2>2, <2>4, <2>5, <2>6 DEF View, Stays
<1>3. CASE UNCHANGED Legacy!vars
  <2>1. UNCHANGED <<exists, checkpoint, link, manager, hint, todo, storage, crashes, cleaned>>
    BY <1>3 DEF Legacy!vars, Legacy!files, Legacy!object
  <2>2. Coming' = Coming /\ After' = After /\ Legacy!Hints' = Legacy!Hints
    BY ONLY <2>1 DEF Coming, After, StepOf, Legacy!Hints
  <2> HIDE DEF Coming, After
  <2>3. KnowsAt(Coming) /\ UsedAt(Coming, After)
    BY DEF View
  <2>4. KnowsAt(Coming)'
    BY ONLY <2>1, <2>2, <2>3 DEF KnowsAt
  <2>5. UsedAt(Coming, After)'
    BY ONLY <2>1, <2>2, <2>3 DEF UsedAt
  <2>6. QED
    BY <2>1, <2>4, <2>5 DEF View
<1>4. QED
  BY <1>1, <1>2, <1>3

LEMMA CallsKnow ==
  ASSUME View, Legacy!Resume \/ Legacy!Clean \/ Legacy!UseManager \/ Legacy!PersistentSave
  PROVE  View'
<1> DEFINE wanted(h) == ~cleaned /\ crashes = 0 /\ {"open", "clean"} \subseteq h /\ "resume" \notin h
                          => manager = {}
<1>1. wanted(Legacy!Hints) /\ wanted(Legacy!Hints \cup {"resume"})
  BY DEF View, UsedAt
<1>2. CASE Legacy!Resume
  <2>1. Legacy!Call(Legacy!Hints \cup {"resume"}, <<>>) /\ cleaned' = cleaned
    BY <1>2 DEF Legacy!Resume
  <2>2. QED
    BY <1>1, <2>1, MethodKnows
<1>3. CASE Legacy!Clean
  <2>1. PICK h : h = Legacy!Hints \cup {"clean"}
    OBVIOUS
  <2>2. /\ Legacy!Call(h, <<>>)
        /\ cleaned' = (cleaned \/ ("open" \in Legacy!Hints /\ manager # {}))
    BY <1>3, <2>1 DEF Legacy!Clean
  <2>3. cleaned => cleaned'
    BY <2>2
  <2>4. ~cleaned' /\ crashes = 0 /\ {"open", "clean"} \subseteq h /\ "resume" \notin h
           => manager = {}
    BY ONLY <2>1, <2>2
  <2>5. QED
    BY <2>2, <2>3, <2>4, MethodKnows
<1>4. CASE Legacy!UseManager
  <2>1. Legacy!Call(Legacy!Hints, <<>>) /\ cleaned' = cleaned
    BY <1>4 DEF Legacy!UseManager
  <2>2. QED
    BY <1>1, <2>1, MethodKnows
<1>5. CASE Legacy!PersistentSave
  <2>1. Legacy!Call(Legacy!Hints, <<"save">>) /\ cleaned' = cleaned
    BY <1>5 DEF Legacy!PersistentSave
  <2>2. QED
    BY <1>1, <2>1, MethodKnows
<1>6. QED
  BY <1>2, <1>3, <1>4, <1>5

LEMMA NextLegacy == Legacy!IInv /\ (Legacy!Next \/ UNCHANGED Legacy!vars) => Legacy!IInv'
<1> SUFFICES ASSUME View, Legacy!Next \/ UNCHANGED Legacy!vars
             PROVE  View'
  BY ViewIs, ViewIsNext
<1>1. CASE Legacy!Methods
  BY <1>1, QuickKnows, CallsKnow DEF Legacy!Methods
<1>2. CASE Legacy!Steps
  BY <1>2, MkdtempKnows, ReadlinkKnows, ClearLinkedKnows, ClearOwnKnows, RmdirKnows,
     UnlinkKnows, SymlinkKnows, LoadKnows, AdoptKnows, SaveKnows
     DEF Legacy!Steps
<1>3. QED
  BY <1>1, <1>2, CrashKnows, QuickKnows DEF Legacy!Next

\* Why sessions are found, and what a step may not do.
LEMMA LegacyIsKept ==
  ASSUME Legacy!IInv
  PROVE  Legacy!SavedIsFound /\ Legacy!OneSessionIfUsedWell
<1>1. View
  BY ViewIs
<1>2. Legacy!Idle => Coming = ""
  BY DEF Legacy!Idle, Coming, StepOf
<1>3. Legacy!Idle => KnowsAt("") /\ UsedAt("", After)
  BY <1>1, <1>2 DEF View
<1> HIDE DEF Coming, After
<1>4. QED
  BY ONLY <1>3 DEF KnowsAt, UsedAt, Legacy!SavedIsFound, Legacy!OneSessionIfUsedWell

ReadsOnly ==
  ("resume" \in Legacy!Hints /\ "open" \in Legacy!Hints /\ ~Legacy!Idle) =>
    exists' = exists /\ link' = link /\ checkpoint \subseteq checkpoint'

ForAReason ==
  \A d \in checkpoint \ checkpoint' :
    (storage \subseteq exists /\ storage # {} /\ d \notin storage) \/ "clean" \in Legacy!Hints

LEMMA LegacyStepIs ==
  ASSUME Legacy!IInv, Legacy!Next
  PROVE  ReadsOnly /\ ForAReason
<1>1. View
  BY ViewIs
<1>2. KnowsAt(Coming)
  BY <1>1 DEF View
<1>3. ~Legacy!Idle => Coming # ""
  <2>1. SUFFICES ASSUME todo # <<>>
                 PROVE  Coming # ""
    BY DEF Legacy!Idle
  <2>2. Coming \in Legacy!SystemCalls
    BY <1>1, <2>1, TailFacts DEF View, Coming, StepOf
  <2>3. QED
    BY ONLY <2>2 DEF Legacy!SystemCalls
<1>4. CASE Legacy!Methods
  BY <1>4 DEF Legacy!Methods, Legacy!Open, Legacy!Resume, Legacy!Clean, Legacy!Close,
     Legacy!UseManager, Legacy!PersistentSave, Legacy!Call, Legacy!files, ReadsOnly, ForAReason
<1>5. CASE Legacy!Crash
  BY <1>5 DEF Legacy!Crash, Legacy!files, ReadsOnly, ForAReason
<1>6. CASE Legacy!Steps
  <2>1. \/ /\ Coming \in {"mkdtemp", "readlink", "load", "adopt", "save", "rmdir", "unlink",
                          "symlink", "rmdir_own"}
           /\ checkpoint \subseteq checkpoint'
        \/ Coming = "clear" /\ checkpoint \subseteq checkpoint' \cup link
        \/ Coming = "clear_own" /\ checkpoint \subseteq checkpoint' \cup manager
    BY <1>1, <1>6, NextIs
       DEF Legacy!Steps, Legacy!Mkdtemp, Legacy!Readlink, Legacy!ClearLinked, Legacy!ClearOwn,
           Legacy!Rmdir, Legacy!Unlink, Legacy!Symlink, Legacy!Load, Legacy!Adopt, Legacy!Save,
           Legacy!Clear, Legacy!files, Legacy!SystemCalls
  <2>2. Coming \in {"load", "adopt", "save"} => exists' = exists /\ link' = link
    BY <1>1, <1>6, NextIs
       DEF Legacy!Steps, Legacy!Mkdtemp, Legacy!Readlink, Legacy!ClearLinked, Legacy!ClearOwn,
           Legacy!Rmdir, Legacy!Unlink, Legacy!Symlink, Legacy!Load, Legacy!Adopt, Legacy!Save,
           Legacy!files, Legacy!SystemCalls
  <2> HIDE DEF Coming
  <2>3. ReadsOnly
    BY ONLY <1>2, <1>3, <2>1, <2>2 DEF KnowsAt, ReadsOnly
  <2>4. ForAReason
    BY ONLY <1>2, <2>1 DEF KnowsAt, ForAReason
  <2>5. QED
    BY <2>3, <2>4
<1>7. QED
  BY <1>4, <1>5, <1>6 DEF Legacy!Next

-----------------------------------------------------------------------------
(* The D-Bus service and its client.  The inductive invariant says which of *)
(* six things goes on: a job runs, a message or a call is under way, a      *)
(* question waits for an answer or a command for a decision, or nothing is  *)
(* left to do; and for each of them what the client, the session and the    *)
(* storage look like.                                                       *)

LEMMA ServiceConstants == Bus!ServiceAssumption
BY PartsAssumption

\* An instance has operators of its own, which are the same.
LEMMA BusOperators ==
  /\ \A S : Bus!Cardinality(S) = Cardinality(S)
  /\ \A S : Bus!IsFiniteSet(S) <=> IsFiniteSet(S)
<1>1. \A S : Bus!Cardinality(S) = Cardinality(S)
  BY DEF Bus!Cardinality, Cardinality
<1>2. \A S : Bus!IsFiniteSet(S) <=> IsFiniteSet(S)
  BY DEF Bus!IsFiniteSet, IsFiniteSet
<1>3. QED
  BY <1>1, <1>2

LEMMA OneFacts ==
  ASSUME NEW S, NEW s \in Seq(S), Len(s) = 1
  PROVE  Tail(s) = <<>> /\ Head(s) \in S /\ Head(s) = s[1] /\ DOMAIN s = {1} /\ s # <<>>
<1>1. Tail(s) \in Seq(S) /\ Len(Tail(s)) = 0 /\ s # <<>>
  OBVIOUS
<1>2. Tail(s) = <<>>
  BY <1>1, SeqFacts
<1>3. QED
  BY <1>1, <1>2

LEMMA AppendsOne ==
  ASSUME NEW S, NEW e \in S
  PROVE  /\ Append(<<>>, e) \in Seq(S) /\ Len(Append(<<>>, e)) = 1
         /\ Head(Append(<<>>, e)) = e /\ Append(<<>>, e) # <<>>
OBVIOUS

LEMMA ReplaceFacts ==
  ASSUME NEW S, NEW s \in Seq(S), NEW r \in 1..Len(s), NEW e
  PROVE  LET new == [s EXCEPT ![r] = e]
         IN  /\ Len(new) = Len(s) /\ DOMAIN new = 1..Len(s)
             /\ new[r] = e
             /\ \A q \in 1..Len(s) : q # r => new[q] = s[q]
             /\ e \in S => new \in Seq(S)
OBVIOUS

LEMMA Monotone ==
  ASSUME NEW S, NEW T, S \subseteq T, NEW s \in Seq(S)
  PROVE  s \in Seq(T)
OBVIOUS

LEMMA RunnerFacts ==
  ASSUME Bus!TypeOK
  PROVE  /\ Bus!Newest \in Nat /\ DOMAIN runners = 1..Bus!Newest
         /\ (Bus!Newest = 0 <=> runners = <<>>)
         /\ \A r \in 1..Bus!Newest :
              /\ runners[r].job \in ServiceNames
              /\ runners[r].thread \in Bus!Accessing \cup {"check", "run", "done"}
              /\ runners[r].dir \in 0..made
              /\ runners[r].commands \in Nat /\ runners[r].ran \in Nat
              /\ runners[r].outcome \in Bus!Outcomes
         /\ \A j \in ServiceNames : result[j].runner \in 0..Bus!Newest
              /\ result[j].outcome \in Bus!Outcomes
  <1>1. runners \in Seq(Bus!RunningJobs)
    BY DEF Bus!TypeOK
  <1>2. Bus!Newest \in Nat /\ DOMAIN runners = 1..Bus!Newest
          /\ (Bus!Newest = 0 <=> runners = <<>>)
        /\ \A r \in 1..Bus!Newest : runners[r] \in Bus!RunningJobs
    BY <1>1, SeqFacts DEF Bus!Newest
  <1>3. \A j \in ServiceNames : result[j] \in Bus!Results
    BY DEF Bus!TypeOK
  <1>4. QED
    BY <1>2, <1>3 DEF Bus!Results, Bus!Newest, Bus!RunningJobs

LEMMA MessageFacts ==
  ASSUME Bus!TypeOK, Bus!MessageIs
  PROVE  /\ Tail(inbox) = <<>> /\ Head(inbox) \in Bus!Messages /\ inbox # <<>>
         /\ Head(inbox).kind \in {"result", "ask", "reply"}
         /\ Head(inbox).kind = "result" => Head(inbox).job \in ServiceNames
              /\ Head(inbox).result \in Bus!Results
         /\ Head(inbox).kind = "ask" => Head(inbox).runner \in DOMAIN runners
         /\ Head(inbox).kind = "reply" => Head(inbox).phase \in Bus!Phases
<1>1. inbox \in Seq(Bus!Messages) /\ Len(inbox) = 1
  BY DEF Bus!TypeOK, Bus!MessageIs
<1>2. Tail(inbox) = <<>> /\ Head(inbox) \in Bus!Messages /\ inbox # <<>>
  BY <1>1, OneFacts
<1>3. QED
  BY <1>2 DEF Bus!Messages

LEMMA CallFacts ==
  ASSUME Bus!TypeOK, Bus!CallIs
  PROVE  /\ Tail(request) = <<>> /\ request # <<>> /\ Head(request) \in Bus!Calls
         /\ Head(request).job \in ServiceNames /\ Head(request).result \in Bus!Results
         /\ Head(request).phase \in Bus!Phases
<1>1. request \in Seq(Bus!Calls) /\ Len(request) = 1
  BY DEF Bus!TypeOK, Bus!CallIs
<1>2. Tail(request) = <<>> /\ Head(request) \in Bus!Calls /\ request # <<>>
  BY <1>1, OneFacts
<1>3. QED
  BY <1>2 DEF Bus!Calls

\* Which of the six a step begins in.
LEMMA TheMessage ==
  ASSUME Bus!IInv, NEW kind, Bus!Message(kind)
  PROVE  Bus!TypeOK /\ Bus!MessageIs /\ Bus!AskedOf(kind) /\ inbox' = <<>>
           /\ request = <<>> /\ saving = "no"
<1>1. Bus!TypeOK /\ Bus!MessageIs /\ Bus!AskedOf(kind) /\ request = <<>> /\ saving = "no"
        /\ inbox' = Tail(inbox)
  BY DEF Bus!IInv, Bus!Message, Bus!OneIsUnderWay, Bus!NothingIs, Bus!JobIs, Bus!CommandIs,
       Bus!QuestionIs, Bus!MessageIs, Bus!CallIs, Bus!AskedOf
<1>2. QED
  BY <1>1, MessageFacts

LEMMA TheCall ==
  ASSUME Bus!IInv, request # <<>>
  PROVE  Bus!TypeOK /\ Bus!CallIs /\ inbox = <<>> /\ client = "waiting"
BY DEF Bus!IInv, Bus!OneIsUnderWay, Bus!NothingIs, Bus!JobIs, Bus!CommandIs, Bus!QuestionIs,
     Bus!MessageIs, Bus!CallIs

LEMMA TheJob ==
  ASSUME Bus!IInv, NEW r \in DOMAIN runners, runners[r].thread # "done"
  PROVE  /\ Bus!TypeOK /\ Bus!JobIs /\ r = Bus!Newest /\ r \in 1..Bus!Newest
         /\ runners[r].job = current_job_path /\ runners[r].commands = 0
<1>1. Bus!TypeOK
  BY DEF Bus!IInv
<1>2. Bus!Newest \in Nat /\ DOMAIN runners = 1..Bus!Newest
  BY <1>1, RunnerFacts
<1>3. Bus!JobIs /\ r = Bus!Newest
  BY <1>2 DEF Bus!IInv, Bus!OneIsUnderWay, Bus!NothingIs, Bus!JobIs, Bus!CommandIs,
       Bus!QuestionIs, Bus!MessageIs, Bus!CallIs, Bus!NobodyRuns, Bus!Quiet
<1>4. QED
  BY <1>1, <1>2, <1>3 DEF Bus!IInv, Bus!JobIs, Bus!MessagesAreRight

LEMMA TheCommand ==
  ASSUME Bus!IInv, NEW r \in DOMAIN runners, runners[r].commands > 0
  PROVE  /\ Bus!TypeOK /\ Bus!CommandIs /\ r = Bus!Newest /\ r \in 1..Bus!Newest
         /\ runners[r].job = current_job_path /\ runners[r].commands = 1
<1>1. Bus!TypeOK
  BY DEF Bus!IInv
<1>2. Bus!Newest \in Nat /\ DOMAIN runners = 1..Bus!Newest
  BY <1>1, RunnerFacts
<1>3. Bus!CommandIs /\ r = Bus!Newest
  BY <1>2 DEF Bus!IInv, Bus!OneIsUnderWay, Bus!NothingIs, Bus!JobIs, Bus!CommandIs,
       Bus!QuestionIs, Bus!MessageIs, Bus!CallIs, Bus!NobodyRuns, Bus!Quiet
<1>4. QED
  BY <1>1, <1>2, <1>3 DEF Bus!IInv, Bus!CommandIs, Bus!MessagesAreRight

LEMMA TheQuestion ==
  ASSUME Bus!IInv, client = "asking"
  PROVE  /\ Bus!TypeOK /\ Bus!QuestionIs /\ runner_asked = Bus!Newest
              /\ Bus!Newest \in 1..Bus!Newest
         /\ runners[Bus!Newest].job = current_job_path
<1>1. Bus!TypeOK /\ Bus!QuestionIs
  BY DEF Bus!IInv, Bus!OneIsUnderWay, Bus!NothingIs, Bus!JobIs, Bus!CommandIs, Bus!QuestionIs,
       Bus!MessageIs, Bus!CallIs
<1>2. Bus!Newest \in Nat /\ DOMAIN runners = 1..Bus!Newest
  BY <1>1, RunnerFacts
<1>3. QED
  BY <1>1, <1>2 DEF Bus!IInv, Bus!QuestionIs, Bus!MessagesAreRight

LEMMA RunnerIsReplaced ==
  ASSUME runners \in Seq(Bus!RunningJobs), NEW r \in 1..Bus!Newest, NEW new \in Bus!RunningJobs,
         runners' = [runners EXCEPT ![r] = new]
  PROVE  /\ Bus!Newest' = Bus!Newest /\ DOMAIN runners' = 1..Bus!Newest
              /\ runners' \in Seq(Bus!RunningJobs)
         /\ runners'[r] = new /\ \A q \in 1..Bus!Newest : q # r => runners'[q] = runners[q]
<1>1. PICK S : S = Bus!RunningJobs
  OBVIOUS
<1>2. runners \in Seq(S) /\ new \in S /\ r \in 1..Len(runners)
  BY <1>1 DEF Bus!Newest
<1>3. QED
  BY <1>1, <1>2, ReplaceFacts DEF Bus!Newest

LEMMA RunnerMoves ==
  ASSUME Bus!TypeOK, NEW r \in 1..Bus!Newest, NEW changed \in Bus!RunningJobs, UNCHANGED made,
         runners' = [runners EXCEPT ![r] = changed]
  PROVE  /\ Bus!Newest' = Bus!Newest /\ Bus!Newest \in Nat /\ Bus!Newest = Len(runners)
         /\ DOMAIN runners' = 1..Bus!Newest /\ DOMAIN runners = 1..Bus!Newest
         /\ runners' \in Seq(Bus!RunningJobs')
         /\ Bus!Results' = Bus!Results /\ Bus!Calls' = Bus!Calls /\ Bus!Messages' = Bus!Messages
         /\ runners'[r] = changed /\ \A q \in 1..Bus!Newest : q # r => runners'[q] = runners[q]
<1>1. runners \in Seq(Bus!RunningJobs) /\ Bus!Newest \in Nat /\ DOMAIN runners = 1..Bus!Newest
  BY RunnerFacts DEF Bus!TypeOK
<1>2. /\ Bus!Newest' = Bus!Newest /\ DOMAIN runners' = 1..Bus!Newest
           /\ runners' \in Seq(Bus!RunningJobs)
      /\ runners'[r] = changed /\ \A q \in 1..Bus!Newest : q # r => runners'[q] = runners[q]
  BY <1>1, RunnerIsReplaced
<1>3. Bus!RunningJobs' = Bus!RunningJobs
  BY DEF Bus!RunningJobs
<1>4. Bus!Results' = Bus!Results
  BY <1>2 DEF Bus!Results, Bus!Newest
<1>5. Bus!Calls' = Bus!Calls /\ Bus!Messages' = Bus!Messages
  BY <1>1, <1>2, <1>4 DEF Bus!Calls, Bus!Messages
<1>6. QED
  BY <1>1, <1>2, <1>3, <1>4, <1>5 DEF Bus!Newest

LEMMA ThreadGoes ==
  ASSUME Bus!TypeOK, NEW r \in 1..Bus!Newest, NEW t \in Bus!Accessing \cup {"check", "run",
         "done"},
         UNCHANGED made, runners' = [runners EXCEPT ![r].thread = t]
  PROVE  /\ Bus!Newest' = Bus!Newest /\ Bus!Newest \in Nat /\ Bus!Newest = Len(runners)
         /\ DOMAIN runners' = 1..Bus!Newest /\ DOMAIN runners = 1..Bus!Newest
         /\ runners' \in Seq(Bus!RunningJobs')
         /\ Bus!Results' = Bus!Results /\ Bus!Calls' = Bus!Calls /\ Bus!Messages' = Bus!Messages
         /\ \A q \in 1..Bus!Newest :
              /\ runners'[q].thread = IF q = r THEN t ELSE runners[q].thread
              /\ runners'[q].job = runners[q].job /\ runners'[q].dir = runners[q].dir
              /\ runners'[q].commands = runners[q].commands
              /\ runners'[q].ran = runners[q].ran /\ runners'[q].outcome = runners[q].outcome
<1>1. runners \in Seq(Bus!RunningJobs) /\ DOMAIN runners = 1..Bus!Newest
  BY RunnerFacts DEF Bus!TypeOK
<1>2. PICK old : old = runners[r]
  OBVIOUS
<1>3. PICK changed : changed = [old EXCEPT !.thread = t]
  OBVIOUS
<1>4. old \in Bus!RunningJobs
  BY <1>1, <1>2, SeqFacts DEF Bus!Newest
<1>5. /\ changed \in Bus!RunningJobs /\ changed.thread = t
      /\ changed.job = old.job /\ changed.dir = old.dir /\ changed.commands = old.commands
      /\ changed.ran = old.ran /\ changed.outcome = old.outcome
  BY ONLY <1>3, <1>4, t \in Bus!Accessing \cup {"check", "run", "done"} DEF Bus!RunningJobs
<1>6. runners' = [runners EXCEPT ![r] = changed]
  BY <1>1, <1>2, <1>3
<1>7. /\ Bus!Newest' = Bus!Newest /\ Bus!Newest \in Nat /\ Bus!Newest = Len(runners)
      /\ DOMAIN runners' = 1..Bus!Newest /\ DOMAIN runners = 1..Bus!Newest
      /\ runners' \in Seq(Bus!RunningJobs')
      /\ Bus!Results' = Bus!Results /\ Bus!Calls' = Bus!Calls /\ Bus!Messages' = Bus!Messages
      /\ runners'[r] = changed /\ \A q \in 1..Bus!Newest : q # r => runners'[q] = runners[q]
  BY <1>5, <1>6, RunnerMoves
<1>8. QED
  BY <1>2, <1>5, <1>7

LEMMA SessionRunList ==
  ASSUME Bus!TypeOK
  PROVE  /\ Bus!ToSet(session_run_list) \subseteq ServiceNames
         /\ \A j \in ServiceNames : Deps[j] \subseteq ServiceNames
<1>1. session_run_list \in Seq(ServiceNames)
  BY DEF Bus!TypeOK
<1>2. QED
  BY <1>1, SeqFacts, ServiceConstants DEF Bus!ToSet, Bus!ServiceAssumption

LEMMA RecomputeStays ==
  ASSUME Bus!TypeOK, UNCHANGED session_run_list,
         \A j \in ServiceNames : Bus!Outcome(result[j])' = Bus!Outcome(result[j])
  PROVE  Bus!Recompute(session_run_list, result)' = Bus!Recompute(session_run_list, result)
<1>1. \A j \in Bus!ToSet(session_run_list) : \A d \in Deps[j] :
        Bus!Outcome(result[d])' = Bus!Outcome(result[d])
  BY SessionRunList
<1>2. QED
  BY <1>1 DEF Bus!Recompute

LEMMA OutcomesStay ==
  ASSUME Bus!TypeOK, UNCHANGED <<result, session_run_list>>, Bus!Newest <= Bus!Newest',
         Bus!Newest' \in Nat,
         \A r \in 1..Bus!Newest : runners'[r].outcome = runners[r].outcome
  PROVE  /\ \A j \in ServiceNames : Bus!Outcome(result[j])' = Bus!Outcome(result[j])
         /\ Bus!Recompute(session_run_list, result)' = Bus!Recompute(session_run_list, result)
<1>1. \A j \in ServiceNames : result[j].runner \in 0..Bus!Newest /\ Bus!Newest \in Nat
  BY RunnerFacts
<1>2. \A j \in ServiceNames : Bus!Outcome(result[j])' = Bus!Outcome(result[j])
  BY <1>1 DEF Bus!Outcome
<1>3. QED
  BY <1>2, RecomputeStays

-----------------------------------------------------------------------------
LEMMA AskKept == Bus!IInv /\ Bus!HandleAsk => Bus!IInv'
<1> SUFFICES ASSUME Bus!IInv, Bus!HandleAsk PROVE Bus!IInv'
  OBVIOUS
<1>1. Bus!TypeOK /\ Bus!MessageIs /\ Bus!AskedOf("ask") /\ inbox' = <<>> /\ request = <<>>
  BY TheMessage DEF Bus!HandleAsk
<1>2. client' = "asking" /\ runner_asked' = Bus!Newest
  BY <1>1 DEF Bus!HandleAsk, Bus!IInv, Bus!MessagesAreRight
<1>3. UNCHANGED <<phase, run_list, current_job_path, whitelist, request, updating,
                 Bus!session_vars, runners, unheard, Bus!storage_vars>>
  BY DEF Bus!HandleAsk
<1> USE DEF Bus!session_vars, Bus!storage_vars
<1>4. Bus!Newest \in Nat
  BY <1>1, RunnerFacts
<1>5. Bus!Results' = Bus!Results /\ Bus!Calls' = Bus!Calls /\ Bus!RunningJobs' = Bus!RunningJobs
  BY <1>3 DEF Bus!Results, Bus!Calls, Bus!RunningJobs
<1>6. Bus!TypeOK'
  <2>1. client' \in {"start", "waiting", "asking", "results", "no_name", "no_wrapper"}
    BY <1>2
  <2>2. runner_asked' \in 0..Len(runners')
    BY <1>2, <1>3, <1>4 DEF Bus!Newest
  <2>3. inbox' \in Seq(Bus!Messages')
    BY <1>1
  <2>4. QED
    BY <1>1, <1>3, <1>5, <2>1, <2>2, <2>3 DEF Bus!TypeOK
<1>7. Bus!QuestionIs'
  BY <1>1, <1>2, <1>3 DEF Bus!QuestionIs, Bus!MessageIs, Bus!NobodyRuns, Bus!Quiet, Bus!Newest
<1>8. Bus!MessagesAreRight'
  BY <1>1, <1>2, <1>3, <1>7 DEF Bus!IInv, Bus!MessagesAreRight, Bus!AskedOf, Bus!MessageIs,
       Bus!CallIs, Bus!Newest
<1>9. Bus!MakingGoesOn' /\ Bus!NobodyRaced'
  BY <1>1, <1>2, <1>3 DEF Bus!IInv, Bus!MakingGoesOn, Bus!NobodyRaced, Bus!Newest, Bus!MessageIs
<1>10. Bus!ResultsAreFinal'
  BY <1>1, <1>2, <1>3 DEF Bus!IInv, Bus!ResultsAreFinal, Bus!Newest, Bus!MessageIs,
       Bus!IsRunning, Bus!JobIs, Bus!DecidedBefore, Bus!Outcome
<1>11. Bus!ReadinessIsKept'
  BY <1>1, <1>2, <1>3 DEF Bus!IInv, Bus!ReadinessIsKept, Bus!Newest, Bus!MessageIs,
       Bus!IsRunning, Bus!JobIs, Bus!Outcome, Bus!Recompute
<1>12. Bus!ListsAreKept'
  BY <1>1, <1>2, <1>3 DEF Bus!IInv, Bus!ListsAreKept, Bus!Newest, Bus!MessageIs, Bus!CallIs,
       Bus!AskedOf, Bus!GeneratesFirst, Bus!LateGenerators, Bus!Outcome, Bus!Settled
<1>13. Bus!JobsHaveWrappers'
  BY <1>1, <1>2, <1>3 DEF Bus!IInv, Bus!JobsHaveWrappers, Bus!LateGenerators
<1> QED
  BY <1>2, <1>6, <1>7, <1>8, <1>9, <1>10, <1>11, <1>12, <1>13 DEF Bus!IInv, Bus!OneIsUnderWay

LEMMA ResultKept == Bus!IInv /\ Bus!HandleResult => Bus!IInv'
<1> SUFFICES ASSUME Bus!IInv, Bus!HandleResult PROVE Bus!IInv'
  OBVIOUS
<1> DEFINE call == [job |-> Head(inbox).job, result |-> Head(inbox).result, phase |-> phase]
<1>1. Bus!TypeOK /\ Bus!MessageIs /\ Bus!AskedOf("result") /\ inbox' = <<>> /\ request = <<>>
  BY TheMessage DEF Bus!HandleResult
<1>2. UNCHANGED <<client, phase, run_list, current_job_path, whitelist, runner_asked, updating,
                 Bus!session_vars, runners, unheard, Bus!storage_vars>>
  BY DEF Bus!HandleResult, Bus!client_vars
<1> USE DEF Bus!session_vars, Bus!storage_vars
<1>3. Bus!Newest \in Nat /\ call \in Bus!Calls
  BY <1>1, RunnerFacts, MessageFacts DEF Bus!Calls, Bus!AskedOf, Bus!TypeOK
<1>4. request' \in Seq(Bus!Calls) /\ Len(request') = 1 /\ Head(request') = call
        /\ request' # <<>>
  <2>1. request' = Append(<<>>, call)
    BY <1>1 DEF Bus!HandleResult
  <2>2. QED
    BY <2>1, <1>3, AppendsOne
<1>5. Bus!Results' = Bus!Results /\ Bus!Calls' = Bus!Calls /\ Bus!RunningJobs' = Bus!RunningJobs
  BY <1>2 DEF Bus!Results, Bus!Calls, Bus!RunningJobs
<1>6. Bus!TypeOK'
  BY <1>1, <1>2, <1>4, <1>5 DEF Bus!TypeOK
<1>7. Bus!CallIs'
  BY <1>1, <1>2, <1>4 DEF Bus!CallIs, Bus!MessageIs, Bus!NobodyRuns, Bus!Quiet, Bus!Newest
<1>8. Bus!MessagesAreRight'
  BY <1>1, <1>2, <1>4, <1>7 DEF Bus!IInv, Bus!MessagesAreRight, Bus!AskedOf, Bus!MessageIs,
       Bus!CallIs, Bus!Newest, Bus!ReportIsRight, Bus!Outcome
<1>9. Bus!MakingGoesOn' /\ Bus!NobodyRaced'
  BY <1>1, <1>2 DEF Bus!IInv, Bus!MakingGoesOn, Bus!NobodyRaced, Bus!Newest, Bus!MessageIs
<1> ~Bus!IsRunning' /\ ~Bus!JobIs'
  BY <1>4 DEF Bus!IsRunning, Bus!JobIs, Bus!CommandIs, Bus!QuestionIs, Bus!AskedOf, Bus!MessageIs
<1>10. Bus!ResultsAreFinal'
  BY <1>1, <1>2 DEF Bus!IInv, Bus!ResultsAreFinal, Bus!Outcome
<1>11. Bus!ReadinessIsKept'
  BY <1>1, <1>2 DEF Bus!IInv, Bus!ReadinessIsKept, Bus!MessageIs, Bus!Outcome, Bus!Recompute
<1>12. Bus!ListsAreKept'
  BY <1>1, <1>2, <1>7 DEF Bus!IInv, Bus!ListsAreKept, Bus!Newest, Bus!MessageIs, Bus!CallIs,
       Bus!AskedOf, Bus!GeneratesFirst, Bus!LateGenerators, Bus!Outcome, Bus!Settled
<1>13. Bus!JobsHaveWrappers'
  BY <1>1, <1>2 DEF Bus!IInv, Bus!JobsHaveWrappers, Bus!LateGenerators
<1> QED
  BY <1>4, <1>6, <1>7, <1>8, <1>9, <1>10, <1>11, <1>12, <1>13 DEF Bus!IInv, Bus!OneIsUnderWay,
       Bus!NothingIs

LEMMA UserRunsKept == Bus!IInv /\ Bus!UserRunsCommand => Bus!IInv'
<1> SUFFICES ASSUME Bus!IInv, Bus!UserRunsCommand PROVE Bus!IInv'
  OBVIOUS
<1> DEFINE new == [runners[Bus!Newest] EXCEPT !.commands = @ + 1, !.ran = @ + 1]
<1>1. /\ Bus!TypeOK /\ Bus!QuestionIs /\ runner_asked = Bus!Newest
           /\ Bus!Newest \in 1..Bus!Newest
      /\ runners[Bus!Newest].job = current_job_path
  BY TheQuestion DEF Bus!UserRunsCommand
<1>2. UNCHANGED <<phase, run_list, current_job_path, whitelist, runner_asked, inbox,
                 request, updating, Bus!session_vars, unheard, Bus!storage_vars>>
  BY DEF Bus!UserRunsCommand
<1> USE DEF Bus!session_vars, Bus!storage_vars
<1>3. runners \in Seq(Bus!RunningJobs) /\ Bus!Newest = Len(runners) /\ MaxCommands \in Nat
      /\ Bus!Newest \in Nat /\ DOMAIN runners = 1..Bus!Newest
      /\ \A r \in 1..Bus!Newest : runners[r] \in Bus!RunningJobs
  BY <1>1, RunnerFacts, SeqFacts, ServiceConstants DEF Bus!TypeOK, Bus!Newest,
       Bus!ServiceAssumption
<1>4. runners' = [runners EXCEPT ![Bus!Newest] = new] /\ client' = "waiting"
      /\ runners[Bus!Newest].ran < MaxCommands
  BY <1>1, <1>3 DEF Bus!UserRunsCommand
<1>5. /\ runners[Bus!Newest].thread = "done" /\ runners[Bus!Newest].commands = 0
      /\ new \in Bus!RunningJobs /\ new.commands = 1 /\ new.ran \in 1..MaxCommands
      /\ new.job = runners[Bus!Newest].job /\ new.thread = "done"
           /\ new.dir = runners[Bus!Newest].dir
      /\ new.outcome = runners[Bus!Newest].outcome
  <2>1. runners[Bus!Newest].thread = "done" /\ runners[Bus!Newest].commands = 0
    BY <1>1, <1>3 DEF Bus!QuestionIs, Bus!NobodyRuns, Bus!Quiet
  <2>2. PICK c, n : c = runners[Bus!Newest].commands + 1 /\ n = runners[Bus!Newest].ran + 1
    OBVIOUS
  <2>3. c \in Nat /\ n \in Nat /\ c = 1 /\ n \in 1..MaxCommands
          /\ runners[Bus!Newest] \in Bus!RunningJobs
    BY <1>1, <1>3, <1>4, <2>1, <2>2, RunnerFacts
  <2>4. PICK old : old = runners[Bus!Newest]
    OBVIOUS
  <2>5. old \in Bus!RunningJobs /\ new = [old EXCEPT !.commands = c, !.ran = n]
    BY <2>2, <2>3, <2>4
  <2> HIDE DEF new
  <2>6. /\ new \in Bus!RunningJobs /\ new.commands = c /\ new.ran = n
        /\ new.job = old.job /\ new.dir = old.dir /\ new.thread = old.thread
        /\ new.outcome = old.outcome
    BY ONLY <2>3, <2>5 DEF Bus!RunningJobs
  <2>7. QED
    BY <2>1, <2>3, <2>4, <2>6
<1> HIDE DEF new
<1>6. /\ Bus!Newest' = Bus!Newest /\ DOMAIN runners' = 1..Bus!Newest
           /\ runners' \in Seq(Bus!RunningJobs)
      /\ runners'[Bus!Newest] = new
           /\ \A r \in 1..Bus!Newest : r # Bus!Newest => runners'[r] = runners[r]
  BY <1>1, <1>3, <1>4, <1>5, RunnerIsReplaced
<1>7. Bus!Results' = Bus!Results /\ Bus!Calls' = Bus!Calls
        /\ Bus!RunningJobs' = Bus!RunningJobs /\ Bus!Messages' = Bus!Messages
  BY <1>2, <1>3, <1>6 DEF Bus!Results, Bus!Calls, Bus!RunningJobs, Bus!Messages, Bus!Newest
<1>8. Bus!TypeOK'
  BY <1>1, <1>2, <1>4, <1>6, <1>7 DEF Bus!TypeOK, Bus!Newest
<1>9. Bus!CommandIs' /\ ~Bus!NothingIs'
  <2>1. \A r \in 1..Bus!Newest : r < Bus!Newest => Bus!Quiet(r)'
    BY <1>1, <1>3, <1>6 DEF Bus!QuestionIs, Bus!NobodyRuns, Bus!Quiet
  <2>2. Bus!CommandIs'
    BY <1>1, <1>2, <1>3, <1>4, <1>5, <1>6, <2>1 DEF Bus!CommandIs, Bus!QuestionIs
  <2>3. ~Bus!NobodyRuns'
    BY <1>1, <1>5, <1>6 DEF Bus!NobodyRuns, Bus!Quiet
  <2>4. QED
    BY <2>2, <2>3 DEF Bus!NothingIs
<1>10. \A r \in 1..Bus!Newest : /\ runners'[r].outcome = runners[r].outcome
                                /\ runners'[r].thread = runners[r].thread
                                /\ runners'[r].dir = runners[r].dir
                                /\ runners'[r].job = runners[r].job
  BY <1>5, <1>6
<1>11. /\ \A j \in ServiceNames : Bus!Outcome(result[j])' = Bus!Outcome(result[j])
       /\ Bus!Recompute(session_run_list, result)' = Bus!Recompute(session_run_list, result)
  BY <1>1, <1>2, <1>3, <1>6, <1>10, OutcomesStay
<1>12. current_job_path \in ServiceNames /\ Deps[current_job_path] \subseteq ServiceNames
  BY <1>1, RunnerFacts, ServiceConstants DEF Bus!ServiceAssumption
<1>14. Bus!MessagesAreRight'
  BY <1>1, <1>2, <1>4, <1>6, <1>9, <1>10 DEF Bus!IInv, Bus!MessagesAreRight, Bus!AskedOf,
       Bus!MessageIs, Bus!CallIs, Bus!CommandIs
<1>15. Bus!MakingGoesOn' /\ Bus!NobodyRaced'
  BY <1>1, <1>2, <1>3, <1>4, <1>6, <1>10 DEF Bus!IInv, Bus!MakingGoesOn, Bus!NobodyRaced,
       Bus!QuestionIs, Bus!Newest
<1>16. Bus!ResultsAreFinal'
  BY <1>1, <1>2, <1>3, <1>6, <1>10, <1>11 DEF Bus!IInv, Bus!ResultsAreFinal, Bus!IsRunning,
       Bus!DecidedBefore
<1>17. Bus!ReadinessIsKept'
  BY <1>1, <1>2, <1>11, <1>12 DEF Bus!IInv, Bus!ReadinessIsKept, Bus!IsRunning
<1>18. Bus!ListsAreKept'
  <2>1. ~Bus!Settled /\ ~Bus!Settled'
    BY <1>1, <1>4, <1>9 DEF Bus!Settled, Bus!QuestionIs, Bus!CommandIs, Bus!CallIs,
         Bus!AskedOf, Bus!MessageIs
  <2>2. QED
    BY <1>1, <1>2, <1>4, <1>11, <2>1, SessionRunList DEF Bus!IInv, Bus!ListsAreKept,
         Bus!GeneratesFirst, Bus!LateGenerators, Bus!QuestionIs, Bus!RunListOf, Bus!NeededBy
<1>19. Bus!JobsHaveWrappers'
  BY <1>1, <1>2 DEF Bus!IInv, Bus!JobsHaveWrappers, Bus!LateGenerators
<1> QED
  BY <1>8, <1>9, <1>14, <1>15, <1>16, <1>17, <1>18, <1>19 DEF Bus!IInv, Bus!OneIsUnderWay

LEMMA UserDecidesKept == Bus!IInv /\ Bus!UserDecides => Bus!IInv'
<1> SUFFICES ASSUME Bus!IInv, Bus!UserDecides PROVE Bus!IInv'
  OBVIOUS
<1>1. /\ Bus!TypeOK /\ Bus!QuestionIs /\ runner_asked = Bus!Newest
           /\ Bus!Newest \in 1..Bus!Newest
      /\ runners[Bus!Newest].job = current_job_path
  BY TheQuestion DEF Bus!UserDecides
<1>2. UNCHANGED <<phase, run_list, current_job_path, whitelist, runner_asked, unheard,
                 request, updating, Bus!session_vars, Bus!storage_vars>> /\ client' = "waiting"
  BY DEF Bus!UserDecides, Bus!JobResultAvailable
<1> USE DEF Bus!session_vars, Bus!storage_vars
<1>3. PICK outcome \in {"pass", "fail"} :
        runners' = [runners EXCEPT ![Bus!Newest].outcome = outcome]
  BY <1>1 DEF Bus!UserDecides
<1>4. PICK old : old = runners[Bus!Newest]
  OBVIOUS
<1>5. PICK changed : changed = [old EXCEPT !.outcome = outcome]
  OBVIOUS
<1>6. old \in Bus!RunningJobs /\ DOMAIN runners = 1..Bus!Newest
        /\ \A r \in 1..Bus!Newest : runners[r] \in Bus!RunningJobs
  BY <1>1, <1>4, RunnerFacts, SeqFacts DEF Bus!Newest, Bus!TypeOK
<1>7. /\ changed \in Bus!RunningJobs /\ changed.thread = old.thread
      /\ changed.job = old.job /\ changed.dir = old.dir /\ changed.commands = old.commands
      /\ changed.ran = old.ran /\ changed.outcome = outcome
  BY ONLY <1>5, <1>6, outcome \in {"pass", "fail"} DEF Bus!RunningJobs, Bus!Outcomes
<1>8. runners' = [runners EXCEPT ![Bus!Newest] = changed]
  BY <1>1, <1>3, <1>4, <1>5, <1>6
<1>9. /\ Bus!Newest' = Bus!Newest /\ Bus!Newest \in Nat /\ Bus!Newest = Len(runners)
      /\ DOMAIN runners' = 1..Bus!Newest /\ DOMAIN runners = 1..Bus!Newest
      /\ runners' \in Seq(Bus!RunningJobs')
      /\ Bus!Results' = Bus!Results /\ Bus!Calls' = Bus!Calls /\ Bus!Messages' = Bus!Messages
      /\ runners'[Bus!Newest] = changed
           /\ \A q \in 1..Bus!Newest : q # Bus!Newest => runners'[q] = runners[q]
  BY <1>1, <1>2, <1>7, <1>8, RunnerMoves
<1>10. \A q \in 1..Bus!Newest :
              /\ runners'[q].thread = runners[q].thread
              /\ runners'[q].job = runners[q].job /\ runners'[q].dir = runners[q].dir
              /\ runners'[q].commands = runners[q].commands
              /\ runners'[q].ran = runners[q].ran
              /\ runners'[q].outcome = IF q = Bus!Newest THEN outcome ELSE runners[q].outcome
  BY <1>4, <1>7, <1>9
<1> DEFINE message == [kind |-> "result", job |-> current_job_path,
      result |-> Bus!OfRunner(Bus!Newest)]
<1>11. message \in Bus!Messages' /\ inbox' = Append(<<>>, message)
  <2>1. Bus!OfRunner(Bus!Newest) \in Bus!Results
    BY <1>1, <1>9 DEF Bus!OfRunner, Bus!Results, Bus!Outcomes
  <2>2. current_job_path \in ServiceNames
    BY <1>1, RunnerFacts
  <2>3. message \in Bus!Messages
    BY <2>1, <2>2 DEF Bus!Messages
  <2>4. inbox' = Append(inbox, message) /\ inbox = <<>>
    BY <1>1 DEF Bus!UserDecides, Bus!JobResultAvailable, Bus!QuestionIs
  <2>5. QED
    BY <1>9, <2>3, <2>4
<1>12. inbox' \in Seq(Bus!Messages') /\ Len(inbox') = 1 /\ Head(inbox') = message
         /\ inbox' # <<>>
  BY <1>11, AppendsOne
<1>13. Bus!TypeOK'
  BY <1>1, <1>2, <1>9, <1>12 DEF Bus!TypeOK
<1>14. Bus!MessageIs' /\ ~Bus!NothingIs'
  <2>1. Bus!NobodyRuns'
    BY <1>1, <1>9, <1>10 DEF Bus!QuestionIs, Bus!NobodyRuns, Bus!Quiet
  <2>2. QED
    BY <1>1, <1>2, <1>9, <1>12, <2>1 DEF Bus!MessageIs, Bus!QuestionIs, Bus!NothingIs
<1>15. \A j \in ServiceNames : result[j].runner \in 0..Bus!Newest
         /\ result[j].runner # Bus!Newest
  <2>1. \A j \in ServiceNames : result[j].runner \in 0..Bus!Newest
    BY <1>1, RunnerFacts
  <2>2. QED
    BY <1>1, <2>1 DEF Bus!IInv, Bus!ResultsAreFinal, Bus!IsRunning, Bus!DecidedBefore
<1>16. \A j \in ServiceNames : Bus!Outcome(result[j])' = Bus!Outcome(result[j])
  BY <1>2, <1>10, <1>15 DEF Bus!Outcome
<1>17. Bus!Recompute(session_run_list, result)' = Bus!Recompute(session_run_list, result)
  BY <1>1, <1>2, <1>16, RecomputeStays
<1>18. current_job_path \in ServiceNames /\ Deps[current_job_path] \subseteq ServiceNames
  BY <1>1, RunnerFacts, ServiceConstants DEF Bus!ServiceAssumption
<1>19. Bus!MessagesAreRight'
  <2>1. Bus!Outcome(Bus!OfRunner(Bus!Newest))' = outcome
    <3>1. Bus!OfRunner(Bus!Newest)' = Bus!OfRunner(Bus!Newest)
            /\ Bus!OfRunner(Bus!Newest).runner = Bus!Newest /\ Bus!Newest # 0
      BY <1>1, <1>9 DEF Bus!OfRunner
    <3>2. runners'[Bus!Newest].outcome = outcome
      BY <1>1, <1>10
    <3>3. QED
      BY <3>1, <3>2 DEF Bus!Outcome
  <2>2. Bus!ReportIsRight(message)'
    BY <1>2, <2>1 DEF Bus!ReportIsRight
  <2>21. message' = message
    BY <1>2, <1>9 DEF Bus!OfRunner
  <2>3. Bus!ReportIsRight(Head(inbox))'
    BY <2>2, <2>21, <1>12
  <2>4. QED
    BY <1>1, <1>2, <1>9, <1>10, <1>12, <1>14, <2>3 DEF Bus!MessagesAreRight, Bus!AskedOf,
         Bus!MessageIs, Bus!CallIs, Bus!QuestionIs
<1>20. Bus!MakingGoesOn' /\ Bus!NobodyRaced'
  BY <1>1, <1>2, <1>9, <1>10 DEF Bus!IInv, Bus!MakingGoesOn, Bus!NobodyRaced, Bus!QuestionIs
<1>21. ~Bus!IsRunning' /\ ~Bus!JobIs' /\ ~Bus!Settled' /\ ~Bus!Settled
  BY <1>1, <1>2, <1>12 DEF Bus!IsRunning, Bus!JobIs, Bus!CommandIs, Bus!QuestionIs,
       Bus!AskedOf, Bus!MessageIs, Bus!Settled, Bus!CallIs
<1>22. Bus!ResultsAreFinal'
  BY <1>1, <1>2, <1>9, <1>10, <1>16, <1>21 DEF Bus!IInv, Bus!ResultsAreFinal
<1>23. Bus!ReadinessIsKept'
  BY <1>1, <1>2, <1>17, <1>21 DEF Bus!IInv, Bus!ReadinessIsKept, Bus!QuestionIs
<1>24. Bus!ListsAreKept'
  BY <1>1, <1>2, <1>16, <1>21, SessionRunList DEF Bus!IInv, Bus!ListsAreKept,
       Bus!GeneratesFirst, Bus!LateGenerators, Bus!QuestionIs, Bus!RunListOf, Bus!NeededBy
<1>25. Bus!JobsHaveWrappers'
  BY <1>1, <1>2 DEF Bus!IInv, Bus!JobsHaveWrappers, Bus!LateGenerators
<1> QED
  BY <1>13, <1>14, <1>19, <1>20, <1>22, <1>23, <1>24, <1>25 DEF Bus!IInv, Bus!OneIsUnderWay

\* What a thread or a command does to the job that is under way.
LEMMA RunnerGoesOn ==
  ASSUME Bus!IInv, Bus!JobIs \/ Bus!CommandIs,
         UNCHANGED <<Bus!client_vars, request, updating, Bus!session_vars, Bus!storage_vars>>,
         inbox' \in Seq(Bus!Messages), unheard' \in BOOLEAN, ~Bus!AskedOf("reply")',
         NEW r \in 1..Bus!Newest, r = Bus!Newest,
         Bus!Newest' = Bus!Newest, DOMAIN runners' = 1..Bus!Newest,
           runners' \in Seq(Bus!RunningJobs),
         \A q \in 1..Bus!Newest :
           /\ runners'[q].job = runners[q].job /\ runners'[q].dir = runners[q].dir
           /\ runners'[q].outcome = runners[q].outcome
           /\ \/ runners'[q].thread = runners[q].thread
              \/ q = r /\ runners'[q].thread = "done"
              \/ q = r /\ runners'[q].thread = "run" /\ runners[q].thread = "check"
  PROVE  /\ Bus!TypeOK' /\ Bus!MakingGoesOn' /\ Bus!NobodyRaced' /\ Bus!ListsAreKept'
              /\ Bus!JobsHaveWrappers'
         /\ ready' = Bus!Recompute(session_run_list, result)'
         /\ \A j \in ServiceNames : Bus!Outcome(result[j])' = Bus!Outcome(result[j])
         /\ Bus!Newest > 0 /\ runners'[Bus!Newest].job = current_job_path'
         /\ client' = "waiting" /\ request' = <<>> /\ ~updating'
              /\ UNCHANGED <<phase, result, current_job_path>>
<1> USE DEF Bus!client_vars, Bus!session_vars, Bus!storage_vars
<1>1. Bus!TypeOK /\ client = "waiting" /\ request = <<>> /\ ~updating /\ Bus!Newest > 0
      /\ runners[Bus!Newest].job = current_job_path
  BY DEF Bus!IInv, Bus!JobIs, Bus!CommandIs, Bus!MessagesAreRight
<1>2. Bus!Newest \in Nat /\ DOMAIN runners = 1..Bus!Newest
  BY <1>1, RunnerFacts
<1>3. Bus!Results' = Bus!Results /\ Bus!Calls' = Bus!Calls
        /\ Bus!RunningJobs' = Bus!RunningJobs /\ Bus!Messages' = Bus!Messages
  BY <1>2 DEF Bus!Results, Bus!Calls, Bus!RunningJobs, Bus!Messages, Bus!Newest
<1>4. Bus!TypeOK'
  BY <1>1, <1>3 DEF Bus!TypeOK, Bus!Newest
<1>5. /\ \A j \in ServiceNames : Bus!Outcome(result[j])' = Bus!Outcome(result[j])
      /\ Bus!Recompute(session_run_list, result)' = Bus!Recompute(session_run_list, result)
  BY <1>1, <1>2, OutcomesStay
<1>6. Bus!MakingGoesOn'
  <2>1. runners'[1].thread = "create" => runners[1].thread = "create"
    BY <1>1, <1>2
  <2>2. made \in 0..2
    BY <1>1 DEF Bus!TypeOK
  <2>3. (made + (IF saving = "create" THEN 1 ELSE 0)
           + (IF Bus!Newest > 0 /\ runners[1].thread = "create" THEN 1 ELSE 0) <= 2)'
    BY <1>1, <2>1, <2>2 DEF Bus!IInv, Bus!MakingGoesOn
  <2>4. \A q \in DOMAIN runners' : q > 1 => runners'[q].thread \notin Bus!Committing
    BY <1>2 DEF Bus!IInv, Bus!MakingGoesOn, Bus!Committing
  <2>5. QED
    BY <1>1, <2>3, <2>4 DEF Bus!IInv, Bus!MakingGoesOn
<1>7. Bus!NobodyRaced'
  BY <1>1, <1>2 DEF Bus!IInv, Bus!NobodyRaced, Bus!Committing
<1>8. ~Bus!Settled /\ ~Bus!Settled'
  BY <1>1 DEF Bus!Settled, Bus!CallIs, Bus!AskedOf, Bus!MessageIs, Bus!JobIs, Bus!CommandIs
<1>9. Bus!ListsAreKept'
  BY <1>1, <1>5, <1>8, SessionRunList DEF Bus!IInv, Bus!ListsAreKept, Bus!GeneratesFirst,
       Bus!LateGenerators, Bus!RunListOf, Bus!NeededBy
<1>10. Bus!JobsHaveWrappers'
  BY <1>1 DEF Bus!IInv, Bus!JobsHaveWrappers, Bus!LateGenerators
<1>11. ready = Bus!Recompute(session_run_list, result)
  BY <1>1 DEF Bus!IInv, Bus!ReadinessIsKept
<1> QED
  BY <1>1, <1>2, <1>4, <1>5, <1>6, <1>7, <1>9, <1>10, <1>11

\* The user is asked, or nobody hears the question.
Asked(r) ==
  /\ inbox' \in Seq(Bus!Messages) /\ unheard' \in BOOLEAN /\ ~Bus!AskedOf("reply")'
  /\ \/ inbox' = <<>> /\ unheard'
     \/ /\ Len(inbox') = 1 /\ inbox' # <<>>
        /\ Head(inbox').kind = "ask" /\ Head(inbox').runner = r

LEMMA AsksOrNot ==
  ASSUME Bus!TypeOK, inbox = <<>>, NEW r \in DOMAIN runners, Bus!AskForOutcome(r)
  PROVE  Asked(r)
<1> DEFINE message == [kind |-> "ask", runner |-> r]
<1>1. message \in Bus!Messages
  BY DEF Bus!Messages
<1>2. CASE phase = "all"
  <2>1. inbox' = Append(<<>>, message) /\ unheard' \in BOOLEAN
    BY <1>2 DEF Bus!AskForOutcome, Bus!TypeOK
  <2>2. inbox' \in Seq(Bus!Messages) /\ Len(inbox') = 1 /\ Head(inbox') = message
          /\ inbox' # <<>>
    BY <1>1, <2>1, AppendsOne
  <2>3. QED
    BY <2>1, <2>2 DEF Asked, Bus!AskedOf
<1>3. CASE phase # "all"
  <2>1. inbox' = <<>> /\ unheard' = TRUE
    BY <1>3 DEF Bus!AskForOutcome, Bus!TypeOK, Bus!Phases
  <2>2. QED
    BY <2>1 DEF Asked, Bus!AskedOf, Bus!MessageIs
<1>4. QED
  BY <1>2, <1>3

LEMMA AskingKeeps ==
  ASSUME Bus!IInv, Bus!IsRunning, Bus!NobodyRuns', Asked(Bus!Newest),
         Bus!Newest' = Bus!Newest, Bus!Newest > 0,
         Bus!TypeOK' /\ Bus!MakingGoesOn' /\ Bus!NobodyRaced' /\ Bus!ListsAreKept'
           /\ Bus!JobsHaveWrappers',
         ready' = Bus!Recompute(session_run_list, result)',
         \A j \in ServiceNames : Bus!Outcome(result[j])' = Bus!Outcome(result[j]),
         \A q \in DOMAIN runners : runners'[q].outcome = runners[q].outcome,
         DOMAIN runners' = DOMAIN runners,
         runners'[Bus!Newest].job = current_job_path',
         client' = "waiting", request' = <<>>, ~updating', UNCHANGED <<phase, result,
           current_job_path>>
  PROVE  Bus!IInv'
<1>0. Bus!Newest \in Nat /\ DOMAIN runners = 1..Bus!Newest /\ current_job_path \in ServiceNames
      /\ client \in {"waiting", "asking"}
  <2>1. client \in {"waiting", "asking"} /\ Bus!TypeOK
    BY DEF Bus!IInv, Bus!IsRunning, Bus!JobIs, Bus!CommandIs, Bus!QuestionIs, Bus!AskedOf,
         Bus!MessageIs
  <2>2. runners[Bus!Newest].job = current_job_path
    BY <2>1 DEF Bus!IInv, Bus!MessagesAreRight
  <2>3. QED
    BY <2>1, <2>2, RunnerFacts
<1>1. ~Bus!JobIs' /\ ~Bus!CallIs' /\ ~Bus!QuestionIs' /\ ~Bus!CommandIs'
  <2>1. Bus!Quiet(Bus!Newest)'
    BY <1>0 DEF Bus!NobodyRuns
  <2>2. QED
    BY <2>1 DEF Bus!JobIs, Bus!CallIs, Bus!QuestionIs, Bus!CommandIs, Bus!Quiet
<1>2. Bus!ResultsAreFinal'
  BY <1>1 DEF Bus!IInv, Bus!ResultsAreFinal, Bus!IsRunning, Bus!DecidedBefore
<1>3. Bus!ReadinessIsKept'
  <2>1. current_job_path \in ServiceNames /\ Deps[current_job_path] \subseteq ServiceNames
    BY <1>0, ServiceConstants DEF Bus!ServiceAssumption
  <2>2. QED
    BY <2>1 DEF Bus!IInv, Bus!ReadinessIsKept
<1>4. (Bus!NothingIs \/ Bus!MessageIs)'
  BY DEF Asked, Bus!NothingIs, Bus!MessageIs
<1>5. Bus!NothingIs' => unheard'
  BY DEF Asked, Bus!NothingIs
<1>6. Bus!MessagesAreRight'
  BY <1>1 DEF Asked, Bus!MessagesAreRight, Bus!AskedOf, Bus!MessageIs
<1>7. QED
  BY <1>2, <1>3, <1>4, <1>5, <1>6 DEF Bus!IInv, Bus!OneIsUnderWay

LEMMA CommandEndsKept == \A r \in DOMAIN runners : Bus!IInv /\ Bus!CommandEnds(r) => Bus!IInv'
<1> SUFFICES ASSUME NEW r \in DOMAIN runners, Bus!IInv, Bus!CommandEnds(r) PROVE Bus!IInv'
  OBVIOUS
<1>1. /\ Bus!TypeOK /\ Bus!CommandIs /\ r = Bus!Newest /\ r \in 1..Bus!Newest
      /\ runners[r].job = current_job_path /\ runners[r].commands = 1
  <2>1. runners[r].commands > 0
    BY DEF Bus!CommandEnds
  <2>2. QED
    BY <2>1, TheCommand
<1>2. UNCHANGED <<Bus!client_vars, request, updating, Bus!session_vars, Bus!storage_vars>>
      /\ runners' = [runners EXCEPT ![r].commands = @ - 1] /\ Bus!AskForOutcome(r)
  BY DEF Bus!CommandEnds
<1>3. PICK old : old = runners[r]
  OBVIOUS
<1>4. PICK changed : changed = [old EXCEPT !.commands = 0]
  OBVIOUS
<1>5. old \in Bus!RunningJobs /\ DOMAIN runners = 1..Bus!Newest
        /\ \A q \in 1..Bus!Newest : runners[q] \in Bus!RunningJobs
  BY <1>1, <1>3, RunnerFacts, SeqFacts DEF Bus!Newest, Bus!TypeOK
<1>6. /\ changed \in Bus!RunningJobs /\ changed.thread = old.thread
      /\ changed.job = old.job /\ changed.dir = old.dir /\ changed.commands = 0
      /\ changed.ran = old.ran /\ changed.outcome = old.outcome
  BY ONLY <1>4, <1>5 DEF Bus!RunningJobs
<1>7. runners' = [runners EXCEPT ![r] = changed]
  BY <1>1, <1>2, <1>3, <1>4, <1>5
<1>8. /\ Bus!Newest' = Bus!Newest /\ Bus!Newest \in Nat /\ Bus!Newest = Len(runners)
      /\ DOMAIN runners' = 1..Bus!Newest /\ DOMAIN runners = 1..Bus!Newest
      /\ runners' \in Seq(Bus!RunningJobs')
      /\ Bus!Results' = Bus!Results /\ Bus!Calls' = Bus!Calls /\ Bus!Messages' = Bus!Messages
      /\ runners'[r] = changed /\ \A q \in 1..Bus!Newest : q # r => runners'[q] = runners[q]
  BY <1>1, <1>2, <1>6, <1>7, RunnerMoves DEF Bus!storage_vars
<1>9. \A q \in 1..Bus!Newest :
              /\ runners'[q].thread = runners[q].thread
              /\ runners'[q].job = runners[q].job /\ runners'[q].dir = runners[q].dir
              /\ runners'[q].commands = IF q = r THEN 0 ELSE runners[q].commands
              /\ runners'[q].ran = runners[q].ran
              /\ runners'[q].outcome = runners[q].outcome
  BY <1>3, <1>6, <1>8
<1>10. Bus!NobodyRuns'
  BY <1>1, <1>8, <1>9 DEF Bus!CommandIs, Bus!NobodyRuns, Bus!Quiet
<1>11. Asked(r)
  BY <1>1, <1>2, <1>8, AsksOrNot DEF Bus!CommandIs
<1>12. /\ Bus!TypeOK' /\ Bus!MakingGoesOn' /\ Bus!NobodyRaced' /\ Bus!ListsAreKept'
            /\ Bus!JobsHaveWrappers'
       /\ ready' = Bus!Recompute(session_run_list, result)'
       /\ \A j \in ServiceNames : Bus!Outcome(result[j])' = Bus!Outcome(result[j])
       /\ Bus!Newest > 0 /\ runners'[Bus!Newest].job = current_job_path'
       /\ client' = "waiting" /\ request' = <<>> /\ ~updating'
            /\ UNCHANGED <<phase, result, current_job_path>>
  <2>1. Bus!RunningJobs' = Bus!RunningJobs
    BY <1>2 DEF Bus!RunningJobs, Bus!storage_vars
  <2>2. QED
    BY <1>1, <1>2, <1>8, <1>9, <1>11, <2>1, RunnerGoesOn DEF Asked
<1>13. Bus!IsRunning /\ Asked(Bus!Newest) /\ DOMAIN runners' = DOMAIN runners
       /\ \A q \in DOMAIN runners : runners'[q].outcome = runners[q].outcome
  BY <1>1, <1>8, <1>9, <1>11 DEF Bus!IsRunning
<1> QED
  BY <1>8, <1>10, <1>12, <1>13, AskingKeeps

\* The result of the current job is signalled.
LEMMA ReportKeeps ==
  ASSUME Bus!IInv, client = "waiting", Bus!JobIs, Bus!NobodyRuns', Bus!Newest' = Bus!Newest,
         Bus!Newest > 0,
         NEW o \in {"pass", "fail", "not-supported"},
         o = "not-supported" => Deps[current_job_path] # {},
         inbox' = <<[kind |-> "result", job |-> current_job_path, result |-> Bus!Own(o)]>>,
         Bus!TypeOK' /\ Bus!MakingGoesOn' /\ Bus!NobodyRaced' /\ Bus!ListsAreKept'
           /\ Bus!JobsHaveWrappers',
         ready' = Bus!Recompute(session_run_list, result)',
         \A j \in ServiceNames : Bus!Outcome(result[j])' = Bus!Outcome(result[j]),
         \A q \in DOMAIN runners : runners'[q].outcome = runners[q].outcome,
         DOMAIN runners' = DOMAIN runners,
         runners'[Bus!Newest].job = current_job_path',
         client' = "waiting", request' = <<>>, ~updating', UNCHANGED <<phase, result,
           current_job_path>>
  PROVE  Bus!IInv'
<1> DEFINE message == [kind |-> "result", job |-> current_job_path, result |-> Bus!Own(o)]
<1>1. ~Bus!NothingIs' /\ ~Bus!JobIs' /\ ~Bus!CallIs' /\ ~Bus!QuestionIs'
        /\ ~Bus!CommandIs' /\ Bus!MessageIs'
  BY DEF Bus!JobIs, Bus!CallIs, Bus!QuestionIs, Bus!CommandIs, Bus!NobodyRuns, Bus!Quiet,
       Bus!MessageIs, Bus!NothingIs
<1>2. Head(inbox') = message /\ message.kind = "result" /\ message.job = current_job_path'
      /\ message.result = Bus!Own(o)
  OBVIOUS
<1>3. ~Bus!IsRunning' /\ Bus!AskedOf("result")' /\ ~Bus!AskedOf("ask")' /\ ~Bus!AskedOf("reply")'
  BY <1>1, <1>2 DEF Bus!IsRunning, Bus!AskedOf
<1>4. Bus!Outcome(Bus!Own(o))' = o
  BY DEF Bus!Outcome, Bus!Own
<1>5. Bus!ReportIsRight(Head(inbox))'
  BY <1>2, <1>4 DEF Bus!ReportIsRight
<1>6. Bus!MessagesAreRight'
  BY <1>1, <1>3, <1>5 DEF Bus!MessagesAreRight
<1>7. Bus!ResultsAreFinal'
  BY <1>1, <1>3 DEF Bus!IInv, Bus!ResultsAreFinal
<1>8. Bus!ReadinessIsKept'
  BY <1>3 DEF Bus!ReadinessIsKept
<1>9. QED
  BY <1>1, <1>6, <1>7, <1>8 DEF Bus!IInv, Bus!OneIsUnderWay

LEMMA OwnIsResult ==
  ASSUME Bus!TypeOK, NEW o \in {"pass", "fail", "not-supported"}, NEW j \in ServiceNames
  PROVE  /\ [kind |-> "result", job |-> j, result |-> Bus!Own(o)] \in Bus!Messages
         /\ <<[kind |-> "result", job |-> j, result |-> Bus!Own(o)]>> \in Seq(Bus!Messages)
<1>1. Bus!Own(o) \in Bus!Results
  BY RunnerFacts DEF Bus!Own, Bus!Results, Bus!Outcomes, Bus!Newest
<1>2. [kind |-> "result", job |-> j, result |-> Bus!Own(o)] \in Bus!Messages
  BY <1>1 DEF Bus!Messages
<1>3. QED
  BY <1>2

\* What is left in order when the thread of the current job, r, moves to t.
MovedTo(r, t) ==
  /\ Bus!TypeOK' /\ Bus!MakingGoesOn' /\ Bus!NobodyRaced' /\ Bus!ListsAreKept'
       /\ Bus!JobsHaveWrappers'
  /\ ready' = Bus!Recompute(session_run_list, result)'
  /\ \A j \in ServiceNames : Bus!Outcome(result[j])' = Bus!Outcome(result[j])
  /\ Bus!Newest > 0 /\ runners'[Bus!Newest].job = current_job_path'
  /\ client' = "waiting" /\ request' = <<>> /\ ~updating'
  /\ UNCHANGED <<phase, result, current_job_path>>
  /\ Bus!Newest' = Bus!Newest /\ DOMAIN runners' = 1..Bus!Newest
       /\ DOMAIN runners = 1..Bus!Newest
  /\ \A q \in 1..Bus!Newest :
       /\ runners'[q].thread = IF q = r THEN t ELSE runners[q].thread
       /\ runners'[q].commands = runners[q].commands
       /\ runners'[q].outcome = runners[q].outcome

LEMMA ThreadMovesOn ==
  ASSUME Bus!IInv, Bus!TypeOK, Bus!JobIs, NEW r \in 1..Bus!Newest, r = Bus!Newest,
         UNCHANGED <<Bus!client_vars, request, updating, Bus!session_vars, Bus!storage_vars>>,
         NEW t \in {"run", "done"}, t = "run" => runners[r].thread = "check",
         runners' = [runners EXCEPT ![r].thread = t],
         inbox' \in Seq(Bus!Messages), unheard' \in BOOLEAN, ~Bus!AskedOf("reply")'
  PROVE  MovedTo(r, t)
<1>0. Bus!TypeOK /\ r \in 1..Bus!Newest /\ t \in Bus!Accessing \cup {"check", "run", "done"}
      /\ UNCHANGED made /\ runners' = [runners EXCEPT ![r].thread = t]
  BY DEF Bus!storage_vars
<1>1. /\ Bus!Newest' = Bus!Newest /\ Bus!Newest \in Nat /\ Bus!Newest = Len(runners)
      /\ DOMAIN runners' = 1..Bus!Newest /\ DOMAIN runners = 1..Bus!Newest
      /\ runners' \in Seq(Bus!RunningJobs')
      /\ Bus!Results' = Bus!Results /\ Bus!Calls' = Bus!Calls /\ Bus!Messages' = Bus!Messages
      /\ \A q \in 1..Bus!Newest :
            /\ runners'[q].thread = IF q = r THEN t ELSE runners[q].thread
            /\ runners'[q].job = runners[q].job /\ runners'[q].dir = runners[q].dir
            /\ runners'[q].commands = runners[q].commands
            /\ runners'[q].ran = runners[q].ran /\ runners'[q].outcome = runners[q].outcome
  BY ONLY <1>0, ThreadGoes
<1>2. Bus!RunningJobs' = Bus!RunningJobs
  BY DEF Bus!RunningJobs, Bus!storage_vars
<1>3. /\ Bus!JobIs \/ Bus!CommandIs
      /\ UNCHANGED <<Bus!client_vars, request, updating, Bus!session_vars, Bus!storage_vars>>
      /\ inbox' \in Seq(Bus!Messages) /\ unheard' \in BOOLEAN /\ ~Bus!AskedOf("reply")'
      /\ r \in 1..Bus!Newest /\ r = Bus!Newest
      /\ Bus!Newest' = Bus!Newest /\ DOMAIN runners' = 1..Bus!Newest
           /\ runners' \in Seq(Bus!RunningJobs)
  BY <1>1, <1>2
<1>4. \A q \in 1..Bus!Newest :
         /\ runners'[q].job = runners[q].job /\ runners'[q].dir = runners[q].dir
         /\ runners'[q].outcome = runners[q].outcome
         /\ \/ runners'[q].thread = runners[q].thread
            \/ q = r /\ runners'[q].thread = "done"
            \/ q = r /\ runners'[q].thread = "run" /\ runners[q].thread = "check"
  BY <1>1
<1>5. /\ Bus!TypeOK' /\ Bus!MakingGoesOn' /\ Bus!NobodyRaced' /\ Bus!ListsAreKept'
           /\ Bus!JobsHaveWrappers'
      /\ ready' = Bus!Recompute(session_run_list, result)'
      /\ \A j \in ServiceNames : Bus!Outcome(result[j])' = Bus!Outcome(result[j])
      /\ Bus!Newest > 0 /\ runners'[Bus!Newest].job = current_job_path'
      /\ client' = "waiting" /\ request' = <<>> /\ ~updating'
      /\ UNCHANGED <<phase, result, current_job_path>>
  BY ONLY Bus!IInv, <1>3, <1>4, RunnerGoesOn
<1>6. QED
  BY <1>1, <1>5 DEF MovedTo

LEMMA CheckJobKept == \A r \in DOMAIN runners : Bus!IInv /\ Bus!CheckJob(r) => Bus!IInv'
<1> SUFFICES ASSUME NEW r \in DOMAIN runners, Bus!IInv, Bus!CheckJob(r) PROVE Bus!IInv'
  OBVIOUS
<1>1. /\ Bus!TypeOK /\ Bus!JobIs /\ r = Bus!Newest /\ r \in 1..Bus!Newest
           /\ runners[r].thread = "check"
      /\ runners[r].job = current_job_path /\ runners[r].commands = 0 /\ ~updating
      /\ client = "waiting" /\ inbox = <<>> /\ request = <<>>
  <2>1. runners[r].thread = "check"
    BY DEF Bus!CheckJob
  <2>2. Bus!TypeOK /\ Bus!JobIs /\ r = Bus!Newest /\ r \in 1..Bus!Newest
        /\ runners[r].job = current_job_path /\ runners[r].commands = 0
    BY <2>1, TheJob
  <2>3. QED
    BY <2>1, <2>2 DEF Bus!JobIs
<1>2. UNCHANGED <<Bus!client_vars, request, updating, Bus!session_vars, Bus!storage_vars>>
  BY DEF Bus!CheckJob
<1>3. current_job_path \in ServiceNames /\ Deps[current_job_path] \subseteq ServiceNames
  BY <1>1, RunnerFacts, ServiceConstants DEF Bus!ServiceAssumption
<1>4. current_job_path \in Bus!ToSet(session_run_list)
        /\ ready = Bus!Recompute(session_run_list, result)
  BY <1>1 DEF Bus!IInv, Bus!ListsAreKept, Bus!ReadinessIsKept
<1>6. CASE Bus!CanStart(r) /\ runners' = [runners EXCEPT ![r].thread = "run"]
             /\ UNCHANGED <<inbox, unheard>>
  <2>1. inbox' \in Seq(Bus!Messages) /\ unheard' \in BOOLEAN /\ ~Bus!AskedOf("reply")'
    BY <1>1, <1>6 DEF Bus!TypeOK, Bus!AskedOf, Bus!MessageIs
  <2>2. MovedTo(r, "run")
    BY <1>1, <1>2, <1>6, <2>1, ThreadMovesOn
  <2>3. Bus!JobIs' /\ ~Bus!NothingIs'
    BY <1>1, <1>6, <2>2 DEF MovedTo, Bus!JobIs, Bus!NothingIs, Bus!NobodyRuns, Bus!Quiet
  <2>4. ~Bus!MessageIs' /\ ~Bus!CallIs'
    BY <1>1, <1>6, <2>2 DEF MovedTo, Bus!MessageIs, Bus!CallIs
  <2>5. Bus!MessagesAreRight'
    BY <2>2, <2>4 DEF MovedTo, Bus!MessagesAreRight, Bus!AskedOf
  <2>6. Bus!ResultsAreFinal'
    BY <1>1, <2>2 DEF MovedTo, Bus!IInv, Bus!ResultsAreFinal, Bus!DecidedBefore
  <2>7. \A d \in Deps[current_job_path] : Bus!Outcome(result[d]) = "pass"
    BY <1>1, <1>4, <1>6 DEF Bus!CanStart, Bus!Recompute
  <2>8. Bus!ReadinessIsKept'
    BY <1>3, <2>2, <2>7 DEF MovedTo, Bus!ReadinessIsKept
  <2>9. QED
    BY <2>2, <2>3, <2>5, <2>6, <2>8 DEF MovedTo, Bus!IInv, Bus!OneIsUnderWay
<1>7. CASE /\ ~Bus!CanStart(r) /\ Bus!ThreadEnds(r)
           /\ Bus!JobResultAvailable(runners[r].job, Bus!Own("not-supported"))
  <2>1. Deps[current_job_path] # {}
    BY <1>1, <1>4, <1>7 DEF Bus!CanStart, Bus!Recompute
  <2>2. inbox' = <<[kind |-> "result", job |-> current_job_path,
          result |-> Bus!Own("not-supported")]>>
        /\ unheard' = unheard
    BY <1>1, <1>7 DEF Bus!JobResultAvailable
  <2>3. inbox' \in Seq(Bus!Messages) /\ unheard' \in BOOLEAN /\ ~Bus!AskedOf("reply")'
    BY <1>1, <1>3, <2>2, OwnIsResult DEF Bus!TypeOK, Bus!AskedOf
  <2>4. MovedTo(r, "done")
    BY <1>1, <1>2, <1>7, <2>3, ThreadMovesOn DEF Bus!ThreadEnds
  <2>5. Bus!NobodyRuns'
    BY <1>1, <2>4 DEF MovedTo, Bus!JobIs, Bus!NobodyRuns, Bus!Quiet
  <2>6. QED
    BY <1>1, <2>1, <2>2, <2>4, <2>5, ReportKeeps DEF MovedTo
<1>8. QED
  BY <1>1, <1>6, <1>7 DEF Bus!CheckJob

LEMMA RunJobKept == \A r \in DOMAIN runners : Bus!IInv /\ Bus!RunJobThread(r) => Bus!IInv'
<1> SUFFICES ASSUME NEW r \in DOMAIN runners, Bus!IInv, Bus!RunJobThread(r) PROVE Bus!IInv'
  OBVIOUS
<1>1. /\ Bus!TypeOK /\ Bus!JobIs /\ r = Bus!Newest /\ r \in 1..Bus!Newest
           /\ runners[r].thread = "run"
      /\ runners[r].job = current_job_path /\ ~updating
      /\ client = "waiting" /\ inbox = <<>> /\ request = <<>>
  <2>1. runners[r].thread = "run"
    BY DEF Bus!RunJobThread
  <2>2. Bus!TypeOK /\ Bus!JobIs /\ r = Bus!Newest /\ r \in 1..Bus!Newest
        /\ runners[r].job = current_job_path
    BY <2>1, TheJob
  <2>3. QED
    BY <2>1, <2>2 DEF Bus!JobIs
<1>2. UNCHANGED <<Bus!client_vars, request, updating, Bus!session_vars, Bus!storage_vars>>
      /\ runners' = [runners EXCEPT ![r].thread = "done"]
  BY DEF Bus!RunJobThread, Bus!ThreadEnds
<1>3. current_job_path \in ServiceNames
  BY <1>1, RunnerFacts
<1>4. CASE Bus!AskForOutcome(r)
  <2>1. Asked(r)
    BY <1>1, <1>4, AsksOrNot
  <2>2. MovedTo(r, "done")
    BY <1>1, <1>2, <2>1, ThreadMovesOn DEF Asked
  <2>3. Bus!IsRunning
    BY <1>1 DEF Bus!IsRunning
  <2>4. Bus!NobodyRuns'
    BY <1>1, <2>2 DEF MovedTo, Bus!JobIs, Bus!NobodyRuns, Bus!Quiet
  <2>5. QED
    BY <1>1, <2>1, <2>2, <2>3, <2>4, AskingKeeps DEF MovedTo
<1>5. CASE runners[r].dir # made /\ UNCHANGED <<inbox, unheard>>
  <2>1. inbox' \in Seq(Bus!Messages) /\ unheard' \in BOOLEAN /\ ~Bus!AskedOf("reply")'
    BY <1>1, <1>5 DEF Bus!TypeOK, Bus!AskedOf, Bus!MessageIs
  <2>2. MovedTo(r, "done")
    BY <1>1, <1>2, <2>1, ThreadMovesOn
  <2>3. raced /\ raced'
    BY <1>1, <1>2, <1>5 DEF Bus!IInv, Bus!NobodyRaced, Bus!storage_vars
  <2>4. Bus!NobodyRuns'
    BY <1>1, <2>2 DEF MovedTo, Bus!JobIs, Bus!NobodyRuns, Bus!Quiet
  <2>5. Bus!NothingIs' /\ ~Bus!IsRunning' /\ ~Bus!JobIs' /\ ~Bus!MessageIs' /\ ~Bus!CallIs'
    BY <1>1, <1>5, <2>2, <2>4 DEF MovedTo, Bus!NothingIs, Bus!IsRunning, Bus!JobIs,
         Bus!MessageIs, Bus!CallIs, Bus!CommandIs, Bus!QuestionIs, Bus!AskedOf,
           Bus!NobodyRuns, Bus!Quiet
  <2>6. Bus!MessagesAreRight'
    BY <2>2, <2>5 DEF MovedTo, Bus!MessagesAreRight, Bus!AskedOf
  <2>7. Bus!ResultsAreFinal'
    BY <1>1, <2>2, <2>5 DEF MovedTo, Bus!IInv, Bus!ResultsAreFinal
  <2>8. Bus!ReadinessIsKept'
    BY <2>2, <2>5 DEF MovedTo, Bus!ReadinessIsKept
  <2>9. QED
    BY <2>2, <2>3, <2>5, <2>6, <2>7, <2>8 DEF MovedTo, Bus!IInv, Bus!OneIsUnderWay
<1>6. CASE \E outcome \in {"pass", "fail"} : Bus!JobResultAvailable(runners[r].job,
             Bus!Own(outcome))
  <2>1. PICK o \in {"pass", "fail"} : Bus!JobResultAvailable(runners[r].job, Bus!Own(o))
    BY <1>6
  <2>2. inbox' = <<[kind |-> "result", job |-> current_job_path, result |-> Bus!Own(o)]>>
        /\ unheard' = unheard
    BY <1>1, <2>1 DEF Bus!JobResultAvailable
  <2>3. inbox' \in Seq(Bus!Messages) /\ unheard' \in BOOLEAN /\ ~Bus!AskedOf("reply")'
    BY <1>1, <1>3, <2>2, OwnIsResult DEF Bus!TypeOK, Bus!AskedOf
  <2>4. MovedTo(r, "done")
    BY <1>1, <1>2, <2>3, ThreadMovesOn
  <2>5. Bus!NobodyRuns'
    BY <1>1, <2>4 DEF MovedTo, Bus!JobIs, Bus!NobodyRuns, Bus!Quiet
  <2>6. o \in {"pass", "fail", "not-supported"} /\ o # "not-supported"
    OBVIOUS
  <2>7. QED
    BY <1>1, <2>2, <2>4, <2>5, <2>6, ReportKeeps DEF MovedTo
<1>7. QED
  BY <1>4, <1>5, <1>6 DEF Bus!RunJobThread

\* A new session directory, and the thread that is to use it.
LEMMA ThreadGoesIn ==
  ASSUME Bus!TypeOK, NEW r \in 1..Bus!Newest, made' \in Nat, made <= made', NEW d \in 0..made',
         runners' = [runners EXCEPT ![r].thread = "check", ![r].dir = d]
  PROVE  /\ Bus!Newest' = Bus!Newest /\ DOMAIN runners' = 1..Bus!Newest
         /\ runners' \in Seq(Bus!RunningJobs')
         /\ \A q \in 1..Bus!Newest :
              /\ runners'[q].thread = IF q = r THEN "check" ELSE runners[q].thread
              /\ runners'[q].dir = IF q = r THEN d ELSE runners[q].dir
              /\ runners'[q].job = runners[q].job
              /\ runners'[q].commands = runners[q].commands
              /\ runners'[q].ran = runners[q].ran /\ runners'[q].outcome = runners[q].outcome
<1>1. runners \in Seq(Bus!RunningJobs) /\ DOMAIN runners = 1..Bus!Newest /\ made \in Nat
  BY RunnerFacts DEF Bus!TypeOK
<1>2. PICK old : old = runners[r]
  OBVIOUS
<1>3. PICK changed : changed = [old EXCEPT !.thread = "check", !.dir = d]
  OBVIOUS
<1>4. old \in Bus!RunningJobs
  BY <1>1, <1>2, SeqFacts DEF Bus!Newest
<1>5. /\ changed \in Bus!RunningJobs' /\ changed.thread = "check" /\ changed.dir = d
      /\ changed.job = old.job /\ changed.commands = old.commands
      /\ changed.ran = old.ran /\ changed.outcome = old.outcome
  BY ONLY <1>3, <1>4, d \in 0..made' DEF Bus!RunningJobs
<1>6. runners' = [runners EXCEPT ![r] = changed]
  BY <1>1, <1>2, <1>3
<1>7. PICK S : S = Bus!RunningJobs'
  OBVIOUS
<1>8. Bus!RunningJobs \subseteq Bus!RunningJobs'
  BY <1>1, made' \in Nat, made <= made' DEF Bus!RunningJobs
<1>9. runners \in Seq(S) /\ changed \in S /\ r \in 1..Len(runners)
  <2>1. Bus!RunningJobs \subseteq S
    BY <1>7, <1>8
  <2>2. runners \in Seq(S)
    BY ONLY <1>1, <2>1, Monotone
  <2>3. QED
    BY <1>5, <1>7, <2>2 DEF Bus!Newest
<1>10. /\ Len(runners') = Len(runners) /\ DOMAIN runners' = 1..Len(runners)
       /\ runners'[r] = changed /\ runners' \in Seq(S)
       /\ \A q \in 1..Len(runners) : q # r => runners'[q] = runners[q]
  BY ONLY <1>6, <1>9, ReplaceFacts
<1>11. QED
  BY <1>2, <1>5, <1>7, <1>10 DEF Bus!Newest

\* The thread of the current job is at the session directory.
LEMMA AccessKeeps ==
  ASSUME Bus!IInv, Bus!TypeOK, Bus!JobIs, NEW r \in 1..Bus!Newest, r = Bus!Newest,
         UNCHANGED <<Bus!client_vars, inbox, request, updating, Bus!session_vars, unheard,
           saving>>,
         made' \in 0..2, made <= made', commit_hint' \in BOOLEAN, raced' \in BOOLEAN,
         Bus!Newest' = Bus!Newest, DOMAIN runners' = 1..Bus!Newest,
           runners' \in Seq(Bus!RunningJobs'),
         Bus!MakingGoesOn', Bus!NobodyRaced',
         runners'[r].thread # "run", runners[r].thread # "run",
         runners'[r].thread = "done" => raced',
         \A q \in 1..Bus!Newest :
           /\ q # r => runners'[q].thread = runners[q].thread
           /\ runners'[q].job = runners[q].job
           /\ runners'[q].commands = runners[q].commands
           /\ runners'[q].outcome = runners[q].outcome
  PROVE  Bus!IInv'
<1> USE DEF Bus!client_vars, Bus!session_vars
<1>1. client = "waiting" /\ inbox = <<>> /\ request = <<>> /\ ~updating /\ Bus!Newest > 0
      /\ runners[Bus!Newest].job = current_job_path /\ runners[Bus!Newest].commands = 0
  BY DEF Bus!IInv, Bus!JobIs, Bus!MessagesAreRight
<1>2. Bus!Newest \in Nat /\ DOMAIN runners = 1..Bus!Newest
  BY RunnerFacts
<1>3. Bus!Results' = Bus!Results
  BY DEF Bus!Results, Bus!Newest
<1>4. Bus!Calls' = Bus!Calls /\ Bus!Messages' = Bus!Messages
  BY <1>2, <1>3 DEF Bus!Calls, Bus!Messages
<1>5. Bus!TypeOK'
  BY <1>3, <1>4 DEF Bus!TypeOK, Bus!Newest
<1>6. /\ \A j \in ServiceNames : Bus!Outcome(result[j])' = Bus!Outcome(result[j])
      /\ Bus!Recompute(session_run_list, result)' = Bus!Recompute(session_run_list, result)
  BY <1>1, <1>2, OutcomesStay
<1>7. (Bus!JobIs \/ Bus!NothingIs)' /\ (Bus!NothingIs' => raced')
  <2>1. \A q \in 1..Bus!Newest : q < Bus!Newest => Bus!Quiet(q)'
    BY <1>2 DEF Bus!JobIs, Bus!Quiet
  <2>2. CASE runners'[r].thread = "done"
    <3>1. Bus!NobodyRuns'
      BY <1>1, <1>2, <2>1, <2>2 DEF Bus!NobodyRuns, Bus!Quiet
    <3>2. QED
      BY <1>1, <2>2, <3>1 DEF Bus!NothingIs
  <2>3. CASE runners'[r].thread # "done"
    BY <1>1, <1>2, <2>1, <2>3 DEF Bus!JobIs, Bus!NothingIs, Bus!NobodyRuns, Bus!Quiet
  <2>4. QED
    BY <2>2, <2>3
<1>8. ~Bus!IsRunning' /\ ~Bus!MessageIs' /\ ~Bus!CallIs' /\ ~Bus!Settled /\ ~Bus!Settled'
  BY <1>1 DEF Bus!IsRunning, Bus!MessageIs, Bus!CallIs, Bus!CommandIs, Bus!QuestionIs,
       Bus!AskedOf, Bus!Settled, Bus!JobIs
<1>9. Bus!MessagesAreRight'
  BY <1>1, <1>8 DEF Bus!MessagesAreRight, Bus!AskedOf
<1>10. Bus!ResultsAreFinal'
  BY <1>2, <1>6, <1>8 DEF Bus!IInv, Bus!ResultsAreFinal, Bus!DecidedBefore
<1>11. Bus!ReadinessIsKept'
  BY <1>6, <1>8 DEF Bus!IInv, Bus!ReadinessIsKept
<1>12. Bus!ListsAreKept'
  BY <1>1, <1>6, <1>8, SessionRunList DEF Bus!IInv, Bus!ListsAreKept, Bus!GeneratesFirst,
       Bus!LateGenerators, Bus!RunListOf, Bus!NeededBy
<1>13. Bus!JobsHaveWrappers'
  BY DEF Bus!IInv, Bus!JobsHaveWrappers, Bus!LateGenerators
<1> QED
  BY <1>1, <1>5, <1>7, <1>9, <1>10, <1>11, <1>12, <1>13 DEF Bus!IInv, Bus!OneIsUnderWay

LEMMA AccessKept == \A r \in DOMAIN runners : Bus!IInv /\ Bus!AccessSessionDir(r) => Bus!IInv'
<1> SUFFICES ASSUME NEW r \in DOMAIN runners, Bus!IInv, Bus!AccessSessionDir(r) PROVE Bus!IInv'
  OBVIOUS
<1>1. /\ Bus!TypeOK /\ Bus!JobIs /\ r = Bus!Newest /\ r \in 1..Bus!Newest
           /\ runners[r].thread \in Bus!Accessing
      /\ client = "waiting" /\ Bus!Newest \in Nat /\ DOMAIN runners = 1..Bus!Newest
           /\ Bus!Newest > 0
      /\ \A q \in 1..Bus!Newest : q # r => runners[q].thread = "done"
  <2>1. runners[r].thread \in Bus!Accessing
    BY DEF Bus!AccessSessionDir, Bus!AccessStep, Bus!Accessing
  <2>2. Bus!TypeOK /\ Bus!JobIs /\ r = Bus!Newest /\ r \in 1..Bus!Newest
    BY <2>1, TheJob DEF Bus!Accessing
  <2>3. Bus!Newest \in Nat /\ DOMAIN runners = 1..Bus!Newest
    BY <2>2, RunnerFacts
  <2>4. QED
    BY <2>1, <2>2, <2>3 DEF Bus!JobIs, Bus!Quiet
<1>2. UNCHANGED <<Bus!client_vars, inbox, request, updating, Bus!session_vars, unheard, saving>>
  BY DEF Bus!AccessSessionDir
<1>3. made \in 0..2 /\ commit_hint \in BOOLEAN /\ raced \in BOOLEAN /\ (commit_hint => made = 0)
      /\ saving \in Bus!Accessing \cup {"no"}
  BY <1>1 DEF Bus!IInv, Bus!TypeOK, Bus!MakingGoesOn
<1>4. /\ runners[r].thread \in Bus!Committing => r = 1
      /\ commit_hint => r = 1
      /\ saving = "no" => ~commit_hint
      /\ made + (IF saving = "create" THEN 1 ELSE 0)
           + (IF runners[1].thread = "create" THEN 1 ELSE 0) <= 2
  BY <1>1 DEF Bus!IInv, Bus!MakingGoesOn
<1>41. /\ r > 1 => saving = "no" /\ ~commit_hint
       /\ \A q \in 1..Bus!Newest : q # r => runners[q].thread \notin Bus!Committing
  BY <1>1 DEF Bus!IInv, Bus!MakingGoesOn, Bus!Committing
<1>5. /\ ~raced =>
           /\ saving \in Bus!Committing => commit_hint
           /\ runners[r].thread \in Bus!Committing => commit_hint /\ saving \notin Bus!Committing
           /\ runners[r].thread \in {"check", "run"} => ~commit_hint /\ runners[r].dir = made
  BY <1>1 DEF Bus!IInv, Bus!NobodyRaced
<1>6. ASSUME NEW t \in {"commit", "create", "done"}, runners' = [runners EXCEPT ![r].thread = t],
             UNCHANGED <<commit_hint, made>>, raced' \in BOOLEAN, raced => raced',
             t \in {"commit", "create"} => commit_hint,
             t = "create" => ~commit_hint \/ saving # "create" \/ made = 0,
             t = "done" => raced',
             ~raced' => saving \notin Bus!Committing
      PROVE  Bus!IInv'
  <2>0. Bus!TypeOK /\ r \in 1..Bus!Newest /\ t \in Bus!Accessing \cup {"check", "run", "done"}
        /\ UNCHANGED made /\ runners' = [runners EXCEPT ![r].thread = t]
    BY <1>1, <1>6 DEF Bus!Accessing
  <2>1. /\ Bus!Newest' = Bus!Newest /\ Bus!Newest \in Nat /\ Bus!Newest = Len(runners)
        /\ DOMAIN runners' = 1..Bus!Newest /\ DOMAIN runners = 1..Bus!Newest
        /\ runners' \in Seq(Bus!RunningJobs')
        /\ Bus!Results' = Bus!Results /\ Bus!Calls' = Bus!Calls /\ Bus!Messages' = Bus!Messages
        /\ \A q \in 1..Bus!Newest :
              /\ runners'[q].thread = IF q = r THEN t ELSE runners[q].thread
              /\ runners'[q].job = runners[q].job /\ runners'[q].dir = runners[q].dir
              /\ runners'[q].commands = runners[q].commands
              /\ runners'[q].ran = runners[q].ran /\ runners'[q].outcome = runners[q].outcome
    BY ONLY <2>0, ThreadGoes
  <2>2. Bus!MakingGoesOn'
    <3>1. client' = "waiting" /\ saving' = saving
      BY <1>1, <1>2 DEF Bus!client_vars
    <3>2. (made + (IF saving = "create" THEN 1 ELSE 0)
            + (IF Bus!Newest > 0 /\ runners[1].thread = "create" THEN 1 ELSE 0) <= 2)'
      BY <1>1, <1>3, <1>4, <1>6, <2>1, <3>1
    <3>3. \A q \in DOMAIN runners' : q > 1 => runners'[q].thread \notin Bus!Committing
      BY <1>1, <1>4, <1>41, <1>6, <2>1 DEF Bus!Committing
    <3>4. QED
      BY <1>1, <1>3, <1>4, <1>41, <1>6, <2>1, <3>1, <3>2, <3>3 DEF Bus!MakingGoesOn
  <2>3. Bus!NobodyRaced'
    BY <1>1, <1>2, <1>6, <2>1 DEF Bus!NobodyRaced, Bus!Committing
  <2>4. QED
    BY <1>1, <1>2, <1>3, <1>6, <2>1, <2>2, <2>3, AccessKeeps DEF Bus!Accessing
<1>7. ASSUME NEW d \in 0..made', runners' = [runners EXCEPT ![r].thread = "check", ![r].dir = d],
             made' \in 0..2, made <= made', commit_hint' = FALSE, UNCHANGED raced, d = made',
             made' + (IF saving = "create" THEN 1 ELSE 0) <= 2,
             ~raced => saving \notin Bus!Committing
      PROVE  Bus!IInv'
  <2>0. Bus!TypeOK /\ r \in 1..Bus!Newest /\ made' \in Nat
    BY <1>1, <1>7
  <2>01. /\ made' \in Nat /\ made <= made' /\ d \in 0..made'
         /\ runners' = [runners EXCEPT ![r].thread = "check", ![r].dir = d]
    BY <1>7, <2>0
  <2>1. /\ Bus!Newest' = Bus!Newest /\ DOMAIN runners' = 1..Bus!Newest
        /\ runners' \in Seq(Bus!RunningJobs')
        /\ \A q \in 1..Bus!Newest :
              /\ runners'[q].thread = IF q = r THEN "check" ELSE runners[q].thread
              /\ runners'[q].dir = IF q = r THEN d ELSE runners[q].dir
              /\ runners'[q].job = runners[q].job
              /\ runners'[q].commands = runners[q].commands
              /\ runners'[q].ran = runners[q].ran /\ runners'[q].outcome = runners[q].outcome
    BY ONLY <2>0, <2>01, ThreadGoesIn
  <2>2. Bus!MakingGoesOn'
    <3>1. client' = "waiting" /\ saving' = saving
      BY <1>1, <1>2 DEF Bus!client_vars
    <3>3. \A q \in DOMAIN runners' : runners'[q].thread \notin Bus!Committing
      BY <1>1, <1>41, <2>1 DEF Bus!Committing
    <3>2. (made + (IF saving = "create" THEN 1 ELSE 0)
            + (IF Bus!Newest > 0 /\ runners[1].thread = "create" THEN 1 ELSE 0) <= 2)'
      BY <1>1, <1>7, <2>1, <3>1, <3>3 DEF Bus!Committing
    <3>4. QED
      BY <1>1, <1>3, <1>4, <1>41, <1>7, <2>1, <3>1, <3>2, <3>3 DEF Bus!MakingGoesOn
  <2>3. Bus!NobodyRaced'
    BY <1>1, <1>2, <1>41, <1>7, <2>1 DEF Bus!NobodyRaced, Bus!Committing
  <2>41. commit_hint' \in BOOLEAN /\ raced' \in BOOLEAN
    BY <1>3, <1>7
  <2>42. runners'[r].thread # "run" /\ runners[r].thread # "run" /\ runners'[r].thread # "done"
    BY <1>1, <2>1 DEF Bus!Accessing
  <2>4. \A q \in 1..Bus!Newest :
             /\ q # r => runners'[q].thread = runners[q].thread
             /\ runners'[q].job = runners[q].job
             /\ runners'[q].commands = runners[q].commands
             /\ runners'[q].outcome = runners[q].outcome
    BY ONLY <2>1
  <2>5. made' \in 0..2 /\ made <= made'
    BY <1>7
  <2>6. /\ Bus!IInv /\ Bus!TypeOK /\ Bus!JobIs /\ r \in 1..Bus!Newest /\ r = Bus!Newest
        /\ Bus!Newest' = Bus!Newest /\ DOMAIN runners' = 1..Bus!Newest
             /\ runners' \in Seq(Bus!RunningJobs')
        /\ Bus!MakingGoesOn' /\ Bus!NobodyRaced'
    BY <1>1, <2>1, <2>2, <2>3
  <2>7. QED
    BY ONLY <2>6, <1>2, <2>4, <2>41, <2>42, <2>5, AccessKeeps
<1> USE DEF Bus!Committing
<1>8. CASE runners[r].thread = "access" /\ commit_hint
  <2>1. /\ runners' = [runners EXCEPT ![r].thread = "commit"] /\ UNCHANGED <<commit_hint, made>>
        /\ raced' = (raced \/ Bus!SomeoneCommits)
    BY <1>8 DEF Bus!AccessSessionDir, Bus!AccessStep
  <2>2. ~raced' => saving \notin Bus!Committing
    BY <2>1 DEF Bus!SomeoneCommits
  <2>3. QED
    BY <1>3, <1>6, <1>8, <2>1, <2>2 DEF Bus!SomeoneCommits
<1>9. CASE runners[r].thread = "access" /\ ~commit_hint
  <2>1. runners' = [runners EXCEPT ![r].thread = "check", ![r].dir = made]
          /\ UNCHANGED <<commit_hint, made, raced>>
    BY <1>9 DEF Bus!AccessSessionDir, Bus!AccessStep
  <2>2. made \in 0..made' /\ made' \in 0..2 /\ made <= made' /\ commit_hint' = FALSE
    BY <1>3, <1>9, <2>1
  <2>3. made' + (IF saving = "create" THEN 1 ELSE 0) <= 2
    BY <1>3, <1>4, <2>1
  <2>4. ~raced => saving \notin Bus!Committing
    BY <1>5, <1>9
  <2>5. QED
    BY <1>7, <2>1, <2>2, <2>3, <2>4
<1>10. CASE runners[r].thread = "commit" /\ commit_hint
  <2>1. runners' = [runners EXCEPT ![r].thread = "create"]
          /\ UNCHANGED <<commit_hint, made, raced>>
    BY <1>10 DEF Bus!AccessSessionDir, Bus!AccessStep
  <2>2. QED
    BY <1>3, <1>5, <1>6, <1>10, <2>1
<1>11. CASE runners[r].thread = "commit" /\ ~commit_hint
  <2>1. runners' = [runners EXCEPT ![r].thread = "done"]
          /\ UNCHANGED <<commit_hint, made, raced>>
    BY <1>11 DEF Bus!AccessSessionDir, Bus!AccessStep
  <2>2. raced
    BY <1>5, <1>11
  <2>3. QED
    BY <1>3, <1>6, <2>1, <2>2
<1>12. CASE runners[r].thread = "create"
  <2>1. /\ runners' = [runners EXCEPT ![r].thread = "check", ![r].dir = made + 1]
        /\ made' = made + 1 /\ commit_hint' = FALSE /\ UNCHANGED raced
    BY <1>12 DEF Bus!AccessSessionDir, Bus!AccessStep
  <2>2. r = 1 /\ made + (IF saving = "create" THEN 1 ELSE 0) + 1 <= 2
    BY <1>4, <1>12
  <2>3. made + 1 \in 0..made' /\ made' \in 0..2 /\ made <= made'
        /\ made' + (IF saving = "create" THEN 1 ELSE 0) <= 2
    BY <1>3, <2>1, <2>2
  <2>4. ~raced => saving \notin Bus!Committing
    BY <1>5, <1>12
  <2>5. QED
    BY <1>7, <2>1, <2>3, <2>4
<1>13. QED
  BY <1>1, <1>3, <1>8, <1>9, <1>10, <1>11, <1>12 DEF Bus!Accessing

\* What the call of PersistentSave() changes is of no other's concern.
LEMMA SaveKeeps ==
  ASSUME Bus!IInv, UNCHANGED <<Bus!client_vars, inbox, request, updating, Bus!session_vars,
         runners, unheard>>,
         made' \in 0..2, made <= made', commit_hint' \in BOOLEAN, raced' \in BOOLEAN,
         saving' \in Bus!Accessing \cup {"no"},
         Bus!MakingGoesOn', Bus!NobodyRaced', ~raced' => ~raced
  PROVE  Bus!IInv'
<1> USE DEF Bus!client_vars, Bus!session_vars
<1>1. Bus!TypeOK /\ Bus!Newest' = Bus!Newest
  BY DEF Bus!IInv, Bus!Newest
<1>2. Bus!Newest \in Nat /\ DOMAIN runners = 1..Bus!Newest
        /\ runners \in Seq(Bus!RunningJobs) /\ made \in Nat
  BY <1>1, RunnerFacts DEF Bus!TypeOK
<1>3. Bus!Results' = Bus!Results /\ Bus!Calls' = Bus!Calls /\ Bus!Messages' = Bus!Messages
  BY <1>1, <1>2 DEF Bus!Results, Bus!Calls, Bus!Messages, Bus!Newest
<1>4. runners' \in Seq(Bus!RunningJobs')
  <2>1. PICK S : S = Bus!RunningJobs'
    OBVIOUS
  <2>2. Bus!RunningJobs \subseteq S
    BY <1>2, <2>1 DEF Bus!RunningJobs
  <2>3. runners \in Seq(S)
    BY ONLY <1>2, <2>2, Monotone
  <2>4. QED
    BY <2>1, <2>3
<1>5. Bus!TypeOK'
  BY <1>1, <1>3, <1>4 DEF Bus!TypeOK
<1>6. /\ \A j \in ServiceNames : Bus!Outcome(result[j])' = Bus!Outcome(result[j])
      /\ Bus!Recompute(session_run_list, result)' = Bus!Recompute(session_run_list, result)
  <2>1. \A q \in 1..Bus!Newest : runners'[q].outcome = runners[q].outcome
    OBVIOUS
  <2>2. UNCHANGED <<result, session_run_list>> /\ Bus!Newest <= Bus!Newest'
          /\ Bus!Newest' \in Nat
    BY <1>1, <1>2
  <2>3. QED
    BY <1>1, <2>1, <2>2, OutcomesStay
<1>7. /\ Bus!JobIs' = Bus!JobIs /\ Bus!NothingIs' = Bus!NothingIs
           /\ Bus!MessageIs' = Bus!MessageIs
      /\ Bus!CallIs' = Bus!CallIs /\ Bus!QuestionIs' = Bus!QuestionIs
           /\ Bus!CommandIs' = Bus!CommandIs
  BY <1>1 DEF Bus!JobIs, Bus!NothingIs, Bus!MessageIs, Bus!CallIs, Bus!QuestionIs,
       Bus!CommandIs, Bus!NobodyRuns, Bus!Quiet
<1>8. Bus!OneIsUnderWay'
  BY <1>7 DEF Bus!IInv, Bus!OneIsUnderWay
<1>9. Bus!IsRunning' = Bus!IsRunning /\ Bus!Settled' = Bus!Settled
  BY <1>1, <1>7 DEF Bus!IsRunning, Bus!Settled, Bus!AskedOf
<1>10. Bus!MessagesAreRight'
  BY <1>1, <1>7 DEF Bus!IInv, Bus!MessagesAreRight, Bus!AskedOf, Bus!ReportIsRight, Bus!Outcome
<1>11. Bus!ResultsAreFinal'
  BY <1>1, <1>2, <1>6, <1>7, <1>9 DEF Bus!IInv, Bus!ResultsAreFinal, Bus!DecidedBefore
<1>12. Bus!ReadinessIsKept'
  BY <1>1, <1>6, <1>9 DEF Bus!IInv, Bus!ReadinessIsKept, Bus!Outcome
<1>13. Bus!ListsAreKept'
  BY <1>1, <1>6, <1>9, SessionRunList DEF Bus!IInv, Bus!ListsAreKept, Bus!GeneratesFirst,
       Bus!LateGenerators, Bus!RunListOf, Bus!NeededBy
<1>14. Bus!JobsHaveWrappers'
  BY DEF Bus!IInv, Bus!JobsHaveWrappers, Bus!LateGenerators
<1> QED
  BY <1>5, <1>7, <1>8, <1>10, <1>11, <1>12, <1>13, <1>14 DEF Bus!IInv

LEMMA SaveKept == Bus!IInv /\ Bus!PersistentSave => Bus!IInv'
<1> SUFFICES ASSUME Bus!IInv, Bus!PersistentSave PROVE Bus!IInv'
  OBVIOUS
<1>1. UNCHANGED <<Bus!client_vars, inbox, request, updating, Bus!session_vars, runners, unheard>>
      /\ Bus!SaveStep /\ saving # "no"
  BY DEF Bus!PersistentSave, Bus!SaveStep
<1>2. Bus!TypeOK /\ Bus!Newest \in Nat /\ DOMAIN runners = 1..Bus!Newest
        /\ Bus!Newest' = Bus!Newest
      /\ made \in 0..2 /\ commit_hint \in BOOLEAN /\ raced \in BOOLEAN
      /\ saving \in Bus!Accessing \cup {"no"} /\ client' = client /\ runners' = runners
  <2>1. Bus!TypeOK
    BY DEF Bus!IInv
  <2>2. QED
    BY <1>1, <2>1, RunnerFacts DEF Bus!TypeOK, Bus!client_vars, Bus!Newest
<1>3. /\ commit_hint => made = 0
      /\ made + (IF saving = "create" THEN 1 ELSE 0)
           + (IF Bus!Newest > 0 /\ runners[1].thread = "create" THEN 1 ELSE 0) <= 2
      /\ \A r \in DOMAIN runners : r > 1 => runners[r].thread \notin Bus!Committing
      /\ client # "start" /\ ~(Bus!Newest > 1)
  BY <1>1 DEF Bus!IInv, Bus!MakingGoesOn
<1>4. ~raced =>
        /\ saving \in Bus!Committing => commit_hint
        /\ \A r \in DOMAIN runners :
             /\ runners[r].thread \in Bus!Committing => commit_hint
                  /\ saving \notin Bus!Committing
             /\ runners[r].thread \in {"check", "run"} => ~commit_hint /\ runners[r].dir = made
  BY DEF Bus!IInv, Bus!NobodyRaced
<1>5. CASE saving = "access" /\ commit_hint
  <2>1. saving' = "commit" /\ raced' = (raced \/ Bus!SomeoneCommits)
          /\ commit_hint' = commit_hint /\ made' = made
    BY <1>1, <1>5 DEF Bus!SaveStep
  <2>2. Bus!MakingGoesOn'
    BY <1>2, <1>3, <1>5, <2>1 DEF Bus!MakingGoesOn
  <2>3. raced' \in BOOLEAN /\ (~raced' => ~raced /\ ~Bus!SomeoneCommits)
    BY <1>2, <2>1 DEF Bus!SomeoneCommits
  <2>4. Bus!NobodyRaced'
    BY <1>2, <1>4, <1>5, <2>1, <2>3 DEF Bus!NobodyRaced, Bus!SomeoneCommits
  <2>5. QED
    BY <1>1, <1>2, <2>1, <2>2, <2>3, <2>4, SaveKeeps DEF Bus!Accessing
<1>6. CASE (saving = "access" \/ saving = "commit") /\ ~commit_hint
  <2>1. saving' = "no" /\ raced' = raced /\ commit_hint' = commit_hint /\ made' = made
    BY <1>1, <1>6 DEF Bus!SaveStep
  <2>2. Bus!MakingGoesOn'
    BY <1>2, <1>3, <1>6, <2>1 DEF Bus!MakingGoesOn
  <2>3. Bus!NobodyRaced'
    BY <1>2, <1>4, <1>6, <2>1 DEF Bus!NobodyRaced, Bus!Committing
  <2>4. QED
    BY <1>1, <1>2, <2>1, <2>2, <2>3, SaveKeeps
<1>7. CASE saving = "commit" /\ commit_hint
  <2>1. saving' = "create" /\ raced' = raced /\ commit_hint' = commit_hint /\ made' = made
    BY <1>1, <1>7 DEF Bus!SaveStep
  <2>2. Bus!MakingGoesOn'
    BY <1>2, <1>3, <1>7, <2>1 DEF Bus!MakingGoesOn
  <2>3. Bus!NobodyRaced'
    BY <1>2, <1>4, <1>7, <2>1 DEF Bus!NobodyRaced, Bus!Committing
  <2>4. QED
    BY <1>1, <1>2, <2>1, <2>2, <2>3, SaveKeeps DEF Bus!Accessing
<1>8. CASE saving = "create"
  <2>1. saving' = "no" /\ raced' = raced /\ commit_hint' = FALSE /\ made' = made + 1
    BY <1>1, <1>8 DEF Bus!SaveStep
  <2>2. Bus!MakingGoesOn' /\ made' \in 0..2
    BY <1>2, <1>3, <1>8, <2>1 DEF Bus!MakingGoesOn
  <2>3. Bus!NobodyRaced'
    BY <1>2, <1>4, <1>8, <2>1 DEF Bus!NobodyRaced, Bus!Committing
  <2>4. QED
    <3>01. made' = made + 1 /\ made \in 0..2 /\ made' \in 0..2
      BY <1>2, <2>1, <2>2
    <3>0. made' \in 0..2 /\ made <= made'
      BY ONLY <3>01
    <3>02. commit_hint' \in BOOLEAN
      BY <2>1
    <3>1. raced' \in BOOLEAN /\ saving' \in Bus!Accessing \cup {"no"} /\ (~raced' => ~raced)
      BY <1>2, <2>1
    <3>2. UNCHANGED <<Bus!client_vars, inbox, request, updating, Bus!session_vars, runners,
            unheard>>
      BY <1>1
    <3>3. QED
      BY ONLY Bus!IInv, <3>0, <3>02, <3>1, <3>2, <2>2, <2>3, SaveKeeps
<1>9. QED
  BY <1>1, <1>2, <1>5, <1>6, <1>7, <1>8 DEF Bus!Accessing

LEMMA BeginKept == Bus!IInv /\ Bus!BeginUpdateJobResult => Bus!IInv'
<1> SUFFICES ASSUME Bus!IInv, Bus!BeginUpdateJobResult PROVE Bus!IInv'
  OBVIOUS
<1>1. PICK call : call = Head(request)
  OBVIOUS
<1>2. /\ Bus!TypeOK /\ Bus!CallIs /\ inbox = <<>> /\ client = "waiting" /\ ~updating
      /\ call.job = current_job_path /\ call.job \in ServiceNames /\ call.result \in Bus!Results
      /\ Bus!Outcome(call.result) # "none" /\ call.phase = phase
      /\ (Bus!Outcome(call.result) = "not-supported" => Deps[current_job_path] # {})
  <2>1. Bus!TypeOK /\ Bus!CallIs /\ inbox = <<>> /\ client = "waiting" /\ ~updating
    BY TheCall DEF Bus!BeginUpdateJobResult
  <2>2. call.job \in ServiceNames /\ call.result \in Bus!Results
    BY <1>1, <2>1, CallFacts
  <2>3. call.phase = phase /\ Bus!ReportIsRight(call)
    BY <1>1, <2>1 DEF Bus!IInv, Bus!MessagesAreRight
  <2>4. QED
    BY <2>1, <2>2, <2>3 DEF Bus!ReportIsRight
<1>3. /\ UNCHANGED <<Bus!client_vars, inbox, request, wrapped, session_run_list, ready,
                      runners, unheard, Bus!storage_vars>>
      /\ updating' = TRUE
      /\ result' = [result EXCEPT ![call.job] = call.result]
      /\ known' = known \cup (IF Bus!Outcome(call.result) = "not-supported" THEN {}
                              ELSE Generates[call.job])
  BY <1>1 DEF Bus!BeginUpdateJobResult
<1> USE DEF Bus!client_vars, Bus!storage_vars
<1>4. /\ Bus!Newest \in Nat /\ DOMAIN runners = 1..Bus!Newest /\ Bus!Newest' = Bus!Newest
      /\ Generates \in [ServiceNames -> SUBSET ServiceNames]
           /\ result \in [ServiceNames -> Bus!Results]
      /\ known \subseteq ServiceNames /\ wrapped \subseteq known
      /\ Bus!Results' = Bus!Results /\ Bus!Calls' = Bus!Calls
           /\ Bus!Messages' = Bus!Messages /\ Bus!RunningJobs' = Bus!RunningJobs
  BY <1>2, <1>3, RunnerFacts, ServiceConstants DEF Bus!ServiceAssumption, Bus!TypeOK,
       Bus!Results, Bus!Calls, Bus!Messages, Bus!RunningJobs, Bus!Newest
<1>5. \A j \in ServiceNames : result'[j] = IF j = current_job_path THEN call.result ELSE result[j]
  BY <1>2, <1>3, <1>4
<1>6. result' \in [ServiceNames -> Bus!Results]
  BY <1>2, <1>3, <1>4
<1>7. known' \subseteq ServiceNames /\ known \subseteq known'
  BY <1>2, <1>3, <1>4
<1>8. Bus!TypeOK'
  <2>1. updating' \in BOOLEAN /\ wrapped' \subseteq known' /\ known' \subseteq ServiceNames
    BY <1>3, <1>4, <1>7
  <2>2. QED
    BY <1>2, <1>3, <1>4, <1>6, <2>1 DEF Bus!TypeOK
<1>9. \A res \in Bus!Results : Bus!Outcome(res)' = Bus!Outcome(res)
  BY <1>3 DEF Bus!Outcome
<1>10. \A j \in ServiceNames : Bus!Outcome(result[j])' =
         IF j = current_job_path THEN Bus!Outcome(call.result) ELSE Bus!Outcome(result[j])
  BY <1>3, <1>5 DEF Bus!Outcome
<1>11. Bus!CallIs' /\ ~Bus!MessageIs' /\ ~Bus!JobIs' /\ ~Bus!NothingIs'
         /\ ~Bus!IsRunning' /\ Bus!Settled' /\ ~Bus!Settled
  BY <1>2, <1>3 DEF Bus!CallIs, Bus!MessageIs, Bus!JobIs, Bus!NothingIs, Bus!IsRunning,
       Bus!CommandIs, Bus!QuestionIs, Bus!AskedOf, Bus!Settled,
     Bus!NobodyRuns, Bus!Quiet, Bus!Newest
<1>12. Bus!MessagesAreRight'
  <2>1. (Head(request).phase = phase /\ Bus!ReportIsRight(Head(request)))'
    BY <1>1, <1>2, <1>3 DEF Bus!ReportIsRight, Bus!Outcome
  <2>2. QED
    BY <1>2, <1>3, <1>4, <1>11, <2>1 DEF Bus!IInv, Bus!MessagesAreRight, Bus!AskedOf
<1>13. Bus!MakingGoesOn' /\ Bus!NobodyRaced'
  BY <1>3, <1>4 DEF Bus!IInv, Bus!MakingGoesOn, Bus!NobodyRaced
<1>14. Bus!ResultsAreFinal'
  <2>1. \A r \in DOMAIN runners' : runners'[r].outcome # "not-supported"
    BY <1>3 DEF Bus!IInv, Bus!ResultsAreFinal
  <2>2. \A j \in ServiceNames : result'[j].runner # 0 => Bus!Outcome(result[j])' # "none"
    BY <1>2, <1>5, <1>10 DEF Bus!IInv, Bus!ResultsAreFinal
  <2>3. QED
    BY <1>11, <2>1, <2>2 DEF Bus!ResultsAreFinal
<1>15. Bus!ReadinessIsKept'
  BY <1>3, <1>11 DEF Bus!ReadinessIsKept
<1>16. \A j \in ServiceNames : Bus!GeneratesFirst(j)
         /\ j = current_job_path => Generates[j] \subseteq known'
  BY <1>2, <1>3 DEF Bus!GeneratesFirst, Bus!LateGenerators
<1>17. Bus!ListsAreKept'
  <2>1. \A j \in ServiceNames : Bus!GeneratesFirst(j)' =>
          \/ Generates[j] \subseteq known'
          \/ phase' = "local" /\ j \in Bus!ToSet(run_list)'
    <3>1. \A j \in ServiceNames : Bus!GeneratesFirst(j)' = Bus!GeneratesFirst(j)
      BY <1>3 DEF Bus!GeneratesFirst, Bus!LateGenerators
    <3>2. QED
      BY <1>2, <1>3, <1>7, <1>16, <3>1 DEF Bus!IInv, Bus!ListsAreKept
  <2>2. phase' = "all" =>
          /\ session_run_list' = Bus!RunListOf(whitelist \cap wrapped)'
          /\ \A j \in Bus!ToSet(session_run_list)' :
               \/ j \in Bus!ToSet(run_list)'
               \/ Bus!Outcome(result[j])' # "none"
    BY <1>2, <1>3, <1>10, SessionRunList DEF Bus!IInv, Bus!ListsAreKept, Bus!RunListOf,
         Bus!NeededBy
  <2>3. QED
    BY <1>2, <1>3, <1>7, <2>1, <2>2 DEF Bus!IInv, Bus!ListsAreKept
<1>18. Bus!JobsHaveWrappers'
  <2>1. SUFFICES ASSUME phase = "all", NEW k \in known' \ wrapped
                 PROVE  k \in UNION {Generates[g] : g \in Bus!LateGenerators'}
    BY <1>3 DEF Bus!JobsHaveWrappers
  <2>2. Bus!LateGenerators' = Bus!LateGenerators
    BY <1>3 DEF Bus!LateGenerators
  <2>3. CASE k \in known
    BY <2>1, <2>2, <2>3 DEF Bus!IInv, Bus!JobsHaveWrappers
  <2>4. CASE k \notin known
    <3>1. k \in Generates[current_job_path] /\ current_job_path \in ServiceNames
      BY <1>2, <1>3, <2>1, <2>4
    <3>2. Plugin[current_job_path] = "local"
      BY <3>1, ServiceConstants DEF Bus!ServiceAssumption
    <3>3. ~Bus!GeneratesFirst(current_job_path)
      BY <1>2, <2>1, <2>4, <3>1 DEF Bus!IInv, Bus!ListsAreKept
    <3>4. current_job_path \in Bus!LateGenerators
      BY <3>2, <3>3 DEF Bus!GeneratesFirst
    <3>5. QED
      BY <2>2, <3>1, <3>4
  <2>5. QED
    BY <2>3, <2>4
<1> QED
  BY <1>8, <1>11, <1>12, <1>13, <1>14, <1>15, <1>17, <1>18 DEF Bus!IInv, Bus!OneIsUnderWay

LEMMA FinishKept == Bus!IInv /\ Bus!FinishUpdateJobResult => Bus!IInv'
<1> SUFFICES ASSUME Bus!IInv, Bus!FinishUpdateJobResult PROVE Bus!IInv'
  OBVIOUS
<1>1. Bus!TypeOK /\ Bus!CallIs /\ inbox = <<>> /\ client = "waiting" /\ updating
  BY DEF Bus!FinishUpdateJobResult, Bus!IInv, Bus!OneIsUnderWay, Bus!NothingIs, Bus!JobIs,
       Bus!CommandIs, Bus!QuestionIs, Bus!MessageIs, Bus!CallIs
<1> DEFINE message == [kind |-> "reply", phase |-> phase]
<1>2. Head(request).phase = phase /\ Tail(request) = <<>> /\ phase \in Bus!Phases
  BY <1>1, CallFacts DEF Bus!IInv, Bus!MessagesAreRight, Bus!TypeOK
<1>3. /\ UNCHANGED <<Bus!client_vars, known, wrapped, session_run_list, result, runners,
           unheard, Bus!storage_vars>>
      /\ updating' = FALSE /\ ready' = Bus!Recompute(session_run_list, result)
      /\ request' = <<>> /\ inbox' = Append(<<>>, message)
  BY <1>1, <1>2 DEF Bus!FinishUpdateJobResult
<1> USE DEF Bus!client_vars, Bus!storage_vars
<1>4. Bus!Newest \in Nat /\ DOMAIN runners = 1..Bus!Newest /\ Bus!Newest' = Bus!Newest
  BY <1>1, <1>3, RunnerFacts DEF Bus!Newest
<1>5. Bus!Results' = Bus!Results /\ Bus!Calls' = Bus!Calls
        /\ Bus!Messages' = Bus!Messages /\ Bus!RunningJobs' = Bus!RunningJobs
  BY <1>3 DEF Bus!Results, Bus!Calls, Bus!Messages, Bus!RunningJobs
<1>6. message \in Bus!Messages
  BY <1>2 DEF Bus!Messages
<1>7. inbox' \in Seq(Bus!Messages) /\ Len(inbox') = 1 /\ Head(inbox') = message /\ inbox' # <<>>
  BY <1>3, <1>6, AppendsOne
<1>8. ready' \subseteq ServiceNames
  BY <1>1, <1>3, SessionRunList DEF Bus!Recompute
<1>9. Bus!TypeOK'
  <2>11. updating' \in BOOLEAN
    BY <1>3
  <2>12. request' \in Seq(Bus!Calls')
    BY <1>3
  <2>1. updating' \in BOOLEAN /\ request' \in Seq(Bus!Calls')
    BY <2>11, <2>12
  <2>2. inbox' \in Seq(Bus!Messages') /\ ready' \subseteq ServiceNames
    BY <1>5, <1>7, <1>8
  <2>3. QED
    BY <1>1, <1>3, <1>5, <2>1, <2>2 DEF Bus!TypeOK
<1>10. Bus!MessageIs' /\ ~Bus!NothingIs' /\ ~Bus!JobIs' /\ ~Bus!CallIs'
  BY <1>1, <1>3, <1>4, <1>7 DEF Bus!CallIs, Bus!MessageIs, Bus!JobIs, Bus!NothingIs,
       Bus!NobodyRuns, Bus!Quiet
<1>11. Bus!AskedOf("reply")' /\ ~Bus!AskedOf("result")' /\ ~Bus!AskedOf("ask")'
  BY <1>7, <1>10 DEF Bus!AskedOf
<1>12. Bus!Settled /\ Bus!Settled' /\ ~Bus!IsRunning'
  BY <1>1, <1>3, <1>7, <1>10, <1>11 DEF Bus!Settled, Bus!IsRunning, Bus!CommandIs, Bus!QuestionIs
<1>13. Bus!MessagesAreRight'
  BY <1>1, <1>3, <1>4, <1>7, <1>10, <1>11 DEF Bus!IInv, Bus!MessagesAreRight
<1>14. Bus!MakingGoesOn' /\ Bus!NobodyRaced'
  BY <1>3, <1>4 DEF Bus!IInv, Bus!MakingGoesOn, Bus!NobodyRaced
<1>15. /\ \A j \in ServiceNames : Bus!Outcome(result[j])' = Bus!Outcome(result[j])
       /\ Bus!Recompute(session_run_list, result)' = Bus!Recompute(session_run_list, result)
  <2>1. \A j \in ServiceNames : Bus!Outcome(result[j])' = Bus!Outcome(result[j])
    BY <1>3 DEF Bus!Outcome
  <2>2. QED
    BY <1>1, <1>3, <2>1, RecomputeStays
<1>16. Bus!ResultsAreFinal'
  BY <1>3, <1>10, <1>12, <1>15 DEF Bus!IInv, Bus!ResultsAreFinal
<1>17. Bus!ReadinessIsKept'
  BY <1>3, <1>12, <1>15 DEF Bus!ReadinessIsKept
<1>18. Bus!ListsAreKept'
  BY <1>1, <1>3, <1>12, <1>15, SessionRunList DEF Bus!IInv, Bus!ListsAreKept,
       Bus!GeneratesFirst, Bus!LateGenerators, Bus!RunListOf, Bus!NeededBy
<1>19. Bus!JobsHaveWrappers'
  BY <1>3 DEF Bus!IInv, Bus!JobsHaveWrappers, Bus!LateGenerators
<1> QED
  BY <1>9, <1>10, <1>13, <1>14, <1>16, <1>17, <1>18, <1>19 DEF Bus!IInv, Bus!OneIsUnderWay

-----------------------------------------------------------------------------
(* The jobs that others need.                                              *)

LessThan == OpToRel(<, Nat)

LEMMA LessIsWellFounded == IsWellFoundedOn(LessThan, Nat)
BY NatLessThanWellFounded, Zenon DEF LessThan

LEMMA LessContains == \A i, j \in Nat : i < j => <<i, j>> \in LessThan
BY Zenon DEF LessThan, OpToRel

LEMMA Least ==
  ASSUME NEW I \in SUBSET Nat, I # {}
  PROVE  \E i \in I : \A j \in I : i <= j
<1>1. PICK i \in I : \A j \in I : ~(<<j, i>> \in LessThan)
  BY LessIsWellFounded, WFMin
<1>2. \A j \in I : ~(j < i)
  BY <1>1, LessContains
<1>3. QED
  BY <1>2

\* f gives the jobs that S needs in up to i steps, i at most n.
WithDeps(T) == T \cup UNION {Deps[j] : j \in T}

Reaches(S, f, n) == f = [i \in 0..n |-> IF i = 0 THEN S ELSE WithDeps(f[i - 1])]

LEMMA ReachIsThere ==
  ASSUME NEW S, NEW n \in Nat
  PROVE  \E f : Reaches(S, f, n)
<1> DEFINE I == {k \in Nat : ~\E f : Reaches(S, f, k)}
<1>1. ASSUME I # {} PROVE FALSE
  <2>1. PICK k \in I : \A j \in I : k <= j
    BY <1>1, Least
  <2>2. CASE k = 0
    <3>1. Reaches(S, [i \in 0..0 |-> S], 0)
      BY DEF Reaches
    <3>2. QED
      BY <2>2, <3>1
  <2>3. CASE k # 0
    <3>1. k \in Nat /\ k - 1 \in Nat /\ k - 1 \notin I
      BY <2>1, <2>3
    <3>2. PICK f : Reaches(S, f, k - 1)
      BY <3>1
    <3>3. PICK g : g = [i \in 0..k |-> IF i = k THEN WithDeps(f[k - 1]) ELSE f[i]]
      OBVIOUS
    <3>4. \A i \in 0..(k - 1) : f[i] = IF i = 0 THEN S ELSE WithDeps(f[i - 1])
      BY <3>1, <3>2 DEF Reaches
    <3>5. \A i \in 0..k : g[i] = IF i = 0 THEN S ELSE WithDeps(g[i - 1])
      <4>1. SUFFICES ASSUME NEW i \in 0..k
                     PROVE  g[i] = IF i = 0 THEN S ELSE WithDeps(g[i - 1])
        OBVIOUS
      <4>2. CASE i = k
        <5>1. g[i] = WithDeps(f[k - 1]) /\ k - 1 \in 0..k /\ k - 1 # k
          BY <3>1, <3>3, <4>2
        <5>2. g[k - 1] = f[k - 1]
          BY <3>3, <5>1
        <5>3. QED
          BY <2>3, <4>2, <5>1, <5>2
      <4>3. CASE i # k
        <5>1. i \in 0..(k - 1) /\ g[i] = f[i]
          BY <3>1, <3>3, <4>3
        <5>2. i # 0 => i - 1 \in 0..k /\ i - 1 # k
          BY <3>1, <5>1
        <5>3. i # 0 => g[i - 1] = f[i - 1]
          BY <3>3, <5>2
        <5>4. QED
          BY <3>4, <5>1, <5>3
      <4>4. QED
        BY <4>2, <4>3
    <3>6. g = [i \in 0..k |-> IF i = 0 THEN S ELSE WithDeps(g[i - 1])]
      <4>1. PICK h : h = [i \in 0..k |-> IF i = 0 THEN S ELSE WithDeps(g[i - 1])]
        OBVIOUS
      <4>2. DOMAIN g = 0..k /\ DOMAIN h = 0..k /\ \A i \in 0..k : g[i] = h[i]
        BY <3>3, <3>5, <4>1
      <4>3. g = h
        <5>1. g = [i \in 0..k |-> g[i]] /\ h = [i \in 0..k |-> h[i]]
          BY <3>3, <4>1
        <5>2. QED
          BY <4>2, <5>1
      <4>4. QED
        BY <4>1, <4>3
    <3>7. QED
      BY <2>1, <3>6 DEF Reaches
  <2>4. QED
    BY <2>2, <2>3
<1>2. QED
  BY <1>1

LEMMA NeededFacts ==
  ASSUME NEW S \in SUBSET ServiceNames
  PROVE  S \subseteq Bus!NeededBy(S) /\ Bus!NeededBy(S) \subseteq ServiceNames
<1>1. PICK n : n = Bus!Cardinality(ServiceNames)
  OBVIOUS
<1>2. n \in Nat
  BY <1>1, ServiceConstants, FS_CardinalityType, BusOperators DEF Bus!ServiceAssumption
<1>3. PICK f : f = CHOOSE Reach : Reach = [i \in 0..n |->
                 IF i = 0 THEN S ELSE Reach[i - 1] \cup UNION {Deps[j] : j \in Reach[i - 1]}]
  OBVIOUS
<1>4. Bus!NeededBy(S) = f[n]
  BY <1>1, <1>3 DEF Bus!NeededBy
<1>5. f = CHOOSE Reach : Reaches(S, Reach, n)
  BY <1>3 DEF Reaches, WithDeps
<1>6. Reaches(S, f, n)
  BY <1>2, <1>5, ReachIsThere
<1>7. \A i \in 0..n : f[i] = IF i = 0 THEN S ELSE WithDeps(f[i - 1])
  BY <1>6 DEF Reaches
<1> DEFINE I == {i \in 0..n : ~(S \subseteq f[i] /\ f[i] \subseteq ServiceNames)}
<1>8. ASSUME I # {} PROVE FALSE
  <2>1. PICK i \in I : \A j \in I : i <= j
    <3>1. I \in SUBSET Nat
      BY <1>2
    <3> HIDE DEF I
    <3>2. QED
      BY ONLY <3>1, <1>8, Least
  <2>2. i # 0
    BY <1>2, <1>7
  <2>3. i \in 0..n /\ i - 1 \in 0..n /\ i - 1 \notin I
    BY <1>2, <2>1, <2>2
  <2>4. S \subseteq f[i - 1] /\ f[i - 1] \subseteq ServiceNames
    BY <2>3
  <2>5. f[i] = WithDeps(f[i - 1])
    BY <1>7, <2>2, <2>3
  <2>6. S \subseteq f[i] /\ f[i] \subseteq ServiceNames
    BY <2>4, <2>5, ServiceConstants DEF WithDeps, Bus!ServiceAssumption
  <2>7. QED
    BY <2>1, <2>6
<1>9. n \in 0..n /\ n \notin I
  BY <1>2, <1>8
<1>10. QED
  BY <1>4, <1>9

LEMMA RunListFacts ==
  ASSUME NEW S \in SUBSET ServiceNames
  PROVE  Bus!RunListOf(S) \in Seq(ServiceNames) /\ S \subseteq Bus!ToSet(Bus!RunListOf(S))
         /\ Bus!ToSet(Bus!RunListOf(S)) = Bus!NeededBy(S)
BY NeededFacts, ServiceConstants DEF Bus!RunListOf, Bus!ServiceAssumption

LEMMA HeadAndTail ==
  ASSUME NEW S, NEW s \in Seq(S), s # <<>>
  PROVE  /\ Head(s) \in S /\ Tail(s) \in Seq(S)
         /\ Bus!ToSet(s) = {Head(s)} \cup Bus!ToSet(Tail(s))
<1>1. /\ Head(s) \in S /\ Tail(s) \in Seq(S) /\ Len(s) \in Nat /\ Len(s) > 0
      /\ Len(Tail(s)) = Len(s) - 1 /\ Head(s) = s[1]
      /\ DOMAIN s = 1..Len(s) /\ DOMAIN Tail(s) = 1..(Len(s) - 1)
      /\ \A k \in 1..(Len(s) - 1) : Tail(s)[k] = s[k + 1]
  OBVIOUS
<1>2. \A k \in DOMAIN s : k = 1 \/ (k - 1 \in DOMAIN Tail(s) /\ s[k] = Tail(s)[k - 1])
  BY <1>1
<1>3. 1 \in DOMAIN s /\ \A k \in DOMAIN Tail(s) : k + 1 \in DOMAIN s
  BY <1>1
<1>4. \A x : x \in Bus!ToSet(s) <=> \E k \in DOMAIN s : s[k] = x
  BY DEF Bus!ToSet
<1>5. \A x : x \in Bus!ToSet(Tail(s)) <=> \E k \in DOMAIN Tail(s) : Tail(s)[k] = x
  BY DEF Bus!ToSet
<1>6. ASSUME NEW x \in Bus!ToSet(s) PROVE x = Head(s) \/ x \in Bus!ToSet(Tail(s))
  <2>1. PICK k \in DOMAIN s : s[k] = x
    BY <1>4, <1>6
  <2>2. QED
    BY <1>1, <1>2, <1>5, <2>1
<1>7. ASSUME NEW x \in Bus!ToSet(Tail(s)) PROVE x \in Bus!ToSet(s)
  <2>1. PICK k \in DOMAIN Tail(s) : Tail(s)[k] = x
    BY <1>5, <1>7
  <2>2. k + 1 \in DOMAIN s /\ s[k + 1] = x
    BY <1>1, <1>3, <2>1
  <2>3. QED
    BY <1>4, <2>2
<1>8. Head(s) \in Bus!ToSet(s)
  BY <1>1, <1>3, <1>4
<1>9. QED
  BY <1>1, <1>6, <1>7, <1>8

LEMMA EmptyHas == Bus!ToSet(<<>>) = {}
BY DEF Bus!ToSet

LEMMA RunnerIsAdded ==
  ASSUME Bus!TypeOK, NEW j \in ServiceNames, UNCHANGED made, runners' = Append(runners,
         Bus!NewRunner(j))
  PROVE  /\ Bus!Newest \in Nat /\ Bus!Newest' = Bus!Newest + 1
              /\ DOMAIN runners' = 1..(Bus!Newest + 1)
         /\ DOMAIN runners = 1..Bus!Newest
         /\ runners' \in Seq(Bus!RunningJobs')
              /\ \A r \in 1..Bus!Newest : runners'[r] = runners[r]
         /\ runners'[Bus!Newest'].job = j /\ runners'[Bus!Newest'].thread = "access"
         /\ runners'[Bus!Newest'].commands = 0 /\ runners'[Bus!Newest'].outcome = "none"
         /\ result \in [ServiceNames -> Bus!Results']
<1>1. made \in Nat /\ runners \in Seq(Bus!RunningJobs) /\ Bus!RunningJobs' = Bus!RunningJobs
  BY DEF Bus!TypeOK, Bus!RunningJobs
<1>2. PICK new : new = Bus!NewRunner(j)
  OBVIOUS
<1>3. /\ new \in Bus!RunningJobs /\ new.job = j /\ new.thread = "access"
      /\ new.commands = 0 /\ new.outcome = "none"
  BY <1>1, <1>2 DEF Bus!NewRunner, Bus!RunningJobs, Bus!Accessing, Bus!Outcomes
<1>4. PICK S : S = Bus!RunningJobs
  OBVIOUS
<1>5. /\ runners' \in Seq(S) /\ Len(runners) \in Nat /\ DOMAIN runners = 1..Len(runners)
      /\ Len(runners') = Len(runners) + 1 /\ DOMAIN runners' = 1..(Len(runners) + 1)
      /\ \A r \in 1..Len(runners) : runners'[r] = runners[r]
      /\ runners'[Len(runners) + 1] = new
  <2>1. runners \in Seq(S) /\ new \in S /\ runners' = Append(runners, new)
    BY <1>1, <1>2, <1>3, <1>4
  <2>2. QED
    BY ONLY <2>1, AppendFacts
<1>6. Bus!Results \subseteq Bus!Results'
  BY <1>5 DEF Bus!Results
<1>7. result \in [ServiceNames -> Bus!Results']
  BY <1>6 DEF Bus!TypeOK
<1>8. QED
  BY <1>1, <1>3, <1>4, <1>5, <1>7 DEF Bus!Newest

\* The client has the next job of the list run.
LEMMA JobStarts ==
  ASSUME Bus!IInv, Bus!NobodyRuns, request = <<>>, ~updating,
         UNCHANGED <<request, updating, result, commit_hint, made, raced, unheard, whitelist,
           runner_asked>>,
         NEW list \in Seq(ServiceNames), list # <<>>, Bus!RunNext(list), inbox' = <<>>,
           client' = "waiting",
         phase' \in Bus!Phases, session_run_list' \in Seq(ServiceNames),
           known' \subseteq ServiceNames,
         wrapped' \subseteq known', ready' \subseteq ServiceNames,
         ready' = Bus!Recompute(session_run_list', result),
         \/ UNCHANGED saving /\ client = "waiting" /\ saving = "no"
         \/ client = "start" /\ saving' = "access",
         ~Bus!Settled' => Bus!ListsAreKept', Bus!JobsHaveWrappers'
  PROVE  Bus!IInv'
<1>1. Bus!TypeOK
  BY DEF Bus!IInv
<1>2. Head(list) \in ServiceNames /\ Tail(list) \in Seq(ServiceNames)
  BY HeadAndTail
<1>3. /\ run_list' = Tail(list) /\ current_job_path' = Head(list)
      /\ runners' = Append(runners, Bus!NewRunner(Head(list)))
  BY DEF Bus!RunNext
<1>4. /\ Bus!Newest \in Nat /\ Bus!Newest' = Bus!Newest + 1
           /\ DOMAIN runners' = 1..(Bus!Newest + 1)
      /\ DOMAIN runners = 1..Bus!Newest
      /\ runners' \in Seq(Bus!RunningJobs') /\ \A r \in 1..Bus!Newest : runners'[r] = runners[r]
      /\ runners'[Bus!Newest'].job = Head(list) /\ runners'[Bus!Newest'].thread = "access"
      /\ runners'[Bus!Newest'].commands = 0 /\ runners'[Bus!Newest'].outcome = "none"
      /\ result \in [ServiceNames -> Bus!Results']
  BY <1>1, <1>2, <1>3, RunnerIsAdded
<1>5. Bus!TypeOK'
  <2>1. inbox' \in Seq(Bus!Messages')
    OBVIOUS
  <2>2. request' \in Seq(Bus!Calls')
    OBVIOUS
  <2>3. runner_asked' \in 0..Len(runners')
    BY <1>1, <1>4 DEF Bus!TypeOK, Bus!Newest
  <2>4. saving' \in Bus!Accessing \cup {"no"}
    BY DEF Bus!Accessing
  <2>5. QED
    BY <1>1, <1>2, <1>3, <1>4, <2>1, <2>2, <2>3, <2>4 DEF Bus!TypeOK
<1>6. \A r \in 1..Bus!Newest : Bus!Quiet(r)'
  BY <1>4 DEF Bus!NobodyRuns, Bus!Quiet
<1>7. Bus!JobIs' /\ ~Bus!NothingIs' /\ ~Bus!MessageIs' /\ ~Bus!CallIs' /\ ~Bus!CommandIs'
        /\ ~Bus!QuestionIs'
  BY <1>4, <1>6 DEF Bus!JobIs, Bus!NothingIs, Bus!MessageIs, Bus!CallIs, Bus!CommandIs,
       Bus!QuestionIs, Bus!NobodyRuns, Bus!Quiet
<1>8. ~Bus!IsRunning' /\ ~Bus!Settled'
  BY <1>4, <1>7 DEF Bus!IsRunning, Bus!AskedOf, Bus!Settled
<1>9. Bus!MessagesAreRight'
  BY <1>3, <1>4, <1>7 DEF Bus!MessagesAreRight, Bus!AskedOf
<1>10. \A r \in 1..Bus!Newest : runners[r].thread = "done"
  BY <1>4 DEF Bus!NobodyRuns, Bus!Quiet
<1>11. Bus!MakingGoesOn'
  <2>1. made \in 0..2 /\ (commit_hint => made = 0)
    BY <1>1 DEF Bus!TypeOK, Bus!IInv, Bus!MakingGoesOn
  <2>2. client = "start" => Bus!Newest = 0
    BY <1>1, RunnerFacts DEF Bus!IInv, Bus!MakingGoesOn
  <2>3. client = "waiting" /\ saving = "no" => ~commit_hint
    BY DEF Bus!IInv, Bus!MakingGoesOn
  <2>4. \A r \in 1..(Bus!Newest + 1) : runners'[r].thread \notin Bus!Committing
    BY <1>4, <1>10 DEF Bus!Committing
  <2>5. runners'[1].thread # "create" /\ saving' # "create"
    BY <1>4, <2>4 DEF Bus!Committing
  <2>6. QED
    BY <1>4, <2>1, <2>2, <2>3, <2>4, <2>5 DEF Bus!MakingGoesOn
<1>12. Bus!NobodyRaced'
  <2>1. \A r \in 1..(Bus!Newest + 1) : runners'[r].thread \in {"done", "access"}
    BY <1>4, <1>10
  <2>2. QED
    BY <1>4, <2>1 DEF Bus!NobodyRaced, Bus!Committing
<1>13. \A j \in ServiceNames : Bus!Outcome(result[j])' = Bus!Outcome(result[j])
  <2>1. \A j \in ServiceNames : result[j].runner \in 0..Bus!Newest
    BY <1>1, RunnerFacts
  <2>2. QED
    BY <1>4, <2>1 DEF Bus!Outcome
<1>14. Bus!ResultsAreFinal'
  <2>1. \A r \in DOMAIN runners' : runners'[r].outcome # "not-supported"
    BY <1>4 DEF Bus!IInv, Bus!ResultsAreFinal
  <2>2. \A j \in ServiceNames : result[j].runner \in 0..Bus!Newest
    BY <1>1, RunnerFacts
  <2>3. QED
    BY <1>4, <1>13, <2>1, <2>2 DEF Bus!IInv, Bus!ResultsAreFinal, Bus!DecidedBefore
<1>15. Bus!ReadinessIsKept'
  <2>1. Bus!ToSet(session_run_list') \subseteq ServiceNames
          /\ \A j \in ServiceNames : Deps[j] \subseteq ServiceNames
    BY <1>5, SeqFacts, ServiceConstants DEF Bus!ToSet, Bus!ServiceAssumption
  <2>2. \A j \in Bus!ToSet(session_run_list') : \A d \in Deps[j] :
          Bus!Outcome(result[d])' = Bus!Outcome(result[d])
    BY <1>13, <2>1
  <2>3. Bus!Recompute(session_run_list, result)' = Bus!Recompute(session_run_list', result)
    BY <2>2 DEF Bus!Recompute
  <2>4. QED
    BY <1>8, <2>3 DEF Bus!ReadinessIsKept
<1> QED
  BY <1>5, <1>7, <1>8, <1>9, <1>11, <1>12, <1>14, <1>15 DEF Bus!IInv, Bus!OneIsUnderWay

\* The client ends, with the results or with an exception.
LEMMA ClientStops ==
  ASSUME Bus!IInv, Bus!NobodyRuns, request = <<>>, ~updating,
         UNCHANGED <<request, updating, result, commit_hint, made, raced, unheard, whitelist,
           runner_asked, runners>>,
         inbox' = <<>>, client' \in {"results", "no_name", "no_wrapper"},
         run_list' \in Seq(ServiceNames), current_job_path' \in ServiceNames \cup {"none"},
         phase' \in Bus!Phases, session_run_list' \in Seq(ServiceNames),
           known' \subseteq ServiceNames,
         wrapped' \subseteq known', ready' \subseteq ServiceNames,
         ready' = Bus!Recompute(session_run_list', result),
         \/ UNCHANGED saving /\ client = "waiting" /\ saving = "no"
         \/ client = "start" /\ saving' \in {"access", "no"},
         (Bus!Settled' => client' = "results") => Bus!ListsAreKept', Bus!JobsHaveWrappers'
  PROVE  Bus!IInv'
<1>1. Bus!TypeOK /\ Bus!Newest' = Bus!Newest
  BY DEF Bus!IInv, Bus!Newest
<1>2. Bus!Newest \in Nat /\ DOMAIN runners = 1..Bus!Newest
  BY <1>1, RunnerFacts
<1>3. Bus!Results' = Bus!Results /\ Bus!RunningJobs' = Bus!RunningJobs
  BY <1>1 DEF Bus!Results, Bus!RunningJobs
<1>4. Bus!TypeOK'
  <2>1. inbox' \in Seq(Bus!Messages')
    OBVIOUS
  <2>2. request' \in Seq(Bus!Calls')
    OBVIOUS
  <2>3. saving' \in Bus!Accessing \cup {"no"}
    BY DEF Bus!Accessing
  <2>4. client' \in {"start", "waiting", "asking", "results", "no_name", "no_wrapper"}
    OBVIOUS
  <2>5. QED
    BY <1>1, <1>3, <2>1, <2>2, <2>3, <2>4 DEF Bus!TypeOK
<1>5. Bus!NobodyRuns'
  BY DEF Bus!NobodyRuns, Bus!Quiet
<1>6. Bus!NothingIs' /\ ~Bus!MessageIs' /\ ~Bus!CallIs' /\ ~Bus!CommandIs'
        /\ ~Bus!QuestionIs' /\ ~Bus!JobIs'
  BY <1>5 DEF Bus!JobIs, Bus!NothingIs, Bus!MessageIs, Bus!CallIs, Bus!CommandIs, Bus!QuestionIs
<1>7. ~Bus!IsRunning' /\ (Bus!Settled' => client' = "results")
  BY <1>6 DEF Bus!IsRunning, Bus!AskedOf, Bus!Settled
<1>8. Bus!MessagesAreRight'
  BY <1>6 DEF Bus!MessagesAreRight, Bus!AskedOf
<1>10. \A r \in 1..Bus!Newest : runners[r].thread = "done"
  BY <1>2 DEF Bus!NobodyRuns, Bus!Quiet
<1>11. Bus!MakingGoesOn'
  <2>1. made \in 0..2 /\ (commit_hint => made = 0)
    BY <1>1 DEF Bus!TypeOK, Bus!IInv, Bus!MakingGoesOn
  <2>2. client = "start" => Bus!Newest = 0
    BY <1>1, RunnerFacts DEF Bus!IInv, Bus!MakingGoesOn
  <2>3. client = "waiting" /\ saving = "no" => ~commit_hint
    BY DEF Bus!IInv, Bus!MakingGoesOn
  <2>4. \A r \in 1..Bus!Newest : runners'[r].thread \notin Bus!Committing
    BY <1>10 DEF Bus!Committing
  <2>5. (Bus!Newest > 0 => runners'[1].thread # "create") /\ saving' # "create"
    BY <1>2, <2>4 DEF Bus!Committing
  <2>6. QED
    BY <1>1, <1>2, <2>1, <2>2, <2>3, <2>4, <2>5 DEF Bus!MakingGoesOn
<1>12. Bus!NobodyRaced'
  BY <1>1, <1>2, <1>10 DEF Bus!NobodyRaced, Bus!Committing
<1>13. \A j \in ServiceNames : Bus!Outcome(result[j])' = Bus!Outcome(result[j])
  BY DEF Bus!Outcome
<1>14. Bus!ResultsAreFinal'
  BY <1>6, <1>7, <1>13 DEF Bus!IInv, Bus!ResultsAreFinal
<1>15. Bus!ReadinessIsKept'
  BY <1>7 DEF Bus!ReadinessIsKept, Bus!Recompute, Bus!Outcome
<1> QED
  BY <1>4, <1>6, <1>7, <1>8, <1>11, <1>12, <1>14, <1>15 DEF Bus!IInv, Bus!OneIsUnderWay

\* RunJobs(), by either of the two who go on with the list of all jobs.
LEMMA RunJobsKeeps ==
  ASSUME Bus!IInv, Bus!NobodyRuns, request = <<>>, ~updating,
         UNCHANGED <<request, updating, result, commit_hint, made, raced, unheard, whitelist,
           runner_asked>>,
         NEW list \in Seq(ServiceNames), Bus!RunJobs(list), inbox' = <<>>,
         phase' = "all", session_run_list' \in Seq(ServiceNames), known' \subseteq ServiceNames,
         wrapped' \subseteq known', ready' \subseteq ServiceNames,
         ready' = Bus!Recompute(session_run_list', result),
         \/ UNCHANGED saving /\ client = "waiting" /\ saving = "no"
         \/ client = "start"
              /\ saving' = IF client' \in {"waiting", "results"} THEN "access" ELSE "no",
         session_run_list' = Bus!RunListOf(whitelist \cap wrapped'),
         Bus!ToSet(list) \subseteq Bus!ToSet(session_run_list'),
         \A j \in Bus!ToSet(session_run_list') :
           j \in Bus!ToSet(list) \/ Bus!Outcome(result[j]) # "none",
         list = <<>> => run_list = <<>>,
         \A j \in ServiceNames : Bus!GeneratesFirst(j) => Generates[j] \subseteq known',
         ServiceNames \ Bus!Generated \subseteq known', Bus!JobsHaveWrappers'
  PROVE  Bus!IInv'
<1>1. Bus!TypeOK
  BY DEF Bus!IInv
<1>2. /\ list # <<>> => Head(list) \in ServiceNames /\ Tail(list) \in Seq(ServiceNames)
                        /\ Bus!ToSet(list) = {Head(list)} \cup Bus!ToSet(Tail(list))
      /\ Bus!ToSet(<<>>) = {} /\ Bus!ToSet(session_run_list') \subseteq ServiceNames
  <2>1. list # <<>> => Head(list) \in ServiceNames /\ Tail(list) \in Seq(ServiceNames)
                        /\ Bus!ToSet(list) = {Head(list)} \cup Bus!ToSet(Tail(list))
    BY HeadAndTail
  <2>2. Bus!ToSet(session_run_list') \subseteq ServiceNames
    BY SeqFacts DEF Bus!ToSet
  <2>3. QED
    BY <2>1, <2>2, EmptyHas
<1>4. Bus!RunListOf(whitelist \cap wrapped)' = Bus!RunListOf(whitelist \cap wrapped')
  BY DEF Bus!RunListOf, Bus!NeededBy
<1>5. ASSUME client' # "start", ~Bus!Settled' \/ (client' = "results" /\ run_list' = <<>>),
             \A j \in ServiceNames : Bus!Outcome(result[j])' = Bus!Outcome(result[j]),
             \/ list # <<>> /\ run_list' = Tail(list) /\ current_job_path' = Head(list)
                  /\ client' # "results"
             \/ list = <<>> /\ run_list' = <<>> /\ client' \notin {"waiting", "asking"}
                  /\ (client' = "results" => known' = wrapped')
      PROVE  Bus!ListsAreKept'
  <2>1. Bus!ToSet(run_list') \subseteq Bus!ToSet(session_run_list')
    BY <1>2, <1>5
  <2>2. client' \in {"waiting", "asking"} => current_job_path' \in Bus!ToSet(session_run_list')
    BY <1>2, <1>5
  <2>3. \A j \in ServiceNames : Bus!GeneratesFirst(j)' => Generates[j] \subseteq known'
    BY DEF Bus!GeneratesFirst, Bus!LateGenerators
  <2>4. \A j \in Bus!ToSet(session_run_list') :
            \/ j \in Bus!ToSet(run_list')
            \/ Bus!Outcome(result[j])' # "none"
            \/ (j = current_job_path' /\ ~Bus!Settled')
    BY <1>2, <1>5
  <2>5. client' = "results" => known' = wrapped' /\ run_list' = <<>>
    BY <1>5
  <2>6. QED
    BY <1>4, <1>5, <2>1, <2>2, <2>3, <2>4, <2>5 DEF Bus!ListsAreKept
<1>6. \A j \in ServiceNames : result[j].runner \in 0..Bus!Newest /\ Bus!Newest \in Nat
  BY <1>1, RunnerFacts
<1>7. CASE list # <<>> /\ Bus!RunNext(list) /\ client' = "waiting"
  <2>1. \A j \in ServiceNames : Bus!Outcome(result[j])' = Bus!Outcome(result[j])
    <3>1. \A r \in 1..Bus!Newest : runners'[r] = runners[r]
      BY <1>1, <1>2, <1>7, RunnerIsAdded DEF Bus!RunNext
    <3>2. QED
      BY <1>6, <3>1 DEF Bus!Outcome
  <2>2. ~Bus!Settled' => Bus!ListsAreKept'
    <3>1. SUFFICES ASSUME ~Bus!Settled' PROVE Bus!ListsAreKept'
      OBVIOUS
    <3>2. client' # "start" /\ client' # "results"
          /\ run_list' = Tail(list) /\ current_job_path' = Head(list)
      BY <1>7 DEF Bus!RunNext
    <3>3. list # <<>>
      BY <1>7
    <3>4. QED
      BY ONLY <1>5, <2>1, <3>1, <3>2, <3>3
  <2>3. phase' \in Bus!Phases
    BY DEF Bus!Phases
  <2>4. \/ UNCHANGED saving /\ client = "waiting" /\ saving = "no"
        \/ client = "start" /\ saving' = "access"
    BY <1>7
  <2>5. QED
    BY <1>7, <2>2, <2>3, <2>4, JobStarts
<1>8. CASE Bus!RunJobs(list) /\ ~(list # <<>> /\ Bus!RunNext(list) /\ client' = "waiting")
  <2>1. /\ UNCHANGED runners
        /\ \/ list # <<>> /\ run_list' = Tail(list) /\ current_job_path' = Head(list)
                /\ client' = "no_name"
           \/ list = <<>> /\ UNCHANGED <<run_list, current_job_path>>
                /\ client' = (IF known' \subseteq wrapped' THEN "results" ELSE "no_wrapper")
    BY <1>8 DEF Bus!RunJobs
  <2>2. /\ client' \in {"results", "no_name", "no_wrapper"}
        /\ run_list' \in Seq(ServiceNames) /\ current_job_path' \in ServiceNames \cup {"none"}
        /\ client' = "results" => run_list' = <<>> /\ known' = wrapped'
        /\ list = <<>> => run_list' = <<>>
    BY <1>1, <1>2, <2>1 DEF Bus!TypeOK
  <2>3. \A j \in ServiceNames : Bus!Outcome(result[j])' = Bus!Outcome(result[j])
    BY <2>1 DEF Bus!Outcome
  <2>4. (Bus!Settled' => client' = "results") => Bus!ListsAreKept'
    <3>1. SUFFICES ASSUME Bus!Settled' => client' = "results" PROVE Bus!ListsAreKept'
      OBVIOUS
    <3>2. client' # "start" /\ client' \notin {"waiting", "asking"}
          /\ (~Bus!Settled' \/ (client' = "results" /\ run_list' = <<>>))
      BY <2>1, <2>2, <3>1
    <3>3. \/ list # <<>> /\ run_list' = Tail(list) /\ current_job_path' = Head(list)
              /\ client' # "results"
          \/ list = <<>> /\ run_list' = <<>> /\ client' \notin {"waiting", "asking"}
              /\ (client' = "results" => known' = wrapped')
      BY <2>1, <2>2
    <3>4. QED
      BY ONLY <1>5, <2>3, <3>2, <3>3
  <2>5. \/ UNCHANGED saving /\ client = "waiting" /\ saving = "no"
        \/ client = "start" /\ saving' \in {"access", "no"}
    OBVIOUS
  <2>6. phase' \in Bus!Phases
    BY DEF Bus!Phases
  <2>7. QED
    BY <2>1, <2>2, <2>4, <2>5, <2>6, ClientStops
<1>9. QED
  BY <1>7, <1>8

-----------------------------------------------------------------------------
LEMMA SameReadiness ==
  ASSUME Bus!IInv, ~updating, UNCHANGED <<session_run_list, ready>>
  PROVE  ready' = Bus!Recompute(session_run_list', result)
BY DEF Bus!IInv, Bus!ReadinessIsKept

LEMMA RecomputeType ==
  ASSUME NEW list \in Seq(ServiceNames)
  PROVE  Bus!Recompute(list, result) \subseteq ServiceNames
BY SeqFacts DEF Bus!Recompute, Bus!ToSet

\* The end of run_local_jobs(), by either of the two who get there.
LEMMA AllJobsKeep ==
  ASSUME Bus!IInv, Bus!NobodyRuns, request = <<>>, ~updating,
         UNCHANGED <<request, updating, commit_hint, made, raced, unheard, whitelist,
           runner_asked>>,
         Bus!AllJobs, inbox' = <<>>, run_list = <<>>,
         \/ UNCHANGED saving /\ client = "waiting" /\ saving = "no"
         \/ client = "start"
              /\ saving' = IF client' \in {"waiting", "results"} THEN "access" ELSE "no",
         \A j \in ServiceNames : Bus!GeneratesFirst(j) => Generates[j] \subseteq known
  PROVE  Bus!IInv'
<1>1. Bus!TypeOK /\ known \subseteq ServiceNames /\ whitelist \cap known \in SUBSET ServiceNames
      /\ ServiceNames \ Bus!Generated \subseteq known
  BY DEF Bus!IInv, Bus!TypeOK, Bus!ListsAreKept
<1>2. PICK list : list = Bus!RunListOf(whitelist \cap known)
  OBVIOUS
<1>3. list \in Seq(ServiceNames)
  BY <1>1, <1>2, RunListFacts
<1>4. /\ session_run_list' = list /\ ready' = Bus!Recompute(list, result)
      /\ wrapped' = known /\ known' = known /\ result' = result
      /\ phase' = "all" /\ Bus!RunJobs(list)
  BY <1>2 DEF Bus!AllJobs, Bus!UpdateDesiredJobList
<1>5. session_run_list' = Bus!RunListOf(whitelist \cap wrapped')
  BY <1>2, <1>4
<1>6. ready' \subseteq ServiceNames
  BY <1>3, <1>4, RecomputeType
<1>7. Bus!JobsHaveWrappers'
  BY <1>4 DEF Bus!JobsHaveWrappers
<1>8. /\ session_run_list' \in Seq(ServiceNames) /\ known' \subseteq ServiceNames
           /\ wrapped' \subseteq known'
      /\ ready' = Bus!Recompute(session_run_list', result) /\ result' = result
      /\ Bus!ToSet(list) \subseteq Bus!ToSet(session_run_list')
      /\ \A j \in Bus!ToSet(session_run_list') : j \in Bus!ToSet(list) \/ Bus!Outcome(result[j]) # "none"
      /\ \A j \in ServiceNames : Bus!GeneratesFirst(j) => Generates[j] \subseteq known'
      /\ ServiceNames \ Bus!Generated \subseteq known'
  BY <1>1, <1>3, <1>4
<1>9. UNCHANGED <<request, updating, result, commit_hint, made, raced, unheard, whitelist,
        runner_asked>>
  BY <1>8
<1>10. QED
  BY <1>3, <1>4, <1>5, <1>6, <1>7, <1>8, <1>9, RunJobsKeeps

LEMMA ReplyKept == Bus!IInv /\ Bus!HandleReply => Bus!IInv'
<1> SUFFICES ASSUME Bus!IInv, Bus!HandleReply PROVE Bus!IInv'
  OBVIOUS
<1>1. /\ Bus!TypeOK /\ Bus!MessageIs /\ Bus!AskedOf("reply") /\ inbox' = <<>>
           /\ request = <<>> /\ saving = "no"
      /\ Bus!NobodyRuns /\ ~updating /\ client = "waiting"
  BY TheMessage DEF Bus!HandleReply, Bus!MessageIs
<1>2. Head(inbox).phase = phase /\ Bus!Settled
  BY <1>1 DEF Bus!IInv, Bus!MessagesAreRight, Bus!Settled
<1>3. UNCHANGED <<whitelist, runner_asked, request, updating, unheard, saving, commit_hint,
        made, raced>>
  BY DEF Bus!HandleReply, Bus!storage_vars
<1>4. /\ run_list \in Seq(ServiceNames) /\ known \subseteq ServiceNames
           /\ wrapped \subseteq known
      /\ session_run_list \in Seq(ServiceNames) /\ ready \subseteq ServiceNames
           /\ phase \in Bus!Phases
      /\ Bus!ToSet(run_list) \subseteq Bus!ToSet(session_run_list)
      /\ Bus!ToSet(session_run_list) \subseteq ServiceNames
      /\ ServiceNames \ Bus!Generated \subseteq known
      /\ \A j \in ServiceNames : Bus!GeneratesFirst(j) =>
           Generates[j] \subseteq known \/ (phase = "local" /\ j \in Bus!ToSet(run_list))
      /\ phase = "all" =>
           /\ session_run_list = Bus!RunListOf(whitelist \cap wrapped)
           /\ \A j \in Bus!ToSet(session_run_list) :
                j \in Bus!ToSet(run_list) \/ Bus!Outcome(result[j]) # "none"
  BY <1>1, <1>2, SessionRunList DEF Bus!IInv, Bus!TypeOK, Bus!ListsAreKept
<1>5. run_list # <<>> => /\ Tail(run_list) \in Seq(ServiceNames)
                         /\ Bus!ToSet(run_list) = {Head(run_list)} \cup Bus!ToSet(Tail(run_list))
  BY <1>4, HeadAndTail
<1>6. CASE phase = "local" /\ run_list # <<>>
  <2>1. /\ Bus!RunNext(run_list) /\ client' = "waiting" /\ UNCHANGED <<phase, Bus!session_vars>>
    BY <1>2, <1>6 DEF Bus!HandleReply, Bus!RunLocalJobs
  <2>2. UNCHANGED <<known, wrapped, session_run_list, ready, result, phase>>
    BY <2>1 DEF Bus!session_vars
  <2>3. ready' = Bus!Recompute(session_run_list', result)
    BY <1>1, <2>2, SameReadiness
  <2>4. run_list' = Tail(run_list) /\ current_job_path' = Head(run_list)
    BY <2>1 DEF Bus!RunNext
  <2>5. ~Bus!Settled' => Bus!ListsAreKept'
    <3>1. ASSUME ~Bus!Settled', NEW j \in ServiceNames, Bus!GeneratesFirst(j)'
          PROVE  \/ Generates[j] \subseteq known'
                 \/ phase' = "local"
                      /\ (j \in Bus!ToSet(run_list') \/ (j = current_job_path' /\ ~Bus!Settled'))
      <4>1. Bus!GeneratesFirst(j)
        BY <1>3, <3>1 DEF Bus!GeneratesFirst, Bus!LateGenerators
      <4>2. QED
        BY <1>4, <1>5, <1>6, <2>2, <2>4, <3>1, <4>1
    <3>2. Bus!ToSet(run_list') \subseteq Bus!ToSet(session_run_list')
            /\ current_job_path' \in Bus!ToSet(session_run_list')
      BY <1>4, <1>5, <1>6, <2>2, <2>4
    <3>3. phase' # "all" /\ ServiceNames \ Bus!Generated \subseteq known'
      BY <1>4, <1>6, <2>2
    <3>4. client' = "waiting"
      BY <2>1
    <3>5. QED
      BY <3>1, <3>2, <3>3, <3>4 DEF Bus!ListsAreKept
  <2>6. Bus!JobsHaveWrappers'
    BY <1>6, <2>2 DEF Bus!JobsHaveWrappers
  <2>7. /\ UNCHANGED <<request, updating, result, commit_hint, made, raced, unheard,
             whitelist, runner_asked>>
        /\ UNCHANGED saving
        /\ phase' \in Bus!Phases /\ session_run_list' \in Seq(ServiceNames)
             /\ known' \subseteq ServiceNames
        /\ wrapped' \subseteq known' /\ ready' \subseteq ServiceNames
    BY <1>3, <1>4, <2>2
  <2>8. QED
    BY <1>1, <1>4, <1>6, <2>1, <2>3, <2>5, <2>6, <2>7, JobStarts
<1>7. CASE phase = "local" /\ run_list = <<>>
  <2>1. Bus!AllJobs
    BY <1>2, <1>7 DEF Bus!HandleReply, Bus!RunLocalJobs
  <2>2. \A j \in ServiceNames : Bus!GeneratesFirst(j) => Generates[j] \subseteq known
    BY <1>4, <1>7, EmptyHas
  <2>3. QED
    BY <1>1, <1>3, <1>7, <2>1, <2>2, AllJobsKeep
<1>8. CASE phase = "all"
  <2>1. UNCHANGED <<phase, Bus!session_vars>> /\ Bus!RunJobs(run_list)
    BY <1>2, <1>8 DEF Bus!HandleReply
  <2>2. UNCHANGED <<known, wrapped, session_run_list, ready, result, phase>>
    BY <2>1 DEF Bus!session_vars
  <2>3. ready' = Bus!Recompute(session_run_list', result)
    BY <1>1, <2>2, SameReadiness
  <2>4. Bus!JobsHaveWrappers'
    BY <1>3, <2>2 DEF Bus!IInv, Bus!JobsHaveWrappers, Bus!LateGenerators
  <2>5. /\ UNCHANGED <<request, updating, result, commit_hint, made, raced, unheard,
             whitelist, runner_asked>>
        /\ UNCHANGED saving /\ phase' = "all"
        /\ session_run_list' \in Seq(ServiceNames) /\ known' \subseteq ServiceNames
        /\ wrapped' \subseteq known' /\ ready' \subseteq ServiceNames
    BY <1>3, <1>4, <1>8, <2>2
  <2>6. /\ session_run_list' = Bus!RunListOf(whitelist \cap wrapped')
        /\ Bus!ToSet(run_list) \subseteq Bus!ToSet(session_run_list')
        /\ \A j \in Bus!ToSet(session_run_list') : j \in Bus!ToSet(run_list) \/ Bus!Outcome(result[j]) # "none"
        /\ \A j \in ServiceNames : Bus!GeneratesFirst(j) => Generates[j] \subseteq known'
        /\ ServiceNames \ Bus!Generated \subseteq known'
    BY <1>4, <1>8, <2>2
  <2>7. QED
    BY <1>1, <1>4, <2>1, <2>3, <2>4, <2>5, <2>6, RunJobsKeeps
<1>9. QED
  BY <1>4, <1>6, <1>7, <1>8 DEF Bus!Phases

LEMMA MainKept == Bus!IInv /\ Bus!Main => Bus!IInv'
<1> SUFFICES ASSUME Bus!IInv, Bus!Main PROVE Bus!IInv'
  OBVIOUS
<1>1. PICK desired : desired = {j \in whitelist \cap known : Plugin[j] = "local"}
  OBVIOUS
<1>2. client = "start" /\ Bus!TypeOK
  BY DEF Bus!Main, Bus!IInv
<1>3. /\ Bus!NobodyRuns /\ inbox = <<>> /\ request = <<>> /\ ~updating
  BY <1>2 DEF Bus!IInv, Bus!OneIsUnderWay, Bus!NothingIs, Bus!JobIs, Bus!CommandIs,
       Bus!QuestionIs, Bus!MessageIs, Bus!CallIs
<1>4. /\ known = ServiceNames \ Bus!Generated /\ run_list = <<>> /\ phase = "local"
           /\ whitelist \cap known \subseteq ServiceNames
      /\ whitelist \subseteq ServiceNames
  <2>1. whitelist \in SUBSET ServiceNames
    BY <1>2, ServiceConstants DEF Bus!TypeOK, Bus!ServiceAssumption
  <2>2. QED
    BY <1>2, <2>1 DEF Bus!IInv, Bus!ListsAreKept
<1>5. PICK list : list = Bus!RunListOf(desired)
  OBVIOUS
<1>6. desired \in SUBSET ServiceNames /\ list \in Seq(ServiceNames)
        /\ desired \subseteq Bus!ToSet(list)
  BY <1>1, <1>4, <1>5, RunListFacts
<1>7. \A j \in ServiceNames : Bus!GeneratesFirst(j) => j \in desired
  BY <1>1, <1>4 DEF Bus!GeneratesFirst, Bus!LateGenerators
<1>8. /\ UNCHANGED <<whitelist, runner_asked, inbox, request, updating, unheard, commit_hint,
           made, raced>>
      /\ saving' = IF client' \in {"waiting", "results"} THEN "access" ELSE "no"
      /\ \/ /\ list # <<>>
            /\ Bus!UpdateDesiredJobList(desired)
            /\ Bus!RunNext(list)
            /\ client' = "waiting"
            /\ UNCHANGED phase
         \/ /\ list = <<>>
            /\ Bus!AllJobs
  BY <1>1, <1>5 DEF Bus!Main
<1>9. CASE list # <<>> /\ Bus!UpdateDesiredJobList(desired) /\ Bus!RunNext(list)
             /\ client' = "waiting"
           /\ UNCHANGED phase
  <2>1. /\ session_run_list' = list /\ ready' = Bus!Recompute(list, result)
        /\ wrapped' = known /\ known' = known /\ result' = result /\ phase' = "local"
    BY <1>4, <1>5, <1>9 DEF Bus!UpdateDesiredJobList
  <2>2. run_list' = Tail(list) /\ current_job_path' = Head(list)
        /\ Bus!ToSet(list) = {Head(list)} \cup Bus!ToSet(Tail(list))
    BY <1>6, <1>9, HeadAndTail DEF Bus!RunNext
  <2>3. ~Bus!Settled' => Bus!ListsAreKept'
    <3>1. ASSUME ~Bus!Settled', NEW j \in ServiceNames, Bus!GeneratesFirst(j)'
          PROVE  phase' = "local"
                   /\ (j \in Bus!ToSet(run_list') \/ (j = current_job_path' /\ ~Bus!Settled'))
      <4>1. Bus!GeneratesFirst(j)
        BY <1>8, <3>1 DEF Bus!GeneratesFirst, Bus!LateGenerators
      <4>2. QED
        BY <1>6, <1>7, <2>1, <2>2, <3>1, <4>1
    <3>2. Bus!ToSet(run_list') \subseteq Bus!ToSet(session_run_list')
            /\ current_job_path' \in Bus!ToSet(session_run_list')
      BY <2>1, <2>2
    <3>3. phase' # "all" /\ ServiceNames \ Bus!Generated \subseteq known' /\ client' = "waiting"
      BY <1>4, <1>9, <2>1
    <3>4. QED
      BY <3>1, <3>2, <3>3 DEF Bus!ListsAreKept
  <2>4. Bus!JobsHaveWrappers'
    BY <2>1 DEF Bus!JobsHaveWrappers
  <2>5. ready' \subseteq ServiceNames
    BY <1>6, <2>1, RecomputeType
  <2>6. /\ UNCHANGED <<request, updating, result, commit_hint, made, raced, unheard,
             whitelist, runner_asked>>
        /\ client = "start" /\ saving' = "access" /\ inbox' = <<>>
        /\ phase' \in Bus!Phases /\ session_run_list' \in Seq(ServiceNames)
             /\ known' \subseteq ServiceNames
        /\ wrapped' \subseteq known' /\ ready' = Bus!Recompute(session_run_list', result)
    BY <1>2, <1>3, <1>4, <1>6, <1>8, <1>9, <2>1 DEF Bus!Phases
  <2>7. QED
    BY <1>3, <1>6, <1>9, <2>3, <2>4, <2>5, <2>6, JobStarts
<1>10. CASE list = <<>> /\ Bus!AllJobs
  <2>1. \A j \in ServiceNames : Bus!GeneratesFirst(j) => Generates[j] \subseteq known
    BY <1>6, <1>7, <1>10, EmptyHas
  <2>2. inbox' = <<>>
    BY <1>3, <1>8
  <2>3. QED
    BY <1>2, <1>3, <1>4, <1>8, <1>10, <2>1, <2>2, AllJobsKeep
<1>11. QED
  BY <1>8, <1>9, <1>10

LEMMA InitService == Bus!Init => Bus!IInv
<1> SUFFICES ASSUME Bus!Init PROVE Bus!IInv
  OBVIOUS
<1>1. /\ client = "start" /\ phase = "local"
      /\ run_list = <<>> /\ current_job_path = "none" /\ runner_asked = 0
      /\ whitelist \in Whitelists
      /\ inbox = <<>> /\ request = <<>> /\ ~updating /\ updating \in BOOLEAN
      /\ known = ServiceNames \ Bus!Generated /\ wrapped = known
      /\ session_run_list = <<>> /\ ready = {}
      /\ result = [j \in ServiceNames |-> Bus!Own("none")]
      /\ runners = <<>> /\ saving = "no"
  BY DEF Bus!Init
<1>2. commit_hint \in BOOLEAN /\ made = (IF commit_hint THEN 0 ELSE 1)
  BY DEF Bus!Init
<1>3. unheard \in BOOLEAN /\ raced \in BOOLEAN
  BY DEF Bus!Init
<1>4. Len(runners) = 0 /\ DOMAIN runners = {} /\ Bus!Newest = 0
  BY <1>1 DEF Bus!Newest
<1>5. made \in 0..2 /\ (commit_hint => made = 0)
  BY <1>2
<1>6. result \in [ServiceNames -> Bus!Results]
  <2>1. Bus!Own("none") \in Bus!Results
    BY <1>4 DEF Bus!Own, Bus!Results, Bus!Outcomes
  <2>2. QED
    BY <1>1, <2>1
<1>7. Bus!TypeOK
  <2>1. inbox \in Seq(Bus!Messages) /\ request \in Seq(Bus!Calls)
    BY <1>1
  <2>2. run_list \in Seq(ServiceNames) /\ session_run_list \in Seq(ServiceNames)
          /\ runners \in Seq(Bus!RunningJobs)
    BY <1>1
  <2>3. known \subseteq ServiceNames /\ wrapped \subseteq known /\ ready \subseteq ServiceNames
    BY <1>1
  <2>4. runner_asked \in 0..Len(runners) /\ current_job_path \in ServiceNames \cup {"none"}
        /\ phase \in Bus!Phases /\ saving \in Bus!Accessing \cup {"no"}
    BY <1>1, <1>4 DEF Bus!Phases
  <2>5. QED
    BY <1>1, <1>2, <1>3, <1>5, <1>6, <2>1, <2>2, <2>3, <2>4 DEF Bus!TypeOK
<1>8. Bus!OneIsUnderWay /\ Bus!MessagesAreRight /\ ~Bus!MessageIs /\ ~Bus!CallIs
        /\ ~Bus!JobIs /\ ~Bus!CommandIs /\ ~Bus!QuestionIs
  BY <1>1, <1>4 DEF Bus!OneIsUnderWay, Bus!NothingIs, Bus!NobodyRuns, Bus!MessagesAreRight,
       Bus!MessageIs, Bus!CallIs, Bus!JobIs, Bus!CommandIs, Bus!QuestionIs, Bus!AskedOf
<1>9. ~Bus!IsRunning
  BY <1>8 DEF Bus!IsRunning, Bus!AskedOf
<1>10. Bus!MakingGoesOn /\ Bus!NobodyRaced
  BY <1>1, <1>4, <1>5 DEF Bus!MakingGoesOn, Bus!NobodyRaced, Bus!Committing
<1>11. Bus!ResultsAreFinal
  <2>1. \A j \in ServiceNames : result[j].runner = 0
    BY <1>1 DEF Bus!Own
  <2>2. QED
    BY <1>4, <1>8, <1>9, <2>1 DEF Bus!ResultsAreFinal
<1>12. Bus!ReadinessIsKept
  BY <1>1, <1>9, EmptyHas DEF Bus!ReadinessIsKept, Bus!Recompute
<1>13. Bus!ListsAreKept /\ Bus!JobsHaveWrappers
  BY <1>1 DEF Bus!ListsAreKept, Bus!JobsHaveWrappers
<1> QED
  BY <1>1, <1>7, <1>8, <1>10, <1>11, <1>12, <1>13 DEF Bus!IInv

LEMMA StutterService == Bus!IInv /\ UNCHANGED Bus!vars => Bus!IInv'
<1> SUFFICES ASSUME Bus!IInv, UNCHANGED Bus!vars PROVE Bus!IInv'
  OBVIOUS
<1> USE DEF Bus!vars, Bus!client_vars, Bus!session_vars, Bus!storage_vars
<1>1. Bus!Newest' = Bus!Newest /\ Bus!Results' = Bus!Results /\ Bus!Calls' = Bus!Calls
        /\ Bus!Messages' = Bus!Messages
      /\ Bus!RunningJobs' = Bus!RunningJobs
  BY DEF Bus!Newest, Bus!Results, Bus!Calls, Bus!Messages, Bus!RunningJobs
<1>2. Bus!TypeOK'
  BY <1>1 DEF Bus!IInv, Bus!TypeOK
<1>3. /\ Bus!JobIs' = Bus!JobIs /\ Bus!NothingIs' = Bus!NothingIs
           /\ Bus!MessageIs' = Bus!MessageIs
      /\ Bus!CallIs' = Bus!CallIs /\ Bus!QuestionIs' = Bus!QuestionIs
           /\ Bus!CommandIs' = Bus!CommandIs
  BY <1>1 DEF Bus!JobIs, Bus!NothingIs, Bus!MessageIs, Bus!CallIs, Bus!QuestionIs,
       Bus!CommandIs, Bus!NobodyRuns, Bus!Quiet
<1>4. Bus!IsRunning' = Bus!IsRunning /\ Bus!Settled' = Bus!Settled
  BY <1>1, <1>3 DEF Bus!IsRunning, Bus!Settled, Bus!AskedOf
<1>5. Bus!OneIsUnderWay' /\ Bus!MessagesAreRight'
  BY <1>1, <1>3 DEF Bus!IInv, Bus!OneIsUnderWay, Bus!MessagesAreRight, Bus!AskedOf,
       Bus!ReportIsRight, Bus!Outcome
<1>6. Bus!MakingGoesOn' /\ Bus!NobodyRaced'
  BY <1>1 DEF Bus!IInv, Bus!MakingGoesOn, Bus!NobodyRaced
<1>7. Bus!ResultsAreFinal'
  BY <1>1, <1>3, <1>4 DEF Bus!IInv, Bus!ResultsAreFinal, Bus!DecidedBefore, Bus!Outcome
<1>8. Bus!ReadinessIsKept'
  BY <1>4 DEF Bus!IInv, Bus!ReadinessIsKept, Bus!Outcome, Bus!Recompute
<1>9. Bus!ListsAreKept'
  BY <1>1, <1>4 DEF Bus!IInv, Bus!ListsAreKept, Bus!GeneratesFirst, Bus!LateGenerators,
       Bus!RunListOf, Bus!NeededBy, Bus!Outcome
<1>10. Bus!JobsHaveWrappers'
  BY DEF Bus!IInv, Bus!JobsHaveWrappers, Bus!LateGenerators
<1> QED
  BY <1>2, <1>3, <1>5, <1>6, <1>7, <1>8, <1>9, <1>10 DEF Bus!IInv

LEMMA NextService == Bus!IInv /\ [Bus!Next]_(Bus!vars) => Bus!IInv'
<1> SUFFICES ASSUME Bus!IInv, [Bus!Next]_(Bus!vars) PROVE Bus!IInv'
  OBVIOUS
<1>1. CASE \E r \in DOMAIN runners :
             Bus!AccessSessionDir(r) \/ Bus!CheckJob(r) \/ Bus!RunJobThread(r) \/ Bus!CommandEnds(r)
  BY <1>1, AccessKept, CheckJobKept, RunJobKept, CommandEndsKept
<1>2. CASE Bus!BeginUpdateJobResult \/ Bus!FinishUpdateJobResult \/ Bus!PersistentSave
  BY <1>2, BeginKept, FinishKept, SaveKept
<1>3. CASE Bus!ClientStep
  BY <1>3, MainKept, ResultKept, ReplyKept, AskKept, UserDecidesKept DEF Bus!ClientStep
<1>4. CASE Bus!UserRunsCommand
  BY <1>4, UserRunsKept
<1>5. CASE UNCHANGED Bus!vars
  BY <1>5, StutterService
<1>6. QED
  BY <1>1, <1>2, <1>3, <1>4, <1>5 DEF Bus!Next, Bus!ServiceStep

-----------------------------------------------------------------------------
(* What the inductive invariant gives.                                     *)

LEMMA NoneOf == Bus!Cardinality({}) = 0
BY FS_EmptySet, BusOperators

LEMMA AtMostOne ==
  ASSUME NEW x, NEW S, S \subseteq {x}
  PROVE  Bus!IsFiniteSet(S) /\ Bus!Cardinality(S) \in {0, 1}
           /\ (x \in S => Bus!Cardinality(S) = 1)
<1>1. Bus!IsFiniteSet({x}) /\ Bus!Cardinality({x}) = 1
  BY FS_Singleton, BusOperators
<1>2. Bus!IsFiniteSet(S) /\ Bus!Cardinality(S) <= 1 /\ Bus!Cardinality(S) \in Nat
  BY <1>1, FS_Subset, FS_CardinalityType, BusOperators
<1>3. x \in S => S = {x}
  OBVIOUS
<1>4. QED
  BY <1>1, <1>2, <1>3

LEMMA HowManyAreUnderWay ==
  ASSUME Bus!IInv
  PROVE  /\ Bus!NothingIs => Bus!UnderWay = 0
         /\ ~Bus!NothingIs => Bus!UnderWay = 1
<1> DEFINE threads == {r \in DOMAIN runners : runners[r].thread # "done"}
           commands == {x \in (DOMAIN runners) \X (1..MaxCommands) :
                          x[2] <= runners[x[1]].commands}
<1>1. Bus!TypeOK /\ MaxCommands \in Nat
  BY ServiceConstants DEF Bus!IInv, Bus!ServiceAssumption
<1>2. Bus!Newest \in Nat /\ DOMAIN runners = 1..Bus!Newest
  BY <1>1, RunnerFacts
<1>3. \A r \in DOMAIN runners : runners[r].commands = 0 => \A n \in 1..MaxCommands : <<r,
        n>> \notin commands
  BY <1>1
<1>4. \A x \in commands : x[1] \in DOMAIN runners /\ x[2] \in 1..MaxCommands
        /\ x = <<x[1], x[2]>>
                          /\ x[2] <= runners[x[1]].commands
  OBVIOUS
<1>5. Bus!UnderWay = Len(inbox) + Len(request) + (IF client = "asking" THEN 1 ELSE 0)
                   + Bus!Cardinality(threads) + Bus!Cardinality(commands)
  BY DEF Bus!UnderWay
<1>6. Bus!NobodyRuns => threads = {} /\ commands = {}
  BY <1>3, <1>4 DEF Bus!NobodyRuns, Bus!Quiet
<1>7. Len(<<>>) = 0
  OBVIOUS
<1> HIDE DEF threads, commands
<1>8. CASE Bus!NothingIs
  BY <1>5, <1>6, <1>7, <1>8, NoneOf DEF Bus!NothingIs
<1>9. CASE Bus!JobIs
  <2>1. ~Bus!NothingIs
    BY <1>2, <1>9 DEF Bus!JobIs, Bus!NothingIs, Bus!NobodyRuns, Bus!Quiet
  <2>2. Bus!Newest \in threads /\ threads \subseteq {Bus!Newest}
    BY <1>2, <1>9 DEF Bus!JobIs, threads, Bus!Quiet
  <2>3. \A r \in DOMAIN runners : runners[r].commands = 0
    BY <1>2, <1>9 DEF Bus!JobIs, Bus!Quiet
  <2>4. commands = {}
    BY <1>3, <1>4, <2>3
  <2>5. Bus!Cardinality(threads) = 1
    BY <2>2, AtMostOne
  <2>6. QED
    BY <1>5, <1>7, <1>9, <2>1, <2>4, <2>5, NoneOf DEF Bus!JobIs
<1>10. CASE Bus!CommandIs
  <2>1. ~Bus!NothingIs
    BY <1>2, <1>10 DEF Bus!CommandIs, Bus!NothingIs, Bus!NobodyRuns, Bus!Quiet
  <2>2. threads = {}
    BY <1>2, <1>10 DEF Bus!CommandIs, threads, Bus!Quiet
  <2>3. Bus!Newest \in DOMAIN runners /\ 1 \in 1..MaxCommands /\ runners[Bus!Newest].commands = 1
    BY <1>1, <1>2, <1>10 DEF Bus!CommandIs
  <2>4. <<Bus!Newest, 1>> \in commands
    BY <2>3 DEF commands
  <2>5. \A x \in commands : x = <<Bus!Newest, 1>>
    <3>1. SUFFICES ASSUME NEW x \in commands PROVE x[1] = Bus!Newest /\ x[2] = 1
      BY <1>4
    <3>2. x[1] \in 1..Bus!Newest /\ (x[1] < Bus!Newest => runners[x[1]].commands = 0)
      BY <1>2, <1>4, <1>10 DEF Bus!CommandIs, Bus!Quiet
    <3>3. x[1] = Bus!Newest
      BY <1>2, <1>4, <3>2
    <3>4. QED
      BY <1>4, <2>3, <3>3
  <2>6. Bus!Cardinality(commands) = 1
    BY <2>4, <2>5, AtMostOne
  <2>7. QED
    BY <1>5, <1>7, <1>10, <2>1, <2>2, <2>6, NoneOf DEF Bus!CommandIs
<1>11. ASSUME Bus!QuestionIs \/ Bus!MessageIs \/ Bus!CallIs
       PROVE  ~Bus!NothingIs /\ Bus!UnderWay = 1
  <2>1. threads = {} /\ commands = {}
    BY <1>6, <1>11 DEF Bus!QuestionIs, Bus!MessageIs, Bus!CallIs
  <2>2. Bus!Cardinality(threads) = 0 /\ Bus!Cardinality(commands) = 0
    BY <2>1, NoneOf
  <2>3. CASE Bus!QuestionIs
    <3>1. client = "asking" /\ Len(inbox) = 0 /\ Len(request) = 0
      BY <1>7, <2>3 DEF Bus!QuestionIs
    <3>2. QED
      BY <1>5, <2>2, <3>1 DEF Bus!NothingIs
  <2>4. CASE Bus!MessageIs
    <3>1. client # "asking" /\ Len(inbox) = 1 /\ Len(request) = 0
      BY <1>7, <2>4 DEF Bus!MessageIs
    <3>2. inbox # <<>>
      BY <1>7, <3>1
    <3>3. QED
      BY <1>5, <2>2, <3>1, <3>2 DEF Bus!NothingIs
  <2>5. CASE Bus!CallIs
    <3>1. client # "asking" /\ Len(inbox) = 0 /\ Len(request) = 1
      BY <1>7, <2>5 DEF Bus!CallIs
    <3>2. request # <<>>
      BY <1>7, <3>1
    <3>3. QED
      BY <1>5, <2>2, <3>1, <3>2 DEF Bus!NothingIs
  <2>6. QED
    BY <1>11, <2>3, <2>4, <2>5
<1>14. QED
  BY <1>8, <1>9, <1>10, <1>11 DEF Bus!IInv, Bus!OneIsUnderWay

LEMMA ServiceIsKept ==
  ASSUME Bus!IInv
  PROVE  /\ Bus!OneThingAtATime /\ Bus!RunsOnlyReady /\ Bus!MessagesAreOfCurrentJob
         /\ Bus!AllHaveResults /\ Bus!JobsHaveWrappers /\ Bus!StuckForAReason
<1>1. Bus!TypeOK
  BY DEF Bus!IInv
<1>2. Bus!OneThingAtATime
  <2>1. client = "results" => Bus!NothingIs
    BY DEF Bus!IInv, Bus!OneIsUnderWay, Bus!JobIs, Bus!CommandIs, Bus!QuestionIs,
         Bus!MessageIs, Bus!CallIs
  <2>2. QED
    BY <2>1, HowManyAreUnderWay DEF Bus!OneThingAtATime
<1>3. Bus!RunsOnlyReady
  <2>1. SUFFICES ASSUME NEW r \in DOMAIN runners, Bus!Running(r)
                 PROVE  \A d \in Deps[runners[r].job] : Bus!Outcome(result[d]) = "pass"
    BY DEF Bus!RunsOnlyReady
  <2>2. CASE runners[r].thread = "run"
    <3>1. Bus!JobIs /\ r = Bus!Newest /\ runners[r].job = current_job_path
      BY <2>2, TheJob
    <3>2. QED
      BY <2>2, <3>1 DEF Bus!IInv, Bus!ReadinessIsKept, Bus!IsRunning
  <2>3. CASE runners[r].commands > 0
    <3>1. Bus!CommandIs /\ runners[r].job = current_job_path
      BY <2>3, TheCommand
    <3>2. QED
      BY <3>1 DEF Bus!IInv, Bus!ReadinessIsKept, Bus!IsRunning
  <2>4. QED
    BY <2>1, <2>2, <2>3 DEF Bus!Running
<1>4. Bus!MessagesAreOfCurrentJob
  <2>1. CASE inbox = <<>>
    BY <2>1 DEF Bus!MessagesAreOfCurrentJob
  <2>2. CASE inbox # <<>>
    <3>1. Bus!MessageIs
      BY <2>2 DEF Bus!IInv, Bus!OneIsUnderWay, Bus!NothingIs, Bus!JobIs, Bus!CommandIs,
           Bus!QuestionIs, Bus!CallIs
    <3>2. inbox \in Seq(Bus!Messages) /\ Len(inbox) = 1
      BY <1>1, <3>1 DEF Bus!TypeOK, Bus!MessageIs
    <3>3. DOMAIN inbox = {1} /\ Head(inbox) = inbox[1]
      BY <3>2, OneFacts
    <3>4. QED
      BY <3>1, <3>3 DEF Bus!IInv, Bus!MessagesAreRight, Bus!AskedOf, Bus!ReportIsRight,
           Bus!MessageIs, Bus!MessagesAreOfCurrentJob
  <2>3. QED
    BY <2>1, <2>2
<1>5. Bus!AllHaveResults
  <2>1. SUFFICES ASSUME client = "results"
                 PROVE  /\ Bus!NeededBy(whitelist \cap known) \subseteq Bus!ToSet(session_run_list)
                        /\ \A j \in Bus!ToSet(session_run_list) : Bus!Outcome(result[j]) # "none"
    BY DEF Bus!AllHaveResults
  <2>2. Bus!Settled /\ phase = "all" /\ known = wrapped /\ run_list = <<>>
        /\ session_run_list = Bus!RunListOf(whitelist \cap wrapped)
        /\ \A j \in Bus!ToSet(session_run_list) :
             \/ j \in Bus!ToSet(run_list)
             \/ Bus!Outcome(result[j]) # "none"
             \/ j = current_job_path /\ ~Bus!Settled
    BY <2>1 DEF Bus!IInv, Bus!ListsAreKept, Bus!Settled
  <2>3. whitelist \cap known \in SUBSET ServiceNames
    BY <1>1 DEF Bus!TypeOK
  <2>4. QED
    BY <2>2, <2>3, EmptyHas, RunListFacts
<1>6. Bus!StuckForAReason
  BY HowManyAreUnderWay DEF Bus!StuckForAReason, Bus!IInv
<1>7. QED
  BY <1>2, <1>3, <1>4, <1>5, <1>6 DEF Bus!IInv

\* The outcome that a reported result refers to stays, whatever the step.
LEMMA DecidedOnce ==
  ASSUME Bus!IInv, [Bus!Next]_(Bus!vars)
  PROVE  \A r \in 1..Bus!Newest :
           \/ runners'[r].outcome = runners[r].outcome
           \/ \A j \in ServiceNames : result[j].runner # r
<1>1. Bus!TypeOK
  BY DEF Bus!IInv
<1>2. Bus!Newest \in Nat /\ DOMAIN runners = 1..Bus!Newest /\ runners \in Seq(Bus!RunningJobs)
      /\ \A r \in 1..Bus!Newest : runners[r] \in Bus!RunningJobs
  BY <1>1, RunnerFacts, SeqFacts DEF Bus!TypeOK, Bus!Newest
<1> USE DEF Bus!vars, Bus!client_vars, Bus!session_vars, Bus!storage_vars
<1>3. CASE UNCHANGED runners
  BY <1>3
<1>41. ASSUME NEW r \in 1..Bus!Newest, NEW t \in Bus!Accessing \cup {"check", "run", "done"},
              UNCHANGED made, runners' = [runners EXCEPT ![r].thread = t]
       PROVE  \A q \in 1..Bus!Newest : runners'[q].outcome = runners[q].outcome
  BY <1>1, <1>41, ThreadGoes
<1>42. ASSUME NEW r \in 1..Bus!Newest, Bus!AccessSessionDir(r)
       PROVE  \A q \in 1..Bus!Newest : runners'[q].outcome = runners[q].outcome
  <2>1. made \in Nat
    BY <1>1 DEF Bus!TypeOK
  <2>2. \/ \E t \in {"commit", "create", "done"} :
             UNCHANGED made /\ runners' = [runners EXCEPT ![r].thread = t]
        \/ UNCHANGED made /\ runners' = [runners EXCEPT ![r].thread = "check", ![r].dir = made]
        \/ made' = made + 1
             /\ runners' = [runners EXCEPT ![r].thread = "check", ![r].dir = made + 1]
    BY <1>42 DEF Bus!AccessSessionDir, Bus!AccessStep
  <2>3. ASSUME NEW t \in {"commit", "create", "done"}, UNCHANGED made,
               runners' = [runners EXCEPT ![r].thread = t]
        PROVE  \A q \in 1..Bus!Newest : runners'[q].outcome = runners[q].outcome
    <3>1. t \in Bus!Accessing \cup {"check", "run", "done"}
      BY DEF Bus!Accessing
    <3>2. QED
      BY <1>41, <2>3, <3>1
  <2>4. ASSUME NEW d \in 0..made', made' \in Nat, made <= made',
               runners' = [runners EXCEPT ![r].thread = "check", ![r].dir = d]
        PROVE  \A q \in 1..Bus!Newest : runners'[q].outcome = runners[q].outcome
    BY <1>1, <2>4, ThreadGoesIn
  <2>5. UNCHANGED made => made \in 0..made' /\ made' \in Nat /\ made <= made'
    BY <2>1
  <2>6. made' = made + 1 => made + 1 \in 0..made' /\ made' \in Nat /\ made <= made'
    BY <2>1
  <2>7. QED
    BY <2>2, <2>3, <2>4, <2>5, <2>6
<1>43. ASSUME NEW r \in 1..Bus!Newest, Bus!CheckJob(r) \/ Bus!RunJobThread(r)
       PROVE  \A q \in 1..Bus!Newest : runners'[q].outcome = runners[q].outcome
  <2>1. UNCHANGED made /\ (runners' = [runners EXCEPT ![r].thread = "run"]
                             \/ runners' = [runners EXCEPT ![r].thread = "done"])
    BY <1>43 DEF Bus!CheckJob, Bus!RunJobThread, Bus!ThreadEnds
  <2>2. QED
    BY <1>41, <2>1
<1>44. ASSUME NEW r \in 1..Bus!Newest, Bus!CommandEnds(r)
       PROVE  \A q \in 1..Bus!Newest : runners'[q].outcome = runners[q].outcome
  <2>1. runners[r].commands = 1
    BY <1>2, <1>44, TheCommand DEF Bus!CommandEnds
  <2>2. PICK old : old = runners[r]
    OBVIOUS
  <2>3. PICK changed : changed = [old EXCEPT !.commands = 0]
    OBVIOUS
  <2>4. old \in Bus!RunningJobs
    BY <1>2, <2>2
  <2>5. changed.outcome = old.outcome
    BY ONLY <2>3, <2>4 DEF Bus!RunningJobs
  <2>6. runners' = [runners EXCEPT ![r] = changed]
    BY <1>2, <1>44, <2>1, <2>2, <2>3 DEF Bus!CommandEnds
  <2>7. QED
    BY <1>2, <2>2, <2>5, <2>6
<1>5. ASSUME NEW r \in 1..Bus!Newest,
        Bus!AccessSessionDir(r) \/ Bus!CheckJob(r) \/ Bus!RunJobThread(r) \/ Bus!CommandEnds(r)
      PROVE  \A q \in 1..Bus!Newest : runners'[q].outcome = runners[q].outcome
  BY <1>5, <1>42, <1>43, <1>44
<1>6. CASE \E j : runners' = Append(runners, j)
  <2>1. PICK new : runners' = Append(runners, new)
    BY <1>6
  <2>2. PICK S : S = Bus!RunningJobs \cup {new}
    OBVIOUS
  <2>3. Bus!RunningJobs \subseteq S /\ new \in S
    BY <2>2
  <2>4. runners \in Seq(S)
    BY ONLY <1>2, <2>3, Monotone
  <2>5. \A q \in 1..Len(runners) : runners'[q] = runners[q]
    BY ONLY <2>1, <2>3, <2>4, AppendFacts
  <2>6. QED
    BY <2>5 DEF Bus!Newest
<1>7. CASE Bus!UserRunsCommand
  <2>1. runner_asked = Bus!Newest /\ Bus!Newest \in 1..Bus!Newest
    BY <1>7, TheQuestion DEF Bus!UserRunsCommand
  <2>2. PICK c, n : c = runners[Bus!Newest].commands + 1 /\ n = runners[Bus!Newest].ran + 1
    OBVIOUS
  <2>3. c \in Nat /\ n \in Nat
    BY <1>1, <2>1, <2>2, RunnerFacts
  <2>4. PICK old : old = runners[Bus!Newest]
    OBVIOUS
  <2>5. PICK changed : changed = [old EXCEPT !.commands = c, !.ran = n]
    OBVIOUS
  <2>6. old \in Bus!RunningJobs
    BY <1>2, <2>1, <2>4
  <2>7. changed.outcome = old.outcome
    BY ONLY <2>3, <2>5, <2>6 DEF Bus!RunningJobs
  <2>8. runners' = [runners EXCEPT ![Bus!Newest] = changed]
    BY <1>2, <1>7, <2>1, <2>2, <2>4, <2>5 DEF Bus!UserRunsCommand
  <2>9. QED
    BY <1>2, <2>1, <2>4, <2>7, <2>8
<1>8. CASE Bus!UserDecides
  <2>1. runner_asked = Bus!Newest /\ Bus!Newest \in 1..Bus!Newest /\ Bus!QuestionIs
    BY <1>8, TheQuestion DEF Bus!UserDecides
  <2>2. \A j \in ServiceNames : result[j].runner # Bus!Newest
    BY <1>2, <2>1, RunnerFacts, <1>1 DEF Bus!IInv, Bus!ResultsAreFinal, Bus!IsRunning,
         Bus!DecidedBefore
  <2>3. PICK new : runners' = [runners EXCEPT ![Bus!Newest] = new]
    BY <1>2, <1>8, <2>1 DEF Bus!UserDecides
  <2>4. \A q \in 1..Bus!Newest : q # Bus!Newest => runners'[q] = runners[q]
    BY <1>2, <2>1, <2>3
  <2>5. QED
    BY <2>2, <2>4
<1>9. CASE Bus!Main \/ Bus!HandleReply
  <2>1. UNCHANGED runners \/ \E j : runners' = Append(runners, j)
    BY <1>9 DEF Bus!Main, Bus!HandleReply, Bus!RunLocalJobs, Bus!AllJobs, Bus!RunJobs,
         Bus!RunNext
  <2>2. QED
    BY <1>3, <1>6, <2>1
<1>10. CASE \/ Bus!HandleResult \/ Bus!HandleAsk \/ Bus!BeginUpdateJobResult
            \/ Bus!FinishUpdateJobResult \/ Bus!PersistentSave \/ UNCHANGED Bus!vars
  <2>1. UNCHANGED runners
    BY <1>10 DEF Bus!HandleResult, Bus!HandleAsk, Bus!BeginUpdateJobResult,
         Bus!FinishUpdateJobResult, Bus!PersistentSave
  <2>2. QED
    BY <1>3, <2>1
<1>11. QED
  BY <1>2, <1>5, <1>7, <1>8, <1>9, <1>10 DEF Bus!Next, Bus!ServiceStep, Bus!ClientStep

LEMMA ReportedStays ==
  ASSUME Bus!IInv, [Bus!Next]_(Bus!vars)
  PROVE  \A j \in ServiceNames :
           Bus!Outcome(result[j]) # Bus!Outcome(result[j])' => result'[j] # result[j]
<1>1. SUFFICES ASSUME NEW j \in ServiceNames, result'[j] = result[j]
               PROVE  Bus!Outcome(result[j])' = Bus!Outcome(result[j])
  OBVIOUS
<1>2. result[j].runner \in 0..Bus!Newest /\ Bus!Newest \in Nat
  BY RunnerFacts DEF Bus!IInv
<1>3. result[j].runner # 0 =>
        runners'[result[j].runner].outcome = runners[result[j].runner].outcome
  BY <1>2, DecidedOnce
<1>4. QED
  BY <1>1, <1>3 DEF Bus!Outcome

-----------------------------------------------------------------------------
(* The components together.                                                *)

IInv == Command!IInv /\ Legacy!IInv /\ Bus!IInv

LEMMA InitIInv == Init => IInv
BY InitCommand, InitLegacy, InitService DEF Init, IInv

LEMMA ServiceUnchanged == UNCHANGED service_vars => UNCHANGED Bus!vars
BY DEF service_vars, Bus!vars, Bus!client_vars, Bus!session_vars, Bus!storage_vars

LEMMA NextIInv == IInv /\ [Next]_vars => IInv'
<1> SUFFICES ASSUME Command!IInv, Legacy!IInv, Bus!IInv, [Next]_vars
             PROVE  Command!IInv' /\ Legacy!IInv' /\ Bus!IInv'
  BY DEF IInv
<1>1. /\ (Only("command") /\ Command!Next) \/ UNCHANGED command_vars
      /\ Legacy!Next \/ UNCHANGED legacy_vars
      /\ Bus!Next \/ UNCHANGED service_vars
  BY DEF Next, Only, vars
<1>2. Command!IInv'
  <2>1. CASE Only("command") /\ Command!Next
    BY <2>1, NextCommand
  <2>2. CASE UNCHANGED command_vars
    BY <2>2, NextCommand
  <2>3. QED
    BY <1>1, <2>1, <2>2
<1>3. UNCHANGED legacy_vars => UNCHANGED Legacy!vars
  BY DEF legacy_vars, Legacy!vars, Legacy!files, Legacy!object
<1>4. Legacy!IInv'
  BY <1>1, <1>3, NextLegacy
<1>5. UNCHANGED service_vars => UNCHANGED Bus!vars
  BY ServiceUnchanged
<1>6. Bus!IInv'
  BY <1>1, <1>5, NextService
<1>7. QED
  BY <1>2, <1>4, <1>6

LEMMA LegacyStep == IInv /\ [Next]_vars => [ReadsOnly /\ ForAReason]_(Legacy!vars)
<1> SUFFICES ASSUME Legacy!IInv, [Next]_vars
             PROVE  (ReadsOnly /\ ForAReason) \/ UNCHANGED Legacy!vars
  BY DEF IInv
<1>1. Legacy!Next \/ UNCHANGED legacy_vars
  BY DEF Next, Only, vars
<1>2. UNCHANGED legacy_vars => UNCHANGED Legacy!vars
  BY DEF legacy_vars, Legacy!vars, Legacy!files, Legacy!object
<1>3. QED
  BY <1>1, <1>2, LegacyStepIs

LEMMA ServiceStep ==
  IInv /\ [Next]_vars =>
    [\A j \in ServiceNames :
       Bus!Outcome(result[j]) # Bus!Outcome(result[j])' => result'[j] # result[j]]_(Bus!vars)
<1> SUFFICES ASSUME Bus!IInv, [Next]_vars
             PROVE  \A j \in ServiceNames :
                      Bus!Outcome(result[j]) # Bus!Outcome(result[j])' => result'[j] # result[j]
  BY DEF IInv
<1>1. Bus!Next \/ UNCHANGED service_vars
  BY DEF Next, Only, vars
<1>2. [Bus!Next]_(Bus!vars)
  BY <1>1, ServiceUnchanged
<1>3. QED
  BY <1>2, ReportedStays

\* However many lines the command and what it leaves behind write, and however the
\* threads, the delegates that fail and the interrupts fall: each delegate gets the
\* lines of a stream in order and without gaps, all get the same, a call that
\* returns has passed on everything unless a delegate failed, and it leaves no
\* thread or command behind (extcmd.py).
THEOREM LinesArrive == Spec => []LinesAreDelivered
<1>1. Init => IInv
  BY InitIInv
<1>2. IInv /\ [Next]_vars => IInv'
  BY NextIInv
<1>3. IInv => LinesAreDelivered
  BY CommandIsKept DEF IInv, LinesAreDelivered
<1>4. QED
  BY <1>1, <1>2, <1>3, PTL DEF Spec

\* Whatever methods of the legacy API are called, in any order, and whatever process
\* dies between two system calls: a session that can be saved is the one that the
\* next process finds; there is one session directory at most, to which the link leads,
\* if nobody died and clean() came right after open(); resume() changes nothing; and a
\* checkpoint is only removed for a session that is there, or by clean()
\* (session/legacy.py, session/storage.py).
THEOREM SessionsLast == Spec => SessionsAreFound
<1>1. Init => IInv
  BY InitIInv
<1>2. IInv /\ [Next]_vars => IInv'
  BY NextIInv
<1>3. IInv => (part = "legacy" => Legacy!SavedIsFound /\ Legacy!OneSessionIfUsedWell)
  BY LegacyIsKept DEF IInv
<1>4. IInv /\ [Next]_vars => [ReadsOnly /\ ForAReason]_(Legacy!vars)
  BY LegacyStep
<1>5. [ReadsOnly /\ ForAReason]_(Legacy!vars) =>
        /\ [("resume" \in Legacy!Hints /\ "open" \in Legacy!Hints /\ ~Legacy!Idle) =>
              exists' = exists /\ link' = link /\ checkpoint \subseteq checkpoint']_(Legacy!vars)
        /\ [\A d \in checkpoint \ checkpoint' :
              (storage \subseteq exists /\ storage # {} /\ d \notin storage)
                \/ "clean" \in Legacy!Hints]_(Legacy!vars)
  BY DEF ReadsOnly, ForAReason
<1>6. QED
  BY <1>1, <1>2, <1>3, <1>4, <1>5, PTL
     DEF Spec, SessionsAreFound, Legacy!ResumeReadsOnly, Legacy!RemovedForAReason
\* Whatever jobs and whitelists there are, what each job depends on and generates,
\* which jobs have commands, and in which order calls, signals, threads, commands and
\* decisions follow each other, at most one of them is under way; a thread runs a job
\* only if the jobs it depends on have passed; the client hears of the job it waits
\* for and of no other; it ends with a result for every job that was to be run; it
\* waits in vain only after a race for the session directory or an unheard question;
\* jobs have their objects, those generated late excepted; and a result that was
\* reported does not change (service.py, contrib/dbus-mini-client.py).
THEOREM ServiceHolds == Spec => ServiceKeepsItsWord
<1>1. Init => IInv
  BY InitIInv
<1>2. IInv /\ [Next]_vars => IInv'
  BY NextIInv
<1>3. IInv => (part = "service" =>
                 /\ Bus!OneThingAtATime
                 /\ Bus!RunsOnlyReady
                 /\ Bus!MessagesAreOfCurrentJob
                 /\ Bus!AllHaveResults
                 /\ Bus!JobsHaveWrappers
                 /\ Bus!StuckForAReason)
  BY ServiceIsKept DEF IInv
<1>4. IInv /\ [Next]_vars =>
        [\A j \in ServiceNames :
           Bus!Outcome(result[j]) # Bus!Outcome(result[j])' => result'[j] # result[j]]_(Bus!vars)
  BY ServiceStep
<1>5. QED
  BY <1>1, <1>2, <1>3, <1>4, PTL DEF Spec, ServiceKeepsItsWord, Bus!ReportedIsFinal
=============================================================================
