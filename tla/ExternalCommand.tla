-------------------------- MODULE ExternalCommand --------------------------
(***************************************************************************)
(* The command of a job and its output: ExternalCommandWithDelegate.call() *)
(* (plainbox/vendor/extcmd) with the chain of delegates that JobRunner     *)
(* gives it (plainbox/impl/runner.py).                                     *)
(*                                                                         *)
(* The main thread starts the command and three threads: a reader for each *)
(* stream, which put its lines on a queue, and a worker that takes them    *)
(* from there and calls on_line() of the delegates.  A command may leave a *)
(* process behind that holds its streams open.  A line is <<stream, k>>,   *)
(* the k-th line of the stream.                                            *)
(***************************************************************************)
EXTENDS Integers, Sequences, SequencesExt, FiniteSets

CONSTANTS
  Delegates,     \* the delegates of the chain, a sequence
  Failing,       \* those whose methods may raise an exception
  MaxLines,      \* bound: the lines of a stream
  MaxInterrupts  \* bound: how often the user types Ctrl-C

CommandAssumption ==
  /\ Delegates \in Seq(ToSet(Delegates)) /\ IsInjective(Delegates) /\ Failing \subseteq ToSet(Delegates)
  /\ MaxLines \in Nat /\ MaxInterrupts \in Nat

VARIABLES
  child, other,  \* the command, and a process that it has left behind
  written,       \* the number of lines written to each stream
  pipe,          \* the lines in each pipe
  reader,        \* the state of the reader of each stream
  queue,         \* _queue; Stop is the None that ends the worker
  worker,        \* the state of the worker,
  line, left,    \* its line, and the delegates that have not got it yet
  got,           \* the lines that each delegate got
  main, failed,  \* where call() is, and whether an exception is on its way
  ended,         \* the delegates whose on_end() was called
  interrupts,    \* history: the number of interrupts,
  escaped        \* and one came while call() was cleaning up

processes == <<child, other, written>>
worker_vars == <<worker, line, left, got>>
threads == <<reader, queue, worker_vars>>
history == <<interrupts, escaped>>
vars == <<processes, pipe, threads, main, failed, ended, history>>

Streams == {"stdout", "stderr"}

Stop == <<"stop", 0>>

Line == Streams \X (1..MaxLines)

Starting == {"popen", "start_worker", "start_stdout", "start_stderr"}

Finally == {"kill", "join_stdout", "join_stderr", "stop_worker", "join_worker"}

Over == {"returned", "raised"}

ThreadsOK ==
  /\ child \in {"none", "running", "dead"} /\ other \in {"none", "running", "dead"}
  /\ written \in [Streams -> 0..MaxLines]
  /\ pipe \in [Streams -> Seq(Line)]
  /\ reader \in [Streams -> {"none", "reading", "done"}]
  /\ queue \in Seq(Line \cup {Stop})
  /\ worker \in {"none", "running", "done", "died"}
  /\ line \in Line \cup {Stop} /\ (left # <<>> => line \in Line) /\ left \in Seq(ToSet(Delegates))
  /\ got \in [ToSet(Delegates) -> Seq(Line)]

TypeOK ==
  /\ ThreadsOK
  /\ main \in {"begin", "wait", "end"} \cup Starting \cup Finally \cup Over
  /\ failed \in BOOLEAN /\ ended \subseteq ToSet(Delegates)
  /\ interrupts \in 0..MaxInterrupts
  /\ escaped \in BOOLEAN

Init ==
  /\ child = "none" /\ other = "none" /\ written = [s \in Streams |-> 0]
  /\ pipe = [s \in Streams |-> <<>>] /\ reader = [s \in Streams |-> "none"]
  /\ queue = <<>> /\ worker = "none" /\ line = Stop /\ left = <<>>
  /\ got = [d \in ToSet(Delegates) |-> <<>>]
  /\ main = "begin" /\ failed = FALSE /\ ended = {}
  /\ interrupts = 0 /\ escaped = FALSE

-----------------------------------------------------------------------------
(* The command, and the process that it leaves behind, if any.             *)

Write(s) ==
  /\ child = "running" \/ other = "running"
  /\ written[s] < MaxLines
  /\ written' = [written EXCEPT ![s] = @ + 1]
  /\ pipe' = [pipe EXCEPT ![s] = Append(@, <<s, written'[s]>>)]
  /\ UNCHANGED <<child, other, threads, main, failed, ended, history>>

LeaveBehind ==
  /\ child = "running" /\ other = "none"
  /\ other' = "running"
  /\ UNCHANGED <<child, written, pipe, threads, main, failed, ended, history>>

ChildExits ==
  /\ child = "running"
  /\ child' = "dead"
  /\ UNCHANGED <<other, written, pipe, threads, main, failed, ended, history>>

OtherExits ==
  /\ other = "running"
  /\ other' = "dead"
  /\ UNCHANGED <<child, written, pipe, threads, main, failed, ended, history>>

EndOfFile(s) == pipe[s] = <<>> /\ child # "running" /\ other # "running"

-----------------------------------------------------------------------------
(* The threads.                                                            *)

ReadLine(s) ==
  /\ reader[s] = "reading" /\ pipe[s] # <<>>
  /\ pipe' = [pipe EXCEPT ![s] = Tail(@)]
  /\ queue' = Append(queue, Head(pipe[s]))
  /\ UNCHANGED <<processes, reader, worker_vars, main, failed, ended, history>>

\* Mutant of ReadEnd: the reader ends when there is nothing to read.
ReadEndEmpty(s) ==
  /\ reader[s] = "reading" /\ pipe[s] = <<>>
  /\ reader' = [reader EXCEPT ![s] = "done"]
  /\ UNCHANGED <<processes, pipe, queue, worker_vars, main, failed, ended, history>>

ReadEnd(s) ==
  /\ reader[s] = "reading" /\ EndOfFile(s)
  /\ reader' = [reader EXCEPT ![s] = "done"]
  /\ UNCHANGED <<processes, pipe, queue, worker_vars, main, failed, ended, history>>

Get ==
  /\ worker = "running" /\ left = <<>> /\ queue # <<>>
  /\ queue' = Tail(queue)
  /\ IF Head(queue) = Stop
     THEN worker' = "done" /\ UNCHANGED <<line, left>>
     ELSE line' = Head(queue) /\ left' = Delegates /\ UNCHANGED worker
  /\ UNCHANGED <<processes, pipe, reader, got, main, failed, ended, history>>

\* on_line() of the next delegate of the chain; an exception ends the thread.
OnLine ==
  /\ worker = "running" /\ left # <<>>
  /\ \/ got' = [got EXCEPT ![Head(left)] = Append(@, line)]
        /\ left' = Tail(left)
        /\ UNCHANGED worker
     \/ Head(left) \in Failing
        /\ worker' = "died" /\ left' = <<>>
        /\ UNCHANGED got
  /\ UNCHANGED <<processes, pipe, reader, queue, line, main, failed, ended, history>>

-----------------------------------------------------------------------------
(* call()                                                                  *)

At(here, next) == main = here /\ main' = next

OnBegin ==
  /\ At("begin", "popen")
  /\ UNCHANGED <<processes, pipe, threads, failed, ended, history>>

\* The command may not exist.
Popen ==
  /\ \/ At("popen", "start_worker") /\ child' = "running" /\ UNCHANGED failed
     \/ At("popen", "kill") /\ failed' = TRUE /\ UNCHANGED child
  /\ UNCHANGED <<other, written, pipe, threads, ended, history>>

StartThreads ==
  /\ \/ At("start_worker", "start_stdout")
        /\ worker' = "running" /\ UNCHANGED reader
     \/ At("start_stdout", "start_stderr")
        /\ reader' = [reader EXCEPT !["stdout"] = "reading"] /\ UNCHANGED worker
     \/ At("start_stderr", "wait")
        /\ reader' = [reader EXCEPT !["stderr"] = "reading"] /\ UNCHANGED worker
  /\ UNCHANGED <<processes, pipe, queue, line, left, got, failed, ended, history>>

Wait ==
  /\ At("wait", "kill") /\ child = "dead"
  /\ UNCHANGED <<processes, pipe, threads, failed, ended, history>>

\* terminate() and signal 9: the command, not what it has left behind.
Kill ==
  /\ At("kill", "join_stdout")
  /\ child' = IF child = "running" THEN "dead" ELSE child
  /\ UNCHANGED <<other, written, pipe, threads, failed, ended, history>>

\* Threads that were started are waited for; a worker that was not cannot be,
\* and the exception says that instead.
Join ==
  /\ \/ At("join_stdout", "join_stderr") /\ reader["stdout"] # "reading"
     \/ At("join_stderr", "stop_worker") /\ reader["stderr"] # "reading"
     \/ At("join_worker", IF failed THEN "raised" ELSE "end") /\ worker # "running"
  /\ UNCHANGED <<processes, pipe, threads, failed, ended, history>>

\* There is a worker if there is a command.
StopWorker ==
  /\ At("stop_worker", "join_worker")
  /\ queue' = IF child = "none" THEN queue ELSE Append(queue, Stop)
  /\ UNCHANGED <<processes, pipe, reader, worker_vars, failed, ended, history>>

\* on_end() of one delegate after the other.
OnEnd ==
  /\ main = "end"
  /\ LET d == Delegates[Cardinality(ended) + 1]
     IN  \/ /\ ended' = ended \cup {d}
            /\ main' = IF ended' = ToSet(Delegates) THEN "returned" ELSE main
         \/ /\ d \in Failing
            /\ main' = "raised" /\ UNCHANGED ended
  /\ UNCHANGED <<processes, pipe, threads, failed, history>>

\* KeyboardInterrupt: while the command is waited for it is passed on, before
\* that it ends the call, and so it does, at once, when it is cleaning up.
Interrupt ==
  /\ interrupts < MaxInterrupts /\ main \notin Over
  /\ interrupts' = interrupts + 1
  /\ \/ /\ main = "wait"
        /\ UNCHANGED <<main, failed, escaped>>
     \/ /\ main \in Starting
        /\ main' = "kill" /\ failed' = TRUE
        /\ UNCHANGED escaped
     \/ /\ main \in Finally \cup {"begin", "end"}
        /\ main' = "raised" /\ escaped' = TRUE
        /\ UNCHANGED failed
  /\ UNCHANGED <<processes, pipe, threads, ended>>

-----------------------------------------------------------------------------
Environment == LeaveBehind \/ ChildExits \/ OtherExits \/ \E s \in Streams : Write(s)

Threads == Get \/ OnLine \/ \E s \in Streams : ReadLine(s) \/ ReadEnd(s)

Caller == OnBegin \/ Popen \/ StartThreads \/ Wait \/ Kill \/ Join \/ StopWorker \/ OnEnd

Next == Environment \/ Threads \/ Caller \/ Interrupt

\* Threads are scheduled; what the command does is its own affair.
Fairness ==
  /\ WF_vars(Get \/ OnLine) /\ WF_vars(Caller)
  /\ \A s \in Streams : WF_vars(ReadLine(s) \/ ReadEnd(s))

Spec == Init /\ [][Next]_vars /\ Fairness

-----------------------------------------------------------------------------
(* Correctness.                                                            *)

\* However the threads are scheduled, each delegate gets the lines of a stream
\* in the order they were written, none twice and none left out in between.
InOrder(lines) ==
  \A i \in DOMAIN lines :
    /\ \A k \in 1..i-1 : lines[k][1] = lines[i][1] => lines[k][2] < lines[i][2]
    /\ lines[i][2] > 1 => \E k \in 1..i-1 : lines[k] = <<lines[i][1], lines[i][2] - 1>>

LinesInOrder == \A d \in ToSet(Delegates) : InOrder(got[d])

\* All delegates get the same lines in the same order, apart from the one that
\* is being passed on: the log of a job and its files agree.
DelegatesAgree ==
  \A i \in 1..(Len(Delegates) - 1) :
    LET first == got[Delegates[i]]
        second == got[Delegates[i + 1]]
    IN  /\ Len(first) - Len(second) \in {0, 1}
        /\ \A k \in DOMAIN second : second[k] = first[k]

\* A call that returns has passed on all that was ever written, that of the
\* process left behind included, unless a delegate has failed.
Has(lines, l) == \E k \in DOMAIN lines : lines[k] = l

ReturnsComplete ==
  main \in {"end", "returned"} /\ worker # "died" =>
    \A d \in ToSet(Delegates), s \in Streams : \A n \in 1..written[s] : Has(got[d], <<s, n>>)

\* on_end() of a delegate is the last that happens to it, and no thread is
\* left when call() is over, unless it was interrupted while cleaning up.
NothingIsLeftRunning ==
  (main = "end" \/ main \in Over) /\ ~escaped =>
    /\ worker # "running" /\ child # "running"
    /\ \A s \in Streams : reader[s] # "reading"

\* What makes it so.  The lines of a stream are, in this order, with the delegates,
\* with the worker, on the queue and in the pipe.
Read(s) == written[s] - Len(pipe[s])

PipeInOrder ==
  \A s \in Streams :
    Len(pipe[s]) <= written[s] /\ \A k \in DOMAIN pipe[s] : pipe[s][k] = <<s, Read(s) + k>>

QueueInOrder ==
  \A k \in DOMAIN queue : \A s \in Streams, n \in 1..MaxLines :
    queue[k] = <<s, n>> =>
      /\ n <= Read(s)
      /\ \A m \in 1..k-1 : queue[m] # queue[k]
      /\ \A q \in n+1..Read(s) : \E m \in k+1..Len(queue) : queue[m] = <<s, q>>

LineIsNext ==
  left # <<>> =>
    \A s \in Streams, n \in 1..MaxLines :
      line = <<s, n>> =>
        /\ n <= Read(s) /\ ~Has(queue, line)
        /\ \A q \in n+1..Read(s) : Has(queue, <<s, q>>)

GotAreRead ==
  \A d \in ToSet(Delegates), s \in Streams, n \in 1..MaxLines :
    /\ Has(got[d], <<s, n>>) =>
         /\ n <= Read(s) /\ ~Has(queue, <<s, n>>)
         /\ Has(left, d) => line # <<s, n>>
    /\ n <= Read(s) /\ worker # "died" =>
         Has(got[d], <<s, n>>) \/ Has(queue, <<s, n>>) \/ (line = <<s, n>> /\ Has(left, d))

\* The delegates that have not got a line are the last of the chain.
LeftAreLast ==
  /\ Len(left) <= Len(Delegates)
  /\ \A k \in DOMAIN left : left[k] = Delegates[Len(Delegates) - Len(left) + k]
  /\ worker # "died" =>
       \A i \in 1..(Len(Delegates) - 1) :
         got[Delegates[i]] = IF i = Len(Delegates) - Len(left)
                             THEN Append(got[Delegates[i + 1]], line)
                             ELSE got[Delegates[i + 1]]

\* What call() has waited for has ended, and what it has not started has not.
Stopped(steps) == main \in steps \cup {"end", "returned"} \/ (main = "raised" /\ ~escaped)

ThreadsEnd ==
  /\ Stopped(Finally \ {"kill"}) => child # "running"
  /\ Stopped(Finally \ {"kill", "join_stdout"}) => reader["stdout"] # "reading"
  /\ Stopped({"stop_worker", "join_worker"}) => reader["stderr"] # "reading"
  /\ Stopped({}) => worker # "running"
  /\ \A s \in Streams :
       reader[s] = "done" => pipe[s] = <<>> /\ child = "dead" /\ other # "running"
  /\ child = "none" =>
       /\ worker = "none" /\ other = "none" /\ \A s \in Streams : reader[s] = "none"
       /\ failed \/ main \in {"begin", "popen", "raised"}
  /\ main \in {"begin", "popen"} => child = "none"
  /\ main = "start_worker" => worker = "none"
  /\ main \in {"begin", "wait"} \cup Starting => ~failed
  /\ main \in {"end", "returned"} =>
       /\ ~failed /\ worker # "none" /\ \A s \in Streams : reader[s] # "none"
  /\ ~failed =>
       /\ main \in {"start_stdout", "start_stderr", "wait"} \cup Finally => worker # "none"
       /\ main \in {"start_stderr", "wait"} \cup Finally => reader["stdout"] # "none"
       /\ main \in {"wait"} \cup Finally => reader["stderr"] # "none"

WorkerStops ==
  /\ worker # "running" => left = <<>>
  /\ Has(queue, Stop) \/ worker = "done" =>
       /\ main \in {"join_worker", "end"} \cup Over
       /\ \A s \in Streams : reader[s] # "reading"
  /\ \A k \in DOMAIN queue : queue[k] = Stop => k = Len(queue)
  /\ worker = "done" => queue = <<>>

IInv ==
  /\ ThreadsOK /\ PipeInOrder /\ QueueInOrder /\ LineIsNext /\ GotAreRead /\ LeftAreLast
  /\ ThreadsEnd /\ WorkerStops /\ LinesInOrder /\ DelegatesAgree

\* Once nobody holds the streams open the call is over sooner or later; it
\* does not wait for a worker that has died, nor for one never started.
StreamsClose ==
  main # "begin" /\ child = "dead" /\ other # "running" /\ interrupts = MaxInterrupts

CallIsOver == main \in Over \/ other = "running"
=============================================================================
