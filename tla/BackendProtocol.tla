--------------------------- MODULE BackendProtocol ---------------------------
(***************************************************************************)
(* How checkbox has a privileged process run the jobs that need a user:    *)
(* plugins/backend_info.py, the program `backend', and checkbox/lib/fifo.py*)
(* between them.  A backend is spawned up to Attempts times, until one     *)
(* answers a ping within the timeout; all of them read the same FIFO and   *)
(* write the same one.  A backend that was slow, since its user was asked  *)
(* for a password, is not ended when the next one is spawned.              *)
(*                                                                         *)
(* A message is two writes and two reads, its length and its body.  A      *)
(* process that gets the one for the other, from a message another process *)
(* reads or writes at that time, fails to decode it: a backend ends, and a *)
(* handler of the parent is left.  The FIFOs never fill.                   *)
(***************************************************************************)
EXTENDS Naturals, Sequences, SequencesExt, FiniteSets

CONSTANTS
  Attempts,  \* how often a backend is spawned
  Jobs       \* the jobs that need a user, in the order in which they are run

VARIABLES
  input, output,      \* the FIFOs: [part, seq, text]
  at, hand,           \* where each backend is, and the message it holds
  parent,             \* where the parent is
  next_sequence, expected_sequence,
  backend_is_alive,
  spawned,            \* how many backends were spawned; the last is self.pid
  job,                \* how many jobs were run, the present one included
  results,            \* history: what was reported for each job,
  executed,           \* how often each one was run,
  disturbed           \* and whether a backend died, or two were spawned

backend_vars == <<input, output, at, hand, parent, next_sequence, expected_sequence,
                  backend_is_alive, spawned, job, results, executed, disturbed>>

Backends == 1..Attempts
Names == ToSet(Jobs)

\* A job is run once, and its name is none of the words of the protocol.
JobsAssumption ==
  /\ Attempts \in Nat /\ Jobs \in Seq(Names) /\ IsInjective(Jobs)
  /\ Names \cap {"ping", "pong", "stop", "none", "refused", "nothing"} = {}

Nothing == [seq |-> 0, text |-> "nothing"]

\* What the parent sends: a job is its name.
Texts == {"ping", "stop"} \cup Names

\* write_bytes
Parts(seq, text) ==
  <<[part |-> "length", seq |-> seq, text |-> text], [part |-> "body", seq |-> seq, text |-> text]>>

Init ==
  /\ input = <<>> /\ output = <<>>
  /\ at = [b \in Backends |-> "none"] /\ hand = [b \in Backends |-> Nothing]
  /\ parent = "gathering" /\ next_sequence = 0 /\ expected_sequence = 0
  /\ backend_is_alive = FALSE /\ spawned = 0 /\ job = 0
  /\ results = [j \in Names |-> "none"] /\ executed = [j \in Names |-> 0]
  /\ disturbed = FALSE

\* write_to_parent
Write(text) ==
  /\ input' = input \o Parts(next_sequence, text)
  /\ expected_sequence' = next_sequence
  /\ next_sequence' = next_sequence + 1

-----------------------------------------------------------------------------
(* The parent *)

\* An attempt: spawn_backend and ping_backend
Spawn ==
  /\ parent = "gathering" /\ spawned < Attempts
  /\ spawned' = spawned + 1
  /\ at' = [at EXCEPT ![spawned + 1] = "starting"]
  /\ Write("ping") /\ parent' = "pinged"
  /\ disturbed' = (disturbed \/ spawned > 0)
  /\ UNCHANGED <<output, hand, backend_is_alive, job, results, executed>>

IsExpected(m) == m.seq = expected_sequence

\* read_object, once the length is there
Received == SubSeq(output, 1, 2)

IsWhole(m) == m[1].part = "length" /\ m[2].part = "body" /\ m[1].seq = m[2].seq

\* An answer that nobody waits for any more is dropped.
Discard ==
  /\ parent \in {"pinged", "checking", "executing"}
  /\ Len(output) >= 2 /\ IsWhole(Received) /\ ~IsExpected(Received[2])
  /\ output' = SubSeq(output, 3, Len(output))
  /\ UNCHANGED <<input, at, hand, parent, next_sequence, expected_sequence,
                 backend_is_alive, spawned, job, results, executed, disturbed>>

\* The answer to a ping: a backend is there.  message_exec goes on to send the job.
Pong ==
  /\ parent \in {"pinged", "checking"}
  /\ Len(output) >= 2 /\ IsWhole(Received) /\ IsExpected(Received[2])
  /\ output' = SubSeq(output, 3, Len(output))
  /\ backend_is_alive' = (Received[2].text = "pong")
  /\ parent' = IF Received[2].text = "pong"
               THEN (IF parent = "pinged" THEN "ready" ELSE "sending")
               ELSE (IF parent = "pinged" THEN "gathering" ELSE "refusing")
  /\ UNCHANGED <<input, at, hand, next_sequence, expected_sequence, spawned, job, results,
                 executed, disturbed>>

\* No answer came in time.
NoPong ==
  /\ parent \in {"pinged", "checking"} /\ output = <<>>
  /\ parent' = IF parent = "pinged" THEN "gathering" ELSE "refusing"
  /\ backend_is_alive' = FALSE
  /\ UNCHANGED <<input, output, at, hand, next_sequence, expected_sequence, spawned, job,
                 results, executed, disturbed>>

GiveUp ==
  /\ parent = "gathering" /\ spawned = Attempts
  /\ parent' = "ready"
  /\ UNCHANGED <<input, output, at, hand, next_sequence, expected_sequence,
                 backend_is_alive, spawned, job, results, executed, disturbed>>

\* message_exec
Exec ==
  /\ parent = "ready" /\ job < Len(Jobs)
  /\ job' = job + 1
  /\ IF backend_is_alive THEN Write("ping") /\ parent' = "checking"
     ELSE parent' = "refusing" /\ UNCHANGED <<input, next_sequence, expected_sequence>>
  /\ UNCHANGED <<output, at, hand, backend_is_alive, spawned, results, executed, disturbed>>

Send ==
  /\ parent = "sending"
  /\ Write(Jobs[job]) /\ parent' = "executing"
  /\ UNCHANGED <<output, at, hand, backend_is_alive, spawned, job, results, executed, disturbed>>

Refuse ==
  /\ parent = "refusing"
  /\ results' = [results EXCEPT ![Jobs[job]] = "refused"] /\ parent' = "ready"
  /\ UNCHANGED <<input, output, at, hand, next_sequence, expected_sequence,
                 backend_is_alive, spawned, job, executed, disturbed>>

Result ==
  /\ parent = "executing"
  /\ Len(output) >= 2 /\ IsWhole(Received) /\ IsExpected(Received[2])
  /\ output' = SubSeq(output, 3, Len(output))
  /\ results' = [results EXCEPT ![Jobs[job]] = Received[2].text] /\ parent' = "ready"
  /\ UNCHANGED <<input, at, hand, next_sequence, expected_sequence, backend_is_alive,
                 spawned, job, executed, disturbed>>

SendAgain == input' = input \o Parts(expected_sequence, Jobs[job])

WaitOn == UNCHANGED input

\* There is no end to waiting for a result.
NoResult ==
  /\ parent = "executing" /\ output = <<>>
  /\ WaitOn
  /\ UNCHANGED <<output, at, hand, parent, next_sequence, expected_sequence,
                 backend_is_alive, spawned, job, results, executed, disturbed>>

\* What is read cannot be decoded: the handler ends with an exception.
Garbage ==
  /\ parent \in {"pinged", "checking", "executing"}
  /\ Len(output) >= 2 /\ ~IsWhole(Received)
  /\ output' = SubSeq(output, 3, Len(output))
  /\ parent' = "ready"
  /\ UNCHANGED <<input, at, hand, next_sequence, expected_sequence, backend_is_alive,
                 spawned, job, results, executed, disturbed>>

\* stop: the last backend is waited for if one has answered
Stop ==
  /\ parent = "ready"
  /\ Write("stop")
  /\ parent' = IF backend_is_alive THEN "reaping" ELSE "stopped"
  /\ UNCHANGED <<output, at, hand, backend_is_alive, spawned, job, results, executed, disturbed>>

Reap ==
  /\ parent = "reaping" /\ at[spawned] = "ended"
  /\ parent' = "stopped"
  /\ UNCHANGED <<input, output, at, hand, next_sequence, expected_sequence,
                 backend_is_alive, spawned, job, results, executed, disturbed>>

-----------------------------------------------------------------------------
(* A backend *)

Goes(b, place) == at' = [at EXCEPT ![b] = place]

BackendStarts(b) ==
  /\ at[b] = "starting" /\ Goes(b, "idle")
  /\ UNCHANGED <<input, output, hand, parent, next_sequence, expected_sequence,
                 backend_is_alive, spawned, job, results, executed, disturbed>>

\* Four bytes of a body are no length, and what is left of it is no message.
ReadLength(b) ==
  /\ at[b] = "idle" /\ input # <<>>
  /\ IF Head(input).part = "length"
     THEN /\ Goes(b, "length") /\ hand' = [hand EXCEPT ![b] = Head(input)]
          /\ input' = Tail(input)
     ELSE /\ Goes(b, "ended") /\ input' = [input EXCEPT ![1].part = "rest"]
          /\ UNCHANGED hand
  /\ UNCHANGED <<output, parent, next_sequence, expected_sequence, backend_is_alive,
                 spawned, job, results, executed, disturbed>>

ReadBody(b) ==
  /\ at[b] = "length" /\ input # <<>>
  /\ input' = Tail(input)
  /\ hand' = [hand EXCEPT ![b] = Head(input)]
  /\ LET whole == Head(input).part = "body" /\ Head(input).seq = hand[b].seq
         text == Head(input).text
     IN IF ~whole \/ text = "stop" THEN Goes(b, "ended") /\ UNCHANGED executed
        ELSE /\ Goes(b, "answering")
             /\ executed' = IF text = "ping" THEN executed
                            ELSE [executed EXCEPT ![text] = @ + 1]
  /\ UNCHANGED <<output, parent, next_sequence, expected_sequence, backend_is_alive,
                 spawned, job, results, disturbed>>

AnswerTo(text) == IF text = "ping" THEN "pong" ELSE text

\* The pong, or the status, data and duration of the job.
AnswerLength(b) ==
  /\ at[b] = "answering" /\ Goes(b, "body")
  /\ output' = Append(output, [part |-> "length", seq |-> hand[b].seq,
                               text |-> AnswerTo(hand[b].text)])
  /\ UNCHANGED <<input, hand, parent, next_sequence, expected_sequence, backend_is_alive,
                 spawned, job, results, executed, disturbed>>

AnswerBody(b) ==
  /\ at[b] = "body" /\ Goes(b, "idle")
  /\ output' = Append(output, [part |-> "body", seq |-> hand[b].seq,
                               text |-> AnswerTo(hand[b].text)])
  /\ UNCHANGED <<input, hand, parent, next_sequence, expected_sequence, backend_is_alive,
                 spawned, job, results, executed, disturbed>>

BackendStep(b) == ReadLength(b) \/ ReadBody(b) \/ AnswerLength(b) \/ AnswerBody(b)

\* The password is refused, or the process is killed.
BackendDies(b) ==
  /\ at[b] \notin {"none", "ended"} /\ Goes(b, "ended")
  /\ disturbed' = TRUE
  /\ UNCHANGED <<input, output, hand, parent, next_sequence, expected_sequence,
                 backend_is_alive, spawned, job, results, executed>>

ParentStep ==
  \/ Spawn \/ Discard \/ Pong \/ NoPong \/ GiveUp \/ Send \/ Refuse \/ Result \/ Garbage
  \/ Reap

Next ==
  \/ ParentStep \/ NoResult \/ Exec \/ Stop
  \/ \E b \in Backends : BackendStarts(b) \/ BackendStep(b) \/ BackendDies(b)

Spec ==
  /\ Init /\ [][Next]_backend_vars
  /\ WF_backend_vars(ParentStep) /\ \A b \in Backends : WF_backend_vars(BackendStep(b))

-----------------------------------------------------------------------------
(* Properties *)

Message == [part : {"length", "body", "rest"}, seq : Nat, text : Texts \cup {"pong"}]

TypeOK ==
  /\ input \in Seq(Message) /\ output \in Seq(Message)
  /\ \A i \in DOMAIN input : input[i].text \in Texts
  /\ at \in [Backends -> {"none", "starting", "idle", "length", "answering", "body", "ended"}]
  /\ hand \in [Backends -> Message \cup {Nothing}]
  /\ parent \in {"gathering", "pinged", "ready", "checking", "sending", "executing",
                 "refusing", "reaping", "stopped"}
  /\ next_sequence \in Nat /\ expected_sequence \in 0..next_sequence
  /\ spawned \in 0..Attempts /\ job \in 0..Len(Jobs)
  /\ parent \in {"checking", "sending", "executing", "refusing"} => job > 0
  /\ results \in [Names -> Names \cup {"none", "refused"}] /\ executed \in [Names -> Nat]

\* What is reported for a job is what a backend answered to this job, never
\* the late answer to another message, however many backends answer
\* (backend_info.py:54-72).
ResultIsOfJob ==
  \A j \in Names : results[j] \in {"none", "refused", j}

\* A job that was reported as failed for the lack of privileges has not run and
\* does not run later, and no job runs twice (backend_info.py:165-180).
RunOnceOrRefused ==
  \A j \in Names : executed[j] <= (IF results[j] = "refused" THEN 0 ELSE 1)

\* What makes it so.  No message is from the future, and those with the number
\* that the parent waits for are what it has sent, or the answer to it.
Holds(b) == at[b] \in {"length", "answering", "body"}
Asks == parent \in {"pinged", "checking", "executing"}
Asked == IF parent = "executing" THEN Jobs[job] ELSE "ping"

NumberedInOrder ==
  /\ \A i \in DOMAIN input : input[i].seq < next_sequence
  /\ \A b \in Backends : Holds(b) => hand[b] \in Message /\ hand[b].seq < next_sequence
  /\ \A i \in DOMAIN output : output[i].seq < next_sequence

NumbersAreAnswered ==
  Asks =>
    /\ \A i \in DOMAIN input : IsExpected(input[i]) => input[i].text = Asked
    /\ \A b \in Backends : Holds(b) /\ IsExpected(hand[b]) => hand[b].text = Asked
    /\ \A i \in DOMAIN output : IsExpected(output[i]) => output[i].text = AnswerTo(Asked)

\* A job that is not yet sent has no result; one that is not yet sent, or never
\* is, was not read by a backend and cannot be; and what was read is gone.
Unsent(j) ==
  \/ \E k \in DOMAIN Jobs : k > job /\ Jobs[k] = j
  \/ parent \in {"checking", "sending", "refusing"} /\ Jobs[job] = j

Body(i, j) == input[i].part = "body" /\ input[i].text = j

UnsentIsUnknown ==
  \A j \in Names :
    /\ Unsent(j) \/ (parent = "executing" /\ Jobs[job] = j) => results[j] = "none"
    /\ Unsent(j) \/ results[j] = "refused" =>
         executed[j] = 0 /\ \A i \in DOMAIN input : ~Body(i, j)

ReadOnce ==
  \A j \in Names :
    /\ executed[j] <= 1
    /\ \A i \in DOMAIN input : Body(i, j) =>
         executed[j] = 0 /\ \A k \in DOMAIN input : Body(k, j) => k = i

IInv ==
  /\ TypeOK /\ NumberedInOrder /\ NumbersAreAnswered /\ UnsentIsUnknown /\ ReadOnce
  /\ ResultIsOfJob

\* The parent waits without a limit.
Waits == parent \in {"executing", "reaping"}

\* Everything the parent waits for comes, as long as there is one backend and
\* it lives.  With a second one, or when it dies during a job, the parent may
\* wait for ever: for the result (backend_info.py:170-175) or for the end of a
\* backend when another one has read the stop (backend_info.py:188).
WaitsEnd == Waits ~> ~Waits \/ disturbed
=============================================================================
