----------------------------- MODULE JobService -----------------------------
(***************************************************************************)
(* The D-Bus service (plainbox/impl/service.py, plainbox/impl/highlevel.py)*)
(* and the client that comes with it (plainbox/contrib/dbus-mini-client.py)*)
(*                                                                         *)
(* The service runs every job, and every command that the user asks for,   *)
(* in a thread that nobody waits for, and whose end it tells with a signal.*)
(* The client is a main loop: a handler for every signal and reply, which  *)
(* makes calls and waits for their replies, but for UpdateJobResult(),     *)
(* whose reply is a message like the others.                               *)
(*                                                                         *)
(* The session directory is made when it is first asked for, by the thread *)
(* of a job or by a call that saves the session, whichever comes first;    *)
(* making it removes that of the session before.                           *)
(*                                                                         *)
(* A result is a dictionary.  The one that SetOutcome() reports is that of *)
(* the RunningJob itself, and later changes of it change the result.       *)
(***************************************************************************)
EXTENDS Naturals, Sequences, SequencesExt, FiniteSets

CONSTANTS
  Names,        \* the names of all jobs
  RunOrder(_),  \* the jobs of a set, in the order in which to run them
  Plugin,       \* "local", "shell" or "manual", for every job
  HasCommand,   \* the jobs with a command
  Deps,         \* the direct dependencies of every job
  Generates,    \* the jobs that every job generates, local ones alone
  Whitelists,   \* the sets of jobs that a whitelist may designate
  MaxCommands   \* bound: how often the user runs the command of a job

Generated == UNION {Generates[j] : j \in Names}

ServiceAssumption ==
  /\ IsFiniteSet(Names) /\ "none" \notin Names
  /\ \A S \in SUBSET Names : RunOrder(S) \in Seq(Names) /\ ToSet(RunOrder(S)) = S
  /\ Plugin \in [Names -> {"local", "shell", "manual"}] /\ HasCommand \subseteq Names
  /\ Deps \in [Names -> SUBSET Names] /\ Generates \in [Names -> SUBSET Names]
  /\ \A j \in Names : Plugin[j] # "local" => Generates[j] = {}
  /\ \A j \in Names : Deps[j] \cap Generated = {}   \* so that none is ever missing
  /\ Whitelists \subseteq SUBSET Names /\ MaxCommands \in Nat

VARIABLES
  (* the client *)
  client,       \* "start", "waiting" in its main loop, "asking" the user,
                \* showing "results", or stuck with an exception: "no_name" for
                \* the service, "no_wrapper" for a job
  phase,        \* "local" or "all": the job list, and the handlers, in use
  run_list, current_job_path,
  whitelist, runner_asked,
  inbox,        \* the messages it has still to handle
  saving,       \* where its call of PersistentSave() is
  (* the service *)
  request,      \* the calls of UpdateJobResult() it has still to answer
  updating,     \* it is inside update_job_result()
  known, wrapped,  \* the jobs of the session, and those with a wrapper
  session_run_list,
  ready,        \* the jobs without readiness inhibitors
  result,       \* the result of every job of the session
  runners,      \* the RunningJobs, with the state of the thread of each
  hint,         \* _commit_hint: there is no session directory yet
  made,         \* the number of directories made, the last of which exists
  unheard,      \* history: a signal was sent that nobody listened to,
  raced         \* and two threads were making the session directory

client_vars == <<client, phase, run_list, current_job_path, whitelist, runner_asked>>
session_vars == <<known, wrapped, session_run_list, ready, result>>
storage_vars == <<saving, hint, made, raced>>
vars == <<client_vars, inbox, request, updating, session_vars, runners, unheard,
          storage_vars>>

Outcomes == {"none", "pass", "fail", "not-supported"}

\* A reference to the dictionary of a RunningJob, or a dictionary of its own.
OfRunner(r) == [runner |-> r, outcome |-> "none"]
Own(outcome) == [runner |-> 0, outcome |-> outcome]

Outcome(res) == IF res.runner = 0 THEN res.outcome ELSE runners[res.runner].outcome

\* Where a thread is in the properties session_dir and manager.
Accessing == {"access", "commit", "create"}

Results == [runner : 0..Len(runners), outcome : Outcomes]

Phases == {"local", "all"}

Messages ==
  [kind : {"result"}, job : Names, result : Results]
    \cup [kind : {"ask"}, runner : DOMAIN runners]
    \cup [kind : {"reply"}, phase : Phases]

Calls == [job : Names, result : Results, phase : Phases]

RunningJobs ==
  [job : Names, thread : Accessing \cup {"check", "run", "done"}, dir : 0..made,
   commands : Nat, ran : Nat, outcome : Outcomes]

TypeOK ==
  /\ client \in {"start", "waiting", "asking", "results", "no_name", "no_wrapper"}
  /\ phase \in Phases
  /\ run_list \in Seq(Names) /\ session_run_list \in Seq(Names)
  /\ current_job_path \in Names \cup {"none"}
  /\ whitelist \in Whitelists
  /\ runner_asked \in 0..Len(runners)
  /\ inbox \in Seq(Messages) /\ request \in Seq(Calls)
  /\ updating \in BOOLEAN
  /\ known \subseteq Names /\ wrapped \subseteq known /\ ready \subseteq Names
  /\ result \in [Names -> Results]
  /\ runners \in Seq(RunningJobs)
  /\ saving \in Accessing \cup {"no"}
  /\ hint \in BOOLEAN /\ made \in 0..2
  /\ unheard \in BOOLEAN /\ raced \in BOOLEAN

Init ==
  /\ client = "start" /\ phase = "local"
  /\ run_list = <<>> /\ current_job_path = "none" /\ runner_asked = 0
  /\ whitelist \in Whitelists
  /\ inbox = <<>> /\ request = <<>> /\ updating = FALSE
  /\ known = Names \ Generated /\ wrapped = known
  /\ session_run_list = <<>> /\ ready = {}
  /\ result = [j \in Names |-> Own("none")]
  /\ runners = <<>>
  /\ saving = "no"
  /\ hint \in BOOLEAN /\ made = IF hint THEN 0 ELSE 1
  /\ unheard = FALSE /\ raced = FALSE

-----------------------------------------------------------------------------
(* The session.                                                            *)

\* The jobs of S and all that they need, in the order in which to run them.
NeededBy(S) ==
  LET Reach[i \in 0..Cardinality(Names)] ==
        IF i = 0 THEN S ELSE Reach[i - 1] \cup UNION {Deps[j] : j \in Reach[i - 1]}
  IN  Reach[Cardinality(Names)]

RunListOf(S) == RunOrder(NeededBy(S))

\* _recompute_job_readiness().
Recompute(list, results) ==
  {j \in ToSet(list) : \A d \in Deps[j] : Outcome(results[d]) = "pass"}

\* Also wraps the jobs that have come since, check_and_wrap_new_jobs().
UpdateDesiredJobList(S) ==
  /\ session_run_list' = RunListOf(S)
  /\ ready' = Recompute(RunListOf(S), result)
  /\ wrapped' = known
  /\ UNCHANGED <<known, result>>

\* update_job_result() in the main thread, with its readiness pass as a
\* second step, of which other threads may see any part.
BeginUpdateJobResult ==
  /\ request # <<>> /\ ~updating
  /\ updating' = TRUE
  /\ LET call == Head(request)
     IN  /\ result' = [result EXCEPT ![call.job] = call.result]
         /\ known' = known \cup (IF Outcome(call.result) = "not-supported" THEN {}
                                ELSE Generates[call.job])
  /\ UNCHANGED <<client_vars, inbox, request, wrapped, session_run_list, ready,
                 runners, unheard, storage_vars>>

FinishUpdateJobResult ==
  /\ updating
  /\ updating' = FALSE
  /\ ready' = Recompute(session_run_list, result)
  /\ request' = Tail(request)
  /\ inbox' = Append(inbox, [kind |-> "reply", phase |-> Head(request).phase])
  /\ UNCHANGED <<client_vars, known, wrapped, session_run_list, result, runners,
                 unheard, storage_vars>>

-----------------------------------------------------------------------------
(* The session directory.                                                  *)

Committing == {"commit", "create"}

SomeoneCommits ==
  \/ saving \in Committing
  \/ \E r \in DOMAIN runners : runners[r].thread \in Committing

\* What the main thread, which answers PersistentSave(), does next.
SaveStep ==
  \/ /\ saving = "access" /\ hint
     /\ saving' = "commit"
     /\ raced' = (raced \/ SomeoneCommits)
     /\ UNCHANGED <<hint, made>>
  \/ /\ saving = "access" /\ ~hint
     /\ saving' = "no"
     /\ UNCHANGED <<hint, made, raced>>
  \/ /\ saving = "commit" /\ hint
     /\ saving' = "create"
     /\ UNCHANGED <<hint, made, raced>>
  \/ \* AssertionError: the other thread is done.
     /\ saving = "commit" /\ ~hint
     /\ saving' = "no"
     /\ UNCHANGED <<hint, made, raced>>
  \/ /\ saving = "create"
     /\ made' = made + 1 /\ hint' = FALSE
     /\ saving' = "no"
     /\ UNCHANGED raced

PersistentSave ==
  /\ SaveStep
  /\ UNCHANGED <<client_vars, inbox, request, updating, session_vars, runners, unheard>>

\* The same in the thread of a job.
AccessStep(r) ==
  LET at == runners[r].thread
      Go(to) == runners' = [runners EXCEPT ![r].thread = to]
  IN  \/ /\ at = "access" /\ hint
         /\ Go("commit")
         /\ raced' = (raced \/ SomeoneCommits)
         /\ UNCHANGED <<hint, made>>
      \/ /\ at = "access" /\ ~hint
         /\ runners' = [runners EXCEPT ![r].thread = "check", ![r].dir = made]
         /\ UNCHANGED <<hint, made, raced>>
      \/ /\ at = "commit" /\ hint
         /\ Go("create")
         /\ UNCHANGED <<hint, made, raced>>
      \/ \* AssertionError
         /\ at = "commit" /\ ~hint
         /\ Go("done")
         /\ UNCHANGED <<hint, made, raced>>
      \/ /\ at = "create"
         /\ made' = made + 1 /\ hint' = FALSE
         /\ runners' = [runners EXCEPT ![r].thread = "check", ![r].dir = made + 1]
         /\ UNCHANGED raced

AccessSessionDir(r) ==
  /\ AccessStep(r)
  /\ UNCHANGED <<client_vars, inbox, request, updating, session_vars, unheard, saving>>

-----------------------------------------------------------------------------
(* RunningJob and the threads of the service.                              *)

JobResultAvailable(job, res) ==
  /\ inbox' = Append(inbox, [kind |-> "result", job |-> job, result |-> res])
  /\ UNCHANGED unheard

\* The client listens to this signal in the second phase only.
AskForOutcome(r) ==
  /\ inbox' = IF phase = "all" THEN Append(inbox, [kind |-> "ask", runner |-> r])
              ELSE inbox
  /\ unheard' = (unheard \/ phase = "local")

ThreadEnds(r) == runners' = [runners EXCEPT ![r].thread = "done"]

\* job_state.can_start(), read while the main thread may be changing it.
CanStart(r) == updating \/ runners[r].job \in ready

\* Mutant of CheckJob: a job that cannot start has no result.
CheckAndEnd(r) ==
  /\ runners[r].thread = "check"
  /\ \/ /\ CanStart(r)
        /\ runners' = [runners EXCEPT ![r].thread = "run"]
     \/ /\ updating \/ ~CanStart(r)
        /\ ThreadEnds(r)
  /\ UNCHANGED <<client_vars, inbox, request, updating, session_vars, unheard,
                 storage_vars>>

\* Service._run() in the thread that run_job() has started.
CheckJob(r) ==
  /\ runners[r].thread = "check"
  /\ \/ /\ CanStart(r)
        /\ runners' = [runners EXCEPT ![r].thread = "run"]
        /\ UNCHANGED <<inbox, unheard>>
     \/ /\ updating \/ ~CanStart(r)
        /\ ThreadEnds(r)
        /\ JobResultAvailable(runners[r].job, Own("not-supported"))
  /\ UNCHANGED <<client_vars, request, updating, session_vars, storage_vars>>

\* The callback that asks for the outcome of an interactive job returns None,
\* so that there is no result to report yet.  A command whose IO log cannot
\* be opened ends the thread with an exception, and nobody is told.
RunJobThread(r) ==
  /\ runners[r].thread = "run"
  /\ ThreadEnds(r)
  /\ \/ Plugin[runners[r].job] = "manual" /\ AskForOutcome(r)
     \/ /\ Plugin[runners[r].job] # "manual" /\ runners[r].dir # made
        /\ UNCHANGED <<inbox, unheard>>
     \/ /\ Plugin[runners[r].job] # "manual" /\ runners[r].dir = made
        /\ \E outcome \in {"pass", "fail"} :
             JobResultAvailable(runners[r].job, Own(outcome))
  /\ UNCHANGED <<client_vars, request, updating, session_vars, storage_vars>>

\* _run_command() and _command_callback() in the thread of RunCommand().
CommandEnds(r) ==
  /\ runners[r].commands > 0
  /\ runners' = [runners EXCEPT ![r].commands = @ - 1]
  /\ AskForOutcome(r)
  /\ UNCHANGED <<client_vars, request, updating, session_vars, storage_vars>>

-----------------------------------------------------------------------------
(* The client.                                                             *)

\* A call that is waited for is answered after those that came before it.
CanCall == request = <<>>

NewRunner(job) ==
  [job |-> job, thread |-> "access", dir |-> 0, commands |-> 0, ran |-> 0,
   outcome |-> "none"]

\* The job at the head of the list, and service.RunJob() of it.
RunNext(list) ==
  /\ run_list' = Tail(list)
  /\ current_job_path' = Head(list)
  /\ runners' = Append(runners, NewRunner(Head(list)))

\* run_jobs() looks the job up under another name than that of the service
\* (dbus-mini-client.py:268), which raises unless somebody owns it, and
\* show_results() gets the map of all jobs, which needs their wrappers.
RunJobs(list) ==
  \/ /\ list # <<>>
     /\ RunNext(list)
     /\ client' = "waiting"
  \/ /\ list # <<>>
     /\ run_list' = Tail(list) /\ current_job_path' = Head(list)
     /\ client' = "no_name"
     /\ UNCHANGED runners
  \/ /\ list = <<>>
     /\ client' = IF known' \subseteq wrapped' THEN "results" ELSE "no_wrapper"
     /\ UNCHANGED <<run_list, current_job_path, runners>>

\* The end of run_local_jobs(): updates the desired jobs, which wraps those
\* that were generated, gets all jobs, and updates the desired jobs again.
AllJobs ==
  /\ UpdateDesiredJobList(whitelist \cap known)
  /\ phase' = "all"
  /\ RunJobs(RunListOf(whitelist \cap known))

RunLocalJobs(list) ==
  \/ /\ list # <<>>
     /\ RunNext(list)
     /\ client' = "waiting"
     /\ UNCHANGED <<phase, session_vars>>
  \/ /\ list = <<>>
     /\ AllJobs

\* main() goes on with PersistentSave() when its first job has been started.
Main ==
  /\ client = "start"
  /\ LET desired == {j \in whitelist \cap known : Plugin[j] = "local"}
     IN  \/ /\ RunListOf(desired) # <<>>
            /\ UpdateDesiredJobList(desired)
            /\ RunNext(RunListOf(desired))
            /\ client' = "waiting"
            /\ UNCHANGED phase
         \/ /\ RunListOf(desired) = <<>>
            /\ AllJobs
  /\ saving' = IF client' \in {"waiting", "results"} THEN "access" ELSE "no"
  /\ UNCHANGED <<whitelist, runner_asked, inbox, request, updating, unheard, hint, made,
                 raced>>

Message(kind) ==
  /\ client = "waiting" /\ saving = "no"
  /\ inbox # <<>> /\ Head(inbox).kind = kind
  /\ inbox' = Tail(inbox)

HandleResult ==
  /\ Message("result")
  /\ request' = Append(request, [job |-> Head(inbox).job, result |-> Head(inbox).result,
                                 phase |-> phase])
  /\ UNCHANGED <<client_vars, updating, session_vars, runners, unheard, storage_vars>>

HandleReply ==
  /\ Message("reply") /\ CanCall
  /\ \/ Head(inbox).phase = "local" /\ RunLocalJobs(run_list)
     \/ /\ Head(inbox).phase = "all"
        /\ UNCHANGED <<phase, session_vars>>
        /\ RunJobs(run_list)
  /\ UNCHANGED <<whitelist, runner_asked, request, updating, unheard, storage_vars>>

HandleAsk ==
  /\ Message("ask") /\ CanCall
  /\ runner_asked' = Head(inbox).runner
  /\ client' = "asking"
  /\ UNCHANGED <<phase, run_list, current_job_path, whitelist, request, updating,
                 session_vars, runners, unheard, storage_vars>>

\* Whether there is a command is asked of the current job.
UserRunsCommand ==
  /\ client = "asking" /\ current_job_path \in HasCommand
  /\ runners[runner_asked].ran < MaxCommands
  /\ runners' = [runners EXCEPT ![runner_asked].commands = @ + 1,
                                ![runner_asked].ran = @ + 1]
  /\ client' = "waiting"
  /\ UNCHANGED <<phase, run_list, current_job_path, whitelist, runner_asked, inbox,
                 request, updating, session_vars, unheard, storage_vars>>

\* SetOutcome()
UserDecides ==
  /\ client = "asking"
  /\ \E outcome \in {"pass", "fail"} :
       runners' = [runners EXCEPT ![runner_asked].outcome = outcome]
  /\ JobResultAvailable(runners[runner_asked].job, OfRunner(runner_asked))
  /\ client' = "waiting"
  /\ UNCHANGED <<phase, run_list, current_job_path, whitelist, runner_asked, request,
                 updating, session_vars, storage_vars>>

-----------------------------------------------------------------------------
ServiceStep ==
  \/ BeginUpdateJobResult \/ FinishUpdateJobResult \/ PersistentSave
  \/ \E r \in DOMAIN runners :
       AccessSessionDir(r) \/ CheckJob(r) \/ RunJobThread(r) \/ CommandEnds(r)

ClientStep == Main \/ HandleResult \/ HandleReply \/ HandleAsk \/ UserDecides

Next == ServiceStep \/ ClientStep \/ UserRunsCommand

\* Jobs and commands end, and the user, who need not run a command, decides.
Spec == Init /\ [][Next]_vars /\ WF_vars(ServiceStep) /\ WF_vars(ClientStep)

-----------------------------------------------------------------------------
(* Correctness.                                                            *)

Running(r) == runners[r].thread = "run" \/ runners[r].commands > 0

\* The threads, calls, messages and questions that are under way.
UnderWay ==
  Len(inbox) + Len(request) + (IF client = "asking" THEN 1 ELSE 0)
    + Cardinality({r \in DOMAIN runners : runners[r].thread # "done"})
    + Cardinality({x \in (DOMAIN runners) \X (1..MaxCommands) :
                     x[2] <= runners[x[1]].commands})

\* Nothing but the order of messages keeps the unlocked session, the result
\* dictionaries and the IO logs from being used by two threads ("FIXME: we
\* need to keep track of this thread", highlevel.py:116): at any time one job,
\* one command, one question or one call is under way, and none when the
\* client ends and calls Exit() ("TODO: raise exception when job is in
\* progress", service.py:900).
OneThingAtATime ==
  UnderWay <= (IF client = "results" THEN 0 ELSE 1)

\* A job that is being run has all its direct dependencies passed, although
\* its thread reads its readiness without a lock.
RunsOnlyReady ==
  \A r \in DOMAIN runners :
    Running(r) => \A d \in Deps[runners[r].job] : Outcome(result[d]) = "pass"

\* "XXX: check if the job path actually matches the current_job_path"
\* (dbus-mini-client.py:238): every result, and every question, that reaches
\* the client is of the job that it is waiting for.
MessagesAreOfCurrentJob ==
  \A i \in DOMAIN inbox :
    /\ inbox[i].kind = "result" => inbox[i].job = current_job_path
    /\ inbox[i].kind = "ask" => runners[inbox[i].runner].job = current_job_path

\* The outcome of a job in the session changes with UpdateJobResult() only,
\* although the dictionary of a result is that of a RunningJob.
ReportedIsFinal ==
  [][\A j \in Names :
       Outcome(result[j]) # Outcome(result[j])' => result'[j] # result[j]]_vars

\* The results that are shown and exported: every job that was to be run has
\* one, generated jobs included.
AllHaveResults ==
  client = "results" =>
    /\ NeededBy(whitelist \cap known) \subseteq ToSet(session_run_list)
    /\ \A j \in ToSet(session_run_list) : Outcome(result[j]) # "none"

\* The jobs that may generate others too late for their wrappers: those that
\* are generated themselves, that are run for another job only, or that may have
\* been unsupported when the local jobs were run.
LateGenerators == Generated \cup (Names \ whitelist) \cup {j \in Names : Deps[j] # {}}

\* Once all jobs are being run, every job of the session has a wrapper, so
\* that its properties can be had ("internal error, unable to lookup object
\* wrapper", service.py:171), but for those of the late generators: only
\* UpdateDesiredJobList() wraps new jobs.
JobsHaveWrappers ==
  phase = "all" => known \ wrapped \subseteq UNION {Generates[g] : g \in LateGenerators}

\* A client that waits for nothing, with a job under way whose end nobody will
\* tell, has had the save of main() and the thread of the first job make the
\* session directory at the same time, or was not told of a question.
StuckForAReason ==
  client = "waiting" /\ saving = "no" /\ UnderWay = 0 => raced \/ unheard

\* The client gets to the results, unless the name of the service or a wrapper
\* fails it, or a job that a local job needs is interactive, whose question it
\* does not listen to yet, or the session directory is made twice.
ClientIsDone == client \in {"results", "no_name", "no_wrapper"} \/ unheard \/ raced
-----------------------------------------------------------------------------
(* The inductive invariant behind ServiceKeepsItsWord (PlainboxProofs).     *)

Newest == Len(runners)

Quiet(r) == runners[r].thread = "done" /\ runners[r].commands = 0

NobodyRuns == \A r \in DOMAIN runners : Quiet(r)

\* The one thing that is under way, in turn.
NothingIs ==
  NobodyRuns /\ inbox = <<>> /\ request = <<>> /\ ~updating /\ client # "asking"

JobIs ==
  /\ client = "waiting" /\ inbox = <<>> /\ request = <<>> /\ ~updating
  /\ Newest > 0 /\ runners[Newest].thread # "done" /\ runners[Newest].commands = 0
  /\ \A r \in DOMAIN runners : r < Newest => Quiet(r)

CommandIs ==
  /\ client = "waiting" /\ inbox = <<>> /\ request = <<>> /\ ~updating
  /\ Newest > 0 /\ runners[Newest].thread = "done"
  /\ runners[Newest].commands = 1 /\ runners[Newest].ran \in 1..MaxCommands
  /\ \A r \in DOMAIN runners : r < Newest => Quiet(r)

QuestionIs ==
  /\ client = "asking" /\ inbox = <<>> /\ request = <<>> /\ ~updating
  /\ NobodyRuns /\ Newest > 0 /\ runner_asked = Newest

MessageIs ==
  /\ client = "waiting" /\ Len(inbox) = 1 /\ request = <<>> /\ ~updating
  /\ NobodyRuns /\ Newest > 0

CallIs == client = "waiting" /\ inbox = <<>> /\ Len(request) = 1 /\ NobodyRuns /\ Newest > 0

OneIsUnderWay == NothingIs \/ JobIs \/ CommandIs \/ QuestionIs \/ MessageIs \/ CallIs

AskedOf(kind) == MessageIs /\ Head(inbox).kind = kind

\* The message or call that carries the result of the current job.
ReportIsRight(report) ==
  /\ report.job = current_job_path
  /\ Outcome(report.result) # "none"
  /\ Outcome(report.result) = "not-supported" => Deps[current_job_path] # {}

MessagesAreRight ==
  /\ client \in {"waiting", "asking"} => Newest > 0 /\ runners[Newest].job = current_job_path
  /\ AskedOf("result") => ReportIsRight(Head(inbox))
  /\ AskedOf("ask") => Head(inbox).runner = Newest
  /\ AskedOf("reply") => Head(inbox).phase = phase
  /\ CallIs => Head(request).phase = phase /\ ReportIsRight(Head(request))

\* The session directory is made twice at most, and not under a running job
\* unless two threads were at it.
MakingGoesOn ==
  /\ hint => made = 0
  /\ made + (IF saving = "create" THEN 1 ELSE 0)
       + (IF Newest > 0 /\ runners[1].thread = "create" THEN 1 ELSE 0) <= 2
  /\ \A r \in DOMAIN runners : r > 1 => runners[r].thread \notin Committing
  /\ client = "start" => saving = "no" /\ runners = <<>>
  /\ client \in {"waiting", "asking"} /\ saving = "no" => ~hint
  /\ Newest > 1 => saving = "no" /\ ~hint

NobodyRaced ==
  ~raced =>
    /\ saving \in Committing => hint
    /\ \A r \in DOMAIN runners :
         /\ runners[r].thread \in Committing => hint /\ saving \notin Committing
         /\ runners[r].thread \in {"check", "run"} => ~hint /\ runners[r].dir = made

\* The current job is being run, or asked about: its dependencies have passed,
\* and its result is still to come.
IsRunning ==
  \/ (JobIs /\ runners[Newest].thread = "run")
  \/ CommandIs \/ QuestionIs \/ AskedOf("ask")

DecidedBefore(j) == result[j].runner < Newest

ResultsAreFinal ==
  /\ \A r \in DOMAIN runners : runners[r].outcome # "not-supported"
  /\ \A j \in Names : result[j].runner # 0 => Outcome(result[j]) # "none"
  /\ JobIs \/ IsRunning => \A j \in Names : result[j].runner # 0 => DecidedBefore(j)

ReadinessIsKept ==
  /\ ~updating => ready = Recompute(session_run_list, result)
  /\ IsRunning => \A d \in Deps[current_job_path] : Outcome(result[d]) = "pass"

\* The result of the current job is in the session.
Settled == client = "results" \/ (CallIs /\ updating) \/ AskedOf("reply")

\* The local jobs that are run, and can start, in the first phase.
GeneratesFirst(j) == Plugin[j] = "local" /\ j \notin LateGenerators

ListsAreKept ==
  /\ client # "start" => ToSet(run_list) \subseteq ToSet(session_run_list)
  /\ client \in {"waiting", "asking"} => current_job_path \in ToSet(session_run_list)
  /\ \A j \in Names : GeneratesFirst(j) =>
       \/ Generates[j] \subseteq known
       \/ client = "start"
       \/ phase = "local" /\ (j \in ToSet(run_list) \/ (j = current_job_path /\ ~Settled))
  /\ Names \ Generated \subseteq known
  /\ client = "start" => known = Names \ Generated /\ phase = "local" /\ run_list = <<>>
  /\ phase = "all" =>
       /\ session_run_list = RunListOf(whitelist \cap wrapped)
       /\ \A j \in ToSet(session_run_list) :
            \/ j \in ToSet(run_list)
            \/ Outcome(result[j]) # "none"
            \/ (j = current_job_path /\ ~Settled)
  /\ client = "results" => phase = "all" /\ known = wrapped /\ run_list = <<>>

IInv ==
  /\ TypeOK /\ OneIsUnderWay /\ MessagesAreRight /\ MakingGoesOn /\ NobodyRaced
  /\ ResultsAreFinal /\ ReadinessIsKept /\ ListsAreKept /\ JobsHaveWrappers
  /\ client = "waiting" /\ NothingIs => raced \/ unheard
=============================================================================
