--------------------------- MODULE SessionResume ---------------------------
(***************************************************************************)
(* A session that is suspended at any time and resumed by a new process    *)
(* (plainbox/impl/session/suspend.py, plainbox/impl/session/resume.py).    *)
(*                                                                         *)
(* Definitions of jobs are not saved: a resumed session starts from the    *)
(* jobs the first one was given, and from the saved results, which are     *)
(* presented to it again, in alphabetical order, so that local jobs        *)
(* generate their jobs and resource jobs their resources once more.  A     *)
(* result of a job that is not known yet is left over for another round.   *)
(*                                                                         *)
(* The session itself is that of SessionState, used here in the way the    *)
(* run command does: requests and results, but no add_job().               *)
(***************************************************************************)
EXTENDS SessionState

VARIABLES
  given,         \* the jobs that every process is started with
  io_log,        \* the IO log of the result of each job
  mode,          \* of the process, see ResumeTypeOK
  saved,         \* what was suspended: {} or a singleton
  todo,          \* the names that this pass has still to process
  leftover_jobs, \* those that it could not process
  leftover_shrunk

resume == <<mode, saved, todo, leftover_jobs, leftover_shrunk>>
resume_vars == <<vars, given, io_log, resume>>

\* The log of a result: what it says, and whether it is a DiskJobResult that
\* has no file for it (a manual job whose command was not run).
Log(output, no_file) == [output |-> output, no_file |-> no_file]

EmptyLog(job) == Log(IF job.plugin = "resource" THEN {} ELSE <<>>, FALSE)

ResumeTypeOK ==
  /\ TypeOK
  /\ given \in InitialMaps
  /\ DOMAIN io_log = DOMAIN job_state_map
  /\ mode \in {"live", "replaying", "selecting", "corrupted", "incompatible"}
  /\ todo \in Seq(Names) /\ leftover_jobs \in Seq(Names)
  /\ leftover_shrunk \in BOOLEAN

-----------------------------------------------------------------------------
NewStates(map) == [n \in DOMAIN map |-> NewJobState(map[n])]

NewLogs(map) == [n \in DOMAIN map |-> EmptyLog(map[n])]

ResumeInit ==
  /\ given \in InitialMaps
  /\ job_state_map = NewStates(given) /\ io_log = NewLogs(given)
  /\ desired_job_list = <<>> /\ run_list = <<>>
  /\ resource_map = [n \in {} |-> {}]
  /\ phase = "idle" /\ solver = StartSolver(<<>>)
  /\ problems = <<>> /\ requested = <<>> /\ stale = {}
  /\ mode = "live" /\ saved = {}
  /\ todo = <<>> /\ leftover_jobs = <<>> /\ leftover_shrunk = TRUE

\* Mutant of PresentResult: jobs that it generates get no result.
PresentForgetting(n, outcome, log) ==
  /\ UpdateJobResult(n, outcome, log.output)
  /\ io_log' = [io_log EXCEPT ![n] = log]
  /\ UNCHANGED given

\* update_job_result(); the jobs it generates have a result without a log.
PresentResult(n, outcome, log) ==
  /\ UpdateJobResult(n, outcome, log.output)
  /\ io_log' = [m \in DOMAIN job_state_map' |->
                  IF m = n THEN log
                  ELSE IF m \in DOMAIN io_log THEN io_log[m]
                  ELSE EmptyLog(job_state_map'[m].job)]
  /\ UNCHANGED given

-----------------------------------------------------------------------------
(* The session is used.                                                    *)

Request ==
  /\ mode = "live"
  /\ \E jobs \in JobLists : UpdateDesiredJobList(jobs)
  /\ UNCHANGED <<given, io_log, resume>>

\* Inside update_desired_job_list(), also when resume() has called it.
UpdateGoesOn ==
  /\ UpdateStep
  /\ UNCHANGED <<given, io_log, resume>>

Result ==
  /\ mode = "live"
  /\ \E n \in DOMAIN job_state_map, outcome \in Outcomes :
       LET job == job_state_map[n].job
       IN  \E output \in Outputs(job),
              no_file \in IF job.plugin = "manual" THEN BOOLEAN ELSE {FALSE} :
             PresentResult(n, outcome, Log(output, no_file))
  /\ UNCHANGED resume

-----------------------------------------------------------------------------
(* suspend(), the end of the process, and resume() by another one.         *)

\* The last four fields are not saved: history, to compare the sessions.
Representation ==
  [jobs     |-> JobMap(job_state_map),
   outcome  |-> [n \in DOMAIN job_state_map |-> job_state_map[n].outcome],
   io_log   |-> io_log,
   desired  |-> [i \in DOMAIN desired_job_list |-> desired_job_list[i].name],
   run_list |-> run_list,
   resources |-> resource_map,
   ready    |-> {n \in DOMAIN job_state_map : CanStart(job_state_map[n])},
   phase    |-> phase]

Suspend ==
  /\ mode = "live" /\ phase # "solving"
  /\ saved' = {Representation}
  /\ mode' = "replaying"
  /\ todo' = Sorted(DOMAIN job_state_map)
  /\ leftover_jobs' = <<>> /\ leftover_shrunk' = TRUE
  /\ job_state_map' = NewStates(given) /\ io_log' = NewLogs(given)
  /\ desired_job_list' = <<>> /\ run_list' = <<>>
  /\ resource_map' = [n \in {} |-> {}]
  /\ phase' = "idle" /\ stale' = {}
  /\ UNCHANGED <<given, solver, problems, requested>>

Processing(n) == mode = "replaying" /\ todo # <<>> /\ n = Head(todo)

\* KeyError: the job is not known, or not yet.
LeaveJob(n) ==
  /\ Processing(n)
  /\ n \notin DOMAIN job_state_map
  /\ leftover_jobs' = Append(leftover_jobs, n)
  /\ todo' = Tail(todo)
  /\ UNCHANGED <<vars, given, io_log, mode, saved, leftover_shrunk>>

\* The checksum differs from the saved one.
RejectJob(n) ==
  /\ Processing(n)
  /\ n \in DOMAIN job_state_map
  /\ \E s \in saved : job_state_map[n].job # s.jobs[n]
  /\ mode' = "incompatible"
  /\ UNCHANGED <<vars, given, io_log, saved, todo, leftover_jobs, leftover_shrunk>>

\* The name of the log of a DiskJobResult has to be a string.
RejectResult(n) ==
  /\ Processing(n)
  /\ n \in DOMAIN job_state_map
  /\ \E s \in saved : job_state_map[n].job = s.jobs[n] /\ s.io_log[n].no_file
  /\ mode' = "corrupted"
  /\ UNCHANGED <<vars, given, io_log, saved, todo, leftover_jobs, leftover_shrunk>>

ProcessJob(n) ==
  /\ Processing(n)
  /\ n \in DOMAIN job_state_map
  /\ \E s \in saved :
       /\ job_state_map[n].job = s.jobs[n] /\ ~s.io_log[n].no_file
       /\ PresentResult(n, s.outcome[n], s.io_log[n])
  /\ todo' = Tail(todo)
  /\ leftover_shrunk' = TRUE
  /\ UNCHANGED <<mode, saved, leftover_jobs>>

PassEnds == mode = "replaying" /\ todo = <<>>

\* Mutants of NextRound: leftovers are kept; rounds that make no progress.
NextRoundKeeping ==
  /\ PassEnds /\ leftover_jobs # <<>> /\ leftover_shrunk
  /\ todo' = leftover_jobs
  /\ leftover_shrunk' = FALSE
  /\ UNCHANGED <<vars, given, io_log, mode, saved, leftover_jobs>>

NextRoundAnyway ==
  /\ PassEnds /\ leftover_jobs # <<>>
  /\ todo' = leftover_jobs
  /\ leftover_jobs' = <<>> /\ leftover_shrunk' = FALSE
  /\ UNCHANGED <<vars, given, io_log, mode, saved>>

NextRound ==
  /\ PassEnds /\ leftover_jobs # <<>> /\ leftover_shrunk
  /\ todo' = leftover_jobs
  /\ leftover_jobs' = <<>> /\ leftover_shrunk' = FALSE
  /\ UNCHANGED <<vars, given, io_log, mode, saved>>

NoProgress ==
  /\ PassEnds /\ leftover_jobs # <<>> /\ ~leftover_shrunk
  /\ mode' = "corrupted"
  /\ UNCHANGED <<vars, given, io_log, saved, todo, leftover_jobs, leftover_shrunk>>

\* Every name that was saved has been processed, those of desired jobs too:
\* looking them up cannot fail.
RestoreDesiredJobs ==
  /\ PassEnds /\ leftover_jobs = <<>>
  /\ \E s \in saved :
       UpdateDesiredJobList(
         [i \in DOMAIN s.desired |-> job_state_map[s.desired[i]].job])
  /\ mode' = "selecting"
  /\ UNCHANGED <<given, io_log, saved, todo, leftover_jobs, leftover_shrunk>>

\* resume() has returned and the session is used.
Continue ==
  /\ mode = "selecting" /\ phase = "idle"
  /\ mode' = "live" /\ saved' = {}
  /\ UNCHANGED <<vars, given, io_log, todo, leftover_jobs, leftover_shrunk>>

ResumeStep ==
  \/ \E n \in Names : LeaveJob(n) \/ RejectJob(n) \/ RejectResult(n) \/ ProcessJob(n)
  \/ NextRound \/ NoProgress \/ RestoreDesiredJobs

ResumeNext == Request \/ UpdateGoesOn \/ Result \/ Suspend \/ ResumeStep \/ Continue

\* resume() and update_desired_job_list() run until they return.
ResumeSpec ==
  ResumeInit /\ [][ResumeNext]_resume_vars
    /\ WF_resume_vars(ResumeStep) /\ WF_resume_vars(UpdateGoesOn)

-----------------------------------------------------------------------------
(* Correctness.                                                            *)

Resumed == mode = "selecting" /\ phase = "idle"

\* resume() "re-creates a similar-but-not-identical SessionState"
\* (session/resume.py:133): the same jobs and results, generated ones
\* included, and, unless the last request had raised, the same jobs desired, in
\* the same order to run, and the same jobs ready.  What is not identical: a
\* resource job that has not run has found nothing; and a request that raised
\* may be met, now that a missing job has been generated.
ResumedIsSaved ==
  Resumed =>
    \A s \in saved :
      /\ JobMap(job_state_map) = s.jobs
      /\ \A n \in DOMAIN s.jobs : job_state_map[n].outcome = s.outcome[n]
      /\ s.phase = "idle" =>
           /\ run_list = s.run_list
           /\ [i \in DOMAIN desired_job_list |-> desired_job_list[i].name] = s.desired
           /\ {n \in DOMAIN s.jobs : CanStart(job_state_map[n])} = s.ready
      /\ \A n \in DOMAIN s.resources : resource_map[n] = s.resources[n]
      /\ \A n \in DOMAIN resource_map \ DOMAIN s.resources : resource_map[n] = {}

\* While results are replayed each saved one is still to come exactly once or
\* is back in the session, and stays there.
NothingIsSkipped ==
  mode = "replaying" =>
    LET queue == todo \o leftover_jobs
    IN  /\ IsInjective(queue)
        /\ \A s \in saved : \A n \in DOMAIN s.jobs \ ToSet(queue) :
             /\ job_state_map[n].job = s.jobs[n]
             /\ job_state_map[n].outcome = s.outcome[n]
             /\ io_log[n] = s.io_log[n]

\* What the saved logs say of a name, and the names that the logs explain.
Definitions(s, n) ==
  UNION {{job \in ToSet(s.io_log[l].output) : job.name = n} :
           l \in {m \in DOMAIN s.jobs : s.jobs[m].plugin = "local"}}

Explained(s) ==
  {n \in DOMAIN s.jobs : \A S \in SUBSET DOMAIN s.jobs :
     /\ DOMAIN given \subseteq S
     /\ \A l \in S : s.jobs[l].plugin = "local" =>
          \A job \in ToSet(s.io_log[l].output) : job.name \in S
     => n \in S}

\* resume() refuses a session only if a local job printed a definition that
\* was not the one the session took, if a log has no file, or if no log that
\* is left generates a job: otherwise neither the order of the replay nor the
\* depth to which jobs generate jobs matters.
RefusedForAReason ==
  \A s \in saved :
    /\ mode = "incompatible" =>
         \E n \in DOMAIN s.jobs : Definitions(s, n) \ {s.jobs[n]} # {}
    /\ mode = "corrupted" =>
         \/ \E n \in DOMAIN s.jobs : s.io_log[n].no_file
         \/ Explained(s) # DOMAIN s.jobs
    /\ mode = "selecting" /\ phase = "raised" => s.phase = "raised"

\* resume() gives back what was saved, skips no result on its way there, and
\* refuses only what it has a reason to refuse.
ResumeIsFaithful == ResumedIsSaved /\ NothingIsSkipped /\ RefusedForAReason

\* resume() ends, however deep jobs generate jobs and even if some have no
\* job that generates them.
ResumeEnds == (mode = "replaying") ~> (mode # "replaying" /\ phase # "solving")

\* ":raises IncompatibleJobError: if serialized jobs are not the same as
\* current jobs" (session/resume.py:144-145): they are the same when each was
\* given to the session or is what a saved log says.
NotIncompatible ==
  mode = "incompatible" =>
    \E s \in saved : \E n \in DOMAIN s.jobs \ DOMAIN given :
      s.jobs[n] \notin Definitions(s, n)

-----------------------------------------------------------------------------
(* The inductive invariant behind the theorems of SessionResumeProofs.     *)

\* A log of a job, by what the output of the job is read as.
IsLog(log, job) ==
  /\ log = Log(log.output, log.no_file) /\ log.no_file \in BOOLEAN
  /\ CASE job.plugin = "resource" -> log.output \in SUBSET Records
       [] job.plugin = "local" -> log.output \in Seq(JobDefs)
       [] OTHER -> log.output = <<>>

\* The logs still say what has been made of them: the jobs that the log of a
\* local job generates are known, and the resources are those of the logs.
LogsAreFollowed(jobs, logs, resources) ==
  /\ DOMAIN logs = DOMAIN jobs
  /\ \A n \in DOMAIN jobs :
       /\ IsLog(logs[n], jobs[n])
       /\ jobs[n].plugin = "local" =>
            \A i \in DOMAIN logs[n].output : logs[n].output[i].name \in DOMAIN jobs
       /\ jobs[n].plugin = "resource" =>
            logs[n].output = IF n \in DOMAIN resources THEN resources[n] ELSE {}
  /\ \A r \in DOMAIN resources : r \in DOMAIN jobs /\ jobs[r].plugin = "resource"

GivenAreKept(jobs) ==
  \A n \in DOMAIN given : n \in DOMAIN jobs /\ jobs[n] = given[n]

\* What is saved is a session, and its readiness that of its run list.
IsSaved(s) ==
  /\ s.jobs \in [DOMAIN s.jobs -> JobDefs] /\ DOMAIN s.jobs \subseteq Names
  /\ \A n \in DOMAIN s.jobs : s.jobs[n].name = n
  /\ \A n \in DOMAIN s.jobs : s.outcome[n] \in Outcomes
  /\ DOMAIN s.resources \subseteq Names
  /\ s.resources \in [DOMAIN s.resources -> SUBSET Records]
  /\ LogsAreFollowed(s.jobs, s.io_log, s.resources)
  /\ GivenAreKept(s.jobs)
  /\ s.desired \in Seq(DOMAIN s.jobs)
  /\ s.phase \in {"idle", "raised"}
  /\ s.phase = "idle" =>
       s.ready = {n \in DOMAIN s.jobs :
                    /\ \E i \in DOMAIN s.run_list : s.run_list[i].name = n
                    /\ \A d \in s.jobs[n].direct :
                         d \in DOMAIN s.jobs /\ s.outcome[d] = "pass"
                    /\ ProgramHolds(s.jobs[n], s.resources)}

\* The saved jobs that the replay is done with.
Replayed(s) == DOMAIN s.jobs \ ToSet(todo \o leftover_jobs)

\* While results are replayed: there are no jobs but saved ones, each as given
\* or as a saved log has it; the resources of results are back; and a pass that
\* has made no progress has left only unknown jobs.
ReplayIsOfSaved(s) ==
  /\ phase = "idle" /\ desired_job_list = <<>> /\ run_list = <<>>
  /\ DOMAIN job_state_map \subseteq DOMAIN s.jobs
  /\ ToSet(todo \o leftover_jobs) \subseteq DOMAIN s.jobs
  /\ \A n \in DOMAIN job_state_map \ DOMAIN given :
       job_state_map[n].job \in Definitions(s, n)
  /\ \A n \in Replayed(s) :
       /\ n \in DOMAIN job_state_map
       /\ s.jobs[n].plugin = "resource" => n \in DOMAIN resource_map
  /\ ~leftover_shrunk =>
       \A i \in DOMAIN leftover_jobs : leftover_jobs[i] \notin DOMAIN job_state_map

\* When the jobs are selected again everything else is back.
SelectionIsOfSaved(s) ==
  /\ JobMap(job_state_map) = s.jobs
  /\ \A n \in DOMAIN s.jobs : job_state_map[n].outcome = s.outcome[n]
  /\ \A n \in DOMAIN s.resources :
       n \in DOMAIN resource_map /\ resource_map[n] = s.resources[n]
  /\ \A n \in DOMAIN resource_map \ DOMAIN s.resources : resource_map[n] = {}
  /\ s.phase = "idle" =>
       /\ phase # "raised"
       /\ desired_job_list = [i \in DOMAIN s.desired |-> s.jobs[s.desired[i]]]

\* The session, of whichever process.
SessionIsKept ==
  /\ phase = "idle" => stale = {}
  /\ phase # "solving" => problems = <<>>
  /\ LogsAreFollowed(JobMap(job_state_map), io_log, resource_map)
  /\ GivenAreKept(JobMap(job_state_map))

\* The one that was suspended.
SavedIsKept ==
  /\ mode \notin {"live", "selecting"} => phase = "idle"
  /\ saved = {} <=> mode = "live"
  /\ \A s, t \in saved : s = t
  /\ \A s \in saved : IsSaved(s)

ReplayIsKept ==
  mode = "replaying" => NothingIsSkipped /\ \A s \in saved : ReplayIsOfSaved(s)

SelectionIsKept ==
  mode = "selecting" => \A s \in saved : SelectionIsOfSaved(s)

ReplayInv == SessionIsKept /\ SavedIsKept /\ ReplayIsKept /\ SelectionIsKept
=============================================================================
