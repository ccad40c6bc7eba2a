---------------------------- MODULE JobExecution ----------------------------
(***************************************************************************)
(* How plainbox runs a job: what JobRunner (plainbox/impl/runner.py) makes *)
(* of jobs of every kind, and how the trusted launcher finds the job that  *)
(* it is to run as another user. The two share no state; each has its own  *)
(* variables, initial states and steps.                                    *)
(***************************************************************************)
EXTENDS Naturals, FiniteSets

-----------------------------------------------------------------------------
(***************************************************************************)
(* What JobRunner (plainbox/impl/runner.py) makes of a job: a result, and  *)
(* for a job with a command the file of its IO log, which the result only  *)
(* names (plainbox/impl/result.py).  A saved session keeps the name, too   *)
(* (session/suspend.py), and the results are built from it again           *)
(* (session/resume.py).                                                    *)
(*                                                                         *)
(* The name of the file is made from the name of the job by slugify(), so  *)
(* that two jobs may have the same.  A file is written while the command   *)
(* runs; if the process is killed then, gzip cannot read it to the end, or *)
(* nothing of it was written yet and it reads as an empty one.  Runs are   *)
(* numbered, and a log is the run that wrote it, the number of its records *)
(* and what became of the file.                                            *)
(***************************************************************************)

CONSTANTS
  JobSets,     \* what a session may consist of: sets of jobs, records with a
               \* name, a plugin, whether there is a command, and the file that
               \* slugify() makes of the name
  MaxRuns,     \* bound: the number of commands that are run
  MaxRecords,  \* bound: the records of a log
  MaxDeaths    \* bound: how often the process ends

VARIABLES
  runner_jobs,        \* of the session
  dry_run, callback,  \* arguments of JobRunner: whether there is one
  results,     \* of the session: a function from jobs to results
  answers,     \* the result that the user is being asked for
  at,          \* what the process does, see RunnerTypeOK
  runner_job,         \* and with which job
  disk,        \* the logs
  saved,       \* the results in the last checkpoint
  runs, deaths, killed  \* history: runs, ends of the process, and the runs
               \* during which it was killed

runner_vars == <<runner_jobs, dry_run, callback, results, answers, at, runner_job, disk, saved,
  runs, deaths, killed>>

DryRunPlugins == {"local", "resource", "attachment"}

Automated == {"shell"} \cup DryRunPlugins

Interactive == {"manual", "user-interact", "user-verify"}

Outcomes ==
  {"none", "pass", "fail", "skip", "not-supported", "not-implemented", "undecided"}

Files == {j.file : j \in UNION JobSets}

\* io_log_filename: a file, None, or the tuple () of a job without a command.
Names == Files \cup {"none", "tuple"}

\* run and records tell what the log was when the result was made.
Result(disk_result, outcome, code, file, run, records) ==
  [disk |-> disk_result, outcome |-> outcome, return_code |-> code,
   io_log_filename |-> file, run |-> run, records |-> records]

NoResult == Result(FALSE, "none", "none", "none", 0, 0)

Log(run, records, file) == [run |-> run, records |-> records, file |-> file]

RunnerTypeOK ==
  /\ runner_jobs \in JobSets
  /\ {dry_run, callback} \subseteq BOOLEAN
  /\ \A r \in {results[j] : j \in runner_jobs} \cup {saved[j] : j \in runner_jobs} \cup {answers} :
       /\ r.outcome \in Outcomes /\ r.return_code \in {"none", "zero", "other"}
       /\ r.io_log_filename \in Names
  /\ at \in {"idle", "asking", "running", "testing", "down", "corrupted", "unreadable"}
  /\ runner_job \in runner_jobs
  /\ \A f \in Files : disk[f].file \in {"open", "whole", "cut", "empty"}

RunnerInit ==
  /\ runner_jobs \in JobSets
  /\ dry_run \in BOOLEAN /\ callback \in BOOLEAN
  /\ results = [j \in runner_jobs |-> NoResult] /\ answers = NoResult
  /\ at = "idle" /\ runner_job = (CHOOSE j \in runner_jobs : j.command)
  /\ disk = [f \in Files |-> Log(0, 0, "whole")]
  /\ saved = results /\ runs = 0 /\ deaths = 0 /\ killed = {}

-----------------------------------------------------------------------------
(* run_job()                                                               *)

Store(j, r) == results' = [results EXCEPT ![j] = r] /\ at' = "idle"

\* What needs no command and nobody's answer: a plugin that is not supported,
\* a dry run, a manual job when there is no callback, a missing command.
ResultAtOnce(j) ==
  IF j.plugin \notin Automated \cup Interactive
  THEN {Result(FALSE, "not-implemented", "none", "none", 0, 0)}
  ELSE IF dry_run /\ j.plugin \notin DryRunPlugins
  THEN {Result(FALSE, "skip", "none", "none", 0, 0)}
  ELSE IF j.plugin \in Interactive /\ ~callback
  THEN {Result(TRUE, "undecided", "none", "none", 0, 0)}
  ELSE IF j.plugin \in Automated /\ ~j.command
  THEN {Result(TRUE, "fail", "none", "tuple", 0, 0)}
  ELSE {}

\* _run_command() opens the log, which empties it.
OpenLog(j) == disk' = [disk EXCEPT ![j.file] = Log(runs + 1, 0, "open")]

OpenRun(j, where) ==
  /\ runs < MaxRuns /\ runs' = runs + 1
  /\ at' = where
  /\ OpenLog(j)

RunJob(j) ==
  /\ at = "idle" /\ runner_job' = j
  /\ \/ \E r \in ResultAtOnce(j) :
          Store(j, r) /\ UNCHANGED <<answers, disk, runs>>
     \/ /\ ResultAtOnce(j) = {} /\ j.plugin \in Interactive
        /\ at' = "asking"
        /\ answers' = Result(TRUE, "undecided", "none", "none", 0, 0)
        /\ UNCHANGED <<results, disk, runs>>
     \/ /\ ResultAtOnce(j) = {} /\ j.plugin \in Automated
        /\ OpenRun(j, "running")
        /\ UNCHANGED <<results, answers>>
  /\ UNCHANGED <<runner_jobs, dry_run, callback, saved, deaths, killed>>

\* A line of output is a record of the log.
OnLine ==
  /\ at \in {"running", "testing"} /\ disk[runner_job.file].records < MaxRecords
  /\ disk' = [disk EXCEPT ![runner_job.file].records = @ + 1]
  /\ UNCHANGED <<runner_jobs, dry_run, callback, results, answers, at, runner_job, saved, runs,
                 deaths, killed>>

\* Mutant of CloseLog: the result is made before the last line has come.
CloseLogEarly == disk' \in {disk, [disk EXCEPT ![runner_job.file].records = @ + 1]}

CloseLog == disk' = [disk EXCEPT ![runner_job.file].file = "whole"]

\* The command has ended, the log is closed.
End(code) ==
  /\ at \in {"running", "testing"}
  /\ CloseLog
  /\ LET outcome == IF code = "zero" THEN "pass" ELSE "fail"
         r == Result(TRUE, IF at = "running" THEN outcome ELSE "undecided", code, runner_job.file,
                     runs, disk[runner_job.file].records)
     IN  IF at = "running"
         THEN Store(runner_job, r) /\ UNCHANGED answers
         ELSE at' = "asking" /\ answers' = r /\ UNCHANGED results
  /\ UNCHANGED <<runner_jobs, dry_run, callback, runner_job, saved, runs, deaths, killed>>

\* The user asks for the command, any number of times, or gives the outcome.
Test ==
  /\ at = "asking" /\ runner_job.command
  /\ OpenRun(runner_job, "testing")
  /\ UNCHANGED <<runner_jobs, dry_run, callback, runner_job, results, answers, saved, deaths,
                 killed>>

Answer(outcome) ==
  /\ at = "asking"
  /\ Store(runner_job, [answers EXCEPT !.outcome = outcome])
  /\ UNCHANGED <<runner_jobs, dry_run, callback, runner_job, answers, disk, saved, runs, deaths,
                 killed>>

-----------------------------------------------------------------------------
(* Checkpoints, the end of the process and the next one.                   *)

Checkpoint ==
  /\ at = "idle" /\ saved # results /\ saved' = results
  /\ UNCHANGED <<runner_jobs, dry_run, callback, results, answers, at, runner_job, disk, runs,
                 deaths, killed>>

Stop ==
  /\ at \notin {"down", "corrupted", "unreadable"} /\ deaths < MaxDeaths
  /\ deaths' = deaths + 1 /\ at' = "down"
  /\ UNCHANGED <<runner_jobs, dry_run, callback, results, answers, runner_job, saved, runs>>

\* An exception ends run_job() and the program; the log is closed.
Interrupt ==
  /\ Stop /\ at \in {"running", "testing"}
  /\ CloseLog /\ UNCHANGED killed

Killed ==
  /\ Stop
  /\ IF at \in {"running", "testing"}
     THEN /\ \E file \in {"cut", "empty"} : disk' = [disk EXCEPT ![runner_job.file].file = file]
          /\ killed' = killed \cup {runs}
     ELSE UNCHANGED <<disk, killed>>

\* _build_JobResult(): a result that has the key io_log_filename needs a
\* string there, and _repr_DiskJobResult() always writes the key.
CanBuild(r) == r.disk => r.io_log_filename \in Files

\* Resources and generated jobs are read from the logs at once.
CanRead(j) ==
  j.plugin \in {"local", "resource"} /\ saved[j].io_log_filename \in Files =>
    disk[j.file].file # "cut"

\* Which of several jobs fails first depends on their names.
Resume ==
  /\ at = "down"
  /\ at' \in LET failures ==
                 (IF \E j \in runner_jobs : ~CanBuild(saved[j]) THEN {"corrupted"} ELSE {})
                   \cup (IF \E j \in runner_jobs : ~CanRead(j) THEN {"unreadable"} ELSE {})
            IN  IF failures = {} THEN {"idle"} ELSE failures
  /\ results' = IF at' = "idle" THEN saved ELSE results
  /\ answers' = NoResult
  /\ UNCHANGED <<runner_jobs, dry_run, callback, runner_job, disk, saved, runs, deaths, killed>>

RunnerNext ==
  \/ \E j \in runner_jobs : RunJob(j)
  \/ OnLine
  \/ \E code \in {"zero", "other"} : End(code)
  \/ Test \/ \E outcome \in {"pass", "fail", "skip"} : Answer(outcome)
  \/ Checkpoint \/ Interrupt \/ Killed \/ Resume

RunnerSpec == RunnerInit /\ [][RunnerNext]_runner_vars

-----------------------------------------------------------------------------
(* Correctness.                                                            *)

\* The log that a result names (runner.py:433-453) has every record of the
\* run that the result is of, until a job with the same slug is run; it is
\* never that of an earlier run.
LogIsOfResult ==
  \A j \in runner_jobs :
    LET r == results[j]
        log == disk[r.io_log_filename]
    IN  r.io_log_filename \in Files =>
          \/ log.run > r.run
          \/ log = Log(r.run, r.records, "whole")

\* A session cannot be resumed because of a log (state.py:500-520) only if the
\* process was killed while it ran the job of a saved result again, or one
\* with the same slug: an exception while a job runs does no harm.
UnreadableForAReason ==
  at = "unreadable" =>
    \E j \in runner_jobs :
      /\ saved[j].io_log_filename \in Files
      /\ disk[j.file].run > saved[j].run /\ disk[j.file].run \in killed

\* A session that was saved is refused as corrupted (resume.py:365-402) only
\* for a result that the runner made without running a command.
CorruptedForAReason ==
  at = "corrupted" =>
    \E j \in runner_jobs : saved[j].run = 0 /\ saved[j].outcome \notin {"none", "not-implemented"}

-----------------------------------------------------------------------------
(***************************************************************************)
(* How a job that needs another user is run (_run_extcmd() of              *)
(* plainbox/impl/runner.py): pkexec, which forgets the environment, and    *)
(* checkbox-trusted-launcher, which is given the checksum of the job and   *)
(* looks for its definition itself (plainbox/impl/secure/                  *)
(* checkbox_trusted_launcher.py).  A job that a local job has generated is *)
(* found by running the local job again; its checksum is the attribute     *)
(* `via' of the generated one (session/state.py, job.py).                  *)
(*                                                                         *)
(* A checksum is taken for the definition it is computed from.  What a     *)
(* local job prints depends on variables of its environment and on the     *)
(* machine.                                                                *)
(***************************************************************************)

CONSTANTS
  Provided,    \* the jobs of the provider: records with a name, a plugin, a
               \* user ("none": the one who runs plainbox) and environ, the
               \* variables that the job declares
  Upgrades,    \* the sets of jobs that an upgrade may replace them by
  Machines,    \* states of the machine
  Prints(_, _, _),  \* the jobs that a local job prints: of the job, its
               \* environment and the machine
  Vars,        \* variables that jobs may use, but for CHECKBOX_DATA
  Values,      \* their values, besides "unset"
  Splits       \* the values with an equals sign in them

VARIABLES
  source,      \* whether the provider is a source tree
  environ, config,  \* the variables of os.environ and of the configuration
  known,       \* job_state_map: [job, via], via {} or a singleton
  installed, machine,
  printed,     \* history: the local jobs that were run, and where
  last         \* what became of the last job that needs another user

launcher_vars == <<source, environ, config, known, installed, machine, printed, last>>

Settings == [Vars -> Values \cup {"unset"}]

Entry(job, via) == [job |-> job, via |-> via]

NoLaunch == [how |-> "none", job |-> {}, env |-> {}]

LauncherTypeOK ==
  /\ source \in BOOLEAN /\ environ \in Settings /\ config \in Settings
  /\ \A e \in known : Cardinality(e.via) <= 1
  /\ \A e, f \in known : e.job.name = f.job.name => e = f
  /\ installed \in {Provided} \cup Upgrades /\ machine \in Machines
  /\ last.how \in {"none", "ran", "not found", "raised"}

LauncherInit ==
  /\ source \in BOOLEAN /\ environ \in Settings /\ config \in Settings
  /\ known = {Entry(job, {}) : job \in Provided}
  /\ installed = Provided /\ machine \in Machines
  /\ printed = {} /\ last = NoLaunch

-----------------------------------------------------------------------------
(* The environment of a job, a partial one as a set of pairs.              *)

\* modify_execution_environment() of JobDefinition: variables of the
\* configuration do not override those of the environment.
ScriptEnv(with_config) ==
  [v \in Vars |-> IF environ[v] = "unset" /\ with_config THEN config[v] ELSE environ[v]]

\* _get_script_env(only_changes=True)
OnlyChanges(job, with_config) ==
  LET env == ScriptEnv(with_config)
  IN  {<<v, env[v]>> : v \in {u \in Vars :
                               env[u] # "unset" /\ (env[u] # environ[u] \/ u \in job.environ)}}

\* modify_execution_environment() of BaseJob, after pkexec.
LaunchedEnv(job, arguments) ==
  [v \in Vars |-> IF v \in job.environ /\ \E x \in Values : <<v, x>> \in arguments
                  THEN CHOOSE x \in Values : <<v, x>> \in arguments ELSE "unset"]

\* env(1) after pkexec.
EnvOf(arguments) ==
  [v \in Vars |-> IF \E x \in Values : <<v, x>> \in arguments
                  THEN CHOOSE x \in Values : <<v, x>> \in arguments ELSE "unset"]

-----------------------------------------------------------------------------
(* checkbox-trusted-launcher                                               *)

Lookup(via, arguments) ==
  {job \in installed : job.user # "none"}
    \cup UNION {Prints(l, LaunchedEnv(l, arguments), machine) :
                  l \in {l \in installed : l.plugin = "local" /\ l \in via}}

\* A value with an equals sign cannot be made an item of a dictionary.
Launch(e) ==
  LET arguments == OnlyChanges(e.job, TRUE)
      found == e.job \in Lookup(e.via, arguments)
      splits == \E a \in arguments : a[2] \in Splits
  IN  [how |-> IF splits THEN "raised" ELSE IF found THEN "ran" ELSE "not found",
       job |-> {e.job}, env |-> IF found /\ ~splits THEN {LaunchedEnv(e.job, arguments)} ELSE {}]

\* From a source tree there is no launcher.
RunAsRoot(e) ==
  [how |-> "ran", job |-> {e.job}, env |-> {EnvOf(OnlyChanges(e.job, FALSE))}]

RunForOther(e) == IF source THEN RunAsRoot(e) ELSE Launch(e)

-----------------------------------------------------------------------------
(* The session.                                                            *)

\* _process_local_result(): a new job, or the same as a known one; a different
\* one with the name of a known one is discarded.
AddPrinted(l, jobs) ==
  known' = {IF e.job \in jobs /\ e.via = {} THEN Entry(e.job, {l}) ELSE e : e \in known}
             \cup {Entry(job, {l}) : job \in {job \in jobs :
                     \A e \in known : e.job.name # job.name}}

\* Running a local job; one for another user may not be found.
RunLocal(e) ==
  /\ e.job.plugin = "local"
  /\ LET run == IF e.job.user = "none" THEN [NoLaunch EXCEPT !.env = {ScriptEnv(TRUE)}]
                ELSE RunForOther(e)
         jobs == UNION {Prints(e.job, env, machine) : env \in run.env}
     IN  /\ AddPrinted(e.job, jobs)
         /\ printed' = printed \cup
              {[local |-> e.job, env |-> env, machine |-> machine] : env \in run.env}
         /\ last' = IF e.job.user = "none" THEN last ELSE run
  /\ UNCHANGED <<source, environ, config, installed, machine>>

RunOther(e) ==
  /\ e.job.plugin # "local" /\ e.job.user # "none"
  /\ last' = RunForOther(e)
  /\ UNCHANGED <<source, environ, config, known, installed, machine, printed>>

Upgrade ==
  /\ installed = Provided /\ installed' \in Upgrades
  /\ last' = NoLaunch
  /\ UNCHANGED <<source, environ, config, known, machine, printed>>

Change ==
  /\ machine' \in Machines \ {machine}
  /\ last' = NoLaunch
  /\ UNCHANGED <<source, environ, config, known, installed, printed>>

LauncherNext ==
  \/ \E e \in known : RunLocal(e) \/ RunOther(e)
  \/ Upgrade \/ Change

LauncherSpec == LauncherInit /\ [][LauncherNext]_launcher_vars

-----------------------------------------------------------------------------
(* Correctness.                                                            *)

\* A job of the session is found (checkbox_trusted_launcher.py:358-388) unless
\* what the session knows has changed since: the package was upgraded; the
\* local job that generated it was itself generated, or it printed the job
\* only in another environment than it has in the launcher, or in another
\* state of the machine.
NotFoundForAReason ==
  last.how = "not found" =>
    \E e \in known :
      /\ e.job \in last.job
      /\ \/ installed # Provided
         \/ \E l \in e.via :
              \/ l \notin Provided
              \/ \A p \in printed :
                   p.local = l /\ e.job \in Prints(l, p.env, p.machine) =>
                     \/ p.machine # machine
                     \/ p.env # LaunchedEnv(l, OnlyChanges(e.job, TRUE))

\* The variables that a job declares have the value they would have if the
\* user ran it (runner.py:285-323), the configuration included; from a source
\* tree, which passes no configuration, without it.
DeclaredReachJob ==
  last.how = "ran" =>
    \A job \in last.job, env \in last.env, v \in Vars :
      v \in job.environ => env[v] = ScriptEnv(~source)[v]
=============================================================================
