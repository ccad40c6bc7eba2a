# A verification of plainbox and checkbox in TLA+

This directory specifies *plainbox*, the test runner under `src/plainbox`, and
its predecessor *checkbox* (`src/checkbox`, `src/plugins`, the user interfaces,
`src/backend`, some of `src/scripts`), in TLA+.  TLC checks the specifications
on small instances; TLAPS proves the main theorems about the core of plainbox
for every value of their constants.  Lines below are lines of the repository
(`state.py:306` is short for
`src/plainbox/plainbox/impl/session/state.py:306`).

1. [Inventory](#inventory) of the system: components, state, operations, hazards
2. [Modules](#modules) and how they correspond to the code
3. [Runs](#runs): what TLC checks, with which bounds, under which fairness
4. [Theorems](#theorems): what is proved, from which assumptions
5. [Where code and documentation disagree](#disagreements)
6. [What is not modelled](#not-modelled)
7. [Plan](#plan)

## Inventory

Two generations of one program live in the repository.  *plainbox*
(`src/plainbox`, Python 3) is the new core: a library that knows jobs, resolves
their dependencies, runs them, keeps their results in a session on disk and
exports reports; a tool and a D-Bus service use it.  *checkbox* is a reactor
with plug-ins: each plug-in registers handlers for events, and the events that
`user_interface.py` fires one after the other are the run.

### plainbox

| component | state it keeps | operations | hard behaviour |
|---|---|---|---|
| dependency solver (`depmgr.py`) | colours of jobs, trail, solution | `resolve_dependencies` | cycles, diamonds, missing jobs, order |
| jobs and requirement programs (`job.py`, `resource.py`) | immutable definitions | dependencies of a job, analysis and evaluation of a program | what is missing or fails first |
| session state (`session/state.py`, `session/jobs.py`) | jobs, results, desired jobs, run list, resources, readiness | `update_desired_job_list`, `update_job_result`, `add_job`, `set_resource_list` | readiness is a cache of everything else; exceptions half way through |
| session storage (`session/storage.py`, `session/manager.py`) | `session`, `session.next` in a directory | `checkpoint`, `save_checkpoint`, `load_checkpoint`, `break_lock` | crashes and errors between system calls, stale locks |
| suspend and resume (`session/suspend.py`, `session/resume.py`) | none: a session as JSON, and back | `suspend`, `resume` | replay in another order, jobs that only other jobs generate |
| legacy session API (`session/legacy.py`) | one manager, the `last-session` link, hints | `open`, `resume`, `clean`, `close`, `persistent_save` | directory and link change one after the other |
| run command (`commands/run.py`, `checkbox.py`, `sru.py`, `applogic.py`) | matching jobs, name of the running job | the loop over the run list, the question after a resume | crashes between the saves, generated jobs |
| job runner, results, trusted launcher (`runner.py`, `result.py`, `secure/`) | files of a job | `run_job`, the search by checksum | logs that are used twice, environments that differ |
| external commands (`vendor/extcmd`) | three threads, a queue | `call` | threads, interrupts, processes left behind |
| D-Bus service (`service.py`, `dbus/`, `highlevel.py`) and its client (`contrib/dbus-mini-client.py`) | objects on the bus, jobs under way | methods, signals | worker threads against the main loop |
| tool and configuration (`commands/`, `box.py`, `config.py`, `plugins.py`) | arguments, options, provider | start, commands, exit | what fails early must be seen, and fail the program |
| exporters and transports (`exporter/`, `transport/`) | one report | export, save, send | one bad value, and the report of all is lost |
| records (`rfc822.py`) | the record being read | parse, dump | continued lines, errors half way |

### checkbox

| component | state it keeps | operations | hard behaviour |
|---|---|---|---|
| run and prompts (`plugins/*_prompt.py`, `manual_test.py`, `shell_test.py`) | place in the store, direction, questions asked | recover, gather, choose, prompt, report | crash between the result and the offset, going back |
| persist file (`contrib/persist.py`, `persist_info.py`) | maps of options, a file and its `.old` | `set`, `move`, `save`, `load` | power failure between rename and write |
| message store (`message.py`, `job.py`) | messages in files, pending offset | `add`, `update`, `delete`, `get_pending` | messages that cannot be read |
| gathering of jobs (`jobs_info.py`, `resolver.py`) | messages, order | `gather`, `report` | dependencies, white list, suites that print jobs |
| choice of tests (GTK, urwid, command line) | tree of suites, widgets | `show_tree` | three interfaces, one dictionary |
| questions (`manual_test.py`, GTK, Qt, urwid, command line) | status and comment of a test | `show_test` | what an earlier answer leaves selected |
| backend (`src/backend`, `backend_info.py`, `fifo.py`) | two FIFOs, processes | ping, `message`, stop | time-outs against late answers |
| lock (`lock_prompt.py`, `glock.py`) | a lock file | lock, watch, delete | a file deleted and created again |
| commands (`process.py`) | child, pipes | `execute` | time limit, background processes |
| report (`launchpad_report.py`, `reports/`) and exchange (`launchpad_exchange.py`, `hexr_transport.py`) | report, answers of servers | report, validate, send | retries, going back |
| start (`application.py`, `config.py`, `component.py`, `variables.py`) | configuration, attributes of plug-ins | read, override, load | includes, defaults, white lists |
| parsers and scripts (`parsers/`, `src/scripts`) | the record, device or disk at hand | parse, copy, set and restore | order of the input; a failure half way |

### How they interact

    run loop ──► SessionState ──► DependencySolver
       │              ▲  │
       │              │  └─ readiness (JobState, inhibitors, requirement programs)
       │              └──── results ◄── job runner ◄── external command (threads)
       │                                       └─► trusted launcher (other user)
       └──► SessionManager.checkpoint ──► suspend ──► SessionStorage ──► disk
                    ▲                                     │
                    └───────── resume ◄───────────────────┘
    D-Bus client ◄──signals── service ──► worker threads ──► the same session

    reactor ── fires ──► plug-ins ──► job store, persist file ──► disk
                           │  ├──► interfaces (GTK, Qt, urwid, command line)
                           │  ├──► backend process (FIFOs) ──► commands
                           │  └──► report ──► Launchpad, certification site

In plainbox all calls are synchronous and a session belongs to one thread; what
interleaves is the order in which an application calls the methods of a session,
the system calls of a checkpoint with crashes, the threads of an external
command, and the worker threads of the D-Bus service.  In checkbox the reactor
is one thread; what interleaves is the processes around it (backends, other
instances, commands, servers), the user who goes back and forth, and crashes.

What makes each component correct is in the comments of its properties and in
[Runs](#runs).  The hazards behind them (what tests would hardly reach, with the
lines) are in `PROJECT.json`.

## Modules

    PlainboxJobs                     definitions, dependencies, programs; steps of the
      │                              depth-first search, its invariant; job states
      ├ DependencySolver             one call of the solver
      │   ├ MCDependencySolver
      │   └ DependencySolverLemmas ─► DependencySolverProofs
      ├ SessionState                 a session; runs the solver inside
      │   ├ MCSession
      │   └ SessionResume            suspend and resume around a session
      │       ├ MCSessionResume
      │       └ SessionProofs        (of both, with DependencySolverLemmas)
      └ RunCommand                   the loops of the run and SRU commands
    CheckpointRegister               what a checkpoint promises
      └ SessionStorage               checkpoint() by system call, implements it
          ├ MCSessionStorage
          └ SessionStorageProofs
    TestSelection                    what a choice of tests promises
      └ SelectionTree                three interfaces, implement it

    MCPlainbox    RunCommand, LegacySession, ExternalCommand, JobService
      └ PlainboxProofs   (LegacySession, ExternalCommand)
    MCCheckbox    CheckboxPrompts, PersistFile, MessageStore, SelectionTree,
                  BackendProtocol, JobsGather, InstanceLock, ShellCommand,
                  StorageWatcher
      └ CheckboxProofs   (PersistFile, MessageStore, SelectionTree, BackendProtocol,
                          InstanceLock, ShellCommand, StorageWatcher)
    MCSafety      JobExecution, RecordParser, ManualTest, BusObjects, PersistMaps,
                  PlainBoxTool, Exporters, SubmissionParsers, ReportExchange,
                  TestScripts, RequirementPrograms, PluginStart, SystemReport,
                  MessageFormats

MCPlainbox, MCCheckbox and MCSafety put components *side by side* that share no state: a
variable `part` says of which component a behaviour is, and the variables of the
others keep one initial value.  Nothing is composed there that interacts; the
states add up and do not multiply, and the properties of each component are the
conjuncts of those of the run.  Components that do interact are composed in
modules of their own: the solver runs inside a session, a session inside suspend
and resume and inside the run loop, the service together with its client and its
threads, a backend together with its parent.  Some modules hold two or three
small components that belong together, each with its own `...Init`, `...Next` and
`...TypeOK`.  Every definition's lines are in the `map` of `PROJECT.json`; what
follows is how to read them.

### PlainboxJobs (definitions), RequirementPrograms

A job definition is a record of what the core looks at: name, plug-in (shell,
manual, resource, local: the ones that differ for a session), direct
dependencies, and a requirement program as a sequence of expressions.  An
expression is a resource and the set of records that make it true.
`RequirementPrograms` has what this abstracts: a program is a sequence of syntax
trees, visited node by node (`Visit`), and evaluated record by record
(`TryRecord`); `EvaluationIsOfTheJob` relates the two modules.
Definitions are equal when their checksums are, here when the records are.
`SortedDependencies` keeps the order in which `_visit()` looks at dependencies,
`sorted()` being the constant `Sorted`: which cycle or missing job is reported
first depends on it.

### PlainboxJobs (search), DependencySolver

`_visit()` is recursive; the model keeps its calls as an explicit `stack` of
frames, a job and the dependencies that its `for` loop has left.  The trail that
the code passes along is the sequence of jobs on the stack.

| code | model |
|---|---|
| `_solve()`, loop (`depmgr.py:246`) | `VisitNextJob` |
| `_visit()`, loop, known dependency | `VisitKnownDependency` |
| `_visit()`, loop, `KeyError` → `DependencyMissingError` | `FindMissingDependency` |
| `_visit()`, end: black, append to `_solution` | `FinishJob` |
| colours white, gray, black in `_visit()` | `Visit`: `EnterWhite`, `RaiseCycle`, no step |
| cut of the trail for `DependencyCycleError` | `index` in `RaiseCycle` |

The operators take and return the state of the search as one record, so that
`SessionState` runs the same search inside `update_desired_job_list()`, and the
lemmas about its steps serve both.

### PlainboxJobs (job states), SessionState

`job_state_map`, `desired_job_list`, `run_list` and `resource_map` are the
attributes of `SessionState` (`_job_list` is the domain of the map).  Results are
abstracted to the outcome, in the three classes that readiness tells apart.

| code | model |
|---|---|
| `__init__` | `Init` |
| `update_desired_job_list` up to the loop, and each retry | `UpdateDesiredJobList`, `SolverStep`, `DropAffectedJob` |
| – `self._desired_job_list.remove(exc.affected_job)` raises | `RemoveRaises` |
| – return, with `_recompute_job_readiness` | `UpdateReturns` |
| `update_job_result` with `_process_resource_result`, `_process_local_result` | `UpdateJobResult` |
| – a local job prints a record without a name | `UpdateJobResultRaises` |
| `add_job` (with readiness recomputed) | `AddJob` |
| `set_resource_list` | `SetResourceList` |
| `_recompute_job_readiness`, `JobState.can_start` | `Recompute`, `CanStart` |

Every method is one action, including the recomputation of readiness at its end;
only `update_desired_job_list()` is split, so that its loop can be shown to end.
While it runs (`phase = "solving"`) no other method does.  Two history variables
serve the properties only: `requested`, the argument of the call under way, and
`stale`, the inputs of readiness that have changed since it was last computed.
`stale` is what makes the readiness properties precise: they are not claimed, and
do not hold, after `set_resource_list()`, which does not recompute readiness
(`state.py:445`; see *disagreements*), nor after `UpdateJobResultRaises`.

### SessionResume

Suspend and resume of the session of `SessionState`, which it extends.  `Suspend` stands for
`suspend()`, the end of the process, and a new process that starts `resume()`
with the same jobs (`given`); what storage does in between is the business of
`SessionStorage`.  Saved are the checksums of the jobs (here the definitions), the
results and the names of the desired jobs; run list, resources and readiness come
back only because the results are presented to the session again.

| code | model |
|---|---|
| `_repr_SessionState` (`suspend.py:178`) | `Representation`; its last four fields are history |
| `_build_SessionState`, first pass in alphabetical order | `Suspend` sets `todo` |
| `_process_job` raises `KeyError` → leftover | `LeaveJob` |
| – checksum differs → `IncompatibleJobError` | `RejectJob` |
| – `update_job_result` | `ProcessJob` |
| end of a pass (sentinel), `leftover_shrunk` | `NextRound`, `NoProgress` |
| `_restore_SessionState_desired_job_list` | `RestoreDesiredJobs`, then `UpdateStep` |

The passes of the code differ in one point only, that the first one is always
followed by a round if anything is left: `leftover_shrunk` starts as true.
A job without a result has an empty `MemoryJobResult`, which is saved and replayed
too; so a resource job that has not run is known to have found nothing
afterwards (`FAILED_RESOURCE` in place of `PENDING_RESOURCE`).  Results that
cannot be read back (`CorruptedSessionError`) are in `JobExecution`, which knows
the files.

### CheckpointRegister, SessionStorage

`SessionStorage` takes `SessionManager.checkpoint()` apart into its system calls:
`open(O_CREAT|O_EXCL)`, `write`, `fsync`, `rename`, `fsync` of the directory,
and the `unlink`s of the error paths and of `break_lock()`.  Each may fail if its
name is in the constant `Faults`; a process may be killed between any two
(`Kill`), and the machine may lose power (`PowerLoss`).  The disk is modelled by
what POSIX guarantees: a directory entry that changed since the directory was
last synced may be found after a power loss as any of the values it had, and a
file that was not synced may or may not be whole.

| code | model |
|---|---|
| `checkpoint()` (`manager.py`): save, on `LockedStorageError` break the lock and save again | `Checkpoint`, `OpenNext` with `pc` `open`/`reopen`, `BreakLock` |
| `os.openat(..., O_EXCL)` | `OpenNext` |
| writer, and its bare `except` that unlinks and goes on | `Write`, `UnlinkUnwritten` |
| `os.fsync(next)` | `Fsync` |
| `os.renameat`, and its bare `except` | `Rename`, `UnlinkUnrenamed` |
| `os.fsync(directory)` | `FsyncDirectory` |
| `load_checkpoint()` | reads `session`: `Content(session)` |

`CheckpointRegister` is the promise: one cell, replaced as a whole, durable once
a save has returned.  `IsRegister` says that `SessionStorage` implements it under
the mapping given next to it: `visible` is what `load_checkpoint()` returns,
`candidates` what it may return after a power loss.  A file whose data are not on
disk maps to a value that no save ever writes, so that the refinement also says
that none is ever visible.

### RunCommand

Two things that the commands do before and while jobs run.  The *selection*
(`_get_matching_job_list()`, `checkbox.py:44-73`) is modelled loop by loop with the
index of each, because the list is changed while it is iterated over; the
reference it is compared with is `Designates`, the selection that `applogic.py` has
for the same patterns.  The *loop* has whole processes: `Start`, `OpenNew` or
`Resume` with the question about the job that was running, `Select`, and for each
job `StartJob`, `JobEnds` (the checkpoint that says "no job is running") and
`SaveResult` (the one with the result, in that order, `run.py:350-359`).  The
session is the record that `PlainboxJobs` and the solver work on, and the disk holds a
copy of it.  `Crash` may come between any two; `excused` and `cut_short` record for
the properties when it has come while a job's result was not saved.

### LegacySession

`open()`, `resume()`, `clean()`, `close()` only leave hints; the first use of the
manager acts on them (`Commit`).  A call is the sequence `todo` of its system calls:
`Mkdtemp`, `Readlink`, `Clear`, `Rmdir`, `Unlink`, `Symlink`, `Load`, `Save`, between
any two of which the process may die.

### ExternalCommand

One call of `ExternalCommandWithDelegate`: the caller (`OnBegin`, `Popen`,
`StartThreads`, `Wait`, `Kill`, `Join`, `StopWorker`, `OnEnd`), a reader for each
stream (`ReadLine`, `ReadEnd`), the worker (`Get`, `OnLine` for each delegate).
External are the command, which writes lines and may leave a process behind, and
`Interrupt`, which may raise at any place of the caller.

### JobService

The service and the client that the repository has for it, because the service
leaves the order of calls to its client.  A thread of a job goes through
`AccessSessionDir`, `CheckJob`, `RunJobThread`, a command of an interactive job
through `CommandEnds`; the methods on the bus are `UpdateDesiredJobList`,
`BeginUpdateJobResult`/`FinishUpdateJobResult` (split where another thread may see
the result without its readiness) and `PersistentSave`; the client has `Main`,
`HandleResult`, `HandleReply`, `HandleAsk` and the user (`UserRunsCommand`,
`UserDecides`).  `inbox` is the order in which the bus delivers.

The jobs, what they depend on and generate, and the white lists are constants
(`ServiceAssumption`).  It asks that no job depends on a generated one: the solver's
missing dependencies are the subject of `DependencySolver`, and with one
`UpdateDesiredJobList` would not have the run list that `RunListOf` gives it.  Only
`UpdateDesiredJobList()` makes wrappers, so that `JobsHaveWrappers` has an exception,
`LateGenerators`: a local job that is itself generated, is run for another job only, or
has dependencies may generate jobs after the last time that this is called.

### JobExecution, RecordParser, ManualTest, BusObjects

* `JobExecution`: `JobRunner` for every kind of job, with the file of its log, the
  result that names it, and what a later process can read of them; and the search
  of the trusted launcher, which generates the jobs again in another environment.
* `RecordParser`: `gen_rfc822_records()` line by line, the writer, and the template
  reader of checkbox, which reads the same files.
* `ManualTest`: `show_test()` of five interfaces, each with what its widgets keep.
* `BusObjects`: which objects are published for a session and found by path; what
  `InterfacesAdded` tells a client that follows it; the properties of results.

### PlainBoxTool, Exporters

* `PlainBoxTool`: reading the configuration (`ReadFile`, options, sections,
  problems), the start of the tool with its provider, commands, logging and exit
  status, and the analyze command with its local jobs.
* `Exporters`: the report (what is asked for, what a job adds, saving, sending) and
  the tree of the spreadsheet with its totals.

### CheckboxPrompts, PersistFile, MessageStore, PersistMaps

`CheckboxPrompts` is the run: a state `pc` for each event of `user_interface.py` and
each question of a plug-in, `store` for the messages with their statuses, `persist`
and `saved` for the options in memory and on disk, `direction` for where the user
goes.  `Crash` may come anywhere, `Start` begins the next process with what is on
disk.  `PersistFile` and `MessageStore` have the files below: `Rename`, `Open`,
`Write`, `Close` of a save, with power failures, and the writing, reading, flagging
and counting of messages.  `PersistMaps` has the maps above: `set`, `add`, `remove`
and `move` of paths in the soft, hard and weak options.

### TestSelection, SelectionTree

`TestSelection` is what a choice of tests promises; `SelectionTree` has what the
three interfaces do with their dictionary, and implements it (`ImplementsSelection`,
with the interface's ways of leaving nodes behind in its mapping).  The tree is any
finite one: a constant for the suite of a node, and one for all suites around it, the
least set that has the suite of each of its nodes; neither the model nor the proofs
walk up or down.  `ClearAbove` is `set_ancestors` without its loop: a suite loses its
box when no suite from the node up to it has another node set.  The second half
is the list that urwid shows, spliced when nodes are expanded and collapsed.

### BackendProtocol, InstanceLock, ShellCommand, StorageWatcher, JobsGather

* `BackendProtocol`: the parent (`Spawn`, `Pong`, `NoPong`, `GiveUp`, `Send`, `Result`,
  `Reap`, ...) and any number of backends that read one FIFO, a message in two parts.
* `InstanceLock`: processes that open, lock, watch, unlock and delete one file; an
  inode that is deleted and created again is another number.
* `ShellCommand`: one command with its pipes, its time limit and what it leaves behind.
* `StorageWatcher`: the model of UDisks2 objects that signals keep up to date.
* `JobsGather`: the events of the gathering, and the resolver item by item.

### PluginStart, SystemReport, ReportExchange, MessageFormats

The start of checkbox from the first configuration file to the registration of
plug-ins; its report, how it is put together and validated, and how values become
XML and are read again; the exchange with Launchpad and the certification site,
with retries, redirects and lost answers; pickles and schemas of messages.

### SubmissionParsers, TestScripts

The parser of submissions with its dispatcher and the devices of udev; and the three
scripts that change the machine: the sound settings, the copying to removable disks
and the frequency governors.

## Runs

Seven runs pass and four find a violation.  A property of a run is often a
conjunction, whose parts are those of the components with a comment each; it has
one name because all parts are about one question.

| run | configuration | distinct states | result |
|---|---|---|---|
| `solver` | MCDependencySolver | 694,325 | passes |
| `session` | MCSession | 699,807 | passes |
| `storage` | MCSessionStorage | 29,991 | passes |
| `resume` | MCSessionResume | 530,715 | passes |
| `plainbox` | MCPlainbox | 325,969 | passes |
| `checkbox` | MCCheckbox | 341,812 | passes |
| `safety` | MCSafety | 1,412,631 | passes |
| `session_update_fails` | MCSession, MCSessionUpdateFails.cfg | | `UpdateNeverFails` violated |
| `session_malformed` | MCSession, MCSessionMalformed.cfg | | `ResultsUpdateReadiness` violated |
| `storage_rename` | SessionStorage, SessionStorageRename.cfg | | `AcknowledgedIsDurable` violated |
| `resume_incompatible` | MCSessionResume, MCSessionResumeIncompatible.cfg | | `NotIncompatible` violated |

Deadlock is not checked: a solver that has answered stops, a session may be left
alone for ever, a component that has gone through its input is at its end, and
numbers of checkpoints, starts and crashes are bounded.  That nothing gets stuck
in between is what `Terminates`, `UpdateEnds`, `ResumeEnds` and the two
`EverythingEnds` say.

**solver.**  All databases over three names: any subset of the names is known, each
job depends directly on any subset of the names and may have a requirement on
`a`; and all visit lists of up to `MaxVisit = 3` jobs.  Three names give self
loops, cycles of two and three, cycles with a tail that has to be cut, diamonds,
missing jobs, and dependencies of both types on one job.  `IInv` is the inductive
invariant of the proofs.  `SolutionIsCorrect`: the solution is ordered at every
moment, and in the end covers the request and is its closure and no more.
`OrderIsRetained`: a job overtakes an earlier one only if needed.  `ProblemIsTrue`:
exceptions tell the truth about a job that the request needs.  `Terminates`.

**session.**  Three kinds of sessions, of which a behaviour picks one.  `results`:
four databases of up to four jobs (a chain with a requirement, one whose missing job
only a local job generates, a cycle, and a missing job next to a local job), all
calls in any order, results of any job whether or not it can start (the code does
not ask), resource outputs that satisfy, fail or empty the requirement, local
outputs that are empty, new, or contain two clashing jobs.  `requests`: the
databases of `solver` without requirements, and requests with repetitions of length
up to 3, one after another.  `on_local`: a job that depends directly on a local job.
`ReadinessIsTrue`: the run list is ordered, and the jobs that can start are those on
it whose dependencies have passed and whose requirements hold.  `UpdateIsFair`: what
`update_desired_job_list()` drops cannot be run, what can be run is kept, the run
list is exactly what the rest needs, and the first job without a result never waits
for a later one, which is why one pass over the list is enough; solvability is
defined without the search.  `JobsAreKept`: no step replaces or forgets a job.
`UpdateEnds`.

**storage.**  One process, `MaxCheckpoints = 4`: one checkpoint to be lost, one that
finds its leftover and breaks the lock, one on disk before and one after.  A
behaviour has either every system call able to fail or all but `rename`, whose
failures are swallowed.  `CheckpointsAreSafe`: what is loaded is whole and no
leftover locks the storage.  `NeverOlder`: no step but a power loss goes back to an
older checkpoint.  `IsRegisterIfRenamed`: without rename failures, the storage
implements `CheckpointRegister`.  `storage_rename` shows why they are excluded.

**resume.**  Three names and four sessions: a local job `c` that generates a local
job `b` that generates `a`, so that the alphabetical replay needs three passes;
`b` and `c` that define `a` differently; `a` that needs a resource; and a request
for a job whose dependency has a missing dependency, which raises.  Sessions are
used freely, saved and resumed any number of times, also after resuming.
`ResumeIsFaithful`: what is resumed is what was saved, in jobs, results, run list
and resources; the queue of the replay skips nothing; and a session is refused only
for a reason: a local job printed another definition of a job than the session has,
a result has no log, or no log that is left generates a job (its local job ran
again and printed something else).  `ResumeEnds`.

**plainbox.**  Selection: all lists of up to two exclude and two include patterns
over three jobs, and a second call with a generated job.  Loop: five jobs of all
kinds, three processes, crashes anywhere; jobs that a resource decides on, generated
ones, ones that never run.  Legacy: four names for directories, two crashes.
Command: two lines on each of two streams, two delegates of which one may raise, two
interrupts, a process left behind.  Service: eight jobs, five white lists, two
commands of the user per session.

* `SelectionIsRight`: the selection follows the patterns; only excluded jobs leave
  the list, at least half of what a pattern excludes; the two ways to select agree
  unless a pattern excludes two jobs.
* `ResultsSurviveProcesses`: only ready jobs run; one runs again only if a process
  died with its result unsaved; the one that was cut short is asked about; only jobs
  run that are matched, among those of the session by `run` and among those of the
  provider by `sru`, or that others need; a process that ends regularly leaves no
  selected job without a result, unless it had resumed the session (`run.py:181`);
  saved results stay.
* `SessionsAreFound`: a session that can be saved is the one that the next process
  finds; one directory at most in the documented order of calls; `resume()` changes
  nothing; checkpoints go only for a new session or `clean()`.
* `LinesAreDelivered`: in order, without gaps, the same to all delegates; complete if
  the call returns and no delegate failed; nothing is left running, unless the
  clean-up itself was interrupted.
* `ServiceKeepsItsWord`: one thing at a time; only ready jobs; messages are about the
  job that the client waits for; all jobs get results; what is stuck is stuck for one
  of two reasons (the race for the session directory, a question nobody heard); and
  what was reported does not change.
* `EverythingEnds`: selections, processes, calls whose streams close, and the client.

**checkbox.**  Prompts: a manual test, a shell test with a resource, and one that
depends on the manual one, in four interfaces, two starts, one step back.  Persist:
five saves.  Store: three jobs, three failures.  Choice: suites in suites, four
tests, one with a result.  Backend: two backends, two jobs.  Gathering: every graph
over three of six jobs, three directories, three white lists and a black list.
Lock: three processes, three files.  Command: with and without limit, a shell that
ignores signals or not.  Watcher: two devices, one wanted, four changes.

* `RunIsKept`: offset inside the store unless a crash came while messages were
  deleted; jobs in order; a report only when all were prompted; a command runs again
  for a reason; a pass changes only by the user.
* `FilesAreKept`: loads are not older than what was synced, and unreadable only after
  two bad saves; jobs stored once and in order; results durable; nothing skipped.
* `ChoiceIsShown`: no test inside a suite that is not chosen; suites show whether a
  test below is selected; all interfaces implement `TestSelection`.
* `ResultsAreOfTheJob`: a result is that of its job, a job runs once or is refused; a
  time limit never changes a result that was there; zero alone is a pass.
* `ListsAreRight`: jobs after what they depend on, the white list's order where it
  can be, failure for a cycle only, prints attributed, shown what is reported.  The list
  on the urwid screen is the tree, and its buttons expand and collapse it.
* `LockExcludes`: two run only if a third deleted a lock file; a process deletes its
  own, unless it was robbed.
* `WatcherSeesChanges`: when all signals are handled the model is the world; a pass is
  a real change of a wanted device.
* `EverythingEnds`: the program comes back to the user; the wait for a single live
  backend ends; a process whose file was deleted stops; a command with a limit ends.

**safety.**  Fourteen modules, twenty-five components.  Most go through every input
of a small set to the end: all records of up to four lines of nine kinds; two
configuration files of every content over three options with every kind of error;
several hundred dumps of udev; every requirement program of the listed lines; all
values up to two levels deep, cut anywhere.  The small sets are named in MCSafety,
each with what it is chosen for.

* `JobsRunAsDefined`: requirement programs are evaluated as `PlainboxJobs` says; logs
  are of the result that names them until their file is used again, sessions are
  refused for a reason; root jobs are found by the launcher unless something has
  changed; analyze runs every local job once; a test passes only if somebody said so.
* `WrittenIsReadAgain`: records, option maps, XML values, pickles and messages come
  back, but for the differences that the properties name.
* `ReportsAreComplete`: every result is in the report, the spreadsheet, the test run
  of a submission and what is sent, or the user sees an error; devices of udev do not
  depend on those that are not above them.
* `SettingsAreFollowed`: the last setting counts in both programs, jobs get the
  environment that is declared, and failures show in the exit status.
* `BusIsTruthful`: what clients find and hear on the bus is what the service has,
  unless a session was resumed, a job was generated or an outcome set to none.
* `MachineIsRestored`: a pass means that something was tested; sound, disks and
  governors are put back, but for the cases that the properties name: of governors,
  that the kernel refuses, or that the test raises (disagreement 40), which is no pass.

**Violations.**  See [Disagreements](#disagreements).

**Fairness.**  Weak fairness, and only of what the code does by itself:

* `DependencySolver` has it of its next step, `SessionState` of the steps inside
  `update_desired_job_list()`, `SessionResume` also of those of the replay, and the
  selection of all its steps: sequential code that waits for nothing.
* The run loop has it of opening, looping and raising; not of `Crash` or `Start`.
* `ExternalCommand` has it of each thread by itself (the two readers, the worker,
  the caller), as the threads of an operating system have; not of the command, the
  process it leaves behind, or interrupts, so that the call is claimed to end only
  once the streams close.
* `JobService` has it of the service and of the client, whose user decides but need
  not run a command: both are main loops, and jobs are assumed to end.
* `CheckboxPrompts` has it of the program, not of the user, crashes and starts.
* `BackendProtocol` has it of the parent and of each backend; not of a password that
  is asked for, so that a backend may be late for ever.
* `InstanceLock` has it of the signal handler alone: a signal is delivered.
* `ShellCommand` has it of the program, of time, and of the death of a killed shell.

`storage` and `safety` have no liveness property and no fairness.

## Theorems

All are proved for every value of the constants: any set of names and
definitions, any initial databases, outputs and bounds.

* **DependencySolverProofs** – `InvariantHolds`, `TypeCorrect`, `OrderCorrect`,
  `VisitListCovered`, `SolutionExact`, `SolutionCorrect`, `OrderRetained`,
  `ProblemsReal`, `ProblemsRelevant`, `ProblemsTrue`.
  The colours are the heart of `IInv`: black jobs are those of the solution
  (`BlackIsSolved`), gray ones those on the stack (`GrayIsActive`, `ActiveOnce`),
  the stack is a path of the dependency graph (`StackIsPath`, which makes a gray
  job met again a cycle), and each dependency of a job on the stack is done, yet
  to be looked at, or being visited (`NoDependencySkipped`, without which
  `Ordered` would not survive `FinishJob`).  `Within` keeps the search inside any
  closed set that holds the request, from which minimality and relevance follow;
  `NeededBy` is the least such set, defined without recursion so that it can be
  reasoned about.  For `OrderRetained`, `VisitOrderKept` says at every moment what a
  job was appended for: one of the requests up to the one that is looked at.  The
  steps are lemmas over the record (DependencySolverLemmas).
* **SessionProofs**, of a session – `InvariantHolds`, `TypeCorrect`, `RunListOrdered`,
  `ReadySound`, `ReadyExact`, `ReadinessTrue`, `RunListExact`, `OnlyUnsolvable`,
  `SolvableSolved`, `FirstUnrunDoesNotWait`, `UpdateFair`, `JobsKept`.  The solver lemmas are
  used again for `SolverStep`, hence `SolverInv` in `IInv`; it survives a generated
  job because no search is under way then.  `RecomputeIsExact` is the lemma behind
  readiness: for a run list that is ordered and known jobs, the inhibitors computed
  are empty exactly when the requirements are met.  That needs `RunListIsOrdered`:
  without it the dependency of a job on the list might be unknown.  That is
  `ReadyInv`, the first half of `IInv`.  `FairInv`, the second, is for `UpdateFair`:
  while a search is under way it is for the desired jobs (`SearchIsForDesired`), so
  that a job that is blamed is needed and cannot be solved; and the inhibitors of a
  job still say what the results say (`InhibitorsAreCurrent`), so that the first job
  without a result, whose dependencies are before it on an ordered list, waits for
  none.
* **SessionProofs**, of suspend and resume – `ResumeTypeCorrect`, `ResumeFaithful`
  (`ResumeIsFaithful`), `ResumedReadinessTrue`.  The invariant `ResumeInv` has
  `ReadyInv` of the session, `ReplayInv` and the two searches:
  - *The replay*: results that were saved are presented once or still queued, so that
    what has been presented has the saved outcome and log and what has not has none
    (`ReplayIsKept`); and the jobs known now follow from `given` and the logs that
    were presented, as the jobs that were saved followed from all of them
    (`LogsStayFollowed`).  When the queue is empty, the jobs are those that were
    saved, or a log that would generate the rest is one that nobody has.
  - *The selection*: the run list is not saved, the solver computes it again, perhaps
    among other jobs than the first time.  That it comes to the same is the
    determinism of the search, stated with runs: finite sequences of its states
    (`IsRun`, `Reaches`, `Gives`).  Two runs from one state agree (`RunsAgree`), one
    that ends has one outcome (`OneOutcome`), and jobs that are added do not change a
    search that ends with a solution (`GivesTheSame`).  `SearchOfSession` and
    `SearchOfSaved` say that the run list of the session, and the saved one, are given
    by such a run.
* **SessionStorageProofs** – `InvariantHolds`, `TypeCorrect`, `CheckpointsWhole`,
  `LockOpens`, `CheckpointsSafe`, `AcknowledgedDurable`, `NeverGoesBack`,
  `ImplementsRegister`.  They assume `OneProcess`; `AcknowledgedDurable` and
  `ImplementsRegister` also that `"rename" \notin Faults`; both assumptions are
  needed (disagreements 3 and 5).  The strengthening is what a call knows between
  its system calls (`SavingKnows`): from `open` to `fsync` the next file is its
  own, before `rename` it is synced or gone; and that numbers are given out in
  order (`NumbersInOrder`), so that no leftover is newer than a call under way.

* **CheckboxProofs** – `TwoNeverRun` (`LockExcludes`), `ResultsAreRight`
  (`ResultsAreOfTheJob`), `WatcherIsRight` (`WatcherSeesChanges`), `FilesLast`
  (`FilesAreKept`), `ChoiceHolds` (`ChoiceIsShown`, the refinement of `TestSelection`
  with it), `RunIsSafe` (`RunIsKept`).  `IInv` is one invariant per component; each is kept by the steps
  of its component and by those of all others, which leave its variables alone.
  - *Lock*: a process that has the lock owns the inode it opened (`HoldsLock`), and
    that is the file of the name, or it was robbed (`KeepsFile`).
  - *Backend*: no message has a number that was not given out yet (`NumberedInOrder`),
    and those with the number that the parent waits for are what it has sent or the
    answer to it (`NumbersAreAnswered`), so that an expected answer is that of the
    job.  A job that was not sent, or refused, was read by no backend and cannot be
    (`UnsentIsUnknown`), and what was read is gone (`ReadOnce`).
  - *Command*: the shell is sent a signal if the limit has passed, and its end is
    looked at afterwards (`LimitIsActedOn`, `StatusIsOfShell`).
  - *Watcher*: the last signal about a fact says what it is now
    (`SignalsTellTheWorld`), from which the model is the world when none is left;
    devices that nothing was done to stay in the reference (`OthersWereThere`,
    `OthersStayed`), from which a pass is about one that was plugged in or out.
  - *Files*: `WholeIsNotOlder`, `SaveGoesOn` and `SyncedIsThere` follow the two files
    of the options through a save.  The messages are those of the first jobs
    (`StoreIsPrefix`), one with a result is on disk (`UpdatedIsSynced`), and before one
    that has none as many have one as the offset says (`OffsetIsUpdated`, for the
    offset in memory and for the one on disk).
  - *Choice of tests* (`ChoiceInv`): a suite is set with each of its nodes or its dialog
    is open (`SuitesAreSet`), the open dialogs are nested suites (`DialogsAreNested`),
    and a suite that is set has a test that is, unless the command line left one
    without (`HasTests`, `hollow`).  Setting and clearing (`SetKeeps`, `ClearKeeps`) keep
    both: suites around a node are a chain (`AboveIsChain`), and every suite has a test
    below it (`TestBelow`: of what is below it, a node with the least below itself).
    What is confirmed is then what is set (`ChoiceIsKept`), so that each step of an
    interface is one of `TestSelection` or changes nothing of it (`StepChoice`).
  - *A run with its prompts*: the store has the first jobs or, while it is emptied, those
    that are left of them (`StoreIsPart`); the jobs before the offset in memory, and
    before the one on disk, were prompted (`OffsetsArePrompted`), unless a deletion was
    cut short.  A job that was started and has no result is found again
    (`InterruptedIsNext`): it is the one at the offset on disk, all it depends on has
    passed, and until the user has said how to go on nothing moves past it.  From this
    a command starts again only at the user's request.  A pass stays because no job that
    is ignored has passed (`RanAndIgnored`), and a command runs only for a job without
    a result (`CurrentIsPrompted`).
* **PlainboxProofs** – `LinesArrive` (`LinesAreDelivered`), `SessionsLast`
  (`SessionsAreFound`), `ServiceHolds` (`ServiceKeepsItsWord`).  The delegates of the
  command and those of them that raise are constants, as are the directories that
  `mkdtemp()` may choose, and the jobs of the service.
  - *Command*: the lines of a stream are, in order and without gaps, with the
    delegates, with the worker (`LineIsNext`), on the queue (`QueueInOrder`), in the
    pipe (`PipeInOrder`) and unwritten; each step hands one line on.  Neighbours in the
    chain have got the same, but for the one line at the place where the worker is
    (`LeftAreLast`).
    `ThreadsEnd` and `WorkerStops` say in what order the caller starts, stops and joins
    the threads, so that a call that returns found the queue empty.
  - *Legacy sessions*: what is left of a call is a path of the relation `Followed`
    (`CallsInOrder`); `CallKnows` has what holds before each kind of step, above all
    that last-session leads to the directory of the manager except between the
    removal of the link and the end of the call; `UsedWell` has which directories
    there are as long as nobody died and `clean()` was not called late.  A crash drops
    the rest of the call and the object with it, so that it keeps `CallKnows`.
  - *The D-Bus service*: nothing in the service keeps two jobs apart, so the invariant
    has to follow what the client waits for.  `OneIsUnderWay` tells six situations
    apart (nothing, a job, a command, a question, a message, a call), `MessagesAreRight`
    that whatever carries a result carries that of the newest job.  `RunsOnlyReady`
    needs `ReadinessIsKept`, which must be known from the check in the thread until
    the result has arrived, through questions and commands (`IsRunning`); that a
    reported result is final needs `ResultsAreFinal`, that every result in the session
    is of an older `RunningJob` than the one whose dictionary may still change; and
    that the client is stuck only after a race needs `MakingGoesOn` and `NobodyRaced`,
    where the two that make the session directory are, step by step.
    `AllHaveResults` and `JobsHaveWrappers` rest on `ListsAreKept`, what both run lists
    have still to do in each phase.

The assumptions on the constants are the named `ASSUME`s of the modules: types,
that `Sorted(S)` lists the elements of `S` once each, that delegates and jobs (of a run, of a
backend, in the store) are listed once, and that no job of a backend is called like one of the
protocol's words.  For the choice of tests: that there are finitely many nodes, and that no
suite is inside itself.  For the service: that `RunOrder(S)` lists the elements of `S`, that only
local jobs generate jobs, and that no job depends on a generated one.

Only model-checked:

* liveness (`Terminates`, `UpdateEnds`, `ResumeEnds`, the two `EverythingEnds`), which
  is out of the prover's reach, as is ENABLED;
* what says that a recursive definition computes something, which needs induction over
  data: `ListsAreRight` (the closure of the dependencies, the rows of the tree) and
  `SelectionIsRight` (folds over the job list);
* `ResultsSurviveProcesses`, whose invariant has not been written, and the type
  invariants of the three side-by-side modules;
* everything of `safety`: its modules use RECURSIVE operators, which no module with a
  theorem may.

## Disagreements

Four have a run that violates what a comment or a docstring says:

1. `update_desired_job_list()` "never fails" (`state.py:292`), but raises
   `ValueError` when the job a dependency error blames is needed by a desired job
   and not desired itself: `list.remove()` (`state.py:316`) does not find it.  Run
   `session_update_fails`: one desired job whose dependency has a missing
   dependency.  The run list is left empty and readiness as it was.
2. A local job that prints a record without a name makes `update_job_result()`
   raise after the result was stored and before readiness is computed
   (`state.py:474`), against `state.py:365` and `state.py:584`.  Run
   `session_malformed`: a job that was ready because the local job had passed
   stays ready after the local job failed.
3. A failing rename is swallowed (`storage.py:592`): `checkpoint()` returns and
   nothing was saved, against `storage.py:331` and `manager.py:219`.  Run
   `storage_rename`.
4. Results are replayed in alphabetical order (`resume.py:228`).  If two local jobs
   print different definitions of a job, the one that comes first wins: in the
   replay it may be the other one, and the session is refused with
   `IncompatibleJobError` although every saved job is what a saved log says,
   against `resume.py:144`.  Run `resume_incompatible`.

The others are part of what the models do: the properties hold because they name
the exception, or the line lies outside of the models and was only read.

**plainbox, sessions and jobs**

5. The exclusive next file is no protection between processes (`storage.py:532`), as
   `checkpoint()` breaks the lock of whoever holds it (`manager.py:229`).
6. A manual job answered without running its command has a `DiskJobResult` without a
   log file (`run.py:263-276`).  It is saved as null (`suspend.py:298`) and refused by
   `resume()`, which demands a string (`resume.py:383`), against `manager.py:219`.  A
   shell job without a command has `io_log_filename` `()`, with the same end.
7. `set_resource_list()` leaves readiness as it was although `state.py:195` says that
   it follows the resources; the next result or request repairs it.
8. Jobs whose names have the same slug share a log file (`runner.py:403`); the file is
   truncated while a saved result still names it.
9. After a resume the desired jobs come from the built-in jobs (`run.py:181`), so that
   generated jobs are not run.
10. `_validate(json_repr, key="version", choice=[1])` names a flag that does not exist
    (`resume.py:172`): the version is never checked, against `resume.py:142`.  Results
    that are a list of null raise `TypeError`, and a truncated gzip `EOFError`, in
    place of `CorruptedSessionError`; nothing catches `SessionResumeError`.
11. Excluding jobs removes from the list it iterates over (`checkbox.py:61`), which is
    that of the session: of two adjacent excluded jobs one survives.
12. `_get_command_src()` passes no configuration, so that configured variables do not
    reach root jobs from a source tree; a value with `=` makes the trusted launcher
    raise; jobs that generated jobs generate are not found by it.
13. Requirement programs allow `BinOp` and `UnaryOp` but none of their operators
    (`resource.py:300-311`), so that arithmetic and `not` are always rejected; the
    arguments of calls are not visited; a call on an attribute raises
    `AttributeError`; a bad program raises at each use.
14. A line of spaces in a dumped value ends the record when it is read; a job file
    that starts with two blank lines is empty for the reader of checkbox.

**plainbox, service**

15. `SessionWrapper.Resume()` wraps the states of existing jobs again
    (`service.py:680-743`): with one job or more it raises `KeyError`.
    `JobStateWrapper.on_result_changed` and `on_job_state_map_changed` are connected
    to nothing.  Generated jobs of two sessions clash on one path.
16. Objects created after `CreateSession` are never announced; exit removes the
    service object alone; setting an outcome to "none" changes it and raises
    (`service.py:416`); `Get` knows properties by their python name and `Set` by that
    of D-Bus.
17. Results of a `RunningJob` share its dictionary, which is changed later without a
    signal (`service.py:1004`).
18. The client saves while the thread of its first job makes the session directory
    (`dbus-mini-client.py:134`): the thread may lose its directory and end unheard.
    Nested generated jobs are not wrapped.

**plainbox, tool, configuration and reports**

19. Syntax errors of a configuration file are captured (`config.py:401`), but reading
    values of the broken file raises `AttributeError` and values with `%` an
    interpolation error; check-config calls files "not present" that were read after
    an error; DEFAULT options reach the environment of jobs; an invalid value hides
    the valid one of the system's file.
20. Ctrl-C gives status 0; `--help` fails if the provider is not found;
    `PlugInCollection.load()` after an exception never loads the rest; `parse.py:75`
    catches `UnicodeEncodeError` where reading raises `UnicodeDecodeError`; a crash is
    printed twice without a log directory; `analyze -l` opens a legacy session and so
    removes the last one, and keeps problems that generated jobs have solved.
21. Jobs that local jobs generate are never selected by `sru`, which matches those of
    the provider again (`sru.py:114`) against its comment (`sru.py:182`);
    `--fallback` is "if submission fails" (`sru.py:268`), but the report is written
    always, and first, so that an unwritable file prevents sending.
22. A manual test that nobody was asked about is `undecided`, which the XML exporter
    does not know (`xml.py:301`): the report of all jobs is lost.  So it is for control
    characters and logs that are not UTF-8.  An empty resource list raises
    `IndexError`; the RFC822 exporter leaks fields between jobs (`rfc822.py:40`); a job
    that printed its own definition hides its tests in the spreadsheet.

**checkbox, run and files**

23. After a crash CONTINUE marks the job at the offset as failed, which may have its
    result already or may never have been prompted (`jobs_prompt.py:146`).  A crash
    between the deletion of messages and the next save leaves the offset beyond the
    store.
24. Deselected jobs become "untested" and shell jobs are then never run; requirements
    that a later process does not find overwrite a pass with "unsupported".
25. A broken message makes each later `JobStore.add()` raise `ValueError`; a first save
    that is cut short makes every start fail with `PersistError`.
26. `Persist.move` swaps soft and weak options (`persist.py:312`) and loses the value
    if its `set` raises; `set` through a name found in a list does nothing
    (`persist.py:159`).  `PickleBackend` uses `cPickle`, which is not imported.
27. The lock file is deleted by name after it was unlocked (`lock_prompt.py:80-84`): a
    third process makes two run at once.
28. A second backend reads the same FIFO; the wait for a result has no end
    (`backend_info.py:170`), and a stop that another backend read blocks in `waitpid`
    (`backend_info.py:188`).
29. The time limit of a command is not one of the processes that it leaves behind, and
    the wait after SIGTERM has none (`process.py:117`).
30. The black list of jobs is tested the wrong way round and not applied to what is
    reported (`jobs_info.py:315-329`); that of plug-ins is ignored when there is a white
    list; a local job that prints itself is gathered for ever.

**checkbox, interfaces, start and report**

31. urwid preselects "yes" and ignores the status of a test; GTK lets the old status
    overwrite that of a command that was run first; a second click in Qt answers the
    next test; the command line keeps comments for "no" only.
32. The command line can leave a suite with no test, and a key that is no option ends
    the choice (`cli_interface.py:395`); "Expand All" of urwid does nothing under a
    node that is expanded (`urwid_interface.py:481`).
33. "Environment has precedence" (`config.py:59`): keys are lower-cased, so that the
    test never holds.  A continued `includes` line raises `KeyError`, a file that
    includes itself `RecursionError`; overrides are patterns matched as prefixes, and
    lost if no section matches; one broken reference stops the start.
34. A second exchange with Launchpad after a failure returns at once without having
    sent anything (`launchpad_exchange.py:116`); the certification site gets the report
    again each time the user comes by, going back included; redirects have no limit
    (`transport.py:302`); going back behind the report appends everything again
    (`launchpad_report.py:145`).
35. A control character makes the validation raise: the report is not announced, and
    has overwritten the earlier one, in whose place it is sent.  Reports with a style
    sheet cannot be loaded; lists in dicts come back empty.
36. A pickled text that is cut short is loaded as a shorter one; bytes come back as text.
37. "Summary first" (`submission.py:547`), but events come in the order of the document;
    `unregisterHandler()` removes the wrong ones while it iterates
    (`dispatcher.py:132`); a handler that raises loses the rest of the queue; "none" is
    an answer for `xml.py:101` and not for the parser of questions.
38. Of udev, what is beside a disk gets the disk as its parent; a property without "="
    ends the parsing.

**Scripts**

39. `removable_storage_test`: a speed that udev does not tell raises after mounting and
    before the `try` (463), as does a full disk while data are generated: disks stay
    mounted.  The pass speed is compared with the last disk alone, against its help.
    If neither a copy nor its original can be read, their hashes are both None and
    count as equal (515).
40. `frequency_governors_test`: the selector is found once (131-144), so that later
    calls set the first processor alone, against the comment at 148; a speed-up below
    the expected one is logged as too large and passes (420-429).  If the kernel refuses
    the conservative governor there is no `freq_step`, and `open(None)` raises (113); so
    does `float(None)` if a limit of the frequency could not be read (404): the governor
    is then not restored (642).
41. `audio_settings.py`: a volume of 0 counts as none (361); only the first channel is
    stored.
42. `removable_storage_watcher`: the exception for eSATA is never reached (563-581); a
    drive that is removed before its partition leaves an object behind.

## Not modelled

Within the modelled components: the estimated duration of a session; the `via`
attribute of generated jobs (but in the spreadsheet); order and text of inhibitors;
the save path for Python before 3.3, whose handling of an existing next file names
an attribute that `errno` does not have; errors of `open()`, `read()` and `close()`
of the directory; short writes.  Of suspend and resume: the JSON text, its
compression and validation, applications that call `add_job()` or
`set_resource_list()`, whose effects are not saved, and definitions that change
between the processes.  Databases with two different jobs of one name are refused
when a session or a solver is made, so that models start from those that passed.
Of the D-Bus service: introspection, read-only properties and the exporting over the
bus.  Of the exporters: the layout of cells, the table of hardware and the inlining
of the html.  Of checkbox: widgets, layout and the texts of dialogs, the tree of the
Qt front end, which is C++, and plug-ins that pass a command's output on.

Left out for good:

* *Code that the program never imports*: `plainbox/impl/session.py`, which the
  package of that name shadows; `impl/checkbox.py` and `impl/provider.py`.
* *Vendored code*: `checkbox/parsers/pyparsing.py`, `contrib/xrandr.py`,
  `plainbox/vendor` but for extcmd (funcsigs).
* *Tables*: `checkbox/lib/input.py` and the constants of the parsers.
* *A copy*: `checkbox_ocp` repeats `checkbox_cli`.
* *Parsers of the output of tools and scripts that compare it*: they turn text into
  records line by line and keep nothing, so that they have no states to check; what
  they yield is an input of the models.

`PROJECT.json` lists every component with its status and the reason.

## Plan

Done: the core (solver, session, storage, resume) with its proofs; the commands, the
legacy sessions, external commands, the service with its client, the runner, the
launcher, the tool, the exporters; of checkbox the run, its files, the choice, the
backend, the gathering, the lock, commands, the report and its exchange, the start,
and the scripts and parsers that have state.

Left, in the order of what it would add:

1. A proof about the run loop (`ResultsSurviveProcesses`), with the invariant of the
   solver inside it.
2. Larger instances: two clients of one service, for which the repository has no code
   yet ("TODO: raise exception when job is in progress", `service.py:900`).
3. The exporting over D-Bus, once it does more than pass a call on.
