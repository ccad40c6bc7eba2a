----------------------------- MODULE ShellCommand -----------------------------
(***************************************************************************)
(* How checkbox runs the command of a job: Job.execute (checkbox/job.py)   *)
(* and Process (lib/process.py).  The output is read until both streams    *)
(* are closed or nothing comes for the time that the job may take; then    *)
(* the shell is sent SIGTERM, and waited for without a limit.              *)
(*                                                                         *)
(* The command is a shell that may leave a process behind, which has the   *)
(* streams open too; either may close them.  The shell may ignore SIGTERM. *)
(***************************************************************************)
EXTENDS Naturals, FiniteSets

VARIABLES
  limit,     \* the job has a timeout
  stubborn,  \* the shell ignores SIGTERM
  shell,     \* "runs" or how it ended: "zero", "nonzero", "notfound", "killed"
  child,     \* a process that the shell left: "none", "runs", "ended"
  writers,   \* who has a stream open
  output,    \* there is output that was not read
  over,      \* that time has passed since the start
  execute,   \* where execute is
  timed_out, \* read returned False
  signalled, \* SIGTERM was sent,
  late,      \* history: to a shell that had ended
  status

command_vars == <<limit, stubborn, shell, child, writers, output, over, execute,
                  timed_out, signalled, late, status>>

Init ==
  /\ limit \in BOOLEAN /\ stubborn \in BOOLEAN
  /\ shell = "runs" /\ child = "none" /\ writers = {"shell"} /\ output = FALSE
  /\ over = FALSE /\ execute = "reading" /\ timed_out = FALSE /\ signalled = FALSE /\ late = FALSE
  /\ status = "none"

-----------------------------------------------------------------------------
(* The command *)

UNCHANGED_PROGRAM == UNCHANGED <<over, execute, timed_out, signalled, late, status>>

Fork ==
  /\ shell = "runs" /\ child = "none"
  /\ child' = "runs" /\ writers' = writers \cup (IF "shell" \in writers THEN {"child"} ELSE {})
  /\ UNCHANGED <<limit, stubborn, shell, output>> /\ UNCHANGED_PROGRAM

PrintOutput ==
  /\ writers # {} /\ ~output /\ execute = "reading" /\ output' = TRUE
  /\ UNCHANGED <<limit, stubborn, shell, child, writers>> /\ UNCHANGED_PROGRAM

Close(who) ==
  /\ who \in writers /\ writers' = writers \ {who}
  /\ UNCHANGED <<limit, stubborn, shell, child, output>> /\ UNCHANGED_PROGRAM

ShellEnds(how) ==
  /\ shell = "runs"
  /\ how = "killed" => signalled /\ ~stubborn
  /\ shell' = how /\ writers' = writers \ {"shell"}
  /\ UNCHANGED <<limit, stubborn, child, output>> /\ UNCHANGED_PROGRAM

ChildEnds ==
  /\ child = "runs" /\ child' = "ended" /\ writers' = writers \ {"child"}
  /\ UNCHANGED <<limit, stubborn, shell, output>> /\ UNCHANGED_PROGRAM

-----------------------------------------------------------------------------
(* The program *)

UNCHANGED_COMMAND == UNCHANGED <<limit, stubborn, shell, child, writers>>

TimePasses ==
  /\ limit /\ execute = "reading" /\ ~over /\ over' = TRUE
  /\ UNCHANGED <<output, execute, timed_out, signalled, late, status>> /\ UNCHANGED_COMMAND

\* read looks at the time after each chunk of output.
Read ==
  /\ execute = "reading" /\ output /\ output' = FALSE
  /\ timed_out' = over
  /\ execute' = IF over THEN "killing" ELSE "reading"
  /\ UNCHANGED <<over, signalled, late, status>> /\ UNCHANGED_COMMAND

\* both streams are closed
ReadAll ==
  /\ execute = "reading" /\ ~output /\ writers = {}
  /\ execute' = "waiting"
  /\ UNCHANGED <<output, over, timed_out, signalled, late, status>> /\ UNCHANGED_COMMAND

\* nothing to read for the time of the job
ReadNothing ==
  /\ execute = "reading" /\ ~output /\ writers # {} /\ over
  /\ timed_out' = TRUE /\ execute' = "killing"
  /\ UNCHANGED <<output, over, signalled, late, status>> /\ UNCHANGED_COMMAND

Kill ==
  /\ execute = "killing"
  /\ signalled' = TRUE /\ late' = (shell # "runs")
  /\ execute' = "waiting"
  /\ UNCHANGED <<output, over, timed_out, status>> /\ UNCHANGED_COMMAND

StatusOf(how) ==
  CASE how = "zero" -> "pass"
    [] how = "nonzero" -> "fail"
    [] how \in {"notfound", "killed"} -> "unresolved"

\* cleanup closes the streams and waits for the shell.
Cleanup ==
  /\ execute = "waiting" /\ shell # "runs"
  /\ status' = StatusOf(shell) /\ execute' = "done"
  /\ UNCHANGED <<output, over, timed_out, signalled, late>> /\ UNCHANGED_COMMAND

Program == Read \/ ReadAll \/ ReadNothing \/ Kill \/ Cleanup

Next ==
  \/ Fork \/ PrintOutput \/ (\E who \in {"shell", "child"} : Close(who))
  \/ \E how \in {"zero", "nonzero", "notfound", "killed"} : ShellEnds(how)
  \/ ChildEnds \/ TimePasses \/ Program

\* What is told to end ends, unless it ignores it; the time that a job may take
\* does pass.
Spec ==
  /\ Init /\ [][Next]_command_vars
  /\ WF_command_vars(Program) /\ WF_command_vars(TimePasses)
  /\ WF_command_vars(ShellEnds("killed"))

-----------------------------------------------------------------------------
(* Properties *)

TypeOK ==
  /\ shell \in {"runs", "zero", "nonzero", "notfound", "killed"}
  /\ child \in {"none", "runs", "ended"}
  /\ writers \subseteq {"shell", "child"}
  /\ execute \in {"reading", "killing", "waiting", "done"}
  /\ over \in BOOLEAN /\ timed_out \in BOOLEAN /\ signalled \in BOOLEAN /\ late \in BOOLEAN
  /\ status \in {"none", "pass", "fail", "unresolved"}

\* The time limit never turns a command that ended by itself into another
\* result: a process left behind that keeps the output open lets the limit
\* pass, but what counts is how the shell had ended (job.py:71-100).
LimitKeepsResult ==
  status # "none" /\ timed_out =>
    IF late THEN status = "pass" <=> shell = "zero"
    ELSE signalled /\ (status = "unresolved" <=> shell \in {"killed", "notfound"})

\* A command passes only if its shell has ended with zero; one that was killed
\* for its time never does.
PassIsZero == status = "pass" => shell = "zero"

\* What makes it so: the limit is noticed while the output is read, the shell is
\* then sent SIGTERM, and its end is looked at afterwards.
LimitIsActedOn ==
  /\ execute = "reading" => ~timed_out /\ ~signalled /\ ~late
  /\ execute \in {"waiting", "done"} /\ timed_out => signalled
  /\ late => shell # "runs"

StatusIsOfShell ==
  IF execute = "done" THEN shell # "runs" /\ status = StatusOf(shell) ELSE status = "none"

IInv == TypeOK /\ LimitIsActedOn /\ StatusIsOfShell

\* The job has come to its end, or the output was closed before the limit.
IsOver == execute = "done" \/ (execute = "waiting" /\ ~timed_out)

\* With a time limit the job comes to an end, if its shell obeys SIGTERM and the
\* output is not closed before the shell ends: nothing limits the wait for a
\* shell that has closed its output (process.py:88-123, 128-136).
LimitEnds == limit /\ ~stubborn ~> IsOver
=============================================================================
