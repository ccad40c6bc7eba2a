----------------------------- MODULE ManualTest -----------------------------
(***************************************************************************)
(* A test that the user is asked about: prompt_manual() of                 *)
(* plugins/manual_test.py and show_test() of the interfaces, GTK, Qt,      *)
(* urwid, the command line and the one that asks nothing.  A test has a    *)
(* result and a comment, of which the interface shows what it can; the     *)
(* user chooses an answer, writes a comment and runs the command of the    *)
(* test any number of times before going on or back.  Tests are shown      *)
(* again when the user has gone back.                                      *)
(*                                                                         *)
(* The Qt front end is a process of its own: a second click on its button  *)
(* is a signal that the next test receives.                                *)
(***************************************************************************)
EXTENDS Naturals, FiniteSets

CONSTANTS
  Interfaces,  \* of "gtk", "qt", "urwid", "cli" and "none"
  Texts,       \* comments, the empty one among them
  MaxShown,    \* bound: how often a test is shown
  MaxRuns      \* bound: how often commands are run

VARIABLES
  ui,
  test,        \* its status and data; whether it has a command, and whether
               \* its description has the output of that
  at,          \* "idle"; "opening", when the command runs before the dialog is
               \* shown; "asking"; "running"; "comment", which is asked for
  answer, comment,  \* what the interface shows as selected and as written
  direction,
  clicks,      \* signals of the front end that nobody has received yet
  shown, runs,
  before, said, typed  \* history: the test when it was shown, and what was
               \* said about its result and typed as a comment since, last

vars == <<ui, test, at, answer, comment, direction, clicks, shown, runs,
  before, said, typed>>

Answers == {"yes", "no", "skip"}

Statuses == {"pass", "fail", "untested", "uninitiated", "unresolved", "unsupported"}

AnswerToStatus(a) == CASE a = "yes" -> "pass" [] a = "no" -> "fail" [] a = "skip" -> "untested"

StatusToAnswer(s) ==
  IF s = "pass" THEN "yes" ELSE IF s \in {"fail", "unresolved"} THEN "no" ELSE "skip"

Tests ==
  {t \in [status : Statuses, data : Texts, command : BOOLEAN, output : BOOLEAN] :
     t.output => t.command}

Said(by, what) == [by |-> by, what |-> what]

TypeOK ==
  /\ ui \in Interfaces /\ test \in Tests
  /\ at \in {"idle", "opening", "asking", "running", "comment"}
  /\ answer \in Answers /\ comment \in Texts
  /\ direction \in {"next", "prev"}
  /\ clicks \in 0..1 /\ (clicks = 1 => ui = "qt")
  /\ Cardinality(said) <= 1 /\ Cardinality(typed) <= 1

Init ==
  /\ ui \in Interfaces /\ test \in Tests
  /\ at = "idle" /\ answer = "skip" /\ comment = ""
  /\ direction = "next" /\ clicks = 0 /\ shown = 0 /\ runs = 0
  /\ before = test /\ said = {} /\ typed = {}

-----------------------------------------------------------------------------
(* Showing a test.                                                         *)

\* What is selected when the dialog opens: the Qt front end knows two results
\* only; urwid makes new buttons, of which the first is on.
PreselectedQt(t) ==
  CASE t.status = "pass" -> "yes" [] t.status = "fail" -> "no" [] OTHER -> "skip"

FirstButton == "yes"

Preselected(t) ==
  CASE ui = "gtk" -> StatusToAnswer(t.status)
    [] ui = "qt" -> PreselectedQt(t)
    [] ui = "urwid" -> FirstButton
    [] OTHER -> "skip"

Prefilled(t) == IF ui \in {"gtk", "qt"} THEN t.data ELSE ""

ShowDialog ==
  at' = "asking" /\ answer' = Preselected(test) /\ comment' = Prefilled(test)

\* The command runs first if the description needs its output.
ShowTest ==
  /\ at = "idle" /\ ui # "none" /\ shown < MaxShown
  /\ shown' = shown + 1
  /\ before' = test /\ said' = {} /\ typed' = {}
  /\ IF test.output THEN at' = "opening" /\ UNCHANGED <<answer, comment>> ELSE ShowDialog
  /\ UNCHANGED <<ui, test, direction, clicks, runs>>

\* UserInterface.show_test()
TestNonInteractively ==
  /\ at = "idle" /\ ui = "none" /\ shown < MaxShown
  /\ shown' = shown + 1
  /\ before' = test /\ said' = {} /\ typed' = {}
  /\ \E text \in Texts \ {""} : test' = [test EXCEPT !.status = "untested", !.data = text]
  /\ UNCHANGED <<ui, at, answer, comment, direction, clicks, runs>>

-----------------------------------------------------------------------------
(* The command.                                                            *)

ClickTest ==
  /\ at = "asking" /\ test.command /\ runs < MaxRuns
  /\ at' = "running"
  /\ UNCHANGED <<ui, test, answer, comment, direction, clicks, shown, runs, before,
                 said, typed>>

\* _run_test(): the result of the command is selected.
RunTestGtk(status) == answer' = StatusToAnswer(status) /\ UNCHANGED comment

RunTestQt(status) ==
  answer' = (IF status = "pass" THEN "yes" ELSE "no") /\ UNCHANGED comment

\* urwid begins anew, and takes no notice of the result; the command line shows
\* the output.
ShownAfterRun(status) ==
  CASE ui = "gtk" -> RunTestGtk(status)
    [] ui = "qt" -> RunTestQt(status)
    [] ui = "urwid" -> answer' = FirstButton /\ comment' = ""
    [] OTHER -> UNCHANGED <<answer, comment>>

RunEnds(status) ==
  /\ at = "running" /\ at' = "asking"
  /\ runs' = runs + 1
  /\ ShownAfterRun(status)
  /\ said' = {Said("command", status)}
  /\ UNCHANGED <<ui, test, direction, clicks, shown, before, typed>>

\* What the first run has selected is overwritten by the result of the test.
OpeningEnds ==
  /\ at = "opening"
  /\ ShowDialog
  /\ UNCHANGED <<ui, test, direction, clicks, shown, runs, before, said, typed>>

-----------------------------------------------------------------------------
(* The user.                                                               *)

Choose(a) ==
  /\ at = "asking" /\ ui \in {"gtk", "qt", "urwid"}
  /\ answer' = a /\ said' = {Said("user", a)}
  /\ UNCHANGED <<ui, test, at, comment, direction, clicks, shown, runs, before, typed>>

Type(text) ==
  /\ \/ at = "asking" /\ ui \in {"gtk", "qt", "urwid"}
     \/ at = "running" /\ ui = "gtk"
  /\ comment' = text /\ typed' = {text}
  /\ UNCHANGED <<ui, test, at, answer, direction, clicks, shown, runs, before, said>>

\* GTK and urwid take the answer whatever the direction.
LeaveDialog == [test EXCEPT !.data = comment, !.status = AnswerToStatus(answer)]

\* Going back leaves the status as it is in Qt.
LeaveQt(dir) ==
  [test EXCEPT !.data = comment, !.status = IF dir = "next" THEN AnswerToStatus(answer) ELSE @]

Leave(dir) ==
  /\ test' = IF ui = "qt" THEN LeaveQt(dir) ELSE LeaveDialog
  /\ direction' = dir /\ at' = "idle"
  /\ UNCHANGED <<ui, answer, comment, shown, runs, before, said, typed>>

ClickButton(dir) ==
  /\ at = "asking" /\ ui \in {"gtk", "qt", "urwid"} /\ clicks = 0
  /\ Leave(dir)
  /\ clicks' \in IF ui = "qt" /\ dir = "next" THEN {0, 1} ELSE {0}

\* The signal of the second click.
ReceiveClick ==
  /\ at = "asking" /\ clicks = 1
  /\ clicks' = 0
  /\ Leave("next")

\* The command line takes the answer at once, and asks for a comment if the
\* test has failed.
AnswerKey(a) ==
  /\ at = "asking" /\ ui = "cli"
  /\ said' = {Said("user", a)}
  /\ IF a = "no"
     THEN at' = "comment" /\ answer' = a /\ UNCHANGED test
     ELSE /\ at' = "idle" /\ UNCHANGED answer
          /\ test' = [test EXCEPT !.data = "", !.status = AnswerToStatus(a)]
  /\ UNCHANGED <<ui, comment, direction, clicks, shown, runs, before, typed>>

FurtherInformation(text) ==
  /\ at = "comment"
  /\ test' = [test EXCEPT !.data = text, !.status = AnswerToStatus(answer)]
  /\ at' = "idle" /\ typed' = {text}
  /\ UNCHANGED <<ui, answer, comment, direction, clicks, shown, runs, before, said>>

Next ==
  \/ ShowTest \/ TestNonInteractively \/ ClickTest \/ OpeningEnds
  \/ \E status \in Statuses \ {"uninitiated", "untested"} : RunEnds(status)
  \/ \E a \in Answers : Choose(a) \/ AnswerKey(a)
  \/ \E text \in Texts : Type(text) \/ FurtherInformation(text)
  \/ \E dir \in {"next", "prev"} : ClickButton(dir)
  \/ ReceiveClick

Spec == Init /\ [][Next]_vars

-----------------------------------------------------------------------------
(* Correctness.                                                            *)

\* A test passes (user_interface.py:54-65) only if it has passed before, or the
\* user or the command said so; in urwid, which begins with "yes", it may also
\* be that nothing was said since the dialog was opened.
PassIsSaid ==
  at = "idle" /\ test.status = "pass" =>
    \/ before.status = "pass"
    \/ said \cap {Said("user", "yes"), Said("command", "pass")} # {}
    \/ ui = "urwid" /\ \A s \in said : s.by = "command"

\* What was said last about the result is the result, when the user goes on:
\* the choice of the user, or what GTK and Qt show of the command's result; an
\* answered test that is only shown again keeps its result, but not in urwid.
ResultIsLastSaid ==
  at = "idle" /\ shown > 0 /\ direction = "next" =>
    /\ \A a \in Answers : Said("user", a) \in said => test.status = AnswerToStatus(a)
    /\ \A s \in Statuses :
         Said("command", s) \in said /\ ui \in {"gtk", "qt"} =>
           (test.status = "pass" <=> s = "pass") /\ (s = "fail" => test.status = "fail")
    /\ said = {} /\ ui \in {"gtk", "qt"} /\ before.status \in {"pass", "fail", "untested"} =>
         test.status = before.status

\* In GTK and Qt the comment is what the user typed last, however often the
\* command was run since, or what it was before; on the command line it is what
\* was typed as further information.
CommentIsKept ==
  at = "idle" /\ shown > 0 =>
    /\ \A text \in typed : ui # "urwid" => test.data = text
    /\ typed = {} /\ ui \in {"gtk", "qt"} => test.data = before.data
=============================================================================
