---------------------------- MODULE TestSelection ----------------------------
(***************************************************************************)
(* What the choice of tests promises, whatever the interface: the user     *)
(* selects or deselects the tests under a suite, and when the choice is    *)
(* confirmed the tests that are not selected, and have no result yet, are  *)
(* ignored (plugins/suites_prompt.py, the event ignore-jobs).  A choice    *)
(* that is abandoned changes nothing.                                      *)
(***************************************************************************)
CONSTANTS Nodes, Tests, Below(_), HasResult

VARIABLES selected, ignored, choosing

vars == <<selected, ignored, choosing>>

Init ==
  /\ selected = Tests /\ ignored = {} /\ choosing = FALSE

Ask == ~choosing /\ choosing' = TRUE /\ UNCHANGED <<selected, ignored>>

Select(n) ==
  /\ choosing
  /\ selected' = selected \cup (Below(n) \cap Tests)
  /\ UNCHANGED <<ignored, choosing>>

Deselect(n) ==
  /\ choosing
  /\ selected' = selected \ Below(n)
  /\ UNCHANGED <<ignored, choosing>>

SetAll(value) ==
  /\ choosing
  /\ selected' = IF value THEN Tests ELSE {}
  /\ UNCHANGED <<ignored, choosing>>

Confirm ==
  /\ choosing /\ choosing' = FALSE
  /\ ignored' = (Tests \ selected) \ HasResult
  /\ UNCHANGED selected

\* What is selected when the tests are next shown is what was confirmed last.
Abandon ==
  /\ choosing /\ choosing' = FALSE
  /\ selected' \subseteq Tests
  /\ UNCHANGED ignored

Next ==
  \/ Ask \/ Confirm \/ Abandon
  \/ \E n \in Nodes : Select(n) \/ Deselect(n)
  \/ \E value \in BOOLEAN : SetAll(value)

Spec == Init /\ [][Next]_vars
=============================================================================
