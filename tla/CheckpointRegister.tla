------------------------- MODULE CheckpointRegister -------------------------
(***************************************************************************)
(* What SessionManager.checkpoint() and SessionStorage promise to those    *)
(* that call them: a place for one checkpoint, that a save replaces as a   *)
(* whole, and that keeps it through a crash once the save has returned.    *)
(* Checkpoints are numbered in the order in which they are asked for; 0 is *)
(* the place before the first one.                                         *)
(***************************************************************************)
EXTENDS Naturals

CONSTANT Checkpoints   \* the numbers of the checkpoints

VARIABLES
  visible,       \* the checkpoint that load_checkpoint() returns now
  candidates,    \* those that it may return after a crash of the machine
  acknowledged   \* the saves that have returned

Init == visible = 0 /\ candidates = {0} /\ acknowledged = {}

\* A save that is under way becomes visible, all at once.
Replace(c) ==
  /\ \A d \in acknowledged : d < c
  /\ visible' = c
  /\ candidates' = candidates \cup {c}
  /\ UNCHANGED acknowledged

\* A save returns: there is no way back.
Acknowledge(c) ==
  /\ visible = c
  /\ candidates' = {c}
  /\ acknowledged' = acknowledged \cup {c}
  /\ UNCHANGED visible

Crash ==
  /\ visible' \in candidates
  /\ candidates' = {visible'}
  /\ UNCHANGED acknowledged

Next ==
  \/ \E c \in Checkpoints : Replace(c) \/ Acknowledge(c)
  \/ Crash

Spec == Init /\ [][Next]_<<visible, candidates, acknowledged>>
=============================================================================
