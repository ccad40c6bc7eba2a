------------------------- MODULE MCSessionStorage -------------------------
(***************************************************************************)
(* One process that saves checkpoints, of two kinds, of which a behaviour  *)
(* picks one: any system call may fail, or any but os.rename(), whose      *)
(* failure is not reported, so that a save that returns has saved.         *)
(***************************************************************************)
EXTENDS SessionStorage

VARIABLE rename_fails   \* whether it may

Reliable == INSTANCE SessionStorage WITH Faults <- Faults \ {"rename"}

MCInit == Init /\ rename_fails \in BOOLEAN

MCNext ==
  /\ \/ rename_fails /\ Next
     \/ ~rename_fails /\ Reliable!Next
  /\ UNCHANGED rename_fails

MCSpec == MCInit /\ [][MCNext]_<<vars, rename_fails>>

\* checkpoint() implements the register, if no rename fails: "After calling this
\* method you can later reopen the same session" (manager.py:219).  If one may
\* fail, it is the register to which nothing happens.
Kept(value, unused) == IF rename_fails THEN unused ELSE value

RegisterIfRenamed == INSTANCE CheckpointRegister WITH
  visible <- Kept(Content(session), 0),
  candidates <- Kept({Content(c) : c \in session_disk}, {0}),
  acknowledged <- Kept({c \in Checkpoints : status[c] = "returned"}, {})

IsRegisterIfRenamed == RegisterIfRenamed!Spec
=============================================================================
