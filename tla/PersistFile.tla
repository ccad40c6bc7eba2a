------------------------------ MODULE PersistFile ------------------------------
(***************************************************************************)
(* The file in which checkbox keeps what its plugins persist: Persist.load *)
(* and save of checkbox/contrib/persist.py with the BPickle backend, and   *)
(* the plugin persist_info that uses them.  A save renames the file to     *)
(* .old and writes a new one; a load falls back on .old.                   *)
(*                                                                         *)
(* The write may fail, the process may be killed, and the machine may lose *)
(* its power: then what was not synced is empty, broken or whole.  Renames *)
(* are not lost.  The n-th save writes the value n; 0 stands for nothing.  *)
(***************************************************************************)
EXTENDS Naturals

CONSTANT MaxSaves  \* bound: the number of saves

SavesAssumption == MaxSaves \in Nat

VARIABLES
  file, old,      \* the persist file and the one ending in .old
  value,          \* what the plugins have in memory
  persist_pc,     \* where the program is; "unloaded" after a PersistError
  safe,           \* safe_file_closing
  saves,          \* history: the number of the last save that was begun,
  durable,        \* the last one that was synced,
  bad             \* and how many were begun since that one

files == <<file, old>>
vars == <<files, value, persist_pc, safe, saves, durable, bad>>

Kinds == {"absent", "empty", "broken", "whole"}

File(kind, n, synced) == [kind |-> kind, value |-> n, synced |-> synced]

Absent == File("absent", 0, TRUE)

TypeOK ==
  /\ file \in [kind : Kinds, value : 0..MaxSaves, synced : BOOLEAN]
  /\ old \in [kind : Kinds, value : 0..MaxSaves, synced : BOOLEAN]
  /\ value \in 0..MaxSaves
  /\ persist_pc \in {"down", "idle", "renamed", "opened", "written", "unloaded"}
  /\ safe \in BOOLEAN
  /\ saves \in 0..MaxSaves /\ durable \in 0..saves /\ bad = saves - durable

Init ==
  /\ file = Absent /\ old = Absent /\ value = 0 /\ persist_pc = "down" /\ safe = TRUE
  /\ saves = 0 /\ durable = 0 /\ bad = 0

\* A file that exists and is empty was not written: nothing is loaded.
LoadedFrom(f) ==
  IF f.kind = "broken" THEN old ELSE f

CanLoad == file.kind # "broken" \/ old.kind = "whole"

\* When neither file can be read, PersistError ends the handler: the plugins
\* go on with what they keep in memory, and nothing is saved.
Load ==
  /\ persist_pc = "down"
  /\ IF CanLoad
     THEN value' = LoadedFrom(file).value /\ persist_pc' = "idle"
     ELSE value' = 0 /\ persist_pc' = "unloaded"
  /\ safe' = TRUE
  /\ UNCHANGED <<files, saves, durable, bad>>

\* During the gathering files are closed without a sync.
BeginGather ==
  /\ persist_pc = "idle" /\ safe /\ safe' = FALSE
  /\ UNCHANGED <<files, value, persist_pc, saves, durable, bad>>

EndGather ==
  /\ persist_pc = "idle" /\ ~safe /\ safe' = TRUE
  /\ UNCHANGED <<files, value, persist_pc, saves, durable, bad>>

RenameOnce ==
  /\ persist_pc = "idle" /\ saves < MaxSaves
  /\ saves' = saves + 1 /\ value' = saves' /\ bad' = bad + 1
  /\ persist_pc' = "renamed"
  /\ IF file.kind # "absent" /\ old.kind = "absent" THEN old' = file ELSE UNCHANGED old
  /\ UNCHANGED <<file, safe, durable>>

Rename ==
  /\ persist_pc = "idle" /\ saves < MaxSaves
  /\ saves' = saves + 1 /\ value' = saves' /\ bad' = bad + 1
  /\ persist_pc' = "renamed"
  /\ IF file.kind # "absent" THEN old' = file /\ file' = Absent ELSE UNCHANGED files
  /\ UNCHANGED <<safe, durable>>

Open ==
  /\ persist_pc = "renamed"
  /\ file' = File("empty", 0, TRUE) /\ persist_pc' = "opened"
  /\ UNCHANGED <<old, value, safe, saves, durable, bad>>

Write ==
  /\ persist_pc = "opened"
  /\ file' = File("whole", value, FALSE) /\ persist_pc' = "written"
  /\ UNCHANGED <<old, value, safe, saves, durable, bad>>

\* The exception is logged where the handler was called.
WriteFails(kind) ==
  /\ persist_pc = "opened"
  /\ file' = File(kind, 0, TRUE) /\ persist_pc' = "idle"
  /\ UNCHANGED <<old, value, safe, saves, durable, bad>>

\* safe_close
Close ==
  /\ persist_pc = "written" /\ persist_pc' = "idle"
  /\ IF safe
     THEN /\ file' = [file EXCEPT !.synced = TRUE]
          /\ durable' = saves /\ bad' = 0
     ELSE UNCHANGED <<file, durable, bad>>
  /\ UNCHANGED <<old, value, safe, saves>>

Die == persist_pc # "down" /\ persist_pc' = "down" /\ value' = 0 /\ safe' = TRUE

Killed == Die /\ UNCHANGED <<files, saves, durable, bad>>

Left(f) == IF f.synced THEN {f}
           ELSE {File("empty", 0, TRUE), File("broken", 0, TRUE),
                 File("whole", f.value, TRUE)}

PowerFails ==
  /\ Die
  /\ file' \in Left(file) /\ old' \in Left(old)
  /\ UNCHANGED <<saves, durable, bad>>

Next ==
  \/ Load \/ BeginGather \/ EndGather \/ Rename \/ Open \/ Write
  \/ \E kind \in {"empty", "broken"} : WriteFails(kind)
  \/ Close \/ Killed \/ PowerFails

Spec == Init /\ [][Next]_vars

-----------------------------------------------------------------------------
(* Properties *)

\* A value that is loaded is never older than the last one that was synced,
\* whatever became of the saves after it (persist.py:101-140).
LoadedIsNotOlder == persist_pc = "idle" /\ value # 0 => value >= durable

\* If the last save was synced, that is what the next start loads: the file is
\* never lost between two saves.
SyncedIsLoaded ==
  [][persist_pc = "down" /\ persist_pc' # "down" /\ bad = 0 => value' = durable]_vars

\* Both files are unreadable only after two saves in a row that did not
\* complete, or before the first one that did: one bad save is survived by the
\* file before it (persist.py:107-122).
UnloadedForAReason == persist_pc = "unloaded" => bad >= 2 \/ durable = 0

\* What makes it so.  A file that is whole has no value older than the last that
\* was synced, except that .old may have one when the file itself is synced; one
\* that is not whole has nothing to lose.
WholeIsNotOlder ==
  /\ file.kind = "whole" => file.value \in durable..saves
  /\ old.kind = "whole" /\ old.value < durable => file.kind = "whole" /\ file.synced
  /\ \A f \in {file, old} : f.kind # "whole" => f.value = 0 /\ f.synced

\* In a save the plugins have the value that is written, and the file is what the
\* step before has left.
SaveGoesOn ==
  /\ persist_pc \in {"renamed", "opened", "written"} => value = saves /\ bad > 0
  /\ persist_pc = "renamed" => file.kind = "absent"
  /\ persist_pc = "opened" => file.kind = "empty"
  /\ persist_pc = "written" => file.kind = "whole" /\ file.value = saves

\* The last synced value is in the file until the next save is begun, and in .old
\* until the one after it.
Keeps(f, n) == f.kind = "whole" /\ f.value = n /\ f.synced

SyncedIsThere ==
  /\ bad = 0 => IF durable = 0 THEN file.kind = "absent" ELSE Keeps(file, durable)
  /\ bad = 1 /\ durable > 0 => Keeps(old, durable)

IInv ==
  /\ TypeOK /\ WholeIsNotOlder /\ SaveGoesOn /\ SyncedIsThere
  /\ LoadedIsNotOlder /\ UnloadedForAReason
=============================================================================
