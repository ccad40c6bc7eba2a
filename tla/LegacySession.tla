--------------------------- MODULE LegacySession ---------------------------
(***************************************************************************)
(* The legacy session API (SessionStateLegacyAPICompatImpl of              *)
(* plainbox/impl/session/legacy.py) on top of SessionManager               *)
(* (session/manager.py) and of the directories and the last-session        *)
(* symlink of SessionStorage (session/storage.py).                         *)
(*                                                                         *)
(* One process at a time has one session object, whose methods may be      *)
(* called in any order; it may die between any two system calls, and a     *)
(* new one starts.  A call of the API is the sequence `todo' of the system *)
(* calls it has still to make.                                             *)
(***************************************************************************)
EXTENDS Integers, Sequences, FiniteSets

CONSTANTS
  Dirs,        \* bound: the names mkdtemp() can choose
  MaxCrashes   \* bound: the processes that die

LegacyAssumption == Dirs # {} /\ IsFiniteSet(Dirs) /\ MaxCrashes \in Nat

VARIABLES
  exists,      \* the session directories
  checkpoint,  \* those with a session file in them
  link,        \* the target of last-session: {} or a singleton
  manager,     \* the directory of _manager: {} or a singleton
  hint,        \* _commit_hint: {} for None, or a set in a singleton
  todo,        \* the rest of the call that is being made
  storage,     \* the directory the call has made: {} or a singleton
  raised,      \* the system call, or other step, that ended the last call
               \* with an exception, or ""
  crashes,     \* history: the number of processes that died
  cleaned      \* history: clean() was called with a manager at hand

files == <<exists, checkpoint, link>>
object == <<manager, hint, todo, storage, raised>>
vars == <<files, object, crashes, cleaned>>

\* "clear" and "rmdir" are rmtree() of the target of the link, "clear_own" and
\* "rmdir_own" that of the manager's directory.  "adopt" is no system call:
\* _commit_manager() has got a manager.
SystemCalls == {"mkdtemp", "readlink", "clear", "rmdir", "unlink", "symlink", "raise",
                "clear_own", "rmdir_own", "adopt", "load", "save"}

TypeOK ==
  /\ exists \subseteq Dirs /\ checkpoint \subseteq exists
  /\ link \subseteq Dirs /\ Cardinality(link) <= 1
  /\ manager \subseteq Dirs /\ Cardinality(manager) <= 1
  /\ hint \subseteq SUBSET {"open", "resume", "clean"} /\ Cardinality(hint) <= 1
  /\ todo \in Seq(SystemCalls)
  /\ storage \subseteq Dirs /\ Cardinality(storage) <= 1
  /\ raised \in SystemCalls \cup {""} /\ crashes \in 0..MaxCrashes /\ cleaned \in BOOLEAN

Init ==
  /\ exists = {} /\ checkpoint = {} /\ link = {}
  /\ manager = {} /\ hint = {} /\ todo = <<>> /\ storage = {} /\ raised = ""
  /\ crashes = 0 /\ cleaned = FALSE

-----------------------------------------------------------------------------
(* The methods of the API, when no call is being made.                     *)

CreateOther == <<"mkdtemp">>

CreateLegacy == <<"mkdtemp", "readlink", "adopt">>

\* _commit_clean(): without a manager it is like _commit_open(); with one it
\* destroys its directory, and creates two.
CommitClean(hints) ==
  IF manager = {} THEN CreateLegacy
  ELSE <<"clear_own", "rmdir_own">> \o CreateOther \o CreateLegacy

\* _commit_manager(): what the hints that were collected come to.
Commit(hints) ==
  CASE "open" \notin hints -> <<>>
    [] "open" \in hints /\ "resume" \in hints -> <<"load", "adopt">>
    [] "open" \in hints /\ "resume" \notin hints /\ "clean" \in hints -> CommitClean(hints)
    [] OTHER -> CreateLegacy

Call(hints, then) ==
  /\ todo = <<>>
  /\ todo' = Commit(hints) \o then
  /\ hint' = IF Commit(hints) = <<>> THEN {} ELSE {hints}
  /\ storage' = {} /\ raised' = ""
  /\ UNCHANGED <<files, manager, crashes>>

Hints == UNION hint

Open ==
  /\ todo = <<>>
  /\ hint' = {Hints \cup {"open"}}
  /\ UNCHANGED <<files, manager, todo, storage, raised, crashes, cleaned>>

Resume == Call(Hints \cup {"resume"}, <<>>) /\ UNCHANGED cleaned

Clean ==
  /\ Call(Hints \cup {"clean"}, <<>>)
  /\ cleaned' = (cleaned \/ ("open" \in Hints /\ manager # {}))

Close ==
  /\ todo = <<>>
  /\ manager' = {} /\ hint' = {}
  /\ UNCHANGED <<files, todo, storage, raised, crashes, cleaned>>

\* session_dir, jobs_io_log_dir: the property `manager' is read.
UseManager == hint # {} /\ Call(Hints, <<>>) /\ UNCHANGED cleaned

PersistentSave == Call(Hints, <<"save">>) /\ UNCHANGED cleaned

-----------------------------------------------------------------------------
(* The system calls.                                                       *)

Next1(call) == todo # <<>> /\ Head(todo) = call

Return == todo' = Tail(todo) /\ UNCHANGED raised

Raise == todo' = <<>> /\ raised' = Head(todo)

Mkdtemp ==
  /\ Next1("mkdtemp")
  /\ \E d \in Dirs \ exists : exists' = exists \cup {d} /\ storage' = {d}
  /\ Return
  /\ UNCHANGED <<checkpoint, link, manager, hint, crashes, cleaned>>

\* Mutant of Readlink: the link is replaced, its target is left.
ReadlinkOnly ==
  /\ Next1("readlink")
  /\ todo' = (IF link = {} THEN <<"symlink">> ELSE <<"unlink", "symlink">>) \o Tail(todo)
  /\ UNCHANGED <<files, manager, hint, storage, raised, crashes, cleaned>>

\* os.readlink(): without a link there is nothing to remove.
Readlink ==
  /\ Next1("readlink")
  /\ todo' = (IF link = {} THEN <<"symlink">> ELSE <<"clear", "rmdir", "unlink", "symlink">>)
               \o Tail(todo)
  /\ UNCHANGED <<files, manager, hint, storage, raised, crashes, cleaned>>

\* shutil.rmtree(): the files, then the directory.  That of the link is not
\* inside the try, but the finally clause is: the link is tried to be made,
\* which fails, as there is one, and the exception goes on.
Clear(target) ==
  IF target \subseteq exists
  THEN checkpoint' = checkpoint \ target /\ Return
  ELSE UNCHANGED checkpoint /\ Raise

ClearLinked ==
  /\ Next1("clear")
  /\ Clear(link)
  /\ UNCHANGED <<exists, link, manager, hint, storage, crashes, cleaned>>

ClearOwn ==
  /\ Next1("clear_own")
  /\ Clear(manager)
  /\ UNCHANGED <<exists, link, manager, hint, storage, crashes, cleaned>>

Rmdir ==
  /\ \/ Next1("rmdir") /\ exists' = exists \ link
     \/ Next1("rmdir_own") /\ exists' = exists \ manager
  /\ Return
  /\ UNCHANGED <<checkpoint, link, manager, hint, storage, crashes, cleaned>>

Unlink ==
  /\ Next1("unlink")
  /\ link' = {}
  /\ Return
  /\ UNCHANGED <<exists, checkpoint, manager, hint, storage, crashes, cleaned>>

\* os.symlink(): that there is a link already is only logged.
Symlink ==
  /\ Next1("symlink")
  /\ link' = IF link = {} THEN storage ELSE link
  /\ Return
  /\ UNCHANGED <<exists, checkpoint, manager, hint, storage, crashes, cleaned>>

\* get_last_storage() and load_checkpoint(): without a directory or without a
\* checkpoint in it there is an exception.
Load ==
  /\ Next1("load")
  /\ \/ link # {} /\ link \subseteq checkpoint /\ storage' = link /\ Return
     \/ ~(link # {} /\ link \subseteq checkpoint) /\ UNCHANGED storage /\ Raise
  /\ UNCHANGED <<files, manager, hint, crashes, cleaned>>

\* _commit_manager() is over, its hints are forgotten.
Adopt ==
  /\ Next1("adopt")
  /\ manager' = storage /\ hint' = {}
  /\ Return
  /\ UNCHANGED <<files, storage, crashes, cleaned>>

\* SessionManager.checkpoint(): "Session not ready", or no such directory.
Save ==
  /\ Next1("save")
  /\ \/ manager # {} /\ manager \subseteq exists
        /\ checkpoint' = checkpoint \cup manager /\ Return
     \/ ~(manager # {} /\ manager \subseteq exists) /\ UNCHANGED checkpoint /\ Raise
  /\ UNCHANGED <<exists, link, manager, hint, storage, crashes, cleaned>>

Crash ==
  /\ crashes < MaxCrashes
  /\ crashes' = crashes + 1
  /\ manager' = {} /\ hint' = {} /\ todo' = <<>> /\ storage' = {} /\ raised' = ""
  /\ UNCHANGED <<files, cleaned>>

-----------------------------------------------------------------------------
Methods == Open \/ Resume \/ Clean \/ Close \/ UseManager \/ PersistentSave

Steps == \/ Mkdtemp \/ Readlink \/ ClearLinked \/ ClearOwn \/ Rmdir \/ Unlink
         \/ Symlink \/ Load \/ Adopt \/ Save

Next == Methods \/ Steps \/ Crash

Spec == Init /\ [][Next]_vars

-----------------------------------------------------------------------------
(* Correctness.                                                            *)

Idle == todo = <<>>

\* A session that can be saved is the one that the next process will find,
\* whatever calls and crashes have come before (legacy.py:257, storage.py:74).
SavedIsFound ==
  Idle /\ manager # {} /\ manager \subseteq exists => link = manager

\* As long as no process dies and clean() is called right after open(), there
\* is one session directory at most, and last-session is a link to it.
OneSessionIfUsedWell == Idle /\ crashes = 0 /\ ~cleaned => exists = link

\* resume() leaves the directories, the checkpoints and the link as they are.
ResumeReadsOnly ==
  [][("resume" \in Hints /\ "open" \in Hints /\ ~Idle) =>
       exists' = exists /\ link' = link /\ checkpoint \subseteq checkpoint']_vars

\* A checkpoint is removed only to make place for a session whose directory
\* is there already, or by clean().
RemovedForAReason ==
  [][\A d \in checkpoint \ checkpoint' :
       (storage \subseteq exists /\ storage # {} /\ d \notin storage) \/ "clean" \in Hints]_vars

\* What makes it so.  The system calls of a method come in this order, and the last
\* is the end of _commit_manager() or of persistent_save().
Followed ==
  {<<"mkdtemp", "mkdtemp">>, <<"mkdtemp", "readlink">>, <<"readlink", "adopt">>,
   <<"clear", "rmdir">>, <<"rmdir", "unlink">>, <<"unlink", "symlink">>,
   <<"symlink", "adopt">>, <<"clear_own", "rmdir_own">>, <<"rmdir_own", "mkdtemp">>,
   <<"load", "adopt">>, <<"adopt", "save">>}

CallsInOrder ==
  \A k \in DOMAIN todo :
    IF k = Len(todo) THEN todo[k] \in {"adopt", "save"}
    ELSE <<todo[k], todo[k + 1]>> \in Followed

Now(steps) == todo # <<>> /\ Head(todo) \in steps

\* last-session is the link to the directory of the manager but for a moment, the
\* checkpoints that a call removes are those of others, and what resume() does
\* is to load.
CallKnows ==
  /\ manager # {} /\ ~Now({"symlink", "adopt"}) => link = manager
  /\ Now({"readlink", "clear", "rmdir", "unlink", "symlink", "adopt"}) => storage # {}
  /\ Now({"readlink", "clear"}) => storage \subseteq exists /\ storage \cap checkpoint = {}
  /\ Now({"symlink"}) => link = {}
  /\ Now({"adopt"}) => link = storage
  /\ Now({"clear_own"}) => "clean" \in Hints
  /\ Now({"rmdir"}) => checkpoint \cap link = {}
  /\ Now({"rmdir_own"}) => checkpoint \cap manager = {}
  /\ "open" \in Hints /\ "resume" \in Hints /\ todo # <<>> => Now({"load", "adopt", "save"})

\* The directories while nobody died and clean() was not called too late.
UsedWell ==
  crashes = 0 /\ ~cleaned =>
    /\ ~Now({"clear_own", "rmdir_own"})
    /\ Now({"mkdtemp"}) => Len(todo) > 1 /\ todo[2] = "readlink"
    /\ "clean" \in Hints /\ "resume" \notin Hints => manager = {}
    /\ ~Now({"readlink", "clear", "rmdir", "unlink", "symlink"}) => exists = link
    /\ Now({"readlink", "clear", "rmdir"}) => exists = link \cup storage /\ storage \cap link = {}
    /\ Now({"unlink", "symlink"}) => exists = storage

IInv == todo \in Seq(SystemCalls) /\ checkpoint \subseteq exists /\ crashes \in Nat
          /\ CallsInOrder /\ CallKnows /\ UsedWell
=============================================================================
