----------------------------- MODULE BusObjects -----------------------------
(***************************************************************************)
(* The objects that the service of plainbox has on D-Bus (impl/service.py, *)
(* impl/dbus/service.py, impl/highlevel.py): which of them are published   *)
(* for a session, what clients are told of objects that are managed, and   *)
(* the properties of results. The three are modelled apart, as they share  *)
(* no state.                                                               *)
(***************************************************************************)
EXTENDS Naturals, Sequences, SequencesExt, FiniteSets

-----------------------------------------------------------------------------
(***************************************************************************)
(* The objects of the D-Bus service: the wrappers of                       *)
(* plainbox/impl/service.py on top of Object and ObjectWrapper             *)
(* (plainbox/impl/dbus/service.py), with the session underneath            *)
(* (session/legacy.py, state.py, resume.py) as far as it makes new jobs    *)
(* and results.                                                            *)
(*                                                                         *)
(* A native object is identified by what it is; the connection keeps its   *)
(* wrapper, and so the native, once the wrapper is published.  Only the    *)
(* path of a job is made from its content, so that the equal jobs that two *)
(* sessions generate have one path.                                        *)
(***************************************************************************)

CONSTANTS
  Sessions,   \* bound: the sessions that clients create
  Local,      \* the provider's job that generates jobs
  Builtin,    \* the names of the provider's jobs
  Generated,  \* the names of the jobs it generates, in their order
  ObjectsMaxResults  \* bound: the results that running jobs report

BusAssumption ==
  /\ Sessions \subseteq Nat \ {0} /\ Local \in Builtin
  /\ ToSet(Generated) \cap Builtin = {} /\ ObjectsMaxResults \in Nat

VARIABLES
  bus,        \* the natives whose wrapper is published
  unpublished,\* those whose last wrapper, the one that is found, is not
  announced,  \* those that InterfacesAdded() was sent for
  job_list,   \* session -> its jobs, or <<>> before it is created
  result,     \* session -> name of a job -> its result
  reported,   \* the results that JobResultAvailable() was sent for
  hint,       \* session -> its _commit_hint
  saved,      \* the checkpoint that get_last_storage() finds, in a singleton
  owners,     \* the sessions whose storage exists
  generated,  \* history: the sessions with jobs that no
              \* UpdateDesiredJobList() has followed
  resumed     \* history: the sessions that were restored

session_vars == <<job_list, result, hint, saved, owners, resumed>>
objects_vars == <<bus, unpublished, announced, reported, generated, session_vars>>

ObjectsNames == Builtin \cup ToSet(Generated)

Native(kind, session, name, number) ==
  [kind |-> kind, session |-> session, name |-> name, number |-> number]

BuiltinJob(name) == Native("job", 0, name, 0)
State(s, name) == Native("state", s, name, 0)
FirstResult(s, name) == Native("result", s, name, 0)
Reported(k) == Native("result", reported[k].session, reported[k].name, k)
Restored(s, name) == Native("restored", s, name, 0)
Session(s) == Native("session", s, Local, 0)

Natives == [kind : {"job", "state", "result", "restored", "session"},
            session : Sessions \cup {0}, name : ObjectsNames, number : 0..ObjectsMaxResults]

Checkpoints == [names : SUBSET ObjectsNames, generates : BOOLEAN]

ObjectsTypeOK ==
  /\ bus \subseteq Natives /\ unpublished \subseteq Natives /\ announced \subseteq bus
  /\ \A s \in Sessions : ToSet(job_list[s]) \subseteq Natives
  /\ result \in [Sessions -> [ObjectsNames -> Natives]]
  /\ Len(reported) <= ObjectsMaxResults
  /\ hint \in [Sessions -> {"open", "resume", "none"}]
  /\ saved \subseteq Checkpoints /\ Cardinality(saved) <= 1
  /\ owners \subseteq Sessions
  /\ generated \subseteq Sessions /\ resumed \subseteq Sessions

\* ServiceWrapper.publish_related_objects() and publish_managed_objects().
\* An earlier process may have left a session.
ObjectsInit ==
  /\ bus = {BuiltinJob(n) : n \in Builtin} /\ announced = bus /\ unpublished = {}
  /\ job_list = [s \in Sessions |-> <<>>]
  /\ result = [s \in Sessions |-> [n \in ObjectsNames |-> FirstResult(s, n)]]
  /\ reported = <<>>
  /\ hint = [s \in Sessions |-> "open"]
  /\ saved \in {{}, {[names |-> Builtin, generates |-> TRUE]},
                {[names |-> ObjectsNames, generates |-> TRUE]}}
  /\ owners = {} /\ generated = {} /\ resumed = {}

Created(s) == job_list[s] # <<>>

NamesOf(s) == {j.name : j \in ToSet(job_list[s])}

-----------------------------------------------------------------------------
(* Wrappers.  A sequence of calls is a function of the objects there are.  *)

Objects == [bus |-> bus, unpublished |-> unpublished, raised |-> FALSE]

\* _get_preferred_object_path()
SamePath(m, n) == IF n.kind = "job" THEN m.kind = "job" /\ m.name = n.name ELSE m = n

\* find_wrapper_by_native()
HasWrapper(objects, native) == native \in objects.bus \cup objects.unpublished

\* translate(): what a property or a call can return, and what a path names.
Found(native) == native \in bus \ unpublished

\* publish_self(): a path has one handler, or there is a KeyError.
Publish(objects, native) ==
  IF objects.raised \/ \E m \in objects.bus : SamePath(m, native)
  THEN [objects EXCEPT !.raised = TRUE]
  ELSE [objects EXCEPT !.bus = @ \cup {native}, !.unpublished = @ \ {native}]

\* JobStateWrapper(), which wraps the result, too, and is kept by the session's
\* wrapper; then publish_related_objects().
WrapState(objects, s, name, res) ==
  IF objects.raised THEN objects
  ELSE LET wrapped == [objects EXCEPT !.unpublished = @ \cup {State(s, name), res}]
       IN  Publish(Publish(wrapped, State(s, name)), res)

\* A job that has no wrapper yet; one that cannot be published is dropped.
WrapJob(objects, s, job, res) ==
  IF HasWrapper(objects, job) THEN objects
  ELSE WrapState(Publish(objects, job), s, job.name, res)

\* check_and_wrap_new_jobs()
CheckAndWrapNewJobs(s) ==
  FoldLeft(LAMBDA objects, j : WrapJob(objects, s, j, result[s][j.name]),
           Objects, job_list[s])

-----------------------------------------------------------------------------
(* The session underneath.                                                 *)

\* Local jobs add the jobs that the session does not know by name.
Generate(s) ==
  SelectSeq([i \in DOMAIN Generated |-> Native("job", s, Generated[i], 0)],
            LAMBDA j : j.name \notin NamesOf(s))

\* load_session() into the session at hand; a job of the last session that is
\* not generated again leaves it half restored.
Restore(s) ==
  \E c \in saved :
    LET jobs == job_list[s] \o (IF c.generates THEN Generate(s) ELSE <<>>)
        known == c.names \cap {j.name : j \in ToSet(jobs)}
    IN  /\ job_list' = [job_list EXCEPT ![s] = jobs]
        /\ result' = [result EXCEPT ![s] = [n \in ObjectsNames |->
                        IF n \in known THEN Restored(s, n) ELSE result[s][n]]]
        /\ IF known = c.names
           THEN hint' = [hint EXCEPT ![s] = "none"] /\ owners' = owners \cup {s}
           ELSE hint' = [hint EXCEPT ![s] = "resume"] /\ UNCHANGED owners
        /\ resumed' = resumed \cup {s}
        /\ UNCHANGED saved

\* _commit_manager(): "open" makes a new last session, and "resume" loads the
\* last one, if any, or raises.
Commit(s) ==
  \/ /\ hint[s] = "open"
     /\ hint' = [hint EXCEPT ![s] = "none"]
     /\ owners' = {s} /\ saved' = {}
     /\ UNCHANGED <<job_list, result, resumed>>
  \/ hint[s] = "resume" /\ Restore(s)
  \/ hint[s] = "resume" /\ saved = {} /\ UNCHANGED session_vars
  \/ hint[s] = "none" /\ UNCHANGED session_vars

-----------------------------------------------------------------------------
(* The calls of clients, and the threads of running jobs.                  *)

\* SessionWrapper._iter_wrappers()
SessionChildren(s, names) ==
  {State(s, n) : n \in names} \cup {FirstResult(s, n) : n \in names}

\* add_managed_object_list(), and InterfacesAdded() for what was not there.
Announce(natives) == announced' = announced \cup natives

\* The wrapper of a new session publishes those of its jobs' states and
\* results, and announces them.
CreateSession(s) ==
  /\ ~Created(s)
  /\ job_list' = [job_list EXCEPT ![s] = SetToSeq({BuiltinJob(n) : n \in Builtin})]
  /\ bus' = bus \cup {Session(s)} \cup {State(s, n) : n \in Builtin}
                \cup {FirstResult(s, n) : n \in Builtin}
  /\ Announce({Session(s)} \cup SessionChildren(s, Builtin))
  /\ UNCHANGED <<unpublished, reported, generated, result, hint, saved, owners, resumed>>

SetObjects(objects) ==
  /\ bus' = objects.bus /\ unpublished' = objects.unpublished
  /\ UNCHANGED announced

UpdateDesiredJobList(s) ==
  /\ Created(s)
  /\ SetObjects(CheckAndWrapNewJobs(s))
  /\ generated' = generated \ {s}
  /\ UNCHANGED <<reported, session_vars>>

\* Service._run() reads session_dir, which commits the hint.  The job may be
\* inhibited, so that its command does not run; an exception ends the thread.
RunJob(s, name) ==
  /\ Created(s) /\ name \in NamesOf(s)
  /\ \E n \in bus : n.kind = "job" /\ n.name = name
  /\ Len(reported) < ObjectsMaxResults
  /\ Commit(s)
  /\ IF hint'[s] # "none"
     THEN UNCHANGED <<bus, unpublished, reported>>
     ELSE /\ \E ran \in BOOLEAN :
               reported' = Append(reported, [session |-> s, name |-> name, ran |-> ran])
          /\ LET objects == Publish(Objects, Native("result", s, name, Len(reported')))
             IN  bus' = objects.bus /\ unpublished' = objects.unpublished
  /\ UNCHANGED <<announced, generated>>

\* What the client does with JobResultAvailable().
UpdateJobResult(s, k) ==
  /\ reported[k].session = s
  /\ result' = [result EXCEPT ![s][reported[k].name] = Reported(k)]
  /\ LET new == IF reported[k].name = Local /\ reported[k].ran THEN Generate(s) ELSE <<>>
     IN  /\ job_list' = [job_list EXCEPT ![s] = @ \o new]
         /\ generated' = IF new = <<>> THEN generated ELSE generated \cup {s}
  /\ UNCHANGED <<bus, unpublished, announced, reported, hint, saved, owners, resumed>>

\* manager.checkpoint(): the results there are, unless the directory is gone.
PersistentSave(s) ==
  /\ Created(s)
  /\ \/ /\ s \in owners /\ hint[s] = "none"
        /\ saved' = {[names |-> {n \in NamesOf(s) : result[s][n] # FirstResult(s, n)},
                      generates |-> result[s][Local].kind = "restored"
                        \/ \E k \in DOMAIN reported :
                             result[s][Local] = Reported(k) /\ reported[k].ran]}
        /\ UNCHANGED <<job_list, result, hint, owners, resumed>>
     \/ hint[s] # "none" /\ Commit(s)
  /\ UNCHANGED <<bus, unpublished, announced, reported, generated>>

\* Clean(): a new last session, unless the hints were committed before.
Clean(s) ==
  /\ Created(s)
  /\ Commit(s)
  /\ UNCHANGED <<bus, unpublished, announced, reported, generated>>

\* The second half of Resume() wraps the jobs that the session did not have before
\* and that have no wrapper, and the states of all jobs, which have one already, but
\* for those of new jobs: in the arbitrary order of the map, some new jobs come first.
WrapResumed(s) ==
  LET OfBuiltin(j) == j.session = 0
      new == SelectSeq(job_list'[s], LAMBDA j : ~OfBuiltin(j))
  IN  \E chosen \in SUBSET ToSet(new), b \in Builtin :
        SetObjects(
          WrapState(
            FoldLeft(LAMBDA objects, j :
                       IF j \in chosen
                       THEN WrapState(IF j \in ToSet(job_list[s]) \/ HasWrapper(objects, j)
                                      THEN objects
                                      ELSE Publish(objects, j),
                                      s, j.name, result'[s][j.name])
                       ELSE objects,
                     Objects, new),
            s, b, result'[s][b]))

\* Resume(): nothing is restored when the hints were committed before, or when
\* no session was saved, which raises.
Resume(s) ==
  /\ Created(s)
  /\ \/ /\ hint[s] # "none" /\ Restore(s)
        /\ IF hint'[s] = "none" THEN WrapResumed(s)
           ELSE UNCHANGED <<bus, unpublished, announced>>
     \/ /\ hint[s] # "none" /\ saved = {}
        /\ hint' = [hint EXCEPT ![s] = "resume"]
        /\ UNCHANGED <<bus, unpublished, announced, job_list, result, saved, owners,
                       resumed>>
     \/ /\ hint[s] = "none"
        /\ resumed' = resumed \cup {s}
        /\ UNCHANGED <<job_list, result, hint, saved, owners>>
        /\ WrapResumed(s)
  /\ UNCHANGED <<reported, generated>>

ObjectsNext ==
  \/ \E s \in Sessions :
       \/ CreateSession(s) \/ UpdateDesiredJobList(s) \/ PersistentSave(s)
       \/ Clean(s) \/ Resume(s)
       \/ \E name \in ObjectsNames : RunJob(s, name)
       \/ \E k \in DOMAIN reported : UpdateJobResult(s, k)

ObjectsSpec == ObjectsInit /\ [][ObjectsNext]_objects_vars

-----------------------------------------------------------------------------
(* Correctness.                                                            *)

\* The jobs of a session can be had ("internal error, unable to lookup object
\* wrapper", service.py:171) after UpdateDesiredJobList(), unless the session
\* was resumed, or another session has generated an equal job ("TODO: this
\* clashes with providers, maybe use a random ID instead", service.py:248).
JobsAreReadable ==
  \A s \in Sessions : \A j \in ToSet(job_list[s]) :
    Found(j) \/ s \in generated \cup resumed
      \/ \E i \in ToSet(job_list[s]) : \E m \in bus : SamePath(m, i) /\ m # i

\* The result of every job state that clients can see is one that they can
\* see, unless the session was resumed.
ResultsAreReadable ==
  \A s \in Sessions : \A n \in NamesOf(s) :
    State(s, n) \in bus => Found(result[s][n]) \/ s \in resumed

\* The wrapper that is found for an object has a path, but in a session that
\* was resumed: Resume() raises, as it wraps again the states that "weren't
\* known when the session was created" (service.py:703), and were.
WrappersHavePaths ==
  \A native \in unpublished : native.session \in resumed

\* Clients are told of every object that is published, except for generated
\* jobs, their states and results, and what is reported of running jobs.
ClientsAreTold ==
  \A native \in bus \ announced :
    \/ native.name \in ToSet(Generated) /\ native.kind # "session"
    \/ native.kind = "result" /\ native.number # 0

-----------------------------------------------------------------------------
(***************************************************************************)
(* The D-Bus objects of the service (impl/dbus/service.py) and what their  *)
(* clients are told: the map from paths to objects, the objects that are   *)
(* managed, which InterfacesAdded() and InterfacesRemoved() announce, and  *)
(* the outcome of results (impl/service.py), a property that clients can   *)
(* set and whose changes PropertiesChanged() announces.  The comments of   *)
(* a result are set in the same way.                                       *)
(*                                                                         *)
(* There is one connection ("using multiple connections is not supported", *)
(* service.py:516), the manager stays on it, and `known' is what a client  *)
(* knows that has followed all signals from the start.                     *)
(***************************************************************************)

CONSTANTS
  Wrappers,  \* the objects
  PathOf,    \* object -> path; equal objects have the same one
  NoticesOutcomes,  \* what a result may have for its outcome, besides none
  MaxManaged \* bound: the length of the list of managed objects

VARIABLES
  exported,  \* the objects that are on the bus
  ever,      \* those that have been; the library keeps their path
  path_map,  \* _object_path_to_object_map
  managed,   \* _managed_object_list
  notices_outcome,   \* that of the native object
  notices_known,     \* path -> outcome, or Unknown
  stopped    \* has an announcement raised before its end?

notices_vars == <<exported, ever, path_map, managed, notices_outcome, notices_known, stopped>>

Paths == {PathOf[o] : o \in Wrappers}

NoObject == "no object"
Unknown == "unknown"
OUTCOME_NONE == "None"

NoticesTypeOK ==
  /\ exported \subseteq ever /\ ever \subseteq Wrappers
  /\ path_map \in [Paths -> Wrappers \cup {NoObject}]
  /\ managed \in BoundedSeq(Wrappers, MaxManaged)
  /\ notices_outcome \in [Wrappers -> NoticesOutcomes \cup {OUTCOME_NONE}]
  /\ notices_known \in [Paths -> NoticesOutcomes \cup {"none", Unknown}]
  /\ stopped \in BOOLEAN

NoticesInit ==
  /\ exported = {} /\ ever = {} /\ path_map = [p \in Paths |-> NoObject]
  /\ managed = <<>> /\ notices_outcome = [o \in Wrappers |-> OUTCOME_NONE]
  /\ notices_known = [p \in Paths |-> Unknown] /\ stopped = FALSE

---------------------------------------------------------------------------
(* Paths *)

\* The library refuses a path that has a handler, before anything is changed.
add_to_connection(o) ==
  /\ \A e \in exported : PathOf[e] # PathOf[o]
  /\ exported' = exported \cup {o} /\ ever' = ever \cup {o}
  /\ path_map' = [path_map EXCEPT ![PathOf[o]] = o]
  /\ UNCHANGED <<managed, notices_outcome, notices_known, stopped>>

\* The association of the location that was removed.
Forget(o) == [path_map EXCEPT ![PathOf[o]] = NoObject]

\* The library raises if the object is not on the bus, with what wild cards so ever.
remove_from_connection(o) ==
  /\ o \in exported
  /\ exported' = exported \ {o}
  /\ path_map' = Forget(o)
  /\ UNCHANGED <<ever, managed, notices_outcome, notices_known, stopped>>

---------------------------------------------------------------------------
(* Properties *)

\* The getter of the wrapper.
Shown(value) == IF value = OUTCOME_NONE THEN "none" ELSE value

\* What NoticesGetAll() has of the object, when its announcement is written.
NoticesGetAll(o) == Shown(notices_outcome[o])

\* The setter of the wrapper.
Wanted(value) == IF value = "none" THEN OUTCOME_NONE ELSE value

\* The wrapper emits PropertiesChanged() with the native value: none is not a
\* value of D-Bus, which raises.
on_outcome_changed(o, old, new) ==
  IF new = OUTCOME_NONE \/ notices_known[PathOf[o]] = Unknown THEN notices_known
  ELSE [notices_known EXCEPT ![PathOf[o]] = new]

\* The native setter fires its signal when the value differs.  If that raises,
\* Set() does, although the outcome is changed.
NoticesSet(o, value) ==
  /\ o \in exported
  /\ Wanted(value) # notices_outcome[o]
  /\ notices_outcome' = [notices_outcome EXCEPT ![o] = Wanted(value)]
  /\ notices_known' = on_outcome_changed(o, notices_outcome[o], Wanted(value))
  /\ UNCHANGED <<exported, ever, path_map, managed, stopped>>

---------------------------------------------------------------------------
(* Managed objects *)

\* The objects that the second list has and the first has not.
NoticesChanged(old, new) == ToSet(new) \ ToSet(old)

\* The objects are gone through in an arbitrary order; one that has never been
\* on the bus has no path, which raises.
Announced(objects) ==
  IF objects \subseteq ever THEN {objects} ELSE SUBSET (objects \cap ever)

add_managed_object_list(list) ==
  /\ Len(managed) + Len(list) <= MaxManaged
  /\ managed' = managed \o list
  /\ \E told \in Announced(NoticesChanged(managed, managed \o list)) :
       /\ notices_known' = [p \in Paths |->
                             IF \E o \in told : PathOf[o] = p
                             THEN NoticesGetAll(CHOOSE o \in told : PathOf[o] = p) ELSE notices_known[p]]
       /\ stopped' = (stopped \/ told # NoticesChanged(managed, managed \o list))
  /\ UNCHANGED <<exported, ever, path_map, notices_outcome>>

\* ValueError, before anything is changed, if the object is not managed.
remove_managed_object(o) ==
  /\ o \in ToSet(managed)
  /\ managed' = RemoveFirst(managed, o)
  /\ \E told \in Announced(NoticesChanged(RemoveFirst(managed, o), managed)) :
       /\ notices_known' = [p \in Paths |->
                             IF \E t \in told : PathOf[t] = p THEN Unknown ELSE notices_known[p]]
       /\ stopped' = (stopped \/ told # NoticesChanged(RemoveFirst(managed, o), managed))
  /\ UNCHANGED <<exported, ever, path_map, notices_outcome>>

NoticesNext ==
  \/ \E o \in Wrappers :
       \/ add_to_connection(o) \/ remove_from_connection(o)
       \/ \E value \in NoticesOutcomes \cup {"none"} : NoticesSet(o, value)
       \/ remove_managed_object(o)
  \/ \E list \in BoundedSeq(Wrappers, 2) : list # <<>> /\ add_managed_object_list(list)

NoticesSpec == NoticesInit /\ [][NoticesNext]_notices_vars

---------------------------------------------------------------------------
(* Properties *)

Alone(o) == \A e \in ever : PathOf[e] = PathOf[o] => e = o

\* find_object_by_path() finds what handles the calls to a path, and nothing
\* else.
FoundIsExported ==
  \A p \in Paths, o \in Wrappers : path_map[p] = o <=> o \in exported /\ PathOf[o] = p

\* Who follows InterfacesAdded() and InterfacesRemoved() knows the objects that
\* GetManagedObjects() returns, whatever is added twice and removed once, unless
\* an object was managed before it was on the bus, or two have had one path.
FollowersKnowTheList ==
  ~stopped => \A o \in ever : Alone(o) => (notices_known[PathOf[o]] # Unknown <=> o \in ToSet(managed))

\* They know the outcome that Get() returns, too, for as long as it is not set
\* back to none.
FollowersKnowOutcomes ==
  \A o \in exported : Alone(o) /\ notices_known[PathOf[o]] # Unknown =>
    notices_known[PathOf[o]] = NoticesGetAll(o) \/ notices_outcome[o] = OUTCOME_NONE

-----------------------------------------------------------------------------
(***************************************************************************)
(* The properties of a job result on D-Bus: Get(), Set(), GetAll() and     *)
(* PropertiesChanged() of plainbox/impl/dbus/service.py for                *)
(* JobResultWrapper and RunningJob (plainbox/impl/service.py), and the     *)
(* results underneath (plainbox/impl/result.py).                           *)
(*                                                                         *)
(* A result is a view of a dictionary.  The one of a RunningJob, which is  *)
(* number 0, is shared by the results of all calls of its SetOutcome();    *)
(* a job that is run by the service has one of its own.  A client follows  *)
(* a result: it has once called GetAll(), and then listens to the signal.  *)
(***************************************************************************)

CONSTANTS
  Comments,    \* the comments of the operator; "" is one of them
  ResultMaxResults   \* bound: how many results are reported

VARIABLES
  dicts,     \* the dictionaries of the RunningJob and of each result
  results,   \* the published results: the number of the dictionary of each
  result_known,     \* what a client knows of each: its settable properties -> value
  reply      \* the last reply of Set(): "ok", "refused" or "unable"

result_vars == <<dicts, results, result_known, reply>>

\* None, which no message can carry.
None == "None"

\* The properties of the interface, with what they have: a getter, a setter.
Table ==
  [outcome            |-> {"get", "set"}, comments    |-> {"get", "set"},
   execution_duration |-> {"get"},        return_code |-> {"get"},
   io_log             |-> {"get"}]

ResultNames == DOMAIN Table

Settable == {name \in ResultNames : "set" \in Table[name]}

ResultOutcomes == {"none", "pass", "fail"}

NewDict == [outcome |-> None, comments |-> None, return_code |-> None]

ResultTypeOK ==
  /\ DOMAIN dicts = 0..Len(results)
  /\ \A d \in DOMAIN dicts :
       dicts[d] \in [outcome : {None, "pass", "fail"}, comments : Comments \cup {None},
                     return_code : {None, "0", "1"}]
  /\ Len(results) <= ResultMaxResults /\ \A r \in DOMAIN results : results[r] \in {0, r}
  /\ DOMAIN result_known = DOMAIN results
  /\ \A r \in DOMAIN result_known : DOMAIN result_known[r] \in {{}, Settable}
  /\ reply \in {"ok", "refused", "unable"}

ResultInit ==
  /\ dicts = [d \in {0} |-> NewDict] /\ results = <<>> /\ result_known = <<>>
  /\ reply = "ok"

---------------------------------------------------------------------------
(* Properties *)

\* What a getter returns.
Getter(data, name) ==
  CASE name = "outcome"            -> IF data.outcome = None THEN "none" ELSE data.outcome
    [] name = "comments"           -> IF data.comments = None THEN "" ELSE data.comments
    [] name = "execution_duration" -> "-1.0"
    [] name = "return_code"        -> IF data.return_code = None THEN "" ELSE data.return_code
    [] name = "io_log"             -> "records"

ResultGetAll(data) == [name \in {n \in ResultNames : "get" \in Table[n]} |-> Getter(data, name)]

\* Mutant of SetterValue: comments are mapped like an outcome.
SetterValueOfBoth(name, value) == IF value \in {"none", ""} THEN None ELSE value

\* The setter of the outcome maps "none" to None.
SetterValue(name, value) == IF name = "outcome" /\ value = "none" THEN None ELSE value

\* PropertiesChanged()
ResultChanged(r, name, value) ==
  result_known' = IF DOMAIN result_known[r] = {} THEN result_known ELSE [result_known EXCEPT ![r][name] = value]

\* The setter of the native result, and the signal that follows a change of it;
\* None cannot be sent, which raises when the result is changed already.
SetNative(r, name, new) ==
  IF dicts[results[r]][name] = new THEN reply' = "ok" /\ UNCHANGED <<dicts, result_known>>
  ELSE /\ dicts' = [dicts EXCEPT ![results[r]][name] = new]
       /\ IF new = None THEN reply' = "unable" /\ UNCHANGED result_known
          ELSE reply' = "ok" /\ ResultChanged(r, name, new)

\* Only a settable property of an interface that there is can be set.
SetProperty(r, interface, name, value) ==
  /\ IF interface = "JobResult" /\ name \in Settable
     THEN SetNative(r, name, SetterValue(name, value))
     ELSE reply' = "refused" /\ UNCHANGED <<dicts, result_known>>
  /\ UNCHANGED <<results>>

ValuesOf(name) == IF name = "outcome" THEN ResultOutcomes ELSE IF name = "comments" THEN Comments ELSE {"1"}

ResultSet ==
  \E r \in DOMAIN results, interface \in {"JobResult", "Job"}, name \in ResultNames \cup {"job"} :
    \E value \in ValuesOf(name) : SetProperty(r, interface, name, value)

\* A client calls ResultGetAll(), and listens from now on.
Follow ==
  \E r \in DOMAIN results :
    /\ result_known' = [result_known EXCEPT ![r] = [n \in Settable |-> ResultGetAll(dicts[results[r]])[n]]]
    /\ UNCHANGED <<dicts, results, reply>>

---------------------------------------------------------------------------
(* RunningJob *)

\* emitJobResultAvailable() of a result of dictionary d.
JobResultAvailable(d, data) ==
  /\ Len(results) < ResultMaxResults
  /\ results' = Append(results, d) /\ result_known' = Append(result_known, <<>>)
  /\ dicts' = [i \in 0..(Len(results) + 1) |->
                 IF i = d THEN data ELSE IF i \in DOMAIN dicts THEN dicts[i] ELSE NewDict]

SetOutcome ==
  \E outcome \in {"pass", "fail"}, comments \in Comments :
    /\ JobResultAvailable(0, [dicts[0] EXCEPT !.outcome = outcome, !.comments = comments])
    /\ UNCHANGED reply

\* update_job_result_callback(), with a result that the runner has made.
UpdateJobResultCallback ==
  \E outcome \in {"pass", "fail"} :
    /\ JobResultAvailable(Len(results) + 1,
         [NewDict EXCEPT !.outcome = outcome,
                         !.return_code = IF outcome = "pass" THEN "0" ELSE "1"])
    /\ UNCHANGED reply

\* _command_callback()
CommandCallback ==
  \E return_code \in {"0", "1"} :
    /\ dicts' = [dicts EXCEPT ![0].return_code = return_code]
    /\ UNCHANGED <<results, result_known, reply>>

ResultNext ==
  \/ ResultSet \/ Follow
  \/ SetOutcome \/ UpdateJobResultCallback \/ CommandCallback

ResultSpec == ResultInit /\ [][ResultNext]_result_vars

---------------------------------------------------------------------------
(* Correctness *)

\* The dictionary of a result that can change behind it: that of the RunningJob.
OfRunner(r) == results[r] = 0

\* A client that has called ResultGetAll() of a result and listens to its signal knows
\* its outcome and its comments, as Get() would return them, whoever sets them;
\* but not those of a RunningJob, whose dictionary is changed without a signal,
\* and not an outcome that was set to "none", which no signal can carry.
FollowersKnow ==
  \A r \in DOMAIN results :
    LET data == dicts[results[r]] IN
      DOMAIN result_known[r] # {} /\ ~OfRunner(r) =>
        /\ result_known[r]["comments"] = Getter(data, "comments")
        /\ result_known[r]["outcome"] = Getter(data, "outcome") \/ data.outcome = None

\* A call of Set() that fails leaves all results as they were, but for an outcome
\* of "none", which is set all the same.
FailureChangesNothing ==
  [][reply' # "ok" /\ dicts' # dicts =>
       \/ results' # results \/ dicts[0].return_code # dicts'[0].return_code
       \/ \E r \in DOMAIN results :
            dicts' = [dicts EXCEPT ![results[r]].outcome = None]]_result_vars
=============================================================================
