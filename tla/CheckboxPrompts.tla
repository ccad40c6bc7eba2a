--------------------------- MODULE CheckboxPrompts ---------------------------
(***************************************************************************)
(* The run of checkbox from the first question to the last: the loop of    *)
(* plugins/user_interface.py over its events, and the plugins that answer  *)
(* them (recover_prompt, intro_prompt, gather_prompt, suites_prompt,       *)
(* jobs_prompt with manual_test and shell_test, report_prompt,             *)
(* launchpad_prompt, final_prompt), with what they keep on disk: the store *)
(* of jobs (checkbox/message.py) and the persist file (persist_info).      *)
(*                                                                         *)
(* The program may die between any two steps and be started again; a save  *)
(* of the persist file that is cut short leaves nothing that can be loaded *)
(* (module PersistFile).  A message of the store is replaced by a rename,  *)
(* in one step.                                                            *)
(***************************************************************************)
EXTENDS Naturals, Sequences, SequencesExt, FiniteSets

CONSTANTS
  Jobs,       \* the names of the jobs, in the order of report-jobs
  Manual,     \* those that the user answers; the others are shell jobs
  Depends,    \* for each job the names that it depends on
  Requires,   \* the jobs that require a resource
  MaxStarts,  \* bound: how often the program is started
  MaxBacks    \* bound: how often the user goes back

JobsAssumption ==
  /\ Jobs \in Seq(ToSet(Jobs)) /\ \A i, k \in DOMAIN Jobs : Jobs[i] = Jobs[k] => i = k
  /\ Manual \subseteq ToSet(Jobs)
  /\ Depends \in [ToSet(Jobs) -> SUBSET ToSet(Jobs)]
  /\ Requires \subseteq ToSet(Jobs)
  /\ MaxStarts \in Nat /\ MaxBacks \in Nat

VARIABLES
  store,         \* the messages on disk, in the order of their file names
  saved,         \* the persist file: pending offset and recover flag
  persist,       \* the same in memory
  ui,            \* the user interface
  pc, direction, \* where the program is; interface.direction
  fail_current,  \* _fail_current of jobs_prompt
  ignore,        \* _ignore of jobs_prompt
  gathered,      \* gather_prompt's answer is cached
  unmet,         \* the jobs whose requirements the resources do not meet
  starts, backs, \* history: how often started, how often the user went back
  answer,        \* history: the answer to the recover question of this start
  ran,           \* history: the jobs whose command was started,
  prompted,      \* and those prompted, since their message was added
  lost,          \* history: a save was cut short
  deleted, torn  \* history: messages were deleted since the last save, and
                 \* the program died then

disk == <<store, saved>>
memory == <<persist, ui, pc, direction, fail_current, ignore, gathered, unmet>>
seen == <<ran, prompted>>
faults == <<lost, deleted, torn>>
vars == <<disk, memory, starts, backs, answer, seen, faults>>

Names == ToSet(Jobs)

Status == {"uninitiated", "untested", "unsupported", "pass", "fail"}

NothingSaved == [offset |-> 0, recover |-> FALSE]

\* Where the program waits for the user.
Questions ==
  {"recovering", "intro", "choosing", "asking", "reviewing", "exchanging", "finishing"}

\* The questions that have a button to go back, in each of the interfaces.
CliBack == {}
GtkBack == {"choosing", "asking", "exchanging", "finishing"}
UrwidBack == {"choosing", "asking", "reviewing", "exchanging"}
QtBack == {"asking"}

CanGoBack ==
  [cli |-> CliBack, gtk |-> GtkBack, urwid |-> UrwidBack, qt |-> QtBack]

Interfaces == DOMAIN CanGoBack

TypeOK ==
  /\ store \in Seq([name : Names, status : Status])
  /\ saved \in [offset : Nat, recover : BOOLEAN]
  /\ persist \in [offset : Nat, recover : BOOLEAN]
  /\ pc \in Questions \cup {"down", "deleting", "gathering", "adding", "jobs",
                            "saving", "prompting", "running", "clearing", "stopping"}
  /\ direction \in {"next", "prev"} /\ ui \in Interfaces
  /\ fail_current \in BOOLEAN /\ gathered \in BOOLEAN
  /\ ignore \subseteq Names /\ unmet \subseteq Requires
  /\ ran \subseteq Names /\ prompted \subseteq Names

Init ==
  /\ store = <<>> /\ saved = NothingSaved /\ persist = NothingSaved
  /\ pc = "down" /\ direction = "next" /\ ui = "cli"
  /\ fail_current = FALSE /\ ignore = {} /\ gathered = FALSE /\ unmet = {}
  /\ starts = 0 /\ backs = 0 /\ answer = "none"
  /\ ran = {} /\ prompted = {} /\ lost = FALSE /\ deleted = FALSE /\ torn = FALSE

StatusOf(s, name) == (CHOOSE m \in ToSet(s) : m.name = name).status

InStore(name) == \E m \in ToSet(store) : m.name = name

Pending == SubSeq(store, persist.offset + 1, Len(store))

Current == Head(Pending)

WithStatus(status) == [store EXCEPT ![persist.offset + 1].status = status]

SetOffset(n) == persist' = [persist EXCEPT !.offset = n]

-----------------------------------------------------------------------------
(* prompt-begin *)

\* A new process loads the persist file and asks, when the last one did not
\* come to its end, how to go on.
Start(i) ==
  /\ pc = "down" /\ starts < MaxStarts
  /\ ui' = i
  /\ starts' = starts + 1
  /\ persist' = [saved EXCEPT !.recover = TRUE]
  /\ pc' = IF saved.recover THEN "recovering" ELSE "intro"
  /\ UNCHANGED <<disk, direction, fail_current, ignore, gathered, unmet, backs, answer, seen,
                 faults>>

\* begin-recover: only a restart forgets the jobs.  The welcome text is shown
\* when nothing was recovered.
Recover(a) ==
  /\ pc = "recovering"
  /\ answer' = a
  /\ fail_current' = (a = "Continue")
  /\ IF a = "Restart" THEN SetOffset(0) /\ pc' = "deleting"
     ELSE pc' = "gathering" /\ UNCHANGED persist
  /\ UNCHANGED <<disk, ui, direction, ignore, gathered, unmet, starts, backs, seen, faults>>

\* delete_all_messages, one file after the other
Delete ==
  /\ store # <<>>
  /\ store' = Tail(store) /\ deleted' = TRUE
  /\ ran' = ran \ {Head(store).name} /\ prompted' = prompted \ {Head(store).name}
  /\ UNCHANGED <<saved, memory, starts, backs, answer, lost, torn>>

DeleteMessage == pc = "deleting" /\ Delete

Deleted ==
  /\ pc = "deleting" /\ store = <<>>
  /\ pc' = "gathering"
  /\ UNCHANGED <<disk, persist, ui, direction, fail_current, ignore, gathered, unmet, starts, backs,
                 answer, seen, faults>>

Intro ==
  /\ pc = "intro"
  /\ direction' = "next" /\ pc' = "gathering"
  /\ UNCHANGED <<disk, persist, ui, fail_current, ignore, gathered, unmet, starts, backs, answer, seen,
                 faults>>

-----------------------------------------------------------------------------
(* prompt-gather *)

\* What was in memory is gone.
Forget ==
  /\ pc' = "down" /\ persist' = NothingSaved /\ direction' = "next" /\ ui' = "cli"
  /\ fail_current' = FALSE /\ ignore' = {} /\ gathered' = FALSE /\ unmet' = {}
  /\ answer' = "none"

Save == saved' = persist /\ deleted' = FALSE /\ UNCHANGED <<lost, torn>>

\* The jobs and resources are gathered once for each process, and the persist
\* file is saved before the jobs are added.
Gather ==
  /\ pc = "gathering" /\ ~gathered
  /\ Save
  /\ gathered' = TRUE /\ pc' = "adding" /\ unmet' \in SUBSET Requires
  /\ UNCHANGED <<store, persist, ui, direction, fail_current, ignore, starts, backs, answer,
                 seen>>

GatherAgain ==
  /\ pc = "gathering" /\ gathered
  /\ pc' = "choosing"
  /\ UNCHANGED <<disk, persist, ui, direction, fail_current, ignore, gathered, unmet, starts, backs,
                 answer, seen, faults>>

\* JobStore.add keeps a job that is in the store already.
NextMissing(name) ==
  \E i \in DOMAIN Jobs : /\ Jobs[i] = name /\ ~InStore(name)
                         /\ \A k \in 1..i-1 : InStore(Jobs[k])

Add(name) ==
  /\ pc = "adding" /\ NextMissing(name)
  /\ store' = Append(store, [name |-> name, status |-> "uninitiated"])
  /\ UNCHANGED <<saved, memory, starts, backs, answer, seen, faults>>

Added ==
  /\ pc = "adding" /\ \A name \in Names : InStore(name)
  /\ pc' = "choosing"
  /\ UNCHANGED <<disk, persist, ui, direction, fail_current, ignore, gathered, unmet, starts, backs,
                 answer, seen, faults>>

\* The user goes on or, MaxBacks times and where the interface has a button for
\* it, back.
Turn(d) ==
  /\ direction' = d
  /\ IF d = "prev" THEN pc \in CanGoBack[ui] /\ backs < MaxBacks /\ backs' = backs + 1
     ELSE UNCHANGED backs

IgnoredAll(chosen) == Names \ chosen

\* suites_prompt: what is not chosen is ignored, unless it has a result.
Ignored(chosen) ==
  {n \in Names \ chosen : InStore(n) /\ StatusOf(store, n) = "uninitiated"}

Choose(chosen, d) ==
  /\ pc = "choosing"
  /\ Turn(d)
  /\ ignore' = Ignored(chosen)
  /\ pc' = IF d = "next" THEN "jobs" ELSE "intro"
  /\ UNCHANGED <<disk, persist, ui, fail_current, gathered, unmet, starts, answer, seen, faults>>

\* The command line interface fails with an IndexError if `+' is followed by a
\* key that is no option, and the jobs to ignore stay as they were.
ChooseFails ==
  /\ pc = "choosing" /\ ui = "cli"
  /\ pc' = "jobs"
  /\ UNCHANGED <<disk, persist, ui, direction, fail_current, ignore, gathered, unmet, starts, backs,
                 answer, seen, faults>>

-----------------------------------------------------------------------------
(* prompt-jobs, one action per path through the loop.  Going back, the     *)
(* loop first takes the offset back, and ends at the first job.            *)

\* The offset after remove_pending_offset.
Offset == IF direction = "prev" THEN persist.offset - 1 ELSE persist.offset

NeverAtFirst == FALSE

AtFirst == direction = "prev" /\ persist.offset = 0

Leave(n) ==
  /\ SetOffset(n)
  /\ pc' = IF direction = "next" THEN "reviewing" ELSE "gathering"

BackAtFirst ==
  /\ pc = "jobs" /\ AtFirst
  /\ pc' = "gathering"
  /\ UNCHANGED <<disk, persist, ui, direction, fail_current, ignore, gathered, unmet, starts, backs,
                 answer, seen, faults>>

\* The job at which the program died is marked as failed; an IndexError when
\* none is pending ends the handler, and the mark is still to be set.
FailCurrent ==
  /\ pc = "jobs" /\ ~AtFirst /\ fail_current
  /\ IF Offset < Len(store)
     THEN /\ store' = [store EXCEPT ![Offset + 1].status = "fail"]
          /\ prompted' = prompted \cup {store[Offset + 1].name}
          /\ SetOffset(Offset + 1)
          /\ fail_current' = FALSE
          /\ pc' = "saving"
     ELSE /\ Leave(IF direction = "next" THEN Len(store) ELSE Offset)
          /\ UNCHANGED <<store, prompted, fail_current>>
  /\ UNCHANGED <<saved, ui, direction, ignore, gathered, unmet, starts, backs, answer, ran, faults>>

\* report_prompt: after the last job, the report sets the offset to the number
\* of messages.
NoMoreJobs ==
  /\ \/ pc = "jobs" /\ ~AtFirst /\ ~fail_current
     \/ pc = "saving"
  /\ (IF pc = "jobs" THEN Offset ELSE persist.offset) >= Len(store)
  /\ Leave(IF direction = "next" THEN Len(store) ELSE Offset)
  /\ UNCHANGED <<disk, ui, direction, fail_current, ignore, gathered, unmet, starts, backs, answer,
                 seen, faults>>

NextJob ==
  /\ pc = "jobs" /\ ~AtFirst /\ ~fail_current
  /\ Offset < Len(store)
  /\ SetOffset(Offset) /\ pc' = "saving"
  /\ UNCHANGED <<disk, ui, direction, fail_current, ignore, gathered, unmet, starts, backs, answer,
                 seen, faults>>

\* persist_info saves before any other handler of prompt-job.
SaveBeforeJob ==
  /\ pc = "saving" /\ Pending # <<>>
  /\ Save /\ pc' = "prompting"
  /\ UNCHANGED <<store, persist, ui, direction, fail_current, ignore, gathered, unmet, starts, backs,
                 answer, seen>>

IsBlocked ==
  \E m \in ToSet(store) : m.name \in Depends[Current.name] /\ m.status # "pass"

UpdateInPlace(status, d) ==
  /\ store' = WithStatus(status)
  /\ SetOffset(persist.offset)
  /\ pc' = "jobs"

\* The job is updated, and the loop goes on to the next one or, when the user
\* goes back, to the one before it.
Update(status, d) ==
  /\ store' = WithStatus(status)
  /\ SetOffset(IF d = "next" THEN persist.offset + 1 ELSE persist.offset)
  /\ pc' = "jobs"

Prompted == prompted' = prompted \cup {Current.name}

IsNew(job) == job.status = "uninitiated"

\* A job whose requirements are not met is unsupported and one that is not
\* chosen is untested, whatever became of it before; one with a dependency that
\* did not pass, and a shell job that has a result, keep their status.
PassOver ==
  /\ pc = "prompting"
  /\ LET job == Current IN
     \/ job.name \in unmet /\ Update("unsupported", direction)
     \/ job.name \in ignore \ unmet /\ Update("untested", direction)
     \/ /\ job.name \notin ignore \cup unmet
        /\ IsBlocked \/ (job.name \notin Manual /\ ~IsNew(job))
        /\ Update(job.status, direction)
  /\ Prompted
  /\ UNCHANGED <<saved, ui, direction, fail_current, ignore, gathered, unmet, starts, backs, answer,
                 ran, faults>>

CanPrompt == pc = "prompting" /\ Current.name \notin ignore \cup unmet /\ ~IsBlocked

StartCommand ==
  /\ CanPrompt /\ Current.name \notin Manual /\ IsNew(Current)
  /\ pc' = "running"
  /\ ran' = ran \cup {Current.name} /\ Prompted
  /\ UNCHANGED <<disk, persist, ui, direction, fail_current, ignore, gathered, unmet, starts, backs,
                 answer, faults>>

CommandEnds(status) ==
  /\ pc = "running"
  /\ Update(status, direction)
  /\ UNCHANGED <<saved, ui, direction, fail_current, ignore, gathered, unmet, starts, backs, answer,
                 seen, faults>>

ShowTest ==
  /\ CanPrompt /\ Current.name \in Manual
  /\ pc' = "asking" /\ Prompted
  /\ UNCHANGED <<disk, persist, ui, direction, fail_current, ignore, gathered, unmet, starts, backs,
                 answer, ran, faults>>

\* The Qt interface takes no verdict when the user goes back.
Answer(status, d) ==
  /\ pc = "asking"
  /\ Turn(d)
  /\ IF ui = "qt" /\ d = "prev" THEN status = Current.status
     ELSE status \in {"untested", "pass", "fail"}
  /\ Update(status, d)
  /\ UNCHANGED <<saved, ui, fail_current, ignore, gathered, unmet, starts, answer, seen, faults>>

-----------------------------------------------------------------------------
(* prompt-exchange and prompt-finish *)

\* report-review, in the interfaces that show a report; the others leave the
\* direction as it is.  Going back, the jobs are prompted from the last one.
Review(d) ==
  /\ pc = "reviewing"
  /\ IF ui = "urwid" THEN Turn(d) ELSE d = direction /\ UNCHANGED <<direction, backs>>
  /\ pc' = IF d = "next" THEN "exchanging" ELSE "jobs"
  /\ UNCHANGED <<disk, persist, ui, fail_current, ignore, gathered, unmet, starts, answer, seen, faults>>

\* Going back, the report is not built again.
Exchange(d) ==
  /\ pc = "exchanging"
  /\ Turn(d)
  /\ pc' = IF d = "next" THEN "finishing" ELSE "reviewing"
  /\ UNCHANGED <<disk, persist, ui, fail_current, ignore, gathered, unmet, starts, answer, seen, faults>>

Finish(d) ==
  /\ pc = "finishing"
  /\ Turn(d)
  /\ IF d = "next" THEN SetOffset(0) /\ pc' = "clearing"
     ELSE pc' = "exchanging" /\ UNCHANGED persist
  /\ UNCHANGED <<disk, ui, fail_current, ignore, gathered, unmet, starts, answer, seen, faults>>

ClearMessage == pc = "clearing" /\ Delete

Cleared ==
  /\ pc = "clearing" /\ store = <<>>
  /\ persist' = [persist EXCEPT !.recover = FALSE]
  /\ pc' = "stopping"
  /\ UNCHANGED <<disk, ui, direction, fail_current, ignore, gathered, unmet, starts, backs, answer,
                 seen, faults>>

\* At any question the user may stop the program.
Quit ==
  /\ pc \in Questions
  /\ pc' = "stopping"
  /\ UNCHANGED <<disk, persist, ui, direction, fail_current, ignore, gathered, unmet, starts, backs,
                 answer, seen, faults>>

Stop ==
  /\ pc = "stopping"
  /\ Save /\ Forget
  /\ UNCHANGED <<store, starts, backs, seen>>

-----------------------------------------------------------------------------

\* The process dies; in a save, the file may be lost.
Crash ==
  /\ pc # "down" /\ starts < MaxStarts
  /\ Forget
  /\ \/ UNCHANGED <<saved, lost>>
     \/ /\ pc \in {"saving", "stopping"} \/ (pc = "gathering" /\ ~gathered)
        /\ saved' = NothingSaved /\ lost' = TRUE
  /\ torn' = (torn \/ deleted)
  /\ UNCHANGED <<store, starts, backs, seen, deleted>>

Program ==
  \/ DeleteMessage \/ Deleted \/ Gather \/ GatherAgain
  \/ \E name \in Names : Add(name)
  \/ Added \/ BackAtFirst \/ FailCurrent \/ NoMoreJobs \/ NextJob \/ SaveBeforeJob
  \/ PassOver \/ StartCommand \/ ShowTest
  \/ (ui \in {"gtk", "qt"} /\ \E d \in {"next", "prev"} : Review(d))
  \/ \E status \in {"pass", "fail"} : CommandEnds(status)
  \/ ClearMessage \/ Cleared \/ Stop

User ==
  \/ \E a \in {"Rerun", "Continue", "Restart"} : Recover(a)
  \/ Intro \/ Quit
  \/ \E d \in {"next", "prev"} :
       \/ Review(d) \/ Exchange(d) \/ Finish(d)
       \/ \E chosen \in SUBSET Names : Choose(chosen, d)
       \/ \E status \in Status : Answer(status, d)
  \/ ChooseFails

Next == (\E i \in Interfaces : Start(i)) \/ Program \/ User \/ Crash

Spec == Init /\ [][Next]_vars /\ WF_vars(Program)

-----------------------------------------------------------------------------
(* Properties *)

\* The offset that says which job comes next stays inside the store, however
\* the user goes back and forth and however often the program dies: unless it
\* died between the deletion of messages and the next save of the offset
\* (message.py:140-144, persist_info.py:57-60).
OffsetIsInStore == ~torn /\ pc # "down" => persist.offset <= Len(store)

\* The jobs stand in the store in the order in which they were resolved, so
\* that a job comes after those it depends on: jobs that were left in the
\* store by an earlier run come first (job.py:110-115).  Only a deletion that
\* was cut short changes the order.
StoreIsOrdered ==
  ~torn => \A i, k \in DOMAIN store :
             i < k => \E a, b \in DOMAIN Jobs :
                        a < b /\ Jobs[a] = store[i].name /\ Jobs[b] = store[k].name

\* When the report is built every job was prompted, or marked as failed at the
\* user's request, since it was added (jobs_prompt.py:140-171), in this process
\* or in one before it.
AllPrompted ==
  ~torn /\ pc = "reviewing" => Names \subseteq prompted

\* A command that was started is started again only if the user asks for it
\* after a crash, or restarts (which deletes the message), or if the record of
\* the crash was lost (recover_prompt.py:50-68, shell_test.py:35-57).
RunAgainForAReason ==
  [][pc # "running" /\ pc' = "running" /\ Current.name \in ran
     => answer = "Rerun" \/ lost \/ torn]_vars

\* A job that has passed keeps its result, but for the steps that may change it.
KeepsPassed ==
  \A i \in DOMAIN store :
    store[i].status = "pass"
    => \/ \E k \in DOMAIN store' : store'[k] = store[i]
       \/ pc = "asking"
       \/ store[i].name \in unmet
       \/ fail_current /\ ~fail_current'
       \/ store' = Tail(store)

\* A result is final: a job that has passed is changed by the user's answer to
\* that job, by the answer to go on after a crash, or when this process finds
\* its requirements unmet, and by no other step (jobs_prompt.py:121-122,
\* suites_prompt.py:148-161, resource_info.py:34-62).
PassedStays == [][KeepsPassed]_vars

\* The program waits for the user, or has ended.
Waiting == pc \in Questions \cup {"down"}

\* The program always comes back to the user, or to its end: no path through
\* the loops of user_interface.py:86-108 and jobs_prompt.py:140-171 goes round.
ComesBack == ~Waiting ~> Waiting

-----------------------------------------------------------------------------
(* The invariant behind them *)

\* Every name is in the store once.
NamesAreDifferent ==
  \A i, k \in DOMAIN store : store[i].name = store[k].name => i = k

\* The store has the first jobs; while messages are deleted, those after the deleted.
StoreIsPart ==
  ~torn =>
    \E e \in 0..Len(Jobs) :
      /\ e # 0 => deleted /\ pc \in {"deleting", "clearing"}
      /\ e + Len(store) <= Len(Jobs)
      /\ \A i \in DOMAIN store : store[i].name = Jobs[e + i]

\* The jobs before an offset are in the store and were prompted: the one in memory,
\* and the one on disk, until messages are deleted.
ArePrompted(offset) ==
  /\ offset <= Len(store)
  /\ \A i \in 1..offset : store[i].name \in prompted

OffsetsArePrompted ==
  /\ ~torn /\ pc # "down" => ArePrompted(persist.offset)
  /\ ~torn /\ ~deleted => ArePrompted(saved.offset)
  /\ ~torn /\ pc \in {"reviewing", "exchanging", "finishing"} => Names \subseteq prompted
  /\ pc \in {"deleting", "clearing"} => persist.offset = 0
  /\ pc = "down" => ~deleted \/ torn

\* After the gathering all jobs are in the store.
AllAreAdded ==
  /\ pc \in {"recovering", "deleting", "down"} => ~gathered
  /\ pc \in {"adding", "choosing", "jobs", "saving", "prompting", "running", "asking",
             "reviewing", "exchanging", "finishing"} => gathered
  /\ gathered /\ pc \notin {"adding", "clearing", "stopping"} => \A n \in Names : InStore(n)

\* What is known of the job that is prompted.
CurrentIsPrompted ==
  /\ pc = "saving" => persist.offset < Len(store) \/ persist.offset # 0
  /\ pc \in {"saving", "prompting", "running", "asking"} => ~fail_current
  /\ pc \in {"prompting", "running", "asking"} =>
       persist.offset < Len(store) /\ saved = persist /\ ~deleted
  /\ pc \in {"running", "asking"} =>
       LET job == store[persist.offset + 1] IN
       /\ job.name \in prompted \ ignore
       /\ pc = "running" => IsNew(job) /\ job.name \in ran
       /\ pc = "asking" => job.name \in Manual
  /\ pc \notin {"down", "stopping"} => persist.recover

\* Only jobs in the store ran, none that the user answers; and no job that is
\* ignored has passed.
RanAndIgnored ==
  /\ \A n \in ran : InStore(n) /\ n \notin Manual
  /\ \A i \in DOMAIN store : store[i].name \in ignore => store[i].status # "pass"

\* A job that was started and has no result yet is the one at the offset on disk: it
\* runs, or it was interrupted, and is then the first that comes when the user has said
\* how to go on.
Interrupted(i) == store[i].name \in ran /\ IsNew(store[i]) /\ ~lost /\ ~torn

InterruptedIsNext ==
  \A i \in DOMAIN store : Interrupted(i) =>
    /\ pc \notin {"asking", "reviewing", "exchanging", "finishing", "clearing"}
    /\ deleted => pc = "deleting"
    /\ ~deleted =>
         /\ i = saved.offset + 1 /\ saved.recover
         /\ \A n \in Names : InStore(n)
         /\ \A k \in DOMAIN store :
              store[k].name \in Depends[store[i].name] => store[k].status = "pass"
    /\ pc \notin {"down", "deleting"} => persist = saved
    /\ pc \in {"intro", "gathering", "adding", "choosing", "jobs", "saving", "prompting"} =>
         answer = "Rerun" \/ fail_current
    /\ pc \notin {"intro", "stopping", "running"} => direction = "next"

IInv ==
  /\ TypeOK /\ NamesAreDifferent /\ StoreIsPart /\ OffsetsArePrompted /\ AllAreAdded
  /\ CurrentIsPrompted /\ RanAndIgnored /\ InterruptedIsNext
=============================================================================
