----------------------------- MODULE MessageStore -----------------------------
(***************************************************************************)
(* The store of jobs on disk (MessageStore of checkbox/message.py and      *)
(* JobStore of checkbox/job.py), as the plugin jobs_prompt uses it: the    *)
(* messages, one to a file, in the order of their file names, and the      *)
(* pending offset that is kept in the persist file.                        *)
(*                                                                         *)
(* A message is written to another file that is then renamed.  It is not   *)
(* synced during the gathering, so that it may be unreadable after a power *)
(* failure; such a message is set aside with the flag BROKEN when it is    *)
(* read, and no longer counts for the offset.                              *)
(***************************************************************************)
EXTENDS Naturals, Sequences, SequencesExt, FiniteSets

CONSTANTS
  StoredJobs,   \* the jobs of report-jobs, a sequence of names
  MaxFailures   \* bound: how often the process is killed or the power fails

\* The jobs were made unique before they were reported.
StoredAssumption == StoredJobs \in Seq(ToSet(StoredJobs)) /\ IsInjective(StoredJobs)

VARIABLES
  messages,       \* in each the job's name, whether it was updated, and what
                  \* became of its file
  cache,          \* _message_cache: the names of the messages that it holds
  pending_offset, saved_offset,  \* in memory and in the persist file
  store_pc, adding,              \* where the process is; the job being added
  failures        \* history: how often it was killed or the power failed

store_vars == <<messages, cache, pending_offset, saved_offset, store_pc, adding, failures>>

FileStates == {"synced", "unsynced", "bad", "flagged"}

TypeOK ==
  /\ messages \in Seq([name : ToSet(StoredJobs), updated : BOOLEAN, file : FileStates])
  /\ cache \subseteq ToSet(StoredJobs)
  /\ pending_offset \in Nat /\ saved_offset \in Nat
  /\ store_pc \in {"down", "gathering", "gathered", "prompting"}
  /\ adding \in 1..Len(StoredJobs) + 1

Init ==
  /\ messages = <<>> /\ cache = {} /\ pending_offset = 0 /\ saved_offset = 0
  /\ store_pc = "down" /\ adding = 1 /\ failures = 0

Message(name, updated, f) == [name |-> name, updated |-> updated, file |-> f]

Find(name) == \E i \in DOMAIN messages : messages[i].name = name

\* A message that is not in the cache has to be read.
ReadFails ==
  \E i \in DOMAIN messages : /\ messages[i].name \notin cache
                             /\ messages[i].file \in {"bad", "flagged"}

\* The user goes on with the store or deletes all messages, and the offset is
\* saved before jobs are added.  That the process may die between the two is
\* the business of module CheckboxPrompts.
Begin ==
  /\ store_pc = "down"
  /\ store_pc' = "gathering" /\ adding' = 1 /\ cache' = {}
  /\ \/ pending_offset' = saved_offset /\ UNCHANGED messages
     \/ pending_offset' = 0 /\ messages' = <<>>
  /\ saved_offset' = pending_offset'
  /\ UNCHANGED failures

\* JobStore.add: looking for the same job, it reads the messages that are not
\* in the cache.  One that cannot be read ends report_jobs with an exception.
AddJob ==
  /\ store_pc = "gathering" /\ adding <= Len(StoredJobs)
  /\ IF ReadFails THEN store_pc' = "gathered" /\ UNCHANGED <<messages, cache, adding>>
     ELSE /\ adding' = adding + 1 /\ UNCHANGED store_pc
          /\ IF Find(StoredJobs[adding]) THEN UNCHANGED <<messages, cache>>
             ELSE /\ messages' = Append(messages, Message(StoredJobs[adding], FALSE, "unsynced"))
                  /\ cache' = cache \cup {StoredJobs[adding]}
  /\ UNCHANGED <<pending_offset, saved_offset, failures>>

EndGather ==
  /\ store_pc = "gathering" /\ adding > Len(StoredJobs)
  /\ store_pc' = "gathered"
  /\ UNCHANGED <<messages, cache, pending_offset, saved_offset, adding, failures>>

\* suites_prompt reads all messages; the unreadable ones are flagged.
Flag(m) == IF m.file = "bad" THEN [m EXCEPT !.file = "flagged"] ELSE m

ReadAll ==
  /\ store_pc = "gathered"
  /\ store_pc' = "prompting"
  /\ messages' = [i \in DOMAIN messages |-> Flag(messages[i])]
  /\ UNCHANGED <<cache, pending_offset, saved_offset, adding, failures>>

Write(i) == [messages EXCEPT ![i].updated = TRUE, ![i].file = "synced"]

\* What _walk_messages passes, with exclude=HELD + BROKEN, before the i-th file.
Unflagged(i) == {k \in 1..i-1 : messages[k].file # "flagged"}

IsPending(i) ==
  messages[i].file # "flagged" /\ Cardinality(Unflagged(i)) = pending_offset

\* The job at the offset is prompted, after the offset is saved, and updated.
UpdateJob(back) ==
  /\ store_pc = "prompting"
  /\ saved_offset' = pending_offset
  /\ \E i \in DOMAIN messages : /\ IsPending(i)
                                /\ messages' = Write(i)
                                /\ cache' = cache \cup {messages[i].name}
  /\ pending_offset' = pending_offset + (IF back THEN 0 ELSE 1)
  /\ UNCHANGED <<store_pc, adding, failures>>

RemovePendingOffset ==
  /\ store_pc = "prompting" /\ pending_offset > 0
  /\ pending_offset' = pending_offset - 1
  /\ UNCHANGED <<messages, cache, saved_offset, store_pc, adding, failures>>

Die ==
  /\ store_pc # "down" /\ failures < MaxFailures
  /\ store_pc' = "down" /\ failures' = failures + 1
  /\ pending_offset' = 0 /\ cache' = {} /\ adding' = 1
  /\ UNCHANGED saved_offset

Killed == Die /\ UNCHANGED messages

PowerFails ==
  /\ Die
  /\ \E Lost \in SUBSET {i \in DOMAIN messages : messages[i].file = "unsynced"} :
       messages' = [i \in DOMAIN messages |->
                      [messages[i] EXCEPT
                         !.file = IF i \in Lost THEN "bad" ELSE IF @ = "unsynced" THEN "synced" ELSE @]]

Next ==
  \/ Begin \/ AddJob \/ EndGather \/ ReadAll
  \/ \E back \in BOOLEAN : UpdateJob(back)
  \/ RemovePendingOffset \/ Killed \/ PowerFails

Spec == Init /\ [][Next]_store_vars

-----------------------------------------------------------------------------
(* Properties *)

\* After the gathering every job is in the store, unless a message that could
\* not be read ended it (job.py:110-124): a power failure costs the jobs that
\* were not written, and then those that were not added yet.
GatheredUnlessBroken ==
  store_pc = "prompting" =>
    \/ \A i \in DOMAIN StoredJobs : \E k \in DOMAIN messages : messages[k].name = StoredJobs[i]
    \/ \E i \in DOMAIN messages : messages[i].file = "flagged"

\* A result that was written is never lost (message.py:262-272): what becomes
\* unreadable was not prompted yet.
ResultsAreDurable ==
  \A i \in DOMAIN messages : messages[i].file \in {"bad", "flagged"} => ~messages[i].updated

\* Setting messages aside does not shift the offset past a job that was not
\* prompted (message.py:195-201): those before the offset have been updated.
NothingIsSkipped ==
  store_pc = "prompting" =>
    \A i \in DOMAIN messages :
      messages[i].file # "flagged" /\ Cardinality(Unflagged(i)) < pending_offset =>
        messages[i].updated

\* No job is in the store twice, and the messages are in the order of the jobs
\* (job.py:110-115, message.py:174-193).
JobsAreInOrder ==
  \A i, k \in DOMAIN messages :
    i < k => \E a, b \in DOMAIN StoredJobs :
               a < b /\ StoredJobs[a] = messages[i].name /\ StoredJobs[b] = messages[k].name

\* What makes it so.  The messages are those of the first jobs, and what is added
\* comes after them; only a message that cannot be read ends the gathering.
StoreIsPrefix ==
  /\ Len(messages) <= Len(StoredJobs)
  /\ \A i \in DOMAIN messages : messages[i].name = StoredJobs[i]
  /\ store_pc = "gathering" => adding <= Len(messages) + 1

Unreadable == {i \in DOMAIN messages : messages[i].file \in {"bad", "flagged"}}

GatheringEnds ==
  /\ store_pc \in {"gathered", "prompting"} =>
       Len(messages) = Len(StoredJobs) \/ Unreadable # {}
  /\ store_pc = "prompting" => \A i \in Unreadable : messages[i].file = "flagged"

UpdatedIsSynced ==
  \A i \in DOMAIN messages : messages[i].updated => messages[i].file = "synced"

\* Before a message that is not updated, and can still be read, as many are updated
\* as the offset says; and so in the whole store.
Updated(i) == {k \in 1..i-1 : messages[k].updated}

OffsetIsUpdated(offset) ==
  \A i \in 1..Len(messages)+1 :
    \/ i \in DOMAIN messages /\ (messages[i].file = "flagged" \/ messages[i].updated)
    \/ Cardinality(Updated(i)) >= offset

IInv ==
  /\ TypeOK /\ StoreIsPrefix /\ GatheringEnds /\ UpdatedIsSynced
  /\ OffsetIsUpdated(pending_offset) /\ OffsetIsUpdated(saved_offset)
=============================================================================
