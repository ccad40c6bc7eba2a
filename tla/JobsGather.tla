------------------------------ MODULE JobsGather ------------------------------
(***************************************************************************)
(* How checkbox gathers its jobs: the event gather of plugins/jobs_info.py *)
(* with the handlers that the reactor calls in turn.  The messages of the  *)
(* job directories are collected; each is reported as a job, and the       *)
(* command of a local suite then adds the messages it prints while that of *)
(* a resource is kept apart (local_suite, resource_info, message_info).    *)
(* What is collected is made unique, put into the order of the whitelist   *)
(* and, if a job would come before one it depends on, into the order of    *)
(* checkbox/lib/resolver.py, which is modelled step by step.               *)
(*                                                                         *)
(* A message is its name, the number of its fields, and its suite.         *)
(***************************************************************************)
EXTENDS Naturals, Sequences, SequencesExt, FiniteSets

CONSTANTS
  Directories,  \* the sequences of messages that the directories may hold
  Prints,       \* for each name the messages its command prints, if any
  Locals, Resources,  \* the names of local suites and of resources
  Graphs,       \* the functions from a name to those it depends on
  Whitelists,   \* sequences of names; <<>> for none
  Blacklists

VARIABLES
  directory, depends, whitelist, blacklist,  \* the input
  gather_pc,
  messages,  \* what was collected, then made unique and ordered
  i,         \* how far the loop over messages is
  shown,     \* the names for which report-job reached the other plugins
  records,   \* the resources that are known
  ordered,   \* history: the messages in the order before the resolver
  items_added, items, items_blocked,  \* of the resolver
  agenda,    \* the dependents that add_unblocked still has to look at
  reported   \* the names in report-jobs

input == <<directory, depends, whitelist, blacklist>>
resolver == <<items_added, items, items_blocked, agenda>>
gather_vars == <<input, gather_pc, messages, i, shown, records, ordered, resolver, reported>>

Init ==
  /\ directory \in Directories /\ depends \in Graphs
  /\ whitelist \in Whitelists /\ blacklist \in Blacklists
  /\ gather_pc = "directories" /\ messages = <<>> /\ i = 0
  /\ shown = {} /\ records = {} /\ ordered = <<>>
  /\ items_added = <<>> /\ items = <<>> /\ items_blocked = {} /\ agenda = <<>>
  /\ reported = <<>>

NamesOf(s) == [k \in DOMAIN s |-> s[k].name]

Listed(m) == whitelist = <<>> \/ m.name \in ToSet(whitelist)

\* message-directory: every message that the whitelist has is collected.
ReadDirectories ==
  /\ gather_pc = "directories"
  /\ messages' = SelectSeq(directory, Listed)
  /\ gather_pc' = "reporting"
  /\ UNCHANGED <<input, i, shown, records, ordered, resolver, reported>>

\* report_job stops the event, for the plugins that come after it, unless a
\* pattern of the whitelist or, if there is none, of the blacklist matches.
IsReported(m) ==
  LET patterns == IF whitelist # <<>> THEN ToSet(whitelist) ELSE blacklist
  IN patterns = {} \/ m.name \in patterns

KeepRecords(m) == m.name \in Resources

\* What a command prints comes as messages again, and those are added to the
\* messages of the loop; except for a resource, whose handler of
\* report-messages comes first and stops the event.
ReportJob(passes) ==
  /\ gather_pc = "reporting" /\ i < Len(messages)
  /\ i' = i + 1
  /\ LET m == messages[i + 1]
         runs == passes /\ m.name \in Locals \cup Resources
         printed == [k \in DOMAIN Prints[m.name] |->
                       IF m.name \in Locals
                       THEN [Prints[m.name][k] EXCEPT !.suite = m.name]
                       ELSE Prints[m.name][k]]
     IN IF ~IsReported(m) THEN UNCHANGED <<messages, shown, records>>
        ELSE /\ shown' = shown \cup {m.name}
             /\ IF runs /\ ~KeepRecords(m)
                THEN messages' = messages \o SelectSeq(printed, Listed)
                ELSE UNCHANGED messages
             /\ records' = IF runs /\ KeepRecords(m) THEN records \cup {m.name} ELSE records
  /\ UNCHANGED <<input, gather_pc, ordered, resolver, reported>>

\* get_unique_messages: one message for each name, in the place of the first
\* one, the first of those that have the most fields.
Unique(s) ==
  LET first == {k \in DOMAIN s : \A l \in 1..k-1 : s[l].name # s[k].name}
      Best(name) ==
        LET same == {k \in DOMAIN s : s[k].name = name}
            most == {k \in same : \A l \in same : s[l].size <= s[k].size}
        IN s[CHOOSE k \in most : \A l \in most : k <= l]
      places == SetToSortSeq(first, <)
  IN [k \in DOMAIN places |-> Best(s[places[k]].name)]

MakeUnique ==
  /\ gather_pc = "reporting" /\ i = Len(messages)
  /\ messages' = Unique(messages)
  /\ gather_pc' = "ordering" /\ i' = 0
  /\ UNCHANGED <<input, shown, records, ordered, resolver, reported>>

Pattern(m) == CHOOSE k \in DOMAIN whitelist :
  whitelist[k] = m.name /\ \A l \in 1..k-1 : whitelist[l] # m.name

InWhitelistOrder(s) ==
  IF whitelist = <<>> THEN s
  ELSE SetToSortSeq(ToSet(s), LAMBDA m, n : Pattern(m) < Pattern(n))

\* check_ordered_messages
IsOrdered(s) ==
  \A k \in DOMAIN s : depends[s[k].name] \subseteq {s[l].name : l \in 1..k-1}

Order ==
  /\ gather_pc = "ordering"
  /\ messages' = InWhitelistOrder(messages) /\ ordered' = messages'
  /\ gather_pc' = IF IsOrdered(messages') THEN "done" ELSE "adding"
  /\ reported' = IF IsOrdered(messages') THEN NamesOf(messages') ELSE <<>>
  /\ UNCHANGED <<input, i, shown, records, resolver>>

-----------------------------------------------------------------------------
(* The resolver *)

\* the names that a name depends on, through those that were added
DependsOn(name, added) ==
  LET Step(s) == s \cup UNION {depends[n] : n \in s \cap added}
      Closure[k \in 0..Cardinality(added)] ==
        IF k = 0 THEN depends[name] ELSE Step(Closure[k - 1])
  IN Closure[Cardinality(added)]

AddLast(name) == items_added' = Append(items_added, name)

\* add: a job that closes a cycle raises an exception, which ends the gathering.
AddItem ==
  /\ gather_pc = "adding" /\ i < Len(messages)
  /\ LET name == messages[i + 1].name IN
     /\ AddLast(name)
     /\ gather_pc' = IF name \in DependsOn(name, ToSet(items_added'))
                     THEN "failed" ELSE "adding"
  /\ i' = i + 1
  /\ UNCHANGED <<input, messages, shown, records, ordered, items, items_blocked, agenda,
                 reported>>

AllAdded ==
  /\ gather_pc = "adding" /\ i = Len(messages)
  /\ gather_pc' = "resolving" /\ i' = 0
  /\ UNCHANGED <<input, messages, shown, records, ordered, resolver, reported>>

IsUnblockedEarly(name) ==
  depends[name] \cap ToSet(items_added) \cap ToSet(items) # {} \/ depends[name] = {}

IsUnblocked(name) == depends[name] \cap ToSet(items_added) \subseteq ToSet(items)

\* rdepends, in the order in which the jobs were added
Dependents(name) == SelectSeq(items_added, LAMBDA n : name \in depends[n])

\* The loop over the items that were added.
ResolveItem ==
  /\ gather_pc = "resolving" /\ agenda = <<>> /\ i < Len(items_added)
  /\ i' = i + 1
  /\ LET name == items_added[i + 1] IN
     IF IsUnblocked(name)
     THEN /\ items' = Append(items, name) /\ agenda' = Dependents(name)
          /\ UNCHANGED items_blocked
     ELSE /\ items_blocked' = items_blocked \cup {name}
          /\ UNCHANGED <<items, agenda>>
  /\ UNCHANGED <<input, gather_pc, messages, shown, records, ordered, items_added, reported>>

\* add_unblocked, which looks at the dependents of a job as soon as it is added
Unblock ==
  /\ gather_pc = "resolving" /\ agenda # <<>>
  /\ LET name == Head(agenda) IN
     IF name \in items_blocked /\ IsUnblocked(name)
     THEN /\ items' = Append(items, name)
          /\ items_blocked' = items_blocked \ {name}
          /\ agenda' = Dependents(name) \o Tail(agenda)
     ELSE agenda' = Tail(agenda) /\ UNCHANGED <<items, items_blocked>>
  /\ UNCHANGED <<input, gather_pc, messages, i, shown, records, ordered, items_added, reported>>

Resolved ==
  /\ gather_pc = "resolving" /\ agenda = <<>> /\ i = Len(items_added)
  /\ gather_pc' = IF items_blocked = {} THEN "done" ELSE "blocked"
  /\ reported' = IF items_blocked = {} THEN items ELSE <<>>
  /\ UNCHANGED <<input, messages, i, shown, records, ordered, resolver>>

Next ==
  \/ ReadDirectories \/ (\E passes \in BOOLEAN : ReportJob(passes)) \/ MakeUnique
  \/ Order \/ AddItem \/ AllAdded \/ ResolveItem \/ Unblock \/ Resolved

Spec == Init /\ [][Next]_gather_vars

-----------------------------------------------------------------------------
(* Properties *)

TypeOK ==
  /\ gather_pc \in {"directories", "reporting", "ordering", "adding", "resolving",
                    "done", "failed", "blocked"}
  /\ i <= Len(messages)
  /\ shown \subseteq ToSet(NamesOf(messages)) \/ gather_pc # "reporting"
  /\ records \subseteq Resources
  /\ items_blocked \subseteq ToSet(items_added) /\ ToSet(items) \subseteq ToSet(items_added)

Before(s, a, b) == \E k, l \in DOMAIN s : k < l /\ s[k] = a /\ s[l] = b

\* Every job that was collected is reported once, and after all jobs it depends
\* on that were collected: the resolver leaves none out (resolver.py:72-118).
ReportedInOrder ==
  gather_pc = "done" =>
    /\ ToSet(reported) = ToSet(NamesOf(messages)) /\ IsInjective(reported)
    /\ \A n \in ToSet(reported) : \A d \in depends[n] \cap ToSet(reported) :
         Before(reported, d, n)

\* A job is moved behind another one only if it depends on a job that came
\* after it in the whitelist, so that an order that works is kept
\* (jobs_info.py:212-233, resolver.py:99-109).
MovedForAReason ==
  gather_pc = "done" =>
    \A k, l \in DOMAIN ordered :
      k < l /\ Before(reported, ordered[l].name, ordered[k].name) =>
        \E x \in k+1..Len(ordered) :
          ordered[x].name \in DependsOn(ordered[k].name, ToSet(NamesOf(ordered)))

\* The gathering fails, and reports nothing, only if jobs that were collected
\* depend on each other in a circle; once all were added, none stays blocked
\* (resolver.py:55-67, 111-114).
FailsForACycle ==
  /\ gather_pc # "blocked"
  /\ gather_pc = "failed" =>
       \E n \in ToSet(NamesOf(messages)) : n \in DependsOn(n, ToSet(NamesOf(messages)))

\* What a resource prints is never taken for a job, and what a suite prints
\* belongs to this suite, unless a directory has the job with more fields
\* (resource_info.py:64-75, local_suite.py:35-44).
PrintedIsAttributed ==
  \A k \in DOMAIN messages :
    \/ messages[k] \in ToSet(directory)
    \/ /\ messages[k].suite \in Locals
       /\ \E m \in ToSet(Prints[messages[k].suite]) : m.name = messages[k].name

\* Without a blacklist the jobs that the other plugins know, to show them in the
\* tree of suites, are the jobs that are reported.  With a blacklist they are
\* the jobs on it (jobs_info.py:315-329).
ShownAreReported ==
  gather_pc = "done" /\ blacklist = {} => shown = ToSet(reported)
=============================================================================
