----------------------------- MODULE MCSession -----------------------------
(***************************************************************************)
(* Two kinds of small sessions, of which a behaviour picks one:            *)
(*   results   sessions with a resource job r and a local job c that may   *)
(*             generate jobs, whose databases are complete, have a         *)
(*             dependency missing, have one missing that only c generates, *)
(*             or have a cycle; jobs are asked for one at a time;          *)
(*   requests  update_desired_job_list() on its own: every database over   *)
(*             three names in which a job depends on any of them, with     *)
(*             names that have no job, self loops and cycles, and every    *)
(*             request of up to three jobs, repeated ones included.        *)
(*             Results do not matter to the solver and are left out: all   *)
(*             jobs are resource jobs and there is no output for them;     *)
(*   on_local  one job that depends directly on a local job.               *)
(* The constants of this module are the unions of those of the kinds.      *)
(***************************************************************************)
EXTENDS SessionState, TLC

CONSTANT Kinds   \* the kinds of sessions to check

VARIABLE kind

MCNames == {"a", "b", "c", "r"}

MCSorted(S) == SelectSeq(<<"a", "b", "c", "r">>, LAMBDA n : n \in S)

MCRecords == {"x", "y"}

Job(name, plugin, direct, requires) ==
  [name |-> name, plugin |-> plugin, direct |-> direct, requires |-> requires]

MapOf(jobs) == [n \in {job.name : job \in jobs} |->
                  CHOOSE job \in jobs : job.name = n]

-----------------------------------------------------------------------------
A == Job("a", "shell", {}, <<>>)
AOnB == Job("a", "shell", {"b"}, <<>>)
B == Job("b", "shell", {"a"}, <<[resource |-> "r", matches |-> {"x"}]>>)
BFree == Job("b", "manual", {}, <<>>)
L == Job("c", "local", {}, <<>>)
R == Job("r", "resource", {}, <<>>)

ResultJobDefs == {A, AOnB, B, BFree, L, R}

ResultMaps ==
  {MapOf({A, B, R}), MapOf({A, L, R}), MapOf({AOnB, B, R}), MapOf({AOnB, L})}

MCResourceNames == {"r"}

MCResourceOutputs == {{}, {"x"}, {"y"}}

MCLocalOutputs == {<<>>, <<B>>, <<BFree, B>>}

Results_ == INSTANCE SessionState WITH
  JobDefs <- ResultJobDefs,
  InitialMaps <- ResultMaps, MaxDesired <- 1

-----------------------------------------------------------------------------
RequestNames == {"a", "b", "c"}

RequestJobDefs ==
  [name : RequestNames, plugin : {"resource"}, direct : SUBSET RequestNames,
   requires : {<<>>}]

RequestMaps ==
  UNION {{[n \in names |-> Job(n, "resource", direct[n], <<>>)] :
            direct \in [names -> SUBSET RequestNames]} :
           names \in SUBSET RequestNames \ {{}}}

Requests_ == INSTANCE SessionState WITH
  Records <- {}, JobDefs <- RequestJobDefs,
  InitialMaps <- RequestMaps, MaxDesired <- 3,
  ResourceNames <- {}, ResourceOutputs <- {}, LocalOutputs <- {}

-----------------------------------------------------------------------------
BOnL == Job("b", "shell", {"c"}, <<>>)

OnLocalMaps == {MapOf({BOnL, L})}

OnLocal_ == INSTANCE SessionState WITH
  JobDefs <- {BOnL, L}, InitialMaps <- OnLocalMaps,
  LocalOutputs <- {<<>>}, MaxDesired <- 1

-----------------------------------------------------------------------------
MCJobDefs == ResultJobDefs \cup RequestJobDefs \cup {BOnL}

MCInitialMaps == ResultMaps \cup RequestMaps \cup OnLocalMaps

MCInit ==
  /\ kind \in Kinds
  /\ \/ kind = "results" /\ Results_!Init
     \/ kind = "requests" /\ Requests_!Init
     \/ kind = "on_local" /\ OnLocal_!Init

MCNext ==
  /\ UNCHANGED kind
  /\ \/ kind = "results" /\ Results_!Next
     \/ kind = "requests" /\ Requests_!Next
     \/ kind = "on_local" /\ OnLocal_!Next

MCSpec == MCInit /\ [][MCNext]_<<vars, kind>> /\ WF_vars(UpdateStep)
=============================================================================
