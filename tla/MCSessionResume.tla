-------------------------- MODULE MCSessionResume --------------------------
(***************************************************************************)
(* Sessions in which a local job c generates a local job b that generates  *)
(* a, the order that the replay likes least; in which b and c define a     *)
(* differently; in which a needs a resource; and in which a needs b, which *)
(* needs a job that is missing, so that a request for a raises, unless b   *)
(* has generated it.                                                       *)
(***************************************************************************)
EXTENDS SessionResume, TLC

MCNames == {"a", "b", "c"}

MCSorted(S) == SelectSeq(<<"a", "b", "c">>, LAMBDA n : n \in S)

MCRecords == {"x"}

Job(name, plugin, direct, requires) ==
  [name |-> name, plugin |-> plugin, direct |-> direct, requires |-> requires]

A == Job("a", "shell", {}, <<[resource |-> "c", matches |-> {"x"}]>>)
AManual == Job("a", "manual", {"b"}, <<>>)
B == Job("b", "local", {"c"}, <<>>)
C == Job("c", "local", {}, <<>>)
CResource == Job("c", "resource", {}, <<>>)

MCJobDefs == {A, AManual, B, C, CResource}

MapOf(jobs) == [n \in {job.name : job \in jobs} |->
                  CHOOSE job \in jobs : job.name = n]

MCInitialMaps ==
  {MapOf({C}), MapOf({B, C}), MapOf({A, CResource}),
   MapOf({AManual, B})}

MCResourceNames == {}

MCResourceOutputs == {{}, {"x"}}

MCLocalOutputs == {<<>>, <<A>>, <<AManual>>, <<B>>, <<C>>}
=============================================================================
