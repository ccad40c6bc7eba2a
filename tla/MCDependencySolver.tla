------------------------ MODULE MCDependencySolver ------------------------
(***************************************************************************)
(* Every database over three names in which a job depends directly on any  *)
(* of them and may have a requirement on the first: missing jobs, self     *)
(* loops, cycles and diamonds, of both types of dependency.                *)
(***************************************************************************)
EXTENDS DependencySolver

MCNames == {"a", "b", "c"}

MCSorted(S) == SelectSeq(<<"a", "b", "c">>, LAMBDA n : n \in S)

MCRecords == {"r"}

MCJobDefs ==
  [name : MCNames, plugin : {"shell"},
   direct : SUBSET MCNames,
   requires : {<<>>, <<[resource |-> "a", matches |-> {"r"}]>>}]
=============================================================================
