------------------------- MODULE RequirementPrograms -------------------------
(***************************************************************************)
(* Requirement programs of jobs (plainbox/impl/resource.py): every line is *)
(* parsed, the visitor walks its syntax tree and finds the one resource it *)
(* is about, and the program is evaluated with the records of each.        *)
(*                                                                         *)
(* A line is the tree that ast.parse() makes, [class, id, children] with   *)
(* the operator of an expression among its children; contexts (ast.Load)   *)
(* are left out.  Values are strings, "" the false one; numbers are        *)
(* strings of digits.  PlainboxJobs has what the session makes of a        *)
(* program.                                                                *)
(***************************************************************************)
EXTENDS Naturals, Sequences, SequencesExt, FiniteSets

CONSTANTS
  Programs,     \* bound: the programs, sequences of trees of class "Module"
  ResourceMaps, \* bound: resource name -> sequence of records, functions from attributes
  Digits        \* the values that int() and float() take

VARIABLES
  program,
  resource_map,
  expressions, \* the resource name and the tree of each line that is analyzed
  nodes,       \* the nodes of the next line that are still to be visited
  names_seen,
  phase,       \* "visiting", "evaluating" or "done"
  current,     \* the expression that is evaluated
  records,     \* its records that have not been tried
  outcome      \* "", an exception, or "True", which evaluate_or_raise() returns

vars == <<program, resource_map, expressions, nodes, names_seen, phase, current, records, outcome>>

Raised == {"CodeNotAllowed", "AttributeError", "NoResourcesReferenced",
           "MultipleResourcesReferenced", "SyntaxError",
           "ExpressionCannotEvaluateError", "ExpressionFailedError"}

AllowedCalls == {"len", "bool", "int", "float"}

\* The classes on the list; operators of arithmetic and `not' are not there,
\* though the expressions made of them are.
AllowedClasses ==
  {"Expr", "Module", "Attribute", "BinOp", "BoolOp", "Compare", "List", "Name", "Num", "Str",
   "Tuple", "UnaryOp"} \cup {"Eq", "NotEq", "Gt", "In"} \cup {"And", "Or"}

TypeOK ==
  /\ program \in Programs /\ resource_map \in ResourceMaps
  /\ phase \in {"visiting", "evaluating", "done"}
  /\ outcome \in Raised \cup {"", "True"} /\ (outcome = "" <=> phase /= "done")
  /\ Len(expressions) <= Len(program) /\ current \in 0..Len(program)

Init ==
  /\ program \in Programs /\ resource_map \in ResourceMaps
  /\ expressions = <<>> /\ names_seen = {} /\ current = 0 /\ records = <<>> /\ outcome = ""
  /\ nodes = <<program[1]>> /\ phase = "visiting"

Analyzing == phase = "visiting" /\ UNCHANGED <<program, resource_map, current, records>>

Stop(o) == phase' = "done" /\ outcome' = o

---------------------------------------------------------------------------
(* The visitor *)

\* The nodes that visit_Call visits.
Called(node) == <<>>

Visit ==
  /\ Analyzing /\ nodes /= <<>>
  /\ LET node == Head(nodes) IN
       CASE node.class = "Name" ->
              /\ names_seen' = names_seen \cup {node.id} /\ nodes' = Tail(nodes)
              /\ UNCHANGED <<phase, outcome>>
         [] node.class = "Call" /\ node.children[1].class /= "Name" ->
              Stop("AttributeError") /\ UNCHANGED <<names_seen, nodes>>
         [] node.class = "Call" /\ node.children[1].class = "Name" ->
              /\ UNCHANGED names_seen
              /\ IF node.children[1].id \in AllowedCalls
                 THEN nodes' = Called(node) \o Tail(nodes) /\ UNCHANGED <<phase, outcome>>
                 ELSE Stop("CodeNotAllowed") /\ UNCHANGED nodes
         [] OTHER ->
              /\ UNCHANGED names_seen
              /\ IF node.class \in AllowedClasses
                 THEN nodes' = node.children \o Tail(nodes) /\ UNCHANGED <<phase, outcome>>
                 ELSE Stop("CodeNotAllowed") /\ UNCHANGED nodes
  /\ UNCHANGED expressions

Several(names) == Cardinality(names) > 1

\* The visitor has seen the line: ResourceExpression compiles it as a lambda,
\* which has to be one expression, and the next line follows.
Analyzed ==
  /\ Analyzing /\ nodes = <<>>
  /\ LET line == program[Len(expressions) + 1] IN
       CASE names_seen = {} ->
              Stop("NoResourcesReferenced") /\ UNCHANGED <<expressions, nodes, names_seen>>
         [] Several(names_seen) ->
              Stop("MultipleResourcesReferenced") /\ UNCHANGED <<expressions, nodes, names_seen>>
         [] names_seen /= {} /\ ~Several(names_seen) /\ Len(line.children) /= 1 ->
              Stop("SyntaxError") /\ UNCHANGED <<expressions, nodes, names_seen>>
         [] OTHER ->
              /\ expressions' = Append(expressions, [resource_name |-> CHOOSE n \in names_seen : TRUE,
                                                     tree |-> line.children[1].children[1]])
              /\ names_seen' = {} /\ UNCHANGED outcome
              /\ IF Len(expressions') < Len(program)
                 THEN nodes' = <<program[Len(expressions') + 1]>> /\ UNCHANGED phase
                 ELSE nodes' = <<>> /\ phase' = "evaluating"

---------------------------------------------------------------------------
(* The value of an expression for a record, or an exception *)

Exception == "exception"

Truth(b) == IF b THEN "True" ELSE ""

RECURSIVE Value(_, _, _)
Value(tree, name, record) ==
  LET Sub(i) == Value(tree.children[i], name, record) IN
  CASE tree.class \in {"Str", "Num"} -> tree.id
    [] tree.class = "Name" -> IF tree.id = name THEN "record" ELSE Exception
    [] tree.class = "Attribute" ->
         IF Sub(1) = "record" /\ tree.id \in DOMAIN record THEN record[tree.id] ELSE Exception
    [] tree.class = "Compare" ->
         IF Exception \in {Sub(1), Sub(3)} THEN Exception
         ELSE Truth(tree.children[2].class = "Eq" <=> Sub(1) = Sub(3))
    [] tree.class = "BoolOp" ->
         IF Sub(1) = Exception \/ (tree.children[2].class = "And" <=> Sub(1) = "")
         THEN Sub(1) ELSE Sub(3)
    [] tree.class = "Call" ->
         CASE Sub(2) = Exception -> Exception
           [] tree.children[1].id = "bool" -> Truth(Sub(2) /= "")
           [] tree.children[1].id = "int" /\ Sub(2) \in Digits -> IF Sub(2) = "0" THEN "" ELSE Sub(2)
           [] OTHER -> Exception

---------------------------------------------------------------------------
(* evaluate_or_raise() *)

Evaluating == phase = "evaluating" /\ UNCHANGED <<program, resource_map, expressions, nodes, names_seen>>

Unavailable == {i \in DOMAIN expressions : expressions[i].resource_name \notin DOMAIN resource_map}

Start(i) == current' = i /\ records' = resource_map[expressions[i].resource_name]

\* First all resources have to be there.
Check ==
  /\ Evaluating /\ current = 0
  /\ IF Unavailable /= {}
     THEN /\ Stop("ExpressionCannotEvaluateError")
          /\ current' = CHOOSE i \in Unavailable : \A j \in Unavailable : i <= j
          /\ UNCHANGED records
     ELSE Start(1) /\ UNCHANGED <<phase, outcome>>

IsTrue(value) == value \notin {Exception, ""}

\* A record makes the expression true; one that raises is like one that does not.
TryRecord ==
  /\ Evaluating /\ current > 0 /\ records /= <<>>
  /\ LET e == expressions[current] IN
       IF ~IsTrue(Value(e.tree, e.resource_name, Head(records)))
       THEN records' = Tail(records) /\ UNCHANGED <<current, phase, outcome>>
       ELSE IF current < Len(expressions)
            THEN Start(current + 1) /\ UNCHANGED <<phase, outcome>>
            ELSE Stop("True") /\ UNCHANGED <<current, records>>

NoRecordIsLeft ==
  /\ Evaluating /\ current > 0 /\ records = <<>>
  /\ Stop("ExpressionFailedError") /\ UNCHANGED <<current, records>>

Next == Visit \/ Analyzed \/ Check \/ TryRecord \/ NoRecordIsLeft

Spec == Init /\ [][Next]_vars

---------------------------------------------------------------------------
(* Properties *)

Job == INSTANCE PlainboxJobs WITH
  Names <- {}, Sorted <- SetToSeq, Records <- {}, JobDefs <- {}

AllRecords == UNION {ToSet(resource_map[r]) : r \in DOMAIN resource_map}

\* The program as the session sees it.
Definition ==
  [requires |-> [i \in DOMAIN expressions |->
     [resource |-> expressions[i].resource_name,
      matches |-> {r \in AllRecords :
         Value(expressions[i].tree, expressions[i].resource_name, r) \notin {Exception, ""}}]]]

Available == [r \in DOMAIN resource_map |-> ToSet(resource_map[r])]

\* The evaluation record by record is that of PlainboxJobs: it returns if the
\* program holds, and otherwise blames the first expression without a resource, or
\* else the first that no record makes true.
EvaluationIsOfTheJob ==
  current > 0 /\ phase = "done" =>
    LET cannot == Job!CannotEvaluate(Definition, Available)
        failed == Job!Failed(Definition, Available)
        Blamed(indices) == \A i \in indices : current \in indices /\ current <= i
    IN CASE outcome = "True" -> Job!ProgramHolds(Definition, Available)
         [] outcome = "ExpressionCannotEvaluateError" -> cannot /= {} /\ Blamed(cannot)
         [] outcome = "ExpressionFailedError" -> cannot = {} /\ failed /= {} /\ Blamed(failed)
         [] OTHER -> FALSE

\* The nodes of a tree; those in what calls are given with `deep' only.
RECURSIVE NodesOf(_, _)
NodesOf(tree, deep) ==
  {tree} \cup
  UNION {NodesOf(tree.children[i], deep) :
           i \in IF tree.class = "Call" /\ ~deep THEN {} ELSE DOMAIN tree.children}

NamesOf(tree, deep) == {n.id : n \in {m \in NodesOf(tree, deep) : m.class = "Name"}}

\* Is there a node that the visitor does not let pass?
IsForbidden(n) ==
  IF n.class = "Call" THEN n.children[1].class /= "Name" \/ n.children[1].id \notin AllowedCalls
  ELSE n.class \notin AllowedClasses

\* What the visitor says of a line depends on what is outside of calls only: an
\* accepted one names its one resource there, whatever it names in calls; and it
\* is rejected for a node it must not have, or for naming none or several there.
AnalysisLooksOutsideCalls ==
  /\ \A i \in DOMAIN expressions :
       /\ NamesOf(expressions[i].tree, FALSE) = {expressions[i].resource_name}
       /\ ~\E n \in NodesOf(expressions[i].tree, FALSE) : IsForbidden(n)
  /\ phase = "done" /\ Len(expressions) < Len(program) =>
       LET line == program[Len(expressions) + 1]
           forbidden == \E n \in NodesOf(line, FALSE) : IsForbidden(n)
       IN CASE outcome \in {"CodeNotAllowed", "AttributeError"} -> forbidden
            [] outcome = "NoResourcesReferenced" -> ~forbidden /\ NamesOf(line, FALSE) = {}
            [] outcome = "MultipleResourcesReferenced" ->
                 ~forbidden /\ Cardinality(NamesOf(line, FALSE)) > 1
            [] OTHER -> Len(line.children) /= 1

\* A record with every attribute gives each accepted line a value, unless it has a
\* call, which may be given something of another resource, or no number.
CompleteRecordsGiveAValue ==
  \A i \in DOMAIN expressions :
    LET nodes_of == NodesOf(expressions[i].tree, TRUE)
        attributes == {n.id : n \in {m \in nodes_of : m.class = "Attribute"}}
    IN (\A n \in nodes_of : n.class /= "Call") =>
         \A r \in AllRecords :
           attributes \subseteq DOMAIN r =>
             Value(expressions[i].tree, expressions[i].resource_name, r) /= Exception
=============================================================================
