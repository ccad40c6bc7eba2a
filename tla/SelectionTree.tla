--------------------------- MODULE SelectionTree ----------------------------
(***************************************************************************)
(* The choice of tests in the interfaces of checkbox: the tree of suites   *)
(* and tests, and the list that urwid makes of it. The two share no state; *)
(* each has its own variables, initial states and steps.                   *)
(***************************************************************************)
EXTENDS Naturals, Sequences, SequencesExt, FiniteSets

-----------------------------------------------------------------------------
(***************************************************************************)
(* The tree of suites and tests that show_tree lets the user choose from,  *)
(* in the three interfaces that have one: the toggles of GTK               *)
(* (gtk_interface.py) and urwid (SelectableTreeNodeWidget), and the nested *)
(* dialogs of the command line (cli_interface.py); then the jobs that      *)
(* suites_prompt asks jobs_prompt to ignore.  The choice is kept and is    *)
(* the default the next time, whichever interface is used then.            *)
(*                                                                         *)
(* A nested dictionary of results is the set of nodes in it.               *)
(***************************************************************************)

CONSTANTS
  ChoiceNodes,     \* suites and tests
  ChoiceParent,    \* the suite of a node, or NoSuite
  ChoiceAbove,     \* and all suites around it
  NoSuite,
  HasResult  \* the tests that are not uninitiated

\* The suites around a node are the least set with the suite of each of its nodes.
Encloses(n, S) == \A m \in {n} \cup S : ChoiceParent[m] \in S \cup {NoSuite}

TreeAssumption ==
  /\ IsFiniteSet(ChoiceNodes) /\ NoSuite \notin ChoiceNodes
  /\ ChoiceParent \in [ChoiceNodes -> ChoiceNodes \cup {NoSuite}]
  /\ ChoiceAbove = [n \in ChoiceNodes |->
       {a \in ChoiceNodes : \A S \in SUBSET ChoiceNodes : Encloses(n, S) => a \in S}]
  /\ \A n \in ChoiceNodes : n \notin ChoiceAbove[n]
  /\ HasResult \subseteq ChoiceNodes

VARIABLES
  shown,     \* the interface that shows the tree, or "none"
  active,    \* the nodes whose box is set; the keys of the CLI's results
  views,     \* CLI: the suites whose dialogs are open, the innermost last
  default,   \* the results of the last choice, suites_prompt's `default'
  ignored,   \* the last ignore-jobs
  hollow     \* history: the default has a suite without any of its tests

choice_vars == <<shown, active, views, default, ignored, hollow>>

Children(n) == {c \in ChoiceNodes : ChoiceParent[c] = n}

Tests == {n \in ChoiceNodes : Children(n) = {}}

\* n and what is below it
ChoiceUnder(n) == {n} \cup {m \in ChoiceNodes : n \in ChoiceAbove[m]}

ChoiceTypeOK ==
  /\ shown \in {"none", "gtk", "urwid", "cli"}
  /\ active \subseteq ChoiceNodes /\ default \subseteq ChoiceNodes
  /\ views \in Seq(ChoiceNodes \ Tests)
  /\ ignored \subseteq Tests /\ hollow \in BOOLEAN

ChoiceInit ==
  /\ shown = "none" /\ active = ChoiceNodes /\ views = <<>>
  /\ default = ChoiceNodes /\ ignored = {} /\ hollow = FALSE

Show(i) ==
  /\ shown = "none"
  /\ shown' = i /\ active' = default
  /\ UNCHANGED <<views, default, ignored, hollow>>

\* The suites above n lose their boxes, upwards as long as none of the children
\* has one left: up to the first with a child that is not above n itself.
ClearAbove(n, kept) ==
  kept \ {a \in ChoiceAbove[n] :
            \A b \in ChoiceAbove[n] \cap ChoiceUnder(a) :
              Children(b) \cap kept \subseteq ChoiceAbove[n]}

SetChildren(n, value) ==
  IF value THEN active \cup ChoiceUnder(n) ELSE active \ ChoiceUnder(n)

\* set_children and set_ancestors: the suites above are set with the node, and
\* unset with it up to the first one that has another child set.
SetConsistently(n, value) ==
  IF value THEN active \cup ChoiceUnder(n) \cup ChoiceAbove[n]
  ELSE ClearAbove(n, active \ ChoiceUnder(n))

\* a click on the box of a node
Toggle(n) ==
  /\ shown \in {"gtk", "urwid"}
  /\ active' = SetConsistently(n, n \notin active)
  /\ UNCHANGED <<shown, views, default, ignored, hollow>>

\* Select All and Deselect All
SetAll(value) ==
  /\ shown \in {"gtk", "urwid"}
  /\ active' = IF value THEN ChoiceNodes ELSE {}
  /\ UNCHANGED <<shown, views, default, ignored, hollow>>

-----------------------------------------------------------------------------
(* The command line *)

\* the nodes of the innermost dialog
View == Children(IF views = <<>> THEN NoSuite ELSE views[Len(views)])

\* _toggle_results
ChoicePress(n) ==
  /\ shown = "cli" /\ n \in View
  /\ active' = SetChildren(n, n \notin active)
  /\ UNCHANGED <<shown, views, default, ignored, hollow>>

\* `+' and the key of a suite
ChoiceExpand(n) ==
  /\ shown = "cli" /\ n \in View \ Tests
  /\ views' = Append(views, n)
  /\ UNCHANGED <<shown, active, default, ignored, hollow>>

\* A suite that was not in the results enters them with what was chosen inside.
Close ==
  /\ shown = "cli" /\ views # <<>>
  /\ LET n == views[Len(views)] IN
     /\ active' = IF Children(n) \cap active = {} THEN active ELSE active \cup {n}
     /\ views' = SubSeq(views, 1, Len(views) - 1)
  /\ UNCHANGED <<shown, default, ignored, hollow>>

\* `+' and a key that is no option (an IndexError) or that of a test (an
\* AttributeError): the reactor logs it, and the choice is lost.
Abandon ==
  /\ shown = "cli"
  /\ shown' = "none" /\ active' = default /\ views' = <<>>
  /\ UNCHANGED <<default, ignored, hollow>>

-----------------------------------------------------------------------------

\* the nodes that are reached in the results from the top: a key whose suite
\* is not in them is not in them either
Results == {n \in active : ChoiceAbove[n] \subseteq active}

IgnoreAnyJobs(results) == {t \in Tests : t \notin results}

\* get_ignore_jobs
IgnoreJobs(results) == {t \in Tests \ HasResult : t \notin results}

\* the button Next or, on the command line, the key of "Space when finished"
Confirm ==
  /\ shown # "none" /\ views = <<>>
  /\ shown' = "none" /\ active' = Results
  /\ default' = Results /\ ignored' = IgnoreJobs(Results)
  /\ hollow' = \E n \in Results \ Tests : ChoiceUnder(n) \cap Tests \cap Results = {}
  /\ UNCHANGED views

ChoiceNext ==
  \/ \E i \in {"gtk", "urwid", "cli"} : Show(i)
  \/ \E n \in ChoiceNodes : Toggle(n) \/ ChoicePress(n) \/ ChoiceExpand(n)
  \/ \E value \in BOOLEAN : SetAll(value)
  \/ Close \/ Abandon \/ Confirm

ChoiceSpec == ChoiceInit /\ [][ChoiceNext]_choice_vars

-----------------------------------------------------------------------------
(* Properties *)

\* No test is chosen inside a suite that is not: get_results of GTK and
\* traverse_widget_state of urwid do not look below a node that is not set.
\* On the command line only the suites whose dialogs are open may be missing.
ChosenIsReached ==
  \A n \in active : ChoiceAbove[n] \subseteq active \cup {views[i] : i \in DOMAIN views}

\* In GTK and urwid a suite shows whether any test under it is selected,
\* unless the command line left a suite without tests.
SuiteShowsTests ==
  shown \in {"gtk", "urwid"} /\ ~hollow =>
    \A n \in ChoiceNodes \ Tests : n \in active <=> ChoiceUnder(n) \cap Tests \cap active # {}

\* The invariant behind them: a suite is set with each of its nodes, or its dialog
\* is open; what was confirmed last is what is shown next; and a suite is set with
\* one of its tests, unless the command line left it without.
SuitesAreSet(nodes, inside) == \A n \in nodes : ChoiceParent[n] \in inside \cup {NoSuite}

HasTests(nodes) == \A n \in nodes \ Tests : ChoiceUnder(n) \cap Tests \cap nodes # {}

OpenDialogs == {views[i] : i \in DOMAIN views}

DialogsAreNested ==
  /\ shown # "cli" => views = <<>>
  /\ \A i \in DOMAIN views :
       ChoiceParent[views[i]] = IF i = 1 THEN NoSuite ELSE views[i - 1]

ChoiceInv ==
  /\ ChoiceTypeOK /\ DialogsAreNested
  /\ SuitesAreSet(active, active \cup OpenDialogs)
  /\ SuitesAreSet(default, default)
  /\ shown = "none" => active = default
  /\ hollow \/ HasTests(default)
  /\ shown \in {"gtk", "urwid"} => hollow \/ HasTests(active)

\* All three interfaces let the user choose as TestSelection says.
Selection ==
  INSTANCE TestSelection WITH
    Nodes <- ChoiceNodes,
    Below <- ChoiceUnder, selected <- active \cap Tests,
    choosing <- shown # "none"

ImplementsSelection == Selection!Spec

-----------------------------------------------------------------------------
(***************************************************************************)
(* How the urwid interface shows a tree (TreeNodeWidget, ReportDialog): a  *)
(* flat list, the walker, that a node extends by its subtree when it is    *)
(* expanded and cuts when it is collapsed.  A node that is collapsed keeps *)
(* which of the nodes under it are expanded.                               *)
(*                                                                         *)
(* Expand All and Collapse All call one node after the other; a step is    *)
(* one call.                                                               *)
(***************************************************************************)

CONSTANTS
  Preorder,  \* the nodes, each followed by those under it
  ViewParent     \* of each node, or "none"

VARIABLES
  walker,    \* the nodes on the screen
  expanded,
  todo,      \* the nodes that are still to be expanded or collapsed
  mode,      \* what todo is for
  before     \* history: the expanded nodes when the button was pressed

view_vars == <<walker, expanded, todo, mode, before>>

ViewNodes == ToSet(Preorder)

KidsOf(n) == SelectSeq(Preorder, LAMBDA c : ViewParent[c] = n)

Roots == KidsOf("none")

ViewAbove[n \in ViewNodes] ==
  IF ViewParent[n] = "none" THEN {} ELSE {ViewParent[n]} \cup ViewAbove[ViewParent[n]]

ViewUnder(n) == {c \in ViewNodes : n \in ViewAbove[c]}

ViewInit ==
  /\ walker = Roots /\ expanded = {} /\ todo = <<>> /\ mode = "none" /\ before = {}

\* __len__: the widgets of a node on the screen
Length[n \in ViewNodes] ==
  IF n \in expanded
  THEN LET kids == KidsOf(n)
           Sum[i \in 0..Len(kids)] == IF i = 0 THEN 1 ELSE Sum[i - 1] + Length[kids[i]]
       IN Sum[Len(kids)]
  ELSE 1

\* _get_subtree
Subtree[n \in ViewNodes] ==
  LET kids == KidsOf(n)
      Part(c) == <<c>> \o (IF c \in expanded THEN Subtree[c] ELSE <<>>)
      Parts[i \in 0..Len(kids)] == IF i = 0 THEN <<>> ELSE Parts[i - 1] \o Part(kids[i])
  IN Parts[Len(kids)]

Position(n) == CHOOSE i \in DOMAIN walker : walker[i] = n

\* changed_cb of a node that is collapsed, and of one that is expanded
Open(n) ==
  /\ walker' = SubSeq(walker, 1, Position(n)) \o Subtree[n]
               \o SubSeq(walker, Position(n) + 1, Len(walker))
  /\ expanded' = expanded \cup {n}

Cut(n) ==
  /\ walker' = SubSeq(walker, 1, Position(n))
               \o SubSeq(walker, Position(n) + Length[n], Len(walker))
  /\ expanded' = expanded \ {n}

\* A key on a node that has children, or the mouse on any node.
ViewPress(n) ==
  /\ todo = <<>> /\ n \in ToSet(walker)
  /\ IF n \in expanded THEN Cut(n) ELSE Open(n)
  /\ UNCHANGED <<todo, mode, before>>

All(m) ==
  /\ todo = <<>>
  /\ todo' = Roots /\ mode' = m /\ before' = expanded
  /\ UNCHANGED <<walker, expanded>>

\* expand: the children are only expanded along with their parent.
ViewExpand ==
  /\ todo # <<>> /\ mode = "expand"
  /\ LET n == Head(todo) IN
     IF n \in expanded
     THEN todo' = Tail(todo) /\ UNCHANGED <<walker, expanded>>
     ELSE todo' = KidsOf(n) \o Tail(todo) /\ Open(n)
  /\ UNCHANGED <<mode, before>>

\* collapse, with _collapse_children for what is no longer on the screen
CollapseNode(n) ==
  IF n \in expanded
  THEN /\ walker' = SubSeq(walker, 1, Position(n))
                    \o SubSeq(walker, Position(n) + Length[n], Len(walker))
       /\ expanded' = expanded \ ({n} \cup ViewUnder(n))
  ELSE expanded' = expanded \ ViewUnder(n) /\ UNCHANGED walker

Collapse ==
  /\ todo # <<>> /\ mode = "collapse"
  /\ CollapseNode(Head(todo))
  /\ todo' = Tail(todo)
  /\ UNCHANGED <<mode, before>>

ViewNext ==
  \/ \E n \in ViewNodes : ViewPress(n)
  \/ \E m \in {"expand", "collapse"} : All(m)
  \/ ViewExpand \/ Collapse

ViewSpec == ViewInit /\ [][ViewNext]_view_vars

-----------------------------------------------------------------------------
(* Properties *)

ViewTypeOK ==
  /\ walker \in Seq(ViewNodes) /\ expanded \subseteq ViewNodes /\ before \subseteq ViewNodes
  /\ todo \in Seq(ViewNodes) /\ mode \in {"none", "expand", "collapse"}

\* The list on the screen is the tree: every node whose suites are all
\* expanded, once, in the order of the tree (changed_cb, __len__ and
\* _get_subtree agree on what is shown, urwid_interface.py:631-639, 739-772).
WalkerShowsTree == walker = SelectSeq(Preorder, LAMBDA n : ViewAbove[n] \subseteq expanded)

\* When Collapse All is done only the roots are shown, and nothing is expanded
\* behind them.  Expand All has then shown all of a root that was collapsed, with
\* all nodes under it: it does not look under a node that was expanded before
\* (urwid_interface.py:705-736).
ButtonsDoAll ==
  [][todo # <<>> /\ todo' = <<>> =>
       IF mode = "collapse" THEN walker' = Roots /\ expanded' = {}
       ELSE \A r \in ToSet(Roots) :
              ({r} \cup ViewUnder(r)) \cap before = {} => ViewUnder(r) \subseteq ToSet(walker')]_view_vars
=============================================================================
