----------------------------- MODULE PersistMaps -----------------------------
(***************************************************************************)
(* The option maps of Persist (checkbox/contrib/persist.py): soft, hard    *)
(* and weak ones, all of them trees of dictionaries, lists and values,     *)
(* with the operations that set, add, remove and move what a path leads    *)
(* to.  The files are those of PersistFile.                                *)
(*                                                                         *)
(* An element of a path is a name or an index, and an item of a list has   *)
(* its index for a key.                                                    *)
(***************************************************************************)
EXTENDS Integers, Sequences, SequencesExt, FiniteSets

CONSTANTS
  Paths,     \* bound: the paths that are used
  Values,    \* bound: the values that are set, which are names
  Lists,     \* bound: the lists that the file may have under the name "a"
  MaxCalls   \* bound: the number of calls

VARIABLES
  maps,      \* kind of map -> its tree
  readonly, modified,
  clean,     \* history: the hard map when modified was last reset
  call,      \* history: the last call, and whether it raised
  calls      \* the number of calls

vars == <<maps, readonly, modified, clean, call, calls>>

Kinds == {"soft", "hard", "weak"}

Name(n) == [name |-> n, index |-> 0]
Index(i) == [name |-> "", index |-> i]

\* sys.maxsize
MaxIndex == Index(99)

IsIndex(elem) == elem.name = ""

Tree(kind, value, items) == [kind |-> kind, value |-> value, items |-> items]
Item(elem, tree) == [elem |-> elem, tree |-> tree]

Value(v) == Tree("value", v, {})
Dict(items) == Tree("dict", "", items)
List(items) == Tree("list", "", items)

EmptyDict == Dict({})

Nothing == Tree("nothing", "", {})
NotImplemented == Tree("not implemented", "", {})

RECURSIVE IsTree(_)
IsTree(tree) ==
  /\ tree.kind \in {"value", "dict", "list"}
  /\ tree.kind = "value" => tree.items = {}
  /\ tree.kind = "list" =>
       {i.elem : i \in tree.items} = {Index(k) : k \in 0..(Cardinality(tree.items) - 1)}
  /\ \A i, j \in tree.items : i.elem = j.elem => i = j
  /\ \A i \in tree.items : IsTree(i.tree)

TypeOK ==
  /\ \A k \in Kinds : maps[k].kind = "dict" /\ IsTree(maps[k])
  /\ IsTree(clean)
  /\ readonly \in BOOLEAN /\ modified \in BOOLEAN /\ calls \in 0..MaxCalls

NoCall == [op |-> "", kind |-> "hard", path |-> <<>>, to |-> <<>>, value |-> Nothing,
           raised |-> FALSE]

\* What is loaded from the file, if there is one.
Loaded ==
  {EmptyDict} \cup
  {Dict({Item(Name("a"), List({Item(Index(i - 1), Value(l[i])) : i \in DOMAIN l}))}) :
     l \in Lists}

Init ==
  /\ \E tree \in Loaded :
       maps = [k \in Kinds |-> IF k = "hard" THEN tree ELSE EmptyDict] /\ clean = tree
  /\ readonly = FALSE /\ modified = FALSE
  /\ call = NoCall /\ calls = 0

-----------------------------------------------------------------------------
(* The backend: one level of a tree.                                       *)

Size(tree) == Cardinality(tree.items)

\* The index that Python takes for i, or -1.
At(tree, i) ==
  CASE i >= 0 /\ i < Size(tree) -> i
    [] i < 0 /\ -i <= Size(tree) -> Size(tree) + i
    [] OTHER -> -1

ItemAt(tree, elem) == (CHOOSE i \in tree.items : i.elem = elem).tree

HasItem(tree, elem) == \E i \in tree.items : i.elem = elem

Holds(tree, elem) == \E i \in tree.items : i.tree = Value(elem.name)

\* Backend.get(): a name in a list leads to itself.
Get(tree, elem) ==
  CASE tree.kind = "dict" -> IF HasItem(tree, elem) THEN ItemAt(tree, elem) ELSE Nothing
    [] tree.kind = "list" /\ IsIndex(elem) ->
         IF At(tree, elem.index) # -1 THEN ItemAt(tree, Index(At(tree, elem.index)))
         ELSE Nothing
    [] tree.kind = "list" /\ ~IsIndex(elem) ->
         IF Holds(tree, elem) THEN Value(elem.name) ELSE Nothing
    [] OTHER -> NotImplemented

ReplaceItem(tree, elem, new) ==
  [tree EXCEPT !.items = {i \in @ : i.elem # elem} \cup {Item(elem, new)}]

\* Backend.set(): an index beyond either end of a list adds to that end.
Put(tree, elem, new) ==
  CASE tree.kind = "dict" -> ReplaceItem(tree, elem, new)
    [] tree.kind = "list" /\ IsIndex(elem) ->
         (CASE At(tree, elem.index) # -1 ->
                 ReplaceItem(tree, Index(At(tree, elem.index)), new)
            [] elem.index >= Size(tree) -> ReplaceItem(tree, Index(Size(tree)), new)
            [] OTHER -> List({Item(Index(i.elem.index + 1), i.tree) : i \in tree.items}
                             \cup {Item(Index(0), new)}))
    [] OTHER -> NotImplemented

\* What is left of a list, with the indices that it then has.
Shifted(items) ==
  {Item(Index(Cardinality({j \in items : j.elem.index < i.elem.index})), i.tree) :
     i \in items}

\* Backend.remove()
Delete(tree, elem, isvalue) ==
  CASE tree.kind = "dict" -> [tree EXCEPT !.items = {i \in @ : i.elem # elem}]
    [] tree.kind = "list" /\ ~isvalue /\ IsIndex(elem) ->
         List(Shifted({i \in tree.items : i.elem.index # At(tree, elem.index)}))
    [] tree.kind = "list" /\ (isvalue \/ ~IsIndex(elem)) ->
         List(Shifted({i \in tree.items : i.tree # Value(elem.name)}))
    [] OTHER -> NotImplemented

-----------------------------------------------------------------------------
(* Persist._traverse(), which reads or sets what a path leads to.          *)

RECURSIVE Lookup(_, _)
Lookup(tree, path) ==
  IF path = <<>> \/ tree \in {Nothing, NotImplemented} THEN tree
  ELSE Lookup(Get(tree, Head(path)), Tail(path))

\* What is made for the rest of a path that leads nowhere.
RECURSIVE Made(_, _)
Made(path, value) ==
  CASE path = <<>> -> value
    [] path # <<>> /\ IsIndex(Head(path)) -> Put(List({}), Head(path), Made(Tail(path), value))
    [] OTHER -> Put(EmptyDict, Head(path), Made(Tail(path), value))

\* _getvalue(): the first map that has something at the path, be it that it
\* cannot be traversed.
GetValue(path) ==
  LET Found(k) == Lookup(maps[k], path)
  IN  CASE Found("soft") # Nothing -> Found("soft")
        [] Found("soft") = Nothing /\ Found("hard") # Nothing -> Found("hard")
        [] OTHER -> Found("weak")

RECURSIVE StoreNew(_, _, _)
StoreNew(tree, path, value) ==
  LET below == Get(tree, Head(path))
      new == IF below = Nothing THEN Made(Tail(path), value)
             ELSE IF Len(path) = 1 THEN below ELSE StoreNew(below, Tail(path), value)
  IN  CASE below = NotImplemented \/ new = NotImplemented -> NotImplemented
        [] OTHER -> Put(tree, Head(path), new)

\* The tree after a value was set, which is NotImplemented where the call
\* raises.  A name that a list holds cannot be replaced, and nobody is told.
RECURSIVE Store(_, _, _)
Store(tree, path, value) ==
  LET below == Get(tree, Head(path))
      new == IF below = Nothing \/ Len(path) = 1 THEN Made(Tail(path), value)
             ELSE Store(below, Tail(path), value)
  IN  CASE below = NotImplemented \/ new = NotImplemented -> NotImplemented
        [] tree.kind = "list" /\ ~IsIndex(Head(path)) /\ below # Nothing -> tree
        [] OTHER -> Put(tree, Head(path), new)

\* The same, for what the path is known to lead to.
RECURSIVE Change(_, _, _)
Change(tree, path, new) ==
  IF path = <<>> THEN new
  ELSE Put(tree, Head(path), Change(Get(tree, Head(path)), Tail(path), new))

\* The loop of remove(): a container that is empty then is removed, too.
RECURSIVE Prune(_, _, _, _)
Prune(tree, path, elem, isvalue) ==
  LET found == Lookup(tree, path)
      left == Delete(found, elem, isvalue)
  IN  CASE found = Nothing -> tree
        [] found = NotImplemented \/ left = NotImplemented -> NotImplemented
        [] path # <<>> /\ left.items = {} -> Prune(tree, Front(path), path[Len(path)], FALSE)
        [] OTHER -> Change(tree, path, left)

-----------------------------------------------------------------------------
(* The calls.                                                              *)

Refused(kind) == kind = "hard" /\ readonly

Note(kind) == modified' = (modified \/ kind = "hard")

Called(op, kind, path, to, value, raised) ==
  /\ calls < MaxCalls /\ calls' = calls + 1
  /\ call' = [op |-> op, kind |-> kind, path |-> path, to |-> to, value |-> value,
              raised |-> raised]

\* A call that writes has noted so before it finds that it cannot.
Write(op, kind, path, value, tree) ==
  /\ ~Refused(kind)
  /\ Note(kind)
  /\ maps' = IF tree = NotImplemented THEN maps ELSE [maps EXCEPT ![kind] = tree]
  /\ Called(op, kind, path, <<>>, value, tree = NotImplemented)
  /\ UNCHANGED <<readonly, clean>>

\* PersistReadOnlyError
Refuse(op, kind, path) ==
  /\ Refused(kind)
  /\ Called(op, kind, path, <<>>, Nothing, TRUE)
  /\ UNCHANGED <<maps, readonly, modified, clean>>

Set(kind, path, value) == Write("set", kind, path, value, Store(maps[kind], path, value))

Add(kind, path, value, unique) ==
  LET current == Lookup(maps[kind], path)
  IN  \/ /\ unique /\ current = NotImplemented
         /\ Write("add", kind, path, value, NotImplemented)
      \/ /\ unique /\ current.kind = "list" /\ \E i \in current.items : i.tree = value
         /\ Write("add", kind, path, value, maps[kind])
      \/ /\ unique => /\ current # NotImplemented
                      /\ ~(current.kind = "list" /\ \E i \in current.items : i.tree = value)
         /\ Write("add", kind, path, value, Store(maps[kind], Append(path, MaxIndex), value))

\* remove(): the path, or a value of what it leads to.
RemovePath(kind, path) ==
  Write("remove", kind, path, Nothing,
        Prune(maps[kind], Front(path), path[Len(path)], FALSE))

RemoveValue(kind, path, value) ==
  Write("remove value", kind, path, value, Prune(maps[kind], path, Name(value.value), TRUE))

\* move() passes soft for weak and weak for soft to set().
Target(kind) ==
  CASE kind = "soft" -> "weak"
    [] kind = "weak" -> "soft"
    [] kind = "hard" -> "hard"

\* If the value cannot be set after it was removed, it is lost.
Move(kind, path, to) ==
  LET value == Lookup(maps[kind], path)
      left == Prune(maps[kind], Front(path), path[Len(path)], FALSE)
      removed == [maps EXCEPT ![kind] = left]
      stored == Store(removed[Target(kind)], to, value)
  IN  /\ ~Refused(kind)
      /\ UNCHANGED <<readonly, clean>>
      /\ \/ /\ value = Nothing
            /\ Called("look", kind, path, to, value, FALSE)
            /\ UNCHANGED <<maps, modified>>
         \/ /\ value = NotImplemented
            /\ Called("look", kind, path, to, Nothing, TRUE)
            /\ UNCHANGED <<maps, modified>>
         \/ /\ value \notin {Nothing, NotImplemented}
            /\ Note(kind)
            /\ maps' = IF stored = NotImplemented THEN removed
                       ELSE [removed EXCEPT ![Target(kind)] = stored]
            /\ Called("move", kind, path, to, value, stored = NotImplemented)

SetReadonly ==
  /\ calls < MaxCalls /\ calls' = calls + 1
  /\ readonly' = ~readonly
  /\ UNCHANGED <<maps, modified, clean, call>>

ResetModified ==
  /\ modified
  /\ modified' = FALSE /\ clean' = maps["hard"]
  /\ UNCHANGED <<maps, readonly, call, calls>>

Next ==
  \/ \E kind \in Kinds, path \in Paths :
       \/ \E v \in Values : Set(kind, path, Value(v)) \/ RemoveValue(kind, path, Value(v))
       \/ \E v \in Values, unique \in BOOLEAN : Add(kind, path, Value(v), unique)
       \/ RemovePath(kind, path)
       \/ \E to \in Paths : Move(kind, path, to)
       \/ Refuse("set", kind, path)
  \/ SetReadonly \/ ResetModified

Spec == Init /\ [][Next]_vars

-----------------------------------------------------------------------------
(* Correctness.                                                            *)

OfNames(path) == \A i \in DOMAIN path : ~IsIndex(path[i])

\* Some element of the path is a name that is looked for in a list.
ThroughList(tree, path) ==
  \E i \in 1..(Len(path) - 1) : Lookup(tree, SubSeq(path, 1, i)).kind = "list"

\* What was set, by names, is what is got, unless a name was looked for in a
\* list, as set() does not tell that it did nothing (persist.py:159), or a map
\* that comes first has something at the path.
SetIsGot ==
  call.op = "set" /\ ~call.raised /\ OfNames(call.path) =>
    \/ GetValue(call.path) = call.value
    \/ ThroughList(maps[call.kind], call.path)
    \/ \E k \in Kinds \ {call.kind, "weak"} :
         call.kind # "soft" /\ Lookup(maps[k], call.path) # Nothing

\* What was removed is gone, and so is what it has left empty: has() and keys()
\* of any path find something in every container.
RECURSIVE NothingEmpty(_)
NothingEmpty(tree) ==
  \A i \in tree.items :
    (i.tree.kind # "value" => i.tree.items # {}) /\ NothingEmpty(i.tree)

\* No call leaves an empty dictionary or list behind, in any map.
NoEmptyContainers == \A k \in Kinds : NothingEmpty(maps[k])

\* The hard map, which is saved, has changed only if that was noted.
ChangesAreNoted == modified \/ maps["hard"] = clean

\* What was moved is at its new path, of the other map if it is a soft or weak
\* one, unless the call raised or a name was looked for in a list: then it is
\* lost, as it was removed first.
MovedIsThere ==
  call.op = "move" /\ ~call.raised /\ OfNames(call.to) =>
    \/ Lookup(maps[IF call.kind = "hard" THEN "hard"
                   ELSE IF call.kind = "soft" THEN "weak" ELSE "soft"], call.to)
         = call.value
    \/ ThroughList(maps[Target(call.kind)], call.to)
=============================================================================
