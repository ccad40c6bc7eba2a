--------------------------- MODULE MessageFormats ---------------------------
(***************************************************************************)
(* What checkbox does with the content of messages: how it is pickled      *)
(* (contrib/bpickle.py), and how it is made to fit a schema                *)
(* (checkbox/properties.py, variables.py). The two share no state; each    *)
(* has its own variables, initial states and steps.                        *)
(***************************************************************************)
EXTENDS Naturals, Sequences, SequencesExt

-----------------------------------------------------------------------------
(***************************************************************************)
(* checkbox/contrib/bpickle.py, in which persistent files, messages and    *)
(* what goes through the FIFOs are written: a value is dumped, a part of   *)
(* it may get lost at the end (a full disk, a process that was killed), or *)
(* something may follow, and the rest is loaded.                           *)
(*                                                                         *)
(* A byte is a string, and there is one for each digit; numbers and        *)
(* lengths have one.  A value is [type, data, items]: the data of a number *)
(* is its digit, that of a text its bytes, the items of a dict are pairs   *)
(* in the order of their keys.                                             *)
(***************************************************************************)

CONSTANTS
  Values,
  Tails          \* what may follow

VARIABLES pickle_value, bytes, pickled, loaded, stage, cut

pickle_vars == <<pickle_value, bytes, pickled, loaded, stage, cut>>

Digits == <<"0", "1", "2", "3">>
Number(digit) == CHOOSE n \in 0 .. 3 : Digits[n + 1] = digit
IsDigit(b) == b \in Range(Digits)

Scalar(type, data) == [type |-> type, data |-> data, items |-> <<>>]
List(items) == [type |-> "list", data |-> <<>>, items |-> items]
Dict(items) == [type |-> "dict", data |-> <<>>, items |-> items]

---------------------------------------------------------------------------
(* dumps *)

Concat(seqs) == FoldLeft(LAMBDA a, b : a \o b, <<>>, seqs)

RECURSIVE Dump(_)

\* The handlers of dumps_table; other types raise ValueError.
Dump(v) ==
  CASE v.type = "bool"  -> <<"b">> \o v.data
    [] v.type \in {"int", "float"} -> <<IF v.type = "int" THEN "i" ELSE "f">> \o v.data \o <<";">>
    [] v.type \in {"bytes", "str"} ->
         <<IF v.type = "str" THEN "s" ELSE "c", Digits[Len(v.data) + 1], ":">> \o v.data
    [] v.type \in {"list", "tuple"} ->
         <<IF v.type = "list" THEN "l" ELSE "t">>
           \o Concat([i \in DOMAIN v.items |-> Dump(v.items[i])]) \o <<";">>
    [] v.type = "dict" ->
         <<"d">> \o Concat([i \in DOMAIN v.items |-> Dump(v.items[i][1]) \o Dump(v.items[i][2])])
           \o <<";">>
    [] OTHER -> <<"n">>

---------------------------------------------------------------------------
(* loads: a handler takes a position and gives a value and the next one, or *)
(* an error at position 0.                                                 *)

Error(name) == [v |-> Scalar(name, <<>>), pos |-> 0]
Corrupted == Error("corrupted data")
Unknown == Error("unknown type character")
Malformed == Error("invalid literal")
At(v, pos) == [v |-> v, pos |-> pos]

\* str.index(): the first b from position pos, 0 for an exception.
IndexOf(b, pos) ==
  LET places == {i \in pos .. Len(bytes) : bytes[i] = b}
  IN IF places = {} THEN 0 ELSE CHOOSE i \in places : \A j \in places : i <= j

LoadsBool(pos) ==
  IF pos + 1 > Len(bytes) THEN Corrupted
  ELSE IF ~IsDigit(bytes[pos + 1]) THEN Malformed ELSE At(Scalar("bool", <<bytes[pos + 1]>>), pos + 2)

LoadsNumber(type, pos) ==
  LET end == IndexOf(";", pos)
  IN IF end # pos + 2 \/ ~IsDigit(bytes[pos + 1]) THEN Malformed
     ELSE At(Scalar(type, <<bytes[pos + 1]>>), end + 1)

\* The bytes up to the end are taken, and if there are fewer, those.
LoadsStr(pos) ==
  LET start == IndexOf(":", pos) + 1
      end == start + Number(bytes[pos + 1])
  IN IF start # pos + 3 \/ ~IsDigit(bytes[pos + 1]) THEN Malformed
     ELSE At(Scalar("str", SubSeq(bytes, start, IF end <= Len(bytes) THEN end - 1 ELSE Len(bytes))),
             end)

RECURSIVE LoadsAt(_), LoadsItems(_, _)

\* Mutant of Ended: the end of the bytes is the end of the list.
EndedByBytes(pos) == pos > Len(bytes) \/ bytes[pos] = ";"

\* A list ends with ";": str[pos] behind the last byte is an IndexError.
Ended(pos) == pos <= Len(bytes) /\ bytes[pos] = ";"

LoadsItems(items, pos) ==
  IF Ended(pos) THEN At(List(items), pos + 1)
  ELSE LET r == LoadsAt(pos)
       IN IF r.pos = 0 THEN r ELSE LoadsItems(Append(items, r.v), r.pos)

\* A dict is a list of keys and values; it needs as many of both.  A key that
\* comes twice has the last value, and does not come twice in what was dumped.
LoadsDict(pos) ==
  LET r == LoadsItems(<<>>, pos + 1)
      items == r.v.items
  IN IF r.pos = 0 THEN r
     ELSE IF Len(items) % 2 = 1 THEN Unknown
     ELSE At(Dict([i \in 1 .. Len(items) \div 2 |-> <<items[2 * i - 1], items[2 * i]>>]), r.pos)

\* loads_table: bytes are loaded as texts.
LoadsAt(pos) ==
  IF pos > Len(bytes) THEN Corrupted
  ELSE CASE bytes[pos] = "b" -> LoadsBool(pos)
         [] bytes[pos] = "i" -> LoadsNumber("int", pos)
         [] bytes[pos] = "f" -> LoadsNumber("float", pos)
         [] bytes[pos] \in {"c", "s", "u"} ->
              IF pos + 1 > Len(bytes) THEN Malformed ELSE LoadsStr(pos)
         [] bytes[pos] = "l" -> LoadsItems(<<>>, pos + 1)
         [] bytes[pos] = "t" ->
              LET r == LoadsItems(<<>>, pos + 1)
              IN IF r.pos = 0 THEN r ELSE At([r.v EXCEPT !.type = "tuple"], r.pos)
         [] bytes[pos] = "d" -> LoadsDict(pos)
         [] bytes[pos] = "n" -> At(Scalar("none", <<>>), pos + 1)
         [] OTHER -> Unknown

\* All errors are ValueErrors.  What follows the value is not looked at.
Loads == LoadsAt(1).v

---------------------------------------------------------------------------

Errors == {"corrupted data", "unknown type character", "invalid literal"}

PickleTypeOK ==
  /\ pickle_value \in Values /\ stage \in {"value", "dumped", "loaded"}
  /\ pickled \in Seq(STRING) /\ cut \in 0 .. Len(pickled)
  /\ stage = "loaded" => loaded.type \in Errors \cup
       {"bool", "int", "float", "str", "list", "tuple", "dict", "none"}

PickleInit ==
  /\ pickle_value \in Values /\ bytes = <<>> /\ pickled = <<>> /\ cut = 0
  /\ loaded = Scalar("none", <<>>) /\ stage = "value"

Dumps ==
  /\ stage = "value" /\ stage' = "dumped"
  /\ pickled' = Dump(pickle_value) /\ bytes' = Dump(pickle_value)
  /\ UNCHANGED <<pickle_value, loaded, cut>>

\* The last bytes are lost, or others follow.
CutShort ==
  /\ stage = "dumped" /\ bytes = pickled
  /\ cut' \in 1 .. Len(pickled) /\ bytes' = SubSeq(pickled, 1, Len(pickled) - cut')
  /\ UNCHANGED <<pickle_value, pickled, loaded, stage>>

Follow ==
  /\ stage = "dumped" /\ bytes = pickled
  /\ \E tail \in Tails : bytes' = pickled \o tail
  /\ UNCHANGED <<pickle_value, pickled, loaded, stage, cut>>

\* Nothing is not loaded: "Can't load empty string".
LoadAgain ==
  /\ stage = "dumped" /\ stage' = "loaded"
  /\ loaded' = IF bytes = <<>> THEN Corrupted.v ELSE Loads
  /\ UNCHANGED <<pickle_value, bytes, pickled, cut>>

PickleNext == Dumps \/ CutShort \/ Follow \/ LoadAgain

---------------------------------------------------------------------------
(* Properties *)

RECURSIVE AsLoaded(_)

\* A value as it can come back: bytes are a text.
AsLoaded(v) ==
  CASE v.type = "bytes" -> [v EXCEPT !.type = "str"]
    [] v.type \in {"list", "tuple"} ->
         [v EXCEPT !.items = [i \in DOMAIN v.items |-> AsLoaded(v.items[i])]]
    [] v.type = "dict" ->
         [v EXCEPT !.items = [i \in DOMAIN v.items |-> <<AsLoaded(v.items[i][1]), AsLoaded(v.items[i][2])>>]]
    [] OTHER -> v

\* What was dumped is loaded again, whatever follows it.
ComesBack == (stage = "loaded" /\ cut = 0) => loaded = AsLoaded(pickle_value)

\* What was cut short anywhere is an error and not another value, if it was a
\* list or a dict, as messages and persistent files are.
ShortIsAnError ==
  (stage = "loaded" /\ cut > 0 /\ pickle_value.type \in {"list", "tuple", "dict"}) =>
    loaded.type \in Errors

-----------------------------------------------------------------------------
(***************************************************************************)
(* How the message of a job is checked and converted (job_schema and       *)
(* report_job of plugins/jobs_info.py, coerce_arguments() of               *)
(* checkbox/arguments.py, the properties of checkbox/properties.py and     *)
(* their variables, checkbox/variables.py).                                *)
(*                                                                         *)
(* The message is a dictionary that is changed in place, one attribute at  *)
(* a time and in the order of a dictionary, which is any; it is the same   *)
(* for all who handle the event, who may convert it again.  A message that *)
(* is refused half way stays half converted.                               *)
(***************************************************************************)

CONSTANTS
  Messages,  \* bound: the messages: attribute -> value
  Integers_, \* the texts of whole numbers, which are read as floats, too
  Floats,    \* the other texts that are numbers
  ItemsOf,   \* a text -> the items that it is split into
  MaxCalls   \* bound: how often a message is converted

VARIABLES
  original,  \* the message as it was read
  message,   \* as it is now
  todo,      \* the attributes that are still to be converted
  outcome,   \* of the last call: "new", "coercing", "accepted", "refused" or,
             \* with another exception, "raised"
  coercions, \* the number of calls
  accepted   \* history: has a call accepted the message?

schema_vars == <<original, message, todo, outcome, coercions, accepted>>

\* Values: None, texts, numbers, lists and tuples, whose items are values.
Value(type, text, items) == [type |-> type, text |-> text, items |-> items]

None == Value("None", "", <<>>)

Str(text) == Value("str", text, <<>>)

Needed(type) == [type |-> type, required |-> TRUE]

Optional(type) == [type |-> type, required |-> FALSE]

job_schema ==
  [plugin |-> Needed("String"), name |-> Needed("String")]
  @@ [a \in {"type", "status", "suite", "description", "purpose", "steps", "info",
             "verification", "command", "user", "data"} |-> Optional("String")]
  @@ [a \in {"depends", "environ", "requires", "resources"} |-> Optional("List")]
  @@ [a \in {"duration", "estimated_duration"} |-> Optional("Float")]
  @@ [timeout |-> Optional("Int")]

SchemaTypeOK ==
  /\ original \in Messages /\ DOMAIN message = DOMAIN original
  /\ todo \subseteq DOMAIN job_schema
  /\ outcome \in {"new", "coercing", "accepted", "refused", "raised"}
  /\ coercions \in 0..MaxCalls /\ accepted \in BOOLEAN

SchemaInit ==
  /\ original \in Messages /\ message = original
  /\ todo = {} /\ outcome = "new" /\ coercions = 0 /\ accepted = FALSE

---------------------------------------------------------------------------
(* Variables: what a value becomes, and whether that ends with an          *)
(* exception; a list may be changed up to the item that ends it.           *)

Coerced(value) == [value |-> value, ends |-> "no"]

Ends(how, value) == [value |-> value, ends |-> how]

StringVariable(value) ==
  IF value.type = "str" THEN Coerced(value) ELSE Ends("refused", value)

IntVariable(value) ==
  CASE value.type = "str" /\ value.text \in Integers_ -> Coerced(Value("int", value.text, <<>>))
    [] value.type = "int" -> Coerced(value)
    [] OTHER -> Ends("refused", value)

FloatVariable(value) ==
  CASE value.type = "str" /\ value.text \in Integers_ \cup Floats ->
         Coerced(Value("float", value.text, <<>>))
    [] value.type \in {"int", "float"} -> Coerced(value)
    [] OTHER -> Ends("refused", value)

\* A text is split into a new list.  A list is converted in place, which a tuple
\* does not allow.
ListVariable(value) ==
  CASE value.type = "str" ->
         Coerced(Value("list", "", [i \in DOMAIN ItemsOf[value.text] |-> Str(ItemsOf[value.text][i])]))
    [] value.type = "list" ->
         IF \A i \in DOMAIN value.items : StringVariable(value.items[i]).ends = "no"
         THEN Coerced(value) ELSE Ends("refused", value)
    [] value.type = "tuple" /\ value.items = <<>> -> Coerced(value)
    [] value.type = "tuple" /\ value.items # <<>> ->
         IF StringVariable(value.items[1]).ends = "no" THEN Ends("raised", value)
         ELSE Ends("refused", value)
    [] OTHER -> Ends("refused", value)

Coerce(type, value) ==
  CASE type = "String" -> StringVariable(value)
    [] type = "Int"    -> IntVariable(value)
    [] type = "Float"  -> FloatVariable(value)
    [] type = "List"   -> ListVariable(value)

\* set() and get() of a variable.
Variable(schema, value) ==
  IF value = None THEN IF schema.required THEN Ends("refused", None) ELSE Coerced(None)
  ELSE Coerce(schema.type, value)

---------------------------------------------------------------------------
(* coerce() of the map *)

\* A handler is called with the message; keys that the schema has not are refused
\* first.  Of the attributes that are neither in the message nor needed, nothing
\* comes.
Begin ==
  /\ outcome # "coercing" /\ coercions < MaxCalls
  /\ coercions' = coercions + 1
  /\ IF DOMAIN message \subseteq DOMAIN job_schema
     THEN /\ todo' = DOMAIN message \cup {a \in DOMAIN job_schema : job_schema[a].required}
          /\ outcome' = "coercing"
     ELSE todo' = {} /\ outcome' = "refused"
  /\ UNCHANGED <<original, message, accepted>>

OldValue(a) == IF a \in DOMAIN message THEN message[a] ELSE None

CoerceAttribute(a) ==
  /\ outcome = "coercing" /\ a \in todo
  /\ LET new == Variable(job_schema[a], OldValue(a)) IN
       /\ message' = IF a \in DOMAIN message THEN [message EXCEPT ![a] = new.value] ELSE message
       /\ IF new.ends = "no" THEN todo' = todo \ {a} /\ UNCHANGED outcome
          ELSE todo' = {} /\ outcome' = new.ends
  /\ UNCHANGED <<original, coercions, accepted>>

Accept ==
  /\ outcome = "coercing" /\ todo = {}
  /\ outcome' = "accepted" /\ accepted' = TRUE
  /\ UNCHANGED <<original, message, todo, coercions>>

SchemaNext == Begin \/ Accept \/ \E a \in DOMAIN job_schema : CoerceAttribute(a)

SchemaSpec == SchemaInit /\ [][SchemaNext]_schema_vars

---------------------------------------------------------------------------
(* Properties *)

\* What a value may be for an attribute of a type.
Allowed(type, value) ==
  CASE type = "String" -> value.type = "str"
    [] type = "Int"    -> value.type = "int" \/ (value.type = "str" /\ value.text \in Integers_)
    [] type = "Float"  -> \/ value.type \in {"int", "float"}
                          \/ value.type = "str" /\ value.text \in Integers_ \cup Floats
    [] type = "List"   -> \/ value.type = "str"
                          \/ /\ value.type = "list"
                             /\ \A i \in DOMAIN value.items : value.items[i].type = "str"
                          \/ value.type = "tuple" /\ value.items = <<>>

Valid ==
  /\ DOMAIN original \subseteq DOMAIN job_schema
  /\ \A a \in DOMAIN job_schema :
       IF a \in DOMAIN original /\ original[a] # None THEN Allowed(job_schema[a].type, original[a])
       ELSE ~job_schema[a].required

\* Whatever the order, and however often a message has been converted in part
\* before: it is accepted if and only if it was valid as it was read, and what it
\* says is not lost, only its texts become the numbers and lists that they stand for.
ValidIsAccepted ==
  /\ outcome = "accepted" => Valid
  /\ outcome \in {"refused", "raised"} => ~Valid
  /\ \A a \in DOMAIN original :
       message[a] # original[a] =>
         /\ original[a].type = "str" /\ job_schema[a].type # "String"
         /\ IF job_schema[a].type = "List"
            THEN [i \in DOMAIN message[a].items |-> message[a].items[i].text] = ItemsOf[original[a].text]
            ELSE message[a].text = original[a].text

\* A message that has been accepted once, as by the plugin that runs the jobs or
\* from the store of an earlier process, is never changed again and never refused.
AcceptedStays ==
  [][accepted => message' = message /\ outcome' \notin {"refused", "raised"}]_schema_vars
=============================================================================
