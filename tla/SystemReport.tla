---------------------------- MODULE SystemReport ----------------------------
(***************************************************************************)
(* The report of checkbox on a system: how it is put together, validated   *)
(* and announced (plugins/launchpad_report.py), and how values become XML  *)
(* and are read again (checkbox/report.py). The two share no state; each   *)
(* has its own variables, initial states and steps.                        *)
(***************************************************************************)
EXTENDS Naturals, Sequences, SequencesExt, FiniteSets

-----------------------------------------------------------------------------
(***************************************************************************)
(* How checkbox makes its report: plugins/launchpad_report.py gathers what *)
(* resources, tests and attachments say in one document, and when the user *)
(* comes to the report, and not back to it, the document is written, read  *)
(* again and announced to those that send it.  The document is never       *)
(* cleared: what is in a list comes in it again with every report.         *)
(*                                                                         *)
(* What the user does with the tests is CheckboxPrompts; here a status is  *)
(* set at any time while he is at the tests.  What a text says is one of   *)
(* three kinds: plain; with a page break, which is printable and no part   *)
(* of XML; and with other characters that are neither.                     *)
(***************************************************************************)

CONSTANTS
  Tests, SystemStatuses,
  Resources,     \* the resource jobs whose output is reported
  Attachments,   \* sequences of [part, kind, unsupported]; the part "context" is a list
  ConfiguredIds, \* system_id of the configuration, NoId if there is none
  Fingerprints,  \* those that the hardware may have, and NoId if it has none
  NoId,
  MaxReports, MaxAnswers, MaxStarts  \* bounds

VARIABLES
  at,            \* where the program is
  resources,     \* those that are still to be reported
  results,       \* the store: test -> [status, kind]
  attached,      \* the store: the attachments
  document,      \* _report: [parts, questions, context]
  configured, fingerprint,
  persist, saved, \* the system id in memory and in the file
  system_id,      \* the one of the document
  file,          \* what filename has: [parts, questions, context, system_id, state]
  announced,     \* has launchpad-report been fired in this start?
  built,         \* what became of the last report
  failed,        \* history: the resources that could not be reported
  reports, answers, starts

system_vars == <<at, resources, results, attached, document, configured, fingerprint, persist,
                 saved,
                 system_id, file, announced, built, failed, reports, answers, starts>>

Kinds == {"plain", "page break", "binary"}
Empty == [parts |-> {}, questions |-> <<>>, context |-> <<>>]
NoFile == [parts |-> {}, questions |-> <<>>, context |-> <<>>, system_id |-> NoId, state |-> "none"]

SystemTypeOK ==
  /\ at \in {"gather", "tests", "system_id", "jobs", "stylesheet", "open", "write", "validate",
             "review", "exchange", "end"}
  /\ results \in [Tests -> [status : SystemStatuses, kind : Kinds]]
  /\ document.questions \in Seq([test : Tests, status : SystemStatuses, kind : Kinds])
  /\ file.state \in {"none", "cut", "whole"} /\ announced \in BOOLEAN
  /\ built \in {"no", "failed", "yes"} /\ {persist, saved, system_id} \subseteq Fingerprints \cup ConfiguredIds

SystemInit ==
  /\ at = "gather" /\ resources = Resources
  /\ results = [t \in Tests |-> [status |-> "uninitiated", kind |-> "plain"]]
  /\ attached \in Attachments
  /\ document = Empty /\ configured \in ConfiguredIds /\ fingerprint \in Fingerprints
  /\ persist = NoId /\ saved = NoId /\ system_id = NoId /\ file = NoFile
  /\ announced = FALSE /\ built = "no" /\ failed = {} /\ reports = 0 /\ answers = 0 /\ starts = 1

Machine == UNCHANGED <<configured, fingerprint, attached, starts>>
Identity == UNCHANGED <<persist, saved, system_id>>

---------------------------------------------------------------------------
(* Gathering *)

\* The parts of the document that a resource gives: that of lsb_release is set
\* before its fields are looked up.
PartsOf(r, outcome) ==
  CASE outcome = "good" -> IF r = "lsb" THEN {"lsbrelease", "distribution"} ELSE {r}
    [] outcome = "incomplete" /\ r = "lsb" -> {"lsbrelease"}
    [] OTHER -> {}

\* What is gathered after a resource whose handler raised: the exception is
\* logged by the reactor.
AfterFailure(r) == resources \ {r}

\* A resource without output, or without a field, raises in its handler.
GatherResource(r, outcome) ==
  /\ at = "gather" /\ r \in resources
  /\ resources' = IF outcome = "good" THEN resources \ {r} ELSE AfterFailure(r)
  /\ document' = [document EXCEPT !.parts = @ \cup PartsOf(r, outcome)]
  /\ failed' = IF outcome = "good" THEN failed ELSE failed \cup {r}
  /\ Machine /\ Identity
  /\ UNCHANGED <<at, results, file, announced, built, reports, answers>>

Gathered ==
  /\ at = "gather" /\ resources = {}
  /\ at' = "tests"
  /\ Machine /\ Identity
  /\ UNCHANGED <<resources, results, document, file, announced, built, failed, reports, answers>>

---------------------------------------------------------------------------
(* The user at the tests, and at what comes behind them *)

Answer(t, status, kind) ==
  /\ at = "tests" /\ answers < MaxAnswers
  /\ results' = [results EXCEPT ![t] = [status |-> status, kind |-> kind]]
  /\ answers' = answers + 1
  /\ Machine /\ Identity
  /\ UNCHANGED <<at, resources, document, file, announced, built, failed, reports>>

\* prompt-report: the report is made when the user comes from the tests.
GoOn ==
  /\ at = "tests" /\ reports < MaxReports
  /\ at' = "system_id" /\ reports' = reports + 1
  /\ Machine /\ Identity
  /\ UNCHANGED <<resources, results, document, file, announced, built, failed, answers>>

\* From the review he goes to the tests or on, from the exchange to the review,
\* which makes no report.
Leave ==
  /\ \/ at = "review" /\ at' \in {"tests", "exchange"}
     \/ at = "exchange" /\ at' \in {"review", "end"}
  /\ Machine /\ Identity
  /\ UNCHANGED <<resources, results, document, file, announced, built, failed, reports, answers>>

---------------------------------------------------------------------------
(* The handlers of "report", in the order of their priorities *)

\* The system id that is known: of the configuration, or of an earlier report.
Known == IF configured # NoId THEN configured ELSE persist

\* SystemInfo.report(), the first: without a chassis the id stays unreported.
ReportSystemId ==
  /\ at = "system_id"
  /\ at' = "jobs"
  /\ system_id' = IF Known # NoId THEN Known
                  ELSE IF fingerprint # NoId THEN fingerprint ELSE system_id
  /\ persist' = IF Known = NoId /\ fingerprint # NoId THEN fingerprint ELSE persist
  /\ Machine
  /\ UNCHANGED <<saved, resources, results, document, file, announced, built, failed, reports,
                 answers>>

Question(t) == [test |-> t, status |-> results[t].status, kind |-> results[t].kind]

\* report_tests() appends a question for each test.
Questions(qs) == qs \o [i \in 1 .. Cardinality(Tests) |-> Question(SetToSeq(Tests)[i])]

\* The attachments that come to the context: printable ones that were supported.
InContext(a) == a.part = "context" /\ a.kind # "binary" /\ ~a.unsupported

\* The attachments of the hardware are parts of their own, and replaced.
HardwareParts == {a.part : a \in Range(attached)} \ {"context"}

InfoParts == {"client", "date_created"}

\* JobsPrompt.report(), and ClientInfo's and DatetimeInfo's, in any order: they
\* touch different parts.
ReportJobs ==
  /\ at = "jobs"
  /\ at' = "stylesheet"
  /\ document' = [parts |-> document.parts \cup InfoParts \cup HardwareParts,
                  questions |-> Questions(document.questions),
                  context |-> document.context \o SelectSeq(attached, InContext)]
  /\ Machine /\ Identity
  /\ UNCHANGED <<resources, results, file, announced, built, failed, reports, answers>>

\* LaunchpadReport.report(), the last.  The style sheet takes variables of the
\* environment, that may be missing, and it or the file may not be written; an
\* exception anywhere is logged and leaves the user at the review.
Fails ==
  /\ at \in {"stylesheet", "open", "write"}
  /\ at' = "review" /\ built' = "failed"
  /\ Machine /\ Identity
  /\ UNCHANGED <<resources, results, document, file, announced, failed, reports, answers>>

WriteStylesheet ==
  /\ at = "stylesheet"
  /\ at' = "open"
  /\ Machine /\ Identity
  /\ UNCHANGED <<resources, results, document, file, announced, built, failed, reports, answers>>

OpenFile ==
  /\ at = "open"
  /\ at' = "write" /\ file' = [NoFile EXCEPT !.state = "cut"]
  /\ Machine /\ Identity
  /\ UNCHANGED <<resources, results, document, announced, built, failed, reports, answers>>

WriteFile ==
  /\ at = "write"
  /\ at' = "validate"
  /\ file' = [parts |-> document.parts, questions |-> document.questions,
              context |-> document.context, system_id |-> system_id, state |-> "whole"]
  /\ Machine /\ Identity
  /\ UNCHANGED <<resources, results, document, announced, built, failed, reports, answers>>

\* The kinds of the texts of a report; those of the hardware are taken as they are.
TextKinds(f) ==
  {f.questions[i].kind : i \in DOMAIN f.questions} \cup {f.context[i].kind : i \in DOMAIN f.context}
    \cup {a.kind : a \in {b \in Range(attached) : b.part \in f.parts}}

\* The report can be parsed.
Parses(f) == f.state = "whole" /\ TextKinds(f) \subseteq {"plain"}

\* validate(): what cannot be parsed raises, what the schema does not allow is
\* shown to the user, and announced all the same.
Validate ==
  /\ at = "validate"
  /\ at' = "review"
  /\ announced' = (announced \/ Parses(file))
  /\ built' = IF Parses(file) THEN "yes" ELSE "failed"
  /\ Machine /\ Identity
  /\ UNCHANGED <<resources, results, document, file, failed, reports, answers>>

---------------------------------------------------------------------------
(* The persistent file, and the end of the program *)

Save ==
  /\ saved # persist /\ saved' = persist
  /\ Machine
  /\ UNCHANGED <<at, resources, results, document, persist, system_id, file, announced, built,
                 failed, reports, answers>>

\* The program ends or is killed, and is started again; the hardware may be
\* other.  What the store has is there again.
Restart ==
  /\ starts < MaxStarts /\ starts' = starts + 1
  /\ at' = "gather" /\ resources' = Resources /\ document' = Empty
  /\ fingerprint' \in Fingerprints /\ persist' = saved /\ system_id' = NoId
  /\ announced' = FALSE /\ built' = "no" /\ failed' = {}
  /\ UNCHANGED <<configured, attached, results, saved, file, reports, answers>>

SystemNext ==
  \/ \E r \in Resources, outcome \in {"good", "incomplete", "empty"} : GatherResource(r, outcome)
  \/ Gathered
  \/ \E t \in Tests, status \in SystemStatuses, kind \in {"plain", "page break"} : Answer(t, status, kind)
  \/ GoOn \/ Leave
  \/ ReportSystemId \/ ReportJobs
  \/ Fails \/ WriteStylesheet \/ OpenFile \/ WriteFile \/ Validate
  \/ Save \/ Restart

---------------------------------------------------------------------------
(* Properties *)

LastQuestion(f, t) ==
  LET at_t == {i \in DOMAIN f.questions : f.questions[i].test = t}
  IN f.questions[CHOOSE i \in at_t : \A j \in at_t : j <= i]

\* Once the last report has been made, what is sent has every test, and says of
\* each in the end what its status is now, however often the user went back.
SentIsCurrent ==
  (at = "exchange" /\ built = "yes") =>
    /\ announced /\ file.state = "whole"
    /\ \A t \in Tests :
         /\ \E i \in DOMAIN file.questions : file.questions[i].test = t
         /\ LastQuestion(file, t).status = results[t].status

\* A report is announced when it is whole and holds no text that would make it
\* unreadable, and that of the hardware goes into it unseen.
AnnouncedIsReadable ==
  (at = "review" /\ built = "yes") =>
    /\ \A i \in DOMAIN file.questions : file.questions[i].kind = "plain"
    /\ \A i \in DOMAIN file.context : file.context[i].kind = "plain"
    /\ file.state = "whole"

\* A resource that cannot be reported costs its own part of the report alone.
OthersAreReported ==
  (at = "review" /\ built = "yes") =>
    UNION {PartsOf(r, "good") : r \in Resources \ failed} \subseteq file.parts

\* A system keeps the id that was saved, whatever becomes of its hardware.
SystemKeepsItsId ==
  (at = "review" /\ built = "yes" /\ configured = NoId /\ saved # NoId) => file.system_id = saved

-----------------------------------------------------------------------------
(***************************************************************************)
(* How a report is dumped to XML and loaded again: checkbox/report.py with *)
(* the handlers of reports/xml_report.py for basic types and those of      *)
(* reports/launchpad_report.py for the elements that have names of their   *)
(* own.  The text is parsed in between, so that an empty text is no node.  *)
(*                                                                         *)
(* A value is [type, data, items]: the items of a dict are pairs of a name *)
(* and a value in the order of the names, those of a list are values.  An  *)
(* element is [tag, name, type, value, text, children]; name, type and     *)
(* value are its attributes, of which "" is none.                          *)
(***************************************************************************)

CONSTANTS
  Values,       \* the reports
  Stylesheets   \* does the document name a style sheet?

VARIABLES value, styled, dumped, loaded, stage

values_vars == <<value, styled, dumped, loaded, stage>>

Scalar(type, data) == [type |-> type, data |-> data, items |-> <<>>]
Dict(items) == [type |-> "dict", data |-> "", items |-> items]
List(items) == [type |-> "list", data |-> "", items |-> items]
Nothing == Scalar("none", "")
Raised == Scalar("raised", "")

NewElement(tag) ==
  [tag |-> tag, name |-> "", type |-> "", value |-> "", text |-> "", children |-> <<>>]

Item(v, name) ==
  LET found == SelectSeq(v.items, LAMBDA item : item[1] = name)
  IN IF found = <<>> THEN Nothing ELSE found[1][2]

---------------------------------------------------------------------------
(* The tables of the reports: the names that have handlers of their own *)

Summary == {"live_cd", "system_id", "distribution", "architecture", "private", "date_created"}
DumpsTable == {"context", "udev", "lsbrelease", "packages", "processors", "client", "questions"}
                \cup Summary
LoadsTable == {"default", "bool", "int", "long", "float", "bytes", "str", "list", "value", "property",
               "properties", "context", "udev", "packages", "processors", "client", "questions",
               "answer", "answer_choices", "comment"} \cup Summary

ValuesStatuses == <<"uninitiated", "pass", "fail", "unsupported", "untested">>

---------------------------------------------------------------------------
(* Dumping *)

\* A scalar is text with the name of its type; of an int, one for its size.
DumpsText(v, element) == [element EXCEPT !.type = v.type, !.text = v.data]

Append1(element, child) == [element EXCEPT !.children = Append(@, child)]

RECURSIVE CallDumps(_, _), DumpsItems(_, _), DumpsValues(_, _), DumpsNamed(_, _)

\* A value of the list is an element "value", the values of a dict are
\* properties, or elements of their own if they are dicts or have a handler.
DumpsValues(vs, element) ==
  IF vs = <<>> THEN element
  ELSE DumpsValues(Tail(vs), Append1(element, CallDumps(Head(vs), NewElement("value"))))

DumpsItems(items, element) ==
  IF items = <<>> THEN element
  ELSE LET key == Head(items)[1]  v == Head(items)[2]
           child == IF key \in DumpsTable THEN DumpsNamed(v, NewElement(key))
                    ELSE IF v.type = "dict" THEN CallDumps(v, NewElement(key))
                    ELSE CallDumps(v, [NewElement("property") EXCEPT !.name = key])
       IN DumpsItems(Tail(items), Append1(element, child))

CallDumps(v, element) ==
  CASE v.type = "none" -> Append1(element, NewElement("none"))
    [] v.type = "list" -> DumpsValues(v.items, [element EXCEPT !.type = "list"])
    [] v.type = "dict" -> DumpsItems(v.items, element)
    [] OTHER           -> DumpsText(v, element)

\* The entries of a list of packages or processors: the name is an attribute,
\* the rest is dumped.
DumpsEntry(v, tag) ==
  DumpsItems(SelectSeq(v.items, LAMBDA item : item[1] # "name"),
             [NewElement(tag) EXCEPT !.name = Item(v, "name").data])

DumpsContext(v) ==
  [NewElement("info") EXCEPT !.value = Item(v, "command").data, !.text = Item(v, "data").data]

AnswerChoices ==
  [NewElement("answer_choices") EXCEPT !.children =
     [i \in DOMAIN ValuesStatuses |-> DumpsText(Scalar("str", ValuesStatuses[i]), NewElement("value"))]]

DumpsQuestion(v) ==
  [NewElement("question") EXCEPT !.name = Item(v, "name").data,
     !.children = <<[NewElement("answer") EXCEPT !.type = "multiple_choice",
                                                 !.text = Item(v, "answer").data],
                    AnswerChoices,
                    [NewElement("comment") EXCEPT !.text = Item(v, "comment").data]>>]

DumpsLsb(v, element) ==
  [element EXCEPT !.children =
     [i \in DOMAIN v.items |->
        CallDumps(v.items[i][2], [NewElement("property") EXCEPT !.name = v.items[i][1]])]]

DumpsNamed(v, element) ==
  LET each(D(_)) == [element EXCEPT !.children = [i \in DOMAIN v.items |-> D(v.items[i])]]
      package(e) == DumpsEntry(e, "package")
      processor(e) == DumpsEntry(e, "processor")
  IN CASE element.tag = "context"    -> each(DumpsContext)
       [] element.tag = "packages"   -> each(package)
       [] element.tag = "processors" -> each(processor)
       [] element.tag = "questions"  -> each(DumpsQuestion)
       [] element.tag = "lsbrelease" -> DumpsLsb(v, element)
       [] element.tag = "client"     -> [element EXCEPT !.name = Item(v, "name").data,
                                                        !.value = Item(v, "version").data]
       [] element.tag = "udev"       -> [element EXCEPT !.text = v.data]
       [] OTHER                      -> [element EXCEPT !.value = v.data]

---------------------------------------------------------------------------
(* Loading *)

\* A value that could not be loaded makes all of it fail.
Whole(v) == IF \E i \in DOMAIN v.items :
                 (IF v.type = "dict" THEN v.items[i][2] ELSE v.items[i]) = Raised
            THEN Raised ELSE v

\* The text of an element by its type, which is lost if there is none.
LoadsText(element, type) ==
  IF element.text = "" THEN Raised
  ELSE IF type \in {"bool", "int", "long", "float", "bytes", "str"}
       THEN Scalar(type, element.text) ELSE Raised

\* The children with a tag.
Tagged(element, tag) == SelectSeq(element.children, LAMBDA c : c.tag = tag)

RECURSIVE CallLoads(_), LoadsProperty(_), LoadsDefault(_)

Key(child) == IF child.name # "" THEN child.name ELSE child.tag

LoadsDefault(element) ==
  Whole(Dict([i \in DOMAIN element.children |->
                <<Key(element.children[i]), CallLoads(element.children[i])>>]))

\* A list looks for properties, and not for the values that were dumped; without
\* a type it is a dict.
LoadsProperty(element) ==
  LET properties == Tagged(element, "property")
  IN CASE element.type = "list" ->
            Whole(List([i \in DOMAIN properties |->
                          Dict(<<<<properties[i].name, CallLoads(properties[i])>>>>)]))
       [] element.type = "" ->
            Whole(Dict([i \in DOMAIN properties |->
                          <<properties[i].name, CallLoads(properties[i])>>]))
       [] OTHER -> LoadsText(element, element.type)

\* An entry has the name of its element.
Named(v, e) == Dict(Append(v.items, <<"name", Scalar("str", e.name)>>))

\* The entries of packages and the like: what they hold, and their name.
LoadsEntries(element, tag) ==
  LET entries == Tagged(element, tag)
      entry(e) == LET v == LoadsDefault(e)
                  IN IF v = Raised THEN Raised ELSE Named(v, e)
  IN Whole(List([i \in DOMAIN entries |-> entry(entries[i])]))

\* The infos of the context have no handler, and no child elements.
LoadsContext(element) ==
  List([i \in DOMAIN Tagged(element, "info") |-> LoadsDefault(Tagged(element, "info")[i])])

LoadsSummary(element) ==
  IF element.tag \in {"live_cd", "private"} THEN Scalar("bool", element.value)
  ELSE IF element.tag = "date_created" THEN Scalar("datetime", element.value)
  ELSE Scalar("str", element.value)

LoadsClient(element) ==
  Dict(<<<<"name", Scalar("str", element.name)>>, <<"version", Scalar("str", element.value)>>>>)

\* The elements that have a handler, by their tags; those of the basic types
\* have handlers for text and raise when it is an element, and that of udev calls
\* itself without end.
CallLoads(element) ==
  CASE element.tag \notin LoadsTable /\ element.type = "" -> LoadsDefault(element)
    [] element.tag \notin LoadsTable -> LoadsText(element, element.type)
    [] element.tag = "property" -> LoadsProperty(element)
    [] element.tag = "value" /\ element.children # <<>> -> Scalar("str", "")
    [] element.tag = "value" -> LoadsText(element, "str")
    [] element.tag = "default" -> LoadsDefault(element)
    [] element.tag = "list" ->
         Whole(List([i \in DOMAIN element.children |-> CallLoads(element.children[i])]))
    [] element.tag = "properties" -> LoadsProperty([element EXCEPT !.type = ""])
    [] element.tag = "context" -> LoadsContext(element)
    [] element.tag = "packages" -> LoadsEntries(element, "package")
    [] element.tag = "processors" -> LoadsEntries(element, "processor")
    [] element.tag = "questions" -> LoadsEntries(element, "question")
    [] element.tag = "client" -> LoadsClient(element)
    [] element.tag \in {"answer", "comment"} -> LoadsText(element, "str")
    [] element.tag = "answer_choices" -> Nothing
    [] element.tag \in Summary -> LoadsSummary(element)
    [] OTHER -> Raised

\* The first node of the document has to be the element "system", and the style
\* sheet comes before it.
Loads(element, style) ==
  IF style THEN Raised
  ELSE LET v == CallLoads(element)
       IN IF v = Raised THEN Raised ELSE Dict(<<<<"system", v>>>>)

---------------------------------------------------------------------------
(* The manager *)

ValuesTypeOK ==
  /\ value \in Values /\ stage \in {"value", "dumped", "loaded", "raised"}
  /\ stage \in {"dumped", "loaded"} => dumped.tag = "system"
  /\ stage = "loaded" => loaded.type \in {"dict", "raised"}

ValuesInit ==
  /\ value \in Values /\ styled \in Stylesheets
  /\ dumped = NewElement("") /\ loaded = Nothing /\ stage = "value"

RECURSIVE Dumpable(_)

\* There is no handler for other types than those above, and bytes are no text.
Dumpable(v) ==
  /\ v.type \notin {"bytes", "object"}
  /\ \A i \in DOMAIN v.items : Dumpable(IF v.type = "dict" THEN v.items[i][2] ELSE v.items[i])

Dumps ==
  /\ stage = "value" /\ Dumpable(value)
  /\ stage' = "dumped"
  /\ dumped' = CallDumps(value, NewElement("system"))
  /\ UNCHANGED <<value, styled, loaded>>

DumpsRaises ==
  /\ stage = "value" /\ ~Dumpable(value)
  /\ stage' = "raised"
  /\ UNCHANGED <<value, styled, dumped, loaded>>

LoadAgain ==
  /\ stage = "dumped" /\ stage' = "loaded"
  /\ loaded' = Loads(dumped, styled)
  /\ UNCHANGED <<value, styled, dumped>>

ValuesNext == Dumps \/ DumpsRaises \/ LoadAgain

---------------------------------------------------------------------------
(* Properties *)

RECURSIVE Comes(_)

\* A value that can come back: non-empty scalars, and dicts of such whose names
\* have no handler.
Comes(v) ==
  \/ v.type \in {"bool", "int", "long", "float", "str"} /\ v.data # ""
  \/ /\ v.type = "dict"
     /\ \A i \in DOMAIN v.items :
          v.items[i][1] \notin DumpsTable \cup LoadsTable /\ Comes(v.items[i][2])

\* A report of dicts and scalars comes back as it was.
ScalarsComeBack ==
  (stage = "loaded" /\ ~styled /\ Comes(value)) => loaded = Dict(<<<<"system", value>>>>)

\* What of packages, processors and the client comes back is what was dumped:
\* their names, and all that can come back.
EntriesComeBack ==
  (stage = "loaded" /\ loaded # Raised) =>
    \A tag \in {"packages", "processors"} :
      LET given == Item(value, tag).items
          got == Item(Item(loaded, "system"), tag).items
      IN /\ Len(given) = Len(got)
         /\ \A i \in DOMAIN given : \A j \in DOMAIN given[i].items :
              Comes(given[i].items[j][2]) =>
                LET name == given[i].items[j][1]
                IN Item(got[i], name).data = given[i].items[j][2].data
=============================================================================
