---------------------------- MODULE RecordParser ----------------------------
(***************************************************************************)
(* The records that jobs are defined by and that resource jobs and local   *)
(* jobs print: the generator of plainbox/impl/rfc822.py, line by line, the *)
(* function there that writes a record, and the other reader of the same   *)
(* files, checkbox/lib/template.py.                                        *)
(*                                                                         *)
(* A line is blank, of white space, the begin of a field, the continuation *)
(* of one, a comment, or something else.  A value is a sequence of texts,  *)
(* one to a line: " ." stands for the text "" and " .." for ".".           *)
(***************************************************************************)
EXTENDS Naturals, Sequences, SequencesExt, FiniteSets, TLC

CONSTANTS
  Inputs,    \* what may be read: sequences of lines
  Messages   \* what may be written: records, functions from keys to values

VARIABLES
  message,     \* what was written to be read, a set of at most one message
  input, at,   \* the lines, and the one that is read next
  data,        \* of the record that is being read
  line_start, line_end,  \* its origin, or 0
  key, value_list,  \* the last field: {} or a singleton, and its lines
  output,      \* the records that were yielded
  error        \* whether a syntax error was raised

vars == <<message, input, at, data, line_start, line_end, key, value_list, output, error>>

Line(kind, field, text) == [kind |-> kind, key |-> field, text |-> text]

Blank == Line("blank", "", "")
Spaces == Line("spaces", "", "")
Comment == Line("comment", "", "")
Other == Line("other", "", "")
More(text) == Line("more", "", text)
Field(k, text) == Line("field", k, text)

\* cleandoc() of the lines joined, without empty lines at the ends.
Clean(texts) ==
  LET Filled == {i \in DOMAIN texts : texts[i] # ""}
      first == CHOOSE i \in Filled : \A k \in Filled : i <= k
      last == CHOOSE i \in Filled : \A k \in Filled : i >= k
  IN  IF Filled = {} THEN <<>> ELSE SubSeq(texts, first, last)

-----------------------------------------------------------------------------
(* dump_rfc822_records()                                                   *)

\* A line of a long value; one of white space stays one.
DumpText(text) == IF text = "spaces" THEN Spaces ELSE More(text)

DumpField(k, value) ==
  LET texts == IF Len(value) > 1 /\ Last(value) = "" THEN Front(value) ELSE value
  IN  IF Len(value) = 1
      THEN <<Field(k, IF value[1] = "spaces" THEN "" ELSE value[1])>>
      ELSE <<Field(k, "")>> \o [i \in DOMAIN texts |-> DumpText(texts[i])]

Dump(m) == FlattenSeq([i \in 1..Len(SetToSeq(DOMAIN m)) |->
             LET k == SetToSeq(DOMAIN m)[i] IN DumpField(k, m[k])]) \o <<Blank>>

-----------------------------------------------------------------------------
(* gen_rfc822_records()                                                    *)

NoData == [k \in {} |-> <<>>]

Init ==
  /\ \/ message = {} /\ input \in Inputs
     \/ \E m \in Messages : message = {m} /\ input = Dump(m)
  /\ at = 1 /\ data = NoData /\ key = {} /\ value_list = <<>>
  /\ line_start = 0 /\ line_end = 0
  /\ output = <<>> /\ error = FALSE

Reading(kinds) == ~error /\ at \in DOMAIN input /\ input[at].kind \in kinds

\* _commit_key_value_if_needed()
Committed == [k \in DOMAIN data \cup key |-> IF k \in key THEN Clean(value_list) ELSE data[k]]

Yielded ==
  IF DOMAIN Committed = {} THEN output
  ELSE Append(output, [data |-> Committed, line_start |-> line_start, line_end |-> line_end])

\* Mutant of NewRecord: the lines of the last value are kept.
NewRecordKeepsLines ==
  data' = NoData /\ key' = {} /\ UNCHANGED value_list /\ line_start' = 0 /\ line_end' = 0

\* _new_record()
NewRecord ==
  data' = NoData /\ key' = {} /\ value_list' = <<>> /\ line_start' = 0 /\ line_end' = 0

EndRecord ==
  /\ Reading({"blank", "spaces"})
  /\ output' = Yielded
  /\ NewRecord
  /\ at' = at + 1
  /\ UNCHANGED <<message, input, error>>

Continue ==
  /\ Reading({"more"}) /\ key # {}
  /\ value_list' = Append(value_list, input[at].text)
  /\ line_end' = at
  /\ at' = at + 1
  /\ UNCHANGED <<message, input, data, line_start, key, output, error>>

IsDuplicate(k) == k \in DOMAIN Committed

BeginField ==
  /\ Reading({"field"}) /\ ~IsDuplicate(input[at].key)
  /\ data' = Committed
  /\ key' = {input[at].key} /\ value_list' = <<input[at].text>>
  /\ line_start' = IF line_start = 0 THEN at ELSE line_start
  /\ line_end' = at
  /\ at' = at + 1
  /\ UNCHANGED <<message, input, output, error>>

\* What was yielded before stays with the caller.
SyntaxError ==
  /\ \/ Reading({"comment", "other"})
     \/ Reading({"more"}) /\ key = {}
     \/ Reading({"field"}) /\ IsDuplicate(input[at].key)
  /\ error' = TRUE
  /\ UNCHANGED <<message, input, at, data, line_start, line_end, key, value_list, output>>

EndOfStream ==
  /\ ~error /\ at = Len(input) + 1
  /\ output' = Yielded
  /\ NewRecord
  /\ at' = at + 1
  /\ UNCHANGED <<message, input, error>>

Next == EndRecord \/ Continue \/ BeginField \/ SyntaxError \/ EndOfStream

Spec == Init /\ [][Next]_vars

Done == error \/ at = Len(input) + 2

TypeOK ==
  /\ \A i \in DOMAIN input :
       input[i].kind \in {"blank", "spaces", "comment", "other", "more", "field"}
  /\ at \in 1..Len(input) + 2
  /\ Cardinality(key) <= 1 /\ (key = {} <=> value_list = <<>>)
  /\ \A i \in DOMAIN output : DOMAIN output[i].data # {}
  /\ line_start \in 0..line_end
  /\ error \in BOOLEAN

-----------------------------------------------------------------------------
(* The reader of checkbox/lib/template.py: records end at empty lines, and *)
(* an exception leaves nothing.                                            *)

\* _reader(): the parts between empty lines.
Parts(lines) ==
  LET Starts == {i \in DOMAIN lines : lines[i] # Blank /\ (i = 1 \/ lines[i - 1] = Blank)}
      End(i) == CHOOSE e \in i..Len(lines) :
                  /\ \A k \in i..e : lines[k] # Blank
                  /\ e = Len(lines) \/ lines[e + 1] = Blank
      starts == SetToSortSeq(Starts, <)
  IN  [n \in DOMAIN starts |-> SubSeq(lines, starts[n], End(starts[n]))]

FieldsOf(part) == {i \in DOMAIN part : part[i].kind = "field"}

\* A file that begins with two empty lines ends there.
Template(lines) ==
  IF Len(lines) >= 2 /\ lines[1] = Blank /\ lines[2] = Blank THEN <<>>
  ELSE [n \in DOMAIN Parts(lines) |->
          {Parts(lines)[n][i].key : i \in FieldsOf(Parts(lines)[n])}]

TemplateRaises(lines) ==
  \E part \in Range(Parts(lines)) :
    \/ \E i \in DOMAIN part : part[i] = Other
    \/ \E i, k \in FieldsOf(part) : i # k /\ part[i].key = part[k].key

-----------------------------------------------------------------------------
(* Correctness.                                                            *)

\* Reference definitions, of a whole stream: blank lines separate.
Separates(i) == i \notin DOMAIN input \/ input[i].kind \in {"blank", "spaces"}

BlockStart(i) == CHOOSE s \in 1..i : Separates(s - 1) /\ \A k \in s..i : ~Separates(k)

BlockEnd(i) == CHOOSE e \in i..Len(input) : Separates(e + 1) /\ \A k \in i..e : ~Separates(k)

Wrong(i) ==
  \/ input[i].kind \in {"comment", "other"}
  \/ input[i].kind = "more" /\ Separates(i - 1)
  \/ /\ input[i].kind = "field"
     /\ \E k \in BlockStart(i)..i - 1 : input[k].kind = "field" /\ input[k].key = input[i].key

FirstWrong ==
  LET All == {i \in DOMAIN input : Wrong(i)}
  IN  IF All = {} THEN Len(input) + 2 ELSE CHOOSE i \in All : \A k \in All : i <= k

ValueAt(i) ==
  LET end == CHOOSE e \in i..BlockEnd(i) :
               /\ \A k \in i + 1..e : input[k].kind = "more"
               /\ e = BlockEnd(i) \/ input[e + 1].kind = "field"
  IN  Clean([k \in 1..end - i + 1 |-> input[i + k - 1].text])

RecordAt(s) ==
  LET Fields == {i \in s..BlockEnd(s) : input[i].kind = "field"}
  IN  [data |-> [k \in {input[i].key : i \in Fields} |->
                   ValueAt(CHOOSE i \in Fields : input[i].key = k)],
       line_start |-> s, line_end |-> BlockEnd(s)]

RecordsBeforeError ==
  LET Starts == {s \in 1..Len(input) :
                   /\ ~Separates(s) /\ Separates(s - 1)
                   /\ BlockEnd(s) + 1 < FirstWrong}
      starts == SetToSortSeq(Starts, <)
  IN  [n \in DOMAIN starts |-> RecordAt(starts[n])]

\* What the documentation of the function says (rfc822.py:117-128): records
\* are what is between blank lines, with the place where it was; a field is a
\* line with its continuations; a wrong line ends it, and its record is lost.
ParsedAsSpecified ==
  Done => output = RecordsBeforeError /\ error = (FirstWrong \in DOMAIN input)

\* A record that was written (rfc822.py:260-287) is read again, without the
\* empty lines at the ends of its values, if and only if no long value has a
\* line of white space, which ends the record.
WrittenIsRead ==
  Done =>
    \A m \in message :
      [i \in DOMAIN output |-> output[i].data] = (IF DOMAIN m = {} THEN <<>> ELSE <<[k \in DOMAIN m |->
                  Clean(IF m[k] = <<"spaces">> THEN <<>> ELSE m[k])]>>)
        <=> \A k \in DOMAIN m : Len(m[k]) > 1 => \A i \in DOMAIN m[k] : m[k][i] # "spaces"

\* Both readers see the same records in the same files, or both refuse them,
\* as far as the files have no comments, no lines of white space, no
\* continuation of nothing, and do not begin with two empty lines
\* (template.py:65-132).
BothReadIt ==
  \/ Len(input) >= 2 /\ input[1] = Blank /\ input[2] = Blank
  \/ \E i \in DOMAIN input :
       \/ input[i] \in {Spaces, Comment}
       \/ input[i].kind = "more" /\ (i = 1 \/ input[i - 1] = Blank)
  \/ /\ error = TemplateRaises(input)
     /\ error \/ [n \in DOMAIN output |-> DOMAIN output[n].data] = Template(input)

ReadersAgree == Done => BothReadIt
=============================================================================
