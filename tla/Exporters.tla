----------------------------- MODULE Exporters ------------------------------
(***************************************************************************)
(* The exporters of plainbox (plainbox/impl/exporter): what the run and    *)
(* SRU commands export, save and send, and the spreadsheet, which has a    *)
(* tree of its own. The two share no state; each has its own variables,    *)
(* initial states and steps.                                               *)
(***************************************************************************)
EXTENDS Naturals, Sequences, FiniteSets

-----------------------------------------------------------------------------
(***************************************************************************)
(* What becomes of the results when the jobs have run: `plainbox run' and  *)
(* `plainbox sru' export the session, save the report and send it          *)
(* (plainbox/impl/commands/run.py and sru.py, exporter/, transport/).      *)
(*                                                                         *)
(* The format "xml" stands for html too, which is made from it, and "text" *)
(* for json: both write every job that has a result, and cannot fail.  Of  *)
(* a report is kept which jobs are in it, with which status, and for each  *)
(* field of an entry whose job it is about.                                *)
(***************************************************************************)

CONSTANTS
  Plugin,        \* job -> its plugin
  SortedNames,   \* the jobs, sorted
  Outcomes,      \* bound: job -> the outcomes that its result may have
  Texts,         \* bound: job -> what its command may print: "nothing", "long"
                 \* text that is not ASCII, "control" characters, "binary" data
  ResourceNames, \* the resources that the XML report is made from
  RecordStates   \* bound: what the session may have of a resource: "absent",
                 \* "empty" (no record), "partial" (a key is missing), "full"

ReportNames == DOMAIN Plugin

VARIABLES
  given,         \* the command and its options
  results,       \* the session's results
  resources,     \* resource -> its records
  export_pc,     \* where the command is
  report_result_map,    \* the jobs in the data that is being dumped
  report,        \* the entries that have been dumped
  entry,         \* the entry of the RFC822 exporter
  saved,         \* the output or fallback file: "nothing", "empty", "part", "whole"
  sent,          \* what the server has accepted: "nothing" or "whole"
  told           \* the command has said that the report was not sent

report_vars == <<given, results, resources, export_pc, report_result_map, report, entry, saved,
                 sent, told>>

Fields == {"outcome", "comments", "command", "io_log"}

ReportTypeOK ==
  /\ given.command \in {"run", "sru"} /\ given.format \in {"xml", "rfc822", "text"}
  /\ results \in [ReportNames -> [outcome : {"none", "pass", "fail", "skip", "not-supported",
                                             "not-implemented", "undecided"},
                                  comments : BOOLEAN, text : {"nothing", "long", "control", "binary"}]]
  /\ export_pc \in {"start", "running", "opening", "collecting", "dumping", "resources",
                    "saving", "sending", "done", "refused", "raised"}
  /\ report_result_map \subseteq ReportNames
  /\ DOMAIN report \subseteq ReportNames
  /\ \A k \in DOMAIN entry : k \in Fields /\ entry[k] \in ReportNames
  /\ saved \in {"nothing", "empty", "part", "whole"} /\ sent \in {"nothing", "whole"}
  /\ told \in BOOLEAN

Results(n) ==
  {r \in [outcome : Outcomes[n], comments : BOOLEAN, text : Texts[n]] :
     /\ r.outcome \notin {"pass", "fail"} => r.text = "nothing"
     /\ r.outcome = "not-supported" => r.comments
     /\ r.comments => \/ r.outcome = "not-supported"
                      \/ Plugin[n] = "manual" /\ r.outcome \in {"pass", "fail", "skip"}}

ReportInit ==
  /\ given \in
       {g \in [command : {"run", "sru"}, format : {"xml", "rfc822", "text"},
               with_log : BOOLEAN, output : {"stdout", "file", "none", "unwritable"},
               transport : BOOLEAN, valid_id : BOOLEAN] :
          /\ g.transport \/ g.valid_id
          /\ g.format = "xml" => g.with_log
          /\ \/ g.command = "run" /\ g.output \in {"stdout", "file"}
             \/ /\ g.command = "sru" /\ g.format = "xml" /\ g.transport
                /\ g.output # "stdout"}
  /\ results \in {f \in [ReportNames -> UNION {Results(n) : n \in ReportNames}] :
                    \A n \in ReportNames : f[n] \in Results(n)}
  /\ resources \in [ResourceNames -> RecordStates]
  /\ export_pc = "start"
  /\ report_result_map = {} /\ report = <<>> /\ entry = <<>>
  /\ saved = "nothing" /\ sent = "nothing" /\ told = FALSE

inputs == <<given, results, resources>>

-----------------------------------------------------------------------------
(* Before the jobs.                                                        *)

\* The identifier is validated when the transport is made, or the variable of
\* the configuration is set.
Prepare ==
  /\ export_pc = "start"
  /\ export_pc' = IF given.transport /\ ~given.valid_id THEN "refused" ELSE "running"
  /\ UNCHANGED <<inputs, report_result_map, report, entry, saved, sent, told>>

\* The jobs have run.
Ran ==
  /\ export_pc = "running"
  /\ export_pc' = IF given.command = "sru" /\ given.output # "none" THEN "opening"
                                                              ELSE "collecting"
  /\ UNCHANGED <<inputs, report_result_map, report, entry, saved, sent, told>>

\* sru opens the fallback file before it dumps.
Open ==
  /\ export_pc = "opening"
  /\ \/ /\ given.output = "file"
        /\ saved' = "empty" /\ export_pc' = "collecting"
     \/ /\ given.output = "unwritable"
        /\ export_pc' = "raised" /\ UNCHANGED saved
  /\ UNCHANGED <<inputs, report_result_map, report, entry, sent, told>>

-----------------------------------------------------------------------------
(* The exporters.                                                          *)

\* get_session_data_subset()
Collect ==
  /\ export_pc = "collecting"
  /\ report_result_map' = {n \in ReportNames : results[n].outcome # "none"}
  /\ report' = <<>> /\ entry' = <<>>
  /\ export_pc' = "dumping"
  /\ UNCHANGED <<inputs, saved, sent, told>>

\* The fields of a job in the data.
FieldsOf(n) ==
  {"outcome"} \cup {k \in {"command"} : Plugin[n] # "manual"}
              \cup {k \in {"io_log"} : given.with_log /\ Plugin[n] # "attachment"}
              \cup {k \in {"comments"} : given.with_log}

\* _STATUS_MAP
Status(outcome) == IF outcome \in {"pass", "fail", "skip"} THEN outcome ELSE "skip"

Mapped == {"pass", "fail", "skip", "not-supported"}

\* _add_questions(): an outcome that is not in _STATUS_MAP, a log that is not
\* UTF-8 or that no XML document can hold raises; comments go before the log.
CanAdd(n) ==
  /\ results[n].outcome \in Mapped
  /\ results[n].comments \/ results[n].text \notin {"binary", "control"}

\* _add_context(), _add_hardware(): binary attachments are left encoded.
CanAttach(n) == results[n].text # "control"

IsQuestion(n) == Plugin[n] \notin {"resource", "local", "attachment"}

Own(n) == [k \in FieldsOf(n) |-> n]

\* entry.update(): the fields of the jobs before stay.
Update(n) == [k \in DOMAIN entry \cup FieldsOf(n) |-> IF k \in FieldsOf(n) THEN n ELSE entry[k]]

ReportEnter(n, status, fields) ==
  report' = [m \in DOMAIN report \cup {n} |->
               IF m = n THEN [status |-> status, fields |-> fields] ELSE report[m]]

Raise == export_pc' = "raised" /\ UNCHANGED <<report, entry>>

\* The jobs that are still to be dumped, of which SortedNames says the next.
Left == {i \in DOMAIN SortedNames : SortedNames[i] \in report_result_map}

DumpJob ==
  /\ export_pc = "dumping" /\ Left # {}
  /\ LET n == SortedNames[CHOOSE i \in Left : \A j \in Left : i <= j]
     IN  /\ report_result_map' = report_result_map \ {n}
         /\ \/ /\ given.format = "xml" /\ IsQuestion(n)
               /\ IF CanAdd(n)
                  THEN /\ ReportEnter(n, Status(results[n].outcome), Own(n))
                       /\ UNCHANGED <<entry, export_pc>>
                  ELSE Raise
            \/ /\ given.format = "xml" /\ Plugin[n] = "attachment"
               /\ IF CanAttach(n) THEN UNCHANGED <<report, entry, export_pc>> ELSE Raise
            \/ /\ given.format = "xml" /\ Plugin[n] \in {"resource", "local"}
               /\ UNCHANGED <<report, entry, export_pc>>
            \/ /\ given.format = "rfc822"
               /\ entry' = Update(n)
               /\ ReportEnter(n, results[n].outcome, Update(n))
               /\ UNCHANGED export_pc
            \/ /\ given.format = "text"
               /\ ReportEnter(n, results[n].outcome, Own(n))
               /\ UNCHANGED <<entry, export_pc>>
  /\ UNCHANGED <<inputs, saved, sent, told>>

JobsDumped ==
  /\ export_pc = "dumping" /\ Left = {}
  /\ export_pc' = "resources"
  /\ UNCHANGED <<inputs, report_result_map, report, entry, saved, sent, told>>

\* The first record of a resource that the session has is taken, with its keys.
ResourcesSuffice ==
  given.format = "xml" => \A r \in ResourceNames : resources[r] \in {"absent", "full"}

\* After a dump: sru dumps once more to send, into a temporary file.
AfterDump ==
  IF given.command = "run" \/ saved = "empty" THEN "saving" ELSE "sending"

\* _add_software() and _add_summary()
DumpResources ==
  /\ export_pc = "resources"
  /\ export_pc' = IF ResourcesSuffice THEN AfterDump ELSE "raised"
  /\ UNCHANGED <<inputs, report_result_map, report, entry, saved, sent, told>>

-----------------------------------------------------------------------------
(* The file and the server.                                                *)

\* What is copied to stdout is decoded chunk by chunk.
MayBeCut ==
  /\ given.command = "run" /\ given.output = "stdout" /\ given.format = "xml"
  /\ \E n \in DOMAIN report : results[n].text = "long" /\ ~results[n].comments

AfterSave ==
  IF given.command = "sru" THEN "collecting"
  ELSE IF given.transport THEN "sending" ELSE "done"

\* _save_results()
Save ==
  /\ export_pc = "saving"
  /\ \/ saved' = "whole" /\ export_pc' = AfterSave
     \/ MayBeCut /\ saved' = "part" /\ export_pc' = "raised"
  /\ UNCHANGED <<inputs, report_result_map, report, entry, sent, told>>

\* transport.send(): the server accepts the report and answers with JSON, or
\* with something else, which raises.
SendAccepted ==
  /\ export_pc = "sending"
  /\ sent' = "whole"
  /\ export_pc' \in {"done", "raised"}
  /\ UNCHANGED <<inputs, report_result_map, report, entry, saved, told>>

\* InvalidSchema, ConnectionError and HTTPError are printed.
SendRefused ==
  /\ export_pc = "sending"
  /\ told' = TRUE /\ export_pc' = "done"
  /\ UNCHANGED <<inputs, report_result_map, report, entry, saved, sent>>

\* Any other error of the library is not caught.
SendFails ==
  /\ export_pc = "sending"
  /\ export_pc' = "raised"
  /\ UNCHANGED <<inputs, report_result_map, report, entry, saved, sent, told>>

\* The command has ended.
Ended ==
  /\ export_pc \in {"done", "refused", "raised"}
  /\ UNCHANGED report_vars

ReportNext ==
  \/ Prepare \/ Ran \/ Open \/ Collect \/ DumpJob \/ JobsDumped \/ DumpResources
  \/ Save \/ SendAccepted \/ SendRefused \/ SendFails \/ Ended

ReportSpec == ReportInit /\ [][ReportNext]_report_vars

-----------------------------------------------------------------------------
(* Correctness.                                                            *)

HasResult(n) == results[n].outcome # "none"

Reported == {n \in ReportNames : HasResult(n) /\ (given.format = "xml" => IsQuestion(n))}

\* A report that is saved, printed or sent has every test that has a result,
\* and what it says of a test is what the result is: a test passed or failed
\* only if its result did (_STATUS_MAP, which knows no more outcomes).
ReportIsComplete ==
  export_pc \in {"saving", "sending"} =>
    /\ DOMAIN report = Reported
    /\ \A n \in Reported, o \in {"pass", "fail"} :
         report[n].status = o <=> results[n].outcome = o

\* What a report says of a job is of that job; in the RFC822 report (rfc822.py:43)
\* a job that has no log, comments or command gets those of a job before it.
FieldsAreTheirOwn ==
  export_pc \in {"saving", "sending"} =>
    \A n \in DOMAIN report, k \in Fields :
      k \in DOMAIN report[n].fields /\ report[n].fields[k] # n =>
        given.format = "rfc822" /\ k \notin FieldsOf(n)

Unexportable(n) ==
  \/ IsQuestion(n) /\ results[n].outcome \in {"undecided", "not-implemented"}
  \/ IsQuestion(n) /\ results[n].text = "binary" /\ ~results[n].comments
  \/ results[n].text = "control" /\ (IsQuestion(n) => ~results[n].comments)

\* The report is lost only to a result that the XML format has no place for, to
\* a resource without the record or the key that it looks for, to a fallback
\* file that cannot be opened, or after it was saved or could be sent.
RaisesForAReason ==
  export_pc = "raised" =>
    \/ /\ given.format = "xml"
       /\ \/ \E n \in ReportNames : HasResult(n) /\ Unexportable(n)
          \/ \E r \in ResourceNames : resources[r] \in {"empty", "partial"}
    \/ given.output = "unwritable"
    \/ MayBeCut
    \/ given.transport /\ DOMAIN report = Reported

\* When the command has ended without an exception, the report is where the
\* user wanted it or the user was told that it is not; and with an exception of
\* the server the file that was asked for still has it.
ResultsAreKept ==
  /\ export_pc = "done" =>
       /\ given.output \in {"stdout", "file"} => saved = "whole"
       /\ given.transport => sent = "whole" \/ told
  /\ export_pc = "raised" /\ sent = "nothing" /\ saved # "whole" =>
       \/ given.output \in {"none", "unwritable"} \/ MayBeCut
       \/ ~ResourcesSuffice \/ \E n \in ReportNames : HasResult(n) /\ Unexportable(n)

-----------------------------------------------------------------------------
(***************************************************************************)
(* How the XLSX exporter (plainbox/impl/exporter/xlsx.py) makes the tree   *)
(* of the jobs, the status of a category and the totals of the summary     *)
(* from the results of a session.                                          *)
(*                                                                         *)
(* A job that a local job has generated has its checksum as `via'; here it *)
(* is the name of that job, and "" for None.  The session sets it too for  *)
(* a job that it knows, if a local job prints that one again (state.py:498)*)
(* so that a job may come to be above itself.  Cells are left out but for  *)
(* what they say of a job.                                                 *)
(***************************************************************************)

CONSTANTS
  ResultMaps   \* bound: what the session has: functions from the names of jobs
               \* with a result to [plugin, via, outcome, described]

VARIABLES
  sheet_result_map,      \* the data
  xlsx_pc,         \* "tree", "writing", "written", "closed" or "raised"
  stack,           \* the calls of _tree() or _write_job(), each with the job it
                   \* is for and the jobs that its loop has still to visit
  category_status, \* the statuses of the categories
  totals,          \* total_pass, total_fail, total_skip and total
  rows             \* job -> what its row says

sheet_vars == <<sheet_result_map, xlsx_pc, stack, category_status, totals, rows>>

SheetNames == DOMAIN sheet_result_map

SheetTypeOK ==
  /\ xlsx_pc \in {"tree", "writing", "written", "closed", "raised"}
  /\ \A i \in DOMAIN stack : stack[i].job \in SheetNames \cup {""} /\ stack[i].todo \subseteq SheetNames
  /\ DOMAIN category_status \subseteq SheetNames
  /\ \A n \in DOMAIN category_status : category_status[n] \in {"pass", "fail", "skip"}
  /\ totals \in [pass : Nat, fail : Nat, skip : Nat, total : Nat]
  /\ DOMAIN rows \subseteq SheetNames

Via(n) == {m \in SheetNames : sheet_result_map[m].via = n}

InTree(n) == sheet_result_map[n].plugin \notin {"resource", "attachment"}

Frame(n, todo) == [job |-> n, todo |-> todo]

SheetInit ==
  /\ sheet_result_map \in ResultMaps
  /\ xlsx_pc = "tree" /\ stack = <<Frame("", {n \in Via("") : InTree(n)})>>
  /\ category_status = <<>> /\ rows = <<>>
  /\ totals = [pass |-> 0, fail |-> 0, skip |-> 0, total |-> 0]

Top == stack[Len(stack)]

Below == SubSeq(stack, 1, Len(stack) - 1)

\* The next job of the loop at the top; the order is that of the rows.
Job == CHOOSE n \in Top.todo : TRUE

Children(n) == {m \in Via(n) : InTree(m)}

\* The loop at the top visits a job, and the jobs below that one.
Visit == stack' = Append(Append(Below, Frame(Top.job, Top.todo \ {Job})), Frame(Job, Children(Job)))

-----------------------------------------------------------------------------
(* _tree()                                                                 *)

SheetEnter ==
  /\ xlsx_pc = "tree" /\ Top.todo # {}
  /\ Visit
  /\ UNCHANGED <<sheet_result_map, xlsx_pc, category_status, totals, rows>>

Known(n, status) == n \in DOMAIN category_status /\ category_status[n] \in status

ChildStatus(n) ==
  IF n \in DOMAIN category_status THEN category_status[n] ELSE sheet_result_map[n].outcome

\* _set_category_status(), for the category n and one of its jobs.
Combined(n, child) ==
  IF ChildStatus(child) = "fail" THEN "fail"
  ELSE IF ChildStatus(child) = "pass" /\ ~Known(n, {"fail"}) THEN "pass"
  ELSE IF Known(n, {"pass", "fail"}) THEN category_status[n] ELSE "skip"

SetCategoryStatus(n, child) ==
  category_status' = [m \in DOMAIN category_status \cup {n} |->
                        IF m = n THEN Combined(n, child) ELSE category_status[m]]

Return ==
  /\ xlsx_pc = "tree" /\ Top.todo = {} /\ Len(stack) > 1
  /\ stack' = Below
  /\ LET parent == Below[Len(Below)].job
     IN  IF parent = "" THEN UNCHANGED category_status
         ELSE SetCategoryStatus(parent, Top.job)
  /\ UNCHANGED <<sheet_result_map, xlsx_pc, totals, rows>>

TreeIsMade ==
  /\ xlsx_pc = "tree" /\ Top.todo = {} /\ Len(stack) = 1
  /\ xlsx_pc' = "writing"
  /\ stack' = <<Frame("", Children(""))>>
  /\ UNCHANGED <<sheet_result_map, category_status, totals, rows>>

-----------------------------------------------------------------------------
(* _write_job() and the summary                                            *)

Row(what) == rows' = [m \in DOMAIN rows \cup {Job} |-> IF m = Job THEN what ELSE rows[m]]

\* Everything has a description or it cannot be written.
Describe == sheet_result_map[Job].described

WriteCategory ==
  /\ xlsx_pc = "writing" /\ Top.todo # {}
  /\ Children(Job) # {} /\ Describe
  /\ Visit /\ Row(category_status[Job])
  /\ UNCHANGED <<sheet_result_map, xlsx_pc, category_status, totals>>

Count(outcome) == [totals EXCEPT ![outcome] = @ + 1, !.total = @ + 1]

\* A job with none below it, a local job too, is a test.
WriteTest ==
  /\ xlsx_pc = "writing" /\ Top.todo # {}
  /\ Children(Job) = {} /\ Describe
  /\ LET outcome == IF sheet_result_map[Job].outcome \in {"pass", "fail"}
                    THEN sheet_result_map[Job].outcome ELSE "skip"
     IN  totals' = Count(outcome) /\ Row(outcome)
  /\ stack' = Append(Below, Frame(Top.job, Top.todo \ {Job}))
  /\ UNCHANGED <<sheet_result_map, xlsx_pc, category_status>>

WriteRaises ==
  /\ xlsx_pc = "writing" /\ Top.todo # {} /\ ~Describe
  /\ xlsx_pc' = "raised"
  /\ UNCHANGED <<sheet_result_map, stack, category_status, totals, rows>>

Leave ==
  /\ xlsx_pc = "writing" /\ Top.todo = {}
  /\ stack' = Below
  /\ xlsx_pc' = IF Len(stack) = 1 THEN "written" ELSE "writing"
  /\ UNCHANGED <<sheet_result_map, category_status, totals, rows>>

\* write_summary(), with the option `with-summary': the rates are of `total'.
Summarize ==
  /\ xlsx_pc = "written"
  /\ xlsx_pc' = IF totals.total = 0 THEN "raised" ELSE "closed"
  /\ UNCHANGED <<sheet_result_map, stack, category_status, totals, rows>>

\* Without the summary.
Close ==
  /\ xlsx_pc = "written"
  /\ xlsx_pc' = "closed"
  /\ UNCHANGED <<sheet_result_map, stack, category_status, totals, rows>>

Exported == xlsx_pc \in {"closed", "raised"} /\ UNCHANGED sheet_vars

SheetNext ==
  \/ SheetEnter \/ Return \/ TreeIsMade
  \/ WriteCategory \/ WriteTest \/ WriteRaises \/ Leave
  \/ Summarize \/ Close \/ Exported

SheetSpec == SheetInit /\ [][SheetNext]_sheet_vars

-----------------------------------------------------------------------------
(* Correctness.                                                            *)

\* The jobs above a job: the one that generated it, and those above that one.
Above(n) ==
  LET above[k \in Nat] ==
        IF k = 0 THEN {sheet_result_map[n].via} ELSE
          above[k - 1] \cup {sheet_result_map[m].via : m \in above[k - 1] \ {""}}
  IN  above[Cardinality(SheetNames)]

Tests == {n \in SheetNames : sheet_result_map[n].plugin \notin {"resource", "attachment", "local"}}

Hung(n) == "" \in Above(n)

\* Every test with a result has its row in the sheet, unless it was generated
\* by a job that is, some levels up, generated by itself; and the numbers of
\* the summary are those of the rows.
EveryTestHasItsRow ==
  xlsx_pc \in {"written", "closed"} =>
    LET leaves == {n \in DOMAIN rows : Children(n) = {}}
    IN  /\ \A n \in Tests : n \in DOMAIN rows <=> Hung(n)
        /\ totals.total = Cardinality(leaves)
        /\ totals.total = totals.pass + totals.fail + totals.skip
        /\ totals.pass = Cardinality({n \in leaves : sheet_result_map[n].outcome = "pass"})
        /\ \A n \in leaves : n \in Tests \/ sheet_result_map[n].plugin = "local"

\* A category is shown as failed if and only if a test, or a local job without
\* tests, somewhere below it failed, and as passed if none failed and one
\* passed, whatever the local jobs in between returned.
CategoryIsOfItsTests ==
  xlsx_pc \in {"written", "closed"} =>
    \A c \in {n \in DOMAIN rows : Children(n) # {}} :
      LET below == {n \in DOMAIN rows : Children(n) = {} /\ c \in Above(n)}
          some(outcome) == \E n \in below : sheet_result_map[n].outcome = outcome
      IN  rows[c] = IF some("fail") THEN "fail" ELSE IF some("pass") THEN "pass" ELSE "skip"

\* The sheet is lost only to a job without a description that it has a row
\* for, or to a summary of no test.
SheetRaisesForAReason ==
  xlsx_pc = "raised" =>
    \/ \E n \in SheetNames : ~sheet_result_map[n].described /\ Hung(n) /\ InTree(n)
    \/ totals.total = 0 /\ \A n \in Tests : ~Hung(n)
=============================================================================
