--------------------------- MODULE ReportExchange ---------------------------
(***************************************************************************)
(* How checkbox sends its report at the end of a run, when prompt-exchange *)
(* is fired: plugins/launchpad_prompt.py asks for an email address and has *)
(* plugins/launchpad_exchange.py send the report to Launchpad, and         *)
(* plugins/hexr_transport.py sends it to the certification site, retrying. *)
(* Both use checkbox/lib/transport.py.  The order of the two is that of a  *)
(* set of plugins (component.py:77), thus any.                             *)
(*                                                                         *)
(* The servers are external: one may take what it gets, and its answer may *)
(* be lost.  What the report says, the forms and the texts are left out.   *)
(***************************************************************************)
EXTENDS Naturals, Sequences

CONSTANTS
  MaxTries,     \* HexrTransport.max_tries
  MaxRedirects, \* bound: the redirects of one request, which the code does not limit
  MaxVisits     \* bound: how often the user comes to the exchange

VARIABLES
  config,      \* what is known: the system id, a complete form, a readable
               \* report, and the configured email address
  plugins,     \* the handlers of prompt-exchange in their order
  todo,        \* those that have still to be called
  exchange_pc, \* where the program is
  direction,   \* interface.direction
  errors,      \* the errors that LaunchpadPrompt has got
  shown,       \* those that the user has seen
  submitted,   \* is form["field.submission_data"] set?
  request,     \* the exchange under way: its client, tries, redirects and answer
  servers,     \* client -> how many copies of the report its server has
  accepted,    \* the clients that were told that the report was accepted
  lost,        \* how many answers that it was have been lost
  linked,      \* has FinalPrompt a final_text?
  visits

vars == <<config, plugins, todo, exchange_pc, direction, errors, shown, submitted,
          request, servers, accepted, lost, linked, visits>>

Clients == {"launchpad", "hexr"}

Emails == {"", "valid", "invalid"}

Answers == {"accepted", "refused", "unavailable", "redirect"}

\* What may come of an exchange: no response, an exception (one of the
\* connection, or of another kind) or what the server says.
Results == {"none", "connection", "raised", "accepted", "refused", "unavailable"}

Idle == [client |-> "", tries |-> 0, redirects |-> 0, answer |-> ""]

TypeOK ==
  /\ config \in [system_id : BOOLEAN, form : BOOLEAN, report : BOOLEAN, email : Emails]
  /\ todo \in Seq(Clients)
  /\ exchange_pc \in {"before", "event", "launchpad", "exchange", "hexr", "request", "response",
                      "finish", "done"}
  /\ direction \in {"next", "prev"} /\ submitted \in BOOLEAN /\ linked \in BOOLEAN
  /\ errors \subseteq Results \cup {"email", "form"} /\ shown \subseteq Results \cup {"email", "form"}
  /\ request \in [client : Clients \cup {""}, tries : 0..MaxTries, redirects : 0..MaxRedirects,
                  answer : Answers \cup {""}]
  /\ servers \in [Clients -> Nat] /\ accepted \subseteq Clients /\ lost \in Nat
  /\ visits \in 0..MaxVisits

Init ==
  /\ config \in [system_id : BOOLEAN, form : BOOLEAN, report : BOOLEAN, email : Emails]
  /\ plugins \in {<<"launchpad", "hexr">>, <<"hexr", "launchpad">>}
  /\ todo = <<>> /\ exchange_pc = "before" /\ direction = "next"
  /\ errors = {} /\ shown = {} /\ submitted = FALSE /\ request = Idle
  /\ servers = [c \in Clients |-> 0] /\ accepted = {} /\ lost = 0
  /\ linked = FALSE /\ visits = 0

Known == UNCHANGED <<config, plugins>>

Asking == UNCHANGED <<direction, errors, shown>>

Sent == UNCHANGED <<servers, accepted, lost, linked>>

---------------------------------------------------------------------------
(* UserInterface.run *)

\* The handlers of prompt-exchange are called with this direction.
Fire(d) ==
  /\ visits < MaxVisits /\ visits' = visits + 1
  /\ direction' = d /\ todo' = plugins /\ exchange_pc' = "event"

\* The report has been made and the user has gone on.
Enter ==
  /\ exchange_pc = "before" /\ Fire("next")
  /\ Known /\ Sent /\ UNCHANGED <<errors, shown, submitted, request>>

NextHandler ==
  /\ exchange_pc = "event" /\ todo /= <<>>
  /\ todo' = Tail(todo) /\ exchange_pc' = Head(todo)
  /\ errors' = {}
  /\ Known /\ Sent /\ UNCHANGED <<direction, shown, submitted, request, visits>>

\* The event has been fired: the user is taken where he wants to go.
Turn ==
  /\ exchange_pc = "event" /\ todo = <<>>
  /\ exchange_pc' = IF direction = "prev" THEN "before" ELSE "finish"
  /\ Known /\ Sent /\ Asking /\ UNCHANGED <<todo, submitted, request, visits>>

\* prompt-finish: without final_text nothing can be shown (final_prompt.py:39).
Finish ==
  /\ exchange_pc = "finish"
  /\ \/ exchange_pc' = "done" /\ UNCHANGED <<direction, todo, visits>>
     \/ linked /\ Fire("prev")
  /\ Known /\ Sent /\ UNCHANGED <<errors, shown, submitted, request>>

---------------------------------------------------------------------------
(* LaunchpadPrompt.prompt_exchange *)

\* The loop goes on: the address is taken, or gives an error.
Take(email) ==
  CASE direction' = "prev" -> exchange_pc' = "event" /\ UNCHANGED errors
    [] direction' = "next" /\ email = "invalid" ->
         errors' = errors \cup {"email"} /\ UNCHANGED exchange_pc
    [] OTHER -> errors' = {} /\ exchange_pc' = "exchange"

\* Errors, and a missing address, have the user asked; with no answer the
\* default address is taken.
Prompt ==
  /\ exchange_pc = "launchpad"
  /\ IF errors /= {} \/ config.email = ""
     THEN /\ shown' = shown \cup errors
          /\ direction' \in {"next", "prev"}
          /\ \E email \in Emails : Take(email)
     ELSE /\ UNCHANGED <<shown, direction>>
          /\ Take(config.email)
  /\ Known /\ Sent /\ UNCHANGED <<todo, submitted, request, visits>>

ReadyAgain == config.system_id

\* Maybe on the next exchange...
Ready == config.system_id /\ ~submitted

\* LaunchpadExchange.launchpad_exchange.  Reading the report may raise, which
\* the reactor logs.
Exchange ==
  /\ exchange_pc = "exchange"
  /\ IF ~Ready \/ ~config.report
     THEN exchange_pc' = "event" /\ UNCHANGED <<submitted, errors, request>>
     ELSE /\ submitted' = TRUE
          /\ IF config.form
             THEN /\ request' = [Idle EXCEPT !.client = "launchpad"]
                  /\ exchange_pc' = "request" /\ UNCHANGED errors
             ELSE errors' = {"form"} /\ exchange_pc' = "launchpad" /\ UNCHANGED request
  /\ Known /\ Sent /\ UNCHANGED <<todo, direction, shown, visits>>

ErrorOf(result) == IF result = "accepted" THEN {} ELSE {result}

LaunchpadResult(result) ==
  /\ errors' = ErrorOf(result)
  /\ exchange_pc' = IF errors' = {} THEN "event" ELSE "launchpad"
  /\ request' = Idle /\ UNCHANGED linked

---------------------------------------------------------------------------
(* HexrTransport *)

Hexr ==
  /\ exchange_pc = "hexr"
  /\ IF config.report
     THEN request' = [Idle EXCEPT !.client = "hexr"] /\ exchange_pc' = "request"
     ELSE exchange_pc' = "event" /\ UNCHANGED request
  /\ Known /\ Sent /\ Asking /\ UNCHANGED <<todo, submitted, visits>>

\* What is tried again: no response, or one with another status.  That of an
\* exception, and a response without a link, leave the handler with an
\* exception: " ".join() does not take an exception (hexr_transport.py:128).
IsRetried(result) == result \in {"none", "unavailable"}

HexrResult(result) ==
  /\ IF IsRetried(result) /\ request.tries + 1 < MaxTries
     THEN /\ request' = [Idle EXCEPT !.client = "hexr", !.tries = request.tries + 1]
          /\ exchange_pc' = "request"
     ELSE request' = Idle /\ exchange_pc' = "event"
  /\ linked' = (linked \/ result = "accepted")
  /\ UNCHANGED errors

Return(result) ==
  /\ IF request.client = "launchpad" THEN LaunchpadResult(result) ELSE HexrResult(result)
  /\ accepted' = IF result = "accepted" THEN accepted \cup {request.client} ELSE accepted

---------------------------------------------------------------------------
(* HTTPTransport.exchange *)

\* The request cannot be made: an IOError is logged and there is no response,
\* a certificate or a URL that will not do raises.
RequestFails ==
  /\ exchange_pc = "request"
  /\ Return("none") \/ Return("raised")
  /\ Known /\ UNCHANGED <<todo, direction, shown, submitted, servers, lost, visits>>

\* The server (external) takes the report or it does not, and answers.
Request ==
  /\ exchange_pc = "request"
  /\ \E answer \in Answers :
       /\ answer = "redirect" => request.redirects < MaxRedirects
       /\ request' = [request EXCEPT !.answer = answer]
       /\ servers' = IF answer = "accepted" THEN [servers EXCEPT ![request.client] = @ + 1]
                     ELSE servers
  /\ exchange_pc' = "response"
  /\ Known /\ Asking /\ UNCHANGED <<todo, submitted, accepted, lost, linked, visits>>

\* The answer is lost: a bad status line, which is logged, or an exception.
ResponseIsLost ==
  /\ exchange_pc = "response"
  /\ Return("none") \/ Return("connection")
  /\ lost' = IF request.answer = "accepted" THEN lost + 1 ELSE lost
  /\ Known /\ UNCHANGED <<todo, direction, shown, submitted, servers, visits>>

Redirect ==
  /\ exchange_pc = "response" /\ request.answer = "redirect"
  /\ request' = [request EXCEPT !.redirects = @ + 1, !.answer = ""]
  /\ exchange_pc' = "request"
  /\ Known /\ Sent /\ Asking /\ UNCHANGED <<todo, submitted, visits>>

Response ==
  /\ exchange_pc = "response" /\ request.answer /= "redirect"
  /\ Return(request.answer)
  /\ Known /\ UNCHANGED <<todo, direction, shown, submitted, servers, lost, visits>>

Next ==
  \/ Enter \/ NextHandler \/ Turn \/ Finish \/ Prompt \/ Exchange \/ Hexr
  \/ RequestFails \/ Request \/ ResponseIsLost \/ Redirect \/ Response

Spec == Init /\ [][Next]_vars

---------------------------------------------------------------------------
(* Properties *)

\* The user does not come to the end with a report that Launchpad did not say it
\* has, and no error seen: unless there is no system id, or no report to send.
EveryFailureIsSeen ==
  exchange_pc = "done" =>
    \/ "launchpad" \in accepted
    \/ shown \cap (Results \cup {"form"}) /= {}
    \/ ~config.system_id \/ ~config.report

\* Launchpad gets the report once, whatever is lost and however often the user
\* comes back; the certification site gets it again only when the user comes back,
\* or when its answer that it has it was lost.
NotSentTwice ==
  /\ servers["launchpad"] <= 1
  /\ servers["hexr"] <= visits + lost
=============================================================================
