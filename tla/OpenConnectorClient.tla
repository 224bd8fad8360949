--------------------------- MODULE OpenConnectorClient ---------------------------
(***************************************************************************)
(* One call of OpenConnector (integrations/openconnector.rs), or the end   *)
(* of an OAuth popup, which is relayed to it (integrations/route.rs): what *)
(* its answer is taken for.                                                *)
(*                                                                         *)
(* Abstractions.  A status is the class it falls into.  A body is the      *)
(* sequence of its lines; whether JSON parses is a choice.                 *)
(***************************************************************************)
EXTENDS Naturals, Sequences, FiniteSets

CONSTANTS
    Payloads,       \* what a "data:" line can carry: such a line is not an empty one
    MaxLines        \* bounds a body

ASSUME LinesAssumption == MaxLines \in Nat /\ "" \notin Payloads

VARIABLE exchange   \* the call: what was asked, what came back, how far it was read

Lines == Payloads \union {"", "comment"}    \* "comment": any other line of SSE framing
Statuses == {"success", "client error", "other"}
Codes == {"ok", "provider_rejected", "provider_unavailable", "provider_unreachable",
          "openconnector_url_invalid", "passed_on"}

(* What each call looks at: JSON of the administration, the status alone,  *)
(* JSON or SSE, or nothing, of a popup's callback.  find_connection is a   *)
(* list_connections and a search in it.                                    *)
ApiCalls ==
    [connect_with_api_key |-> "admin", create_oauth_authorization |-> "admin",
     list_connections |-> "admin", create_runtime_token |-> "admin",
     list_providers_catalog |-> "admin", delete_connection |-> "status",
     revoke_runtime_token |-> "status", upsert_oauth_config |-> "status",
     forward_mcp |-> "mcp", oauth_callback |-> "popup"]
Kinds == {ApiCalls[call] : call \in DOMAIN ApiCalls}

InitExchange ==
    \E kind \in Kinds :
        exchange = [pc |-> "send", kind |-> kind, status |-> "other", text |-> <<>>,
                    at |-> 1, data |-> <<>>, code |-> "ok"]

Reading(pc) == exchange.pc = pc
Set(pc) == exchange' = [exchange EXCEPT !.pc = pc]

(* safe_code of an error without a status, and with one; safe_message is   *)
(* chosen in the same way.                                                 *)
SafeCode(status) ==
    IF status = "client error" THEN "provider_rejected" ELSE "provider_unavailable"
Tell(code) == exchange' = [exchange EXCEPT !.pc = "done", !.code = code]

(* The call is sent.  It may not get there, or time out.                   *)
Send ==
    /\ Reading("send")
    /\ \/ \E status \in Statuses, n \in 0..MaxLines : \E text \in [1..n -> Lines] :
            exchange' = [exchange EXCEPT !.pc = "status", !.status = status, !.text = text]
       \/ Tell(IF exchange.kind = "popup" THEN "passed_on" ELSE "provider_unreachable")

(* oauth_callback_route: without an address there is nothing to relay to;  *)
(* a status of success is shown a page that closes the popup, whatever     *)
(* came with it; any other answer, forward_to's own too, is passed on.     *)
NoAddress == Reading("send") /\ exchange.kind = "popup" /\ Tell("openconnector_url_invalid")

AnswerPopup ==
    /\ Reading("status") /\ exchange.kind = "popup"
    /\ exchange' = IF exchange.status = "success"
                   THEN [exchange EXCEPT !.pc = "done", !.code = "ok"]
                   ELSE [exchange EXCEPT !.pc = "done", !.code = "passed_on", !.data = exchange.text]

(* Any status will do. *)
TakeAnyStatus ==
    /\ Reading("status") /\ exchange.kind # "popup"
    /\ Set(IF exchange.kind = "mcp" THEN "lines" ELSE "parse")

(* The status is judged before the body is looked at.                      *)
JudgeStatus ==
    /\ Reading("status") /\ exchange.kind # "popup"
    /\ IF exchange.status # "success" THEN Tell(SafeCode(exchange.status))
       ELSE IF exchange.kind = "status" THEN Tell("ok")
       ELSE Set(IF exchange.kind = "mcp" THEN "lines" ELSE "parse")

(* The first data line is the event. *)
ReadFirstLine ==
    LET i == exchange.at IN
    /\ Reading("lines")
    /\ IF i > Len(exchange.text) \/ exchange.data # <<>>
       THEN Set("parse")
       ELSE exchange' = [exchange EXCEPT !.at = @ + 1,
                !.data = IF exchange.text[i] \in Payloads THEN <<exchange.text[i]>> ELSE @]

(* extract_sse_data, one line of its loop: data is kept, an empty line     *)
(* ends the event once there is some, everything else is passed over.      *)
ReadLine ==
    LET i == exchange.at IN
    /\ Reading("lines")
    /\ IF i > Len(exchange.text) \/ (exchange.text[i] = "" /\ exchange.data # <<>>)
       THEN Set("parse")
       ELSE exchange' = [exchange EXCEPT !.at = @ + 1,
                !.data = IF exchange.text[i] \in Payloads THEN Append(@, exchange.text[i]) ELSE @]

(* The event, or the whole text if it had none, is JSON or it is not.      *)
Parse ==
    /\ Reading("parse")
    /\ \/ exchange' = [exchange EXCEPT !.pc = "done", !.code = "ok",
                                       !.data = IF @ = <<>> THEN exchange.text ELSE @]
       \/ Tell("provider_unreachable")

Again == Reading("done") /\ exchange' = [exchange EXCEPT
    !.pc = "send", !.status = "other", !.text = <<>>, !.at = 1, !.data = <<>>, !.code = "ok"]

ExchangeNext ==
    \/ Send \/ NoAddress \/ AnswerPopup
    \/ JudgeStatus \/ ReadLine \/ Parse \/ Again

ExchangeSpec == InitExchange /\ [][ExchangeNext]_exchange

------------------------------------------------------------------------------
(* Properties *)

ExchangeTypeOK ==
    /\ exchange.pc \in {"send", "status", "lines", "parse", "done"}
    /\ exchange.kind \in Kinds /\ exchange.status \in Statuses /\ exchange.code \in Codes
    /\ exchange.text \in Seq(Lines) /\ exchange.data \in Seq(Lines)
    /\ exchange.at \in 1..(Len(exchange.text) + 1)

(* The lines of the first event of a text: those with data that no empty   *)
(* line parts from other data before them.                                 *)
EventEnds(text, k) == text[k] = "" /\ \E j \in 1..k : text[j] \in Payloads
EventLines(text) ==
    {i \in 1..Len(text) : text[i] \in Payloads /\ \A k \in 1..i : ~EventEnds(text, k)}

(* The data of these lines, all of it, in their order                      *)
Event(data, text) ==
    LET lines == EventLines(text) IN
    /\ Len(data) = Cardinality(lines)
    /\ \A i \in lines : data[Cardinality(lines \intersect 1..i)] = text[i]

(* What a container gets for an answer is the whole first event of a body, *)
(* however many lines it takes and whatever frames it, or the body itself  *)
(* if it is not SSE; and never the body of an error (openconnector.rs:     *)
(* 436-457, 486-512).                                                      *)
WholeEventOfSuccess ==
    Reading("done") /\ exchange.code = "ok" /\ exchange.kind = "mcp" =>
        /\ exchange.status = "success"
        /\ IF EventLines(exchange.text) = {} THEN exchange.data = exchange.text
           ELSE Event(exchange.data, exchange.text)
==============================================================================
