------------------------------ MODULE FrontEnd ------------------------------
(***************************************************************************)
(* The page of the application (index.html): its event handlers send a     *)
(* request, wait for the answer and change the page only then.  Any number *)
(* of them may wait at a time, and the answers come in any order.          *)
(*                                                                         *)
(* A text is what an input holds, trimmed and in upper case.  The tables   *)
(* of the server do not change, so the query of a suggestion stands for    *)
(* its answer.  Of the three panels only the kind of what they show is     *)
(* kept: what a handler shows is made of its own answer and of the values  *)
(* it captured before it waited.                                           *)
(***************************************************************************)
EXTENDS Naturals, Sequences

CONSTANTS Texts,        \* what can be typed, the empty text apart
          NoText,       \* the empty text
          MaxRequests   \* bound: requests made

ASSUME FrontEndAssumption == NoText \notin Texts /\ MaxRequests \in Nat

Inputs == {"code", "one-src", "one-dst"}
Lists  == {"suggestions", "airport-suggest"}
NoQuery == NoText

(* The datalist of an input; the two of the one-hop panel share theirs. *)
ListOf(input) == IF input = "code" THEN "suggestions" ELSE "airport-suggest"

VARIABLES
    text,        \* per input: what it holds
    list,        \* per datalist: the queries whose suggestions it holds
    status,      \* per panel, "lookup" and "onehop": its status line
    results,     \* per panel, with "report": the answers it shows, from top to bottom
    pending,     \* the requests that are not answered yet
    made,        \* requests made so far (bounded by MaxRequests)
    typed,       \* history, per datalist: the last query typed, or the empty text
    orderly,     \* history, per datalist: since it was last waited for by nobody, no
                 \* answer overtook an older one, none failed, and the input was not
                 \* emptied under a request
    overlapped   \* history: a one-hop search began while another was waited for

vars == <<text, list, status, results, pending, made, typed, orderly, overlapped>>

Init ==
    /\ text = [i \in Inputs |-> NoText]
    /\ list = [l \in Lists |-> <<>>]
    /\ status = [p \in {"lookup", "onehop"} |-> "idle"]
    /\ results = [p \in {"lookup", "onehop", "report"} |-> <<>>]
    /\ pending = {}
    /\ made = 0
    /\ typed = [l \in Lists |-> NoText]
    /\ orderly = [l \in Lists |-> TRUE]
    /\ overlapped = FALSE

Waiting(by) == {r \in pending : r.by = by}

(* fetch(): the handler that called it waits. *)
Fetch(by, query) ==
    /\ made < MaxRequests
    /\ made' = made + 1
    /\ pending' = pending \cup {[id |-> made + 1, by |-> by, query |-> query]}

Show(panel, line, shown) ==
    /\ status' = [status EXCEPT ![panel] = line]
    /\ results' = [results EXCEPT ![panel] = shown]

-----------------------------------------------------------------------------
(* The handlers, up to their await. *)

(* Mutant of Type: an emptied input keeps its list. *)
TypeUncleared(input, t) ==
    LET l == ListOf(input) IN
    /\ text' = [text EXCEPT ![input] = t]
    /\ typed' = [typed EXCEPT ![l] = t]
    /\ IF t = NoText
       THEN /\ orderly' = [orderly EXCEPT ![l] = Waiting(l) = {}]
            /\ UNCHANGED <<list, pending, made>>
       ELSE /\ Fetch(l, t)
            /\ orderly' = [orderly EXCEPT ![l] = @ \/ Waiting(l) = {}]
            /\ UNCHANGED list
    /\ UNCHANGED <<status, results, overlapped>>

(* A key in an input.  The query is what was typed, of the type selected    *)
(* then (selecting another type has no handler).  An emptied input clears   *)
(* its list, but the requests that wait are not cancelled.                 *)
Type(input, t) ==
    LET l == ListOf(input) IN
    /\ text' = [text EXCEPT ![input] = t]
    /\ typed' = [typed EXCEPT ![l] = t]
    /\ IF t = NoText
       THEN /\ list' = [list EXCEPT ![l] = <<>>]
            /\ orderly' = [orderly EXCEPT ![l] = Waiting(l) = {}]
            /\ UNCHANGED <<pending, made>>
       ELSE /\ Fetch(l, t)
            /\ orderly' = [orderly EXCEPT ![l] = @ \/ Waiting(l) = {}]
            /\ UNCHANGED list
    /\ UNCHANGED <<status, results, overlapped>>

(* Mutant of Search: the result of the search before stays. *)
SearchUncleared ==
    /\ IF text["code"] = NoText
       THEN /\ Show("lookup", "invalid", results["lookup"])
            /\ UNCHANGED <<pending, made>>
       ELSE /\ Show("lookup", "searching", results["lookup"])
            /\ Fetch("lookup", NoQuery)
    /\ UNCHANGED <<text, list, typed, orderly, overlapped>>

(* An empty term leaves the results of the search before. *)
Search ==
    /\ IF text["code"] = NoText
       THEN /\ Show("lookup", "invalid", results["lookup"])
            /\ UNCHANGED <<pending, made>>
       ELSE /\ Show("lookup", "searching", <<>>)
            /\ Fetch("lookup", NoQuery)
    /\ UNCHANGED <<text, list, typed, orderly, overlapped>>

(* The input is refused: an airport is missing, or both are the same. *)
Refused ==
    \/ NoText \in {text["one-src"], text["one-dst"]}
    \/ text["one-src"] = text["one-dst"]

(* Mutant of FindRoutes: only the results of a refused input are cleared. *)
FindRoutesUncleared ==
    /\ IF Refused
       THEN /\ Show("onehop", "invalid", <<>>)
            /\ UNCHANGED <<pending, made, overlapped>>
       ELSE /\ Show("onehop", "searching", results["onehop"])
            /\ Fetch("onehop", NoQuery)
            /\ overlapped' = (overlapped \/ Waiting("onehop") # {})
    /\ UNCHANGED <<text, list, typed, orderly>>

(* The results are cleared before the airports are looked at. *)
FindRoutes ==
    /\ IF Refused
       THEN /\ Show("onehop", "invalid", <<>>)
            /\ UNCHANGED <<pending, made, overlapped>>
       ELSE /\ Show("onehop", "searching", <<>>)
            /\ Fetch("onehop", NoQuery)
            /\ overlapped' = (overlapped \/ Waiting("onehop") # {})
    /\ UNCHANGED <<text, list, typed, orderly>>

(* generateReport, as JSON: nothing changes before the answer.  (Without a   *)
(* code it is an alert, as CSV it opens a window: the page stays.)         *)
GenerateReport ==
    /\ Fetch("report", NoQuery)
    /\ UNCHANGED <<text, list, status, results, typed, orderly, overlapped>>

FetchFullReport ==
    /\ Fetch("full", NoQuery)
    /\ results' = [results EXCEPT !["report"] = <<"loading">>]
    /\ UNCHANGED <<text, list, status, typed, orderly, overlapped>>

-----------------------------------------------------------------------------
(* The handlers after their await: r was answered, or failed. *)

Settle(r) ==
    /\ r \in pending
    /\ pending' = pending \ {r}
    /\ UNCHANGED <<text, made, typed, overlapped>>

Overtakes(r) == \E other \in Waiting(r.by) : other.id < r.id

SuggestAnswered(r) ==
    /\ r.by \in Lists
    /\ Settle(r)
    /\ list' = [list EXCEPT ![r.by] = <<r.query>>]
    /\ orderly' = [orderly EXCEPT ![r.by] = @ /\ ~Overtakes(r)]
    /\ UNCHANGED <<status, results>>

(* An error is logged, and the list stays. *)
SuggestFailed(r) ==
    /\ r.by \in Lists
    /\ Settle(r)
    /\ orderly' = [orderly EXCEPT ![r.by] = FALSE]
    /\ UNCHANGED <<list, status, results>>

LookupSettled(r, kind) ==
    /\ r.by = "lookup"
    /\ Settle(r)
    /\ Show("lookup", kind, <<kind>>)
    /\ UNCHANGED <<list, orderly>>

(* The answer is appended: a header and a table, or a header and a line. *)
RoutesAnswered(r, kind) ==
    /\ r.by = "onehop"
    /\ Settle(r)
    /\ Show("onehop", kind, Append(results["onehop"], kind))
    /\ UNCHANGED <<list, orderly>>

(* Mutant of RoutesFailed: the status line is forgotten. *)
RoutesFailedSilently(r) ==
    /\ r.by = "onehop"
    /\ Settle(r)
    /\ results' = [results EXCEPT !["onehop"] = <<"error">>]
    /\ UNCHANGED <<status, list, orderly>>

(* The error replaces everything. *)
RoutesFailed(r) ==
    /\ r.by = "onehop"
    /\ Settle(r)
    /\ Show("onehop", "error", <<"error">>)
    /\ UNCHANGED <<list, orderly>>

(* A report, or an answer without items, replaces everything; a report that *)
(* fails is an alert and changes nothing, but a full report says so.       *)
ReportSettled(r, kind) ==
    /\ r.by \in {"report", "full"}
    /\ Settle(r)
    /\ results' = IF r.by = "report" /\ kind = "error" THEN results
                  ELSE [results EXCEPT !["report"] = <<kind>>]
    /\ UNCHANGED <<status, list, orderly>>

Next ==
    \/ \E input \in Inputs, t \in Texts \cup {NoText} : Type(input, t)
    \/ Search
    \/ FindRoutes
    \/ GenerateReport
    \/ FetchFullReport
    \/ \E r \in pending :
          \/ SuggestAnswered(r) \/ SuggestFailed(r)
          \/ \E kind \in {"found", "error"} : LookupSettled(r, kind) \/ ReportSettled(r, kind)
          \/ \E kind \in {"found", "none"} : RoutesAnswered(r, kind)
          \/ RoutesFailed(r)

Spec == Init /\ [][Next]_vars
-----------------------------------------------------------------------------
Requests == [id : 1..MaxRequests, by : Lists \cup {"lookup", "onehop", "report", "full"},
             query : Texts \cup {NoText}]

TypeOK ==
    /\ text \in [Inputs -> Texts \cup {NoText}]
    /\ list \in [Lists -> Seq(Texts)]
    /\ \A l \in Lists : Len(list[l]) <= 1
    /\ status \in [{"lookup", "onehop"} ->
                      {"idle", "invalid", "searching", "found", "none", "error"}]
    /\ results \in [{"lookup", "onehop", "report"} ->
                       Seq({"loading", "found", "none", "error"})]
    /\ pending \subseteq Requests
    /\ made \in 0..MaxRequests
    /\ typed \in [Lists -> Texts \cup {NoText}]
    /\ orderly \in [Lists -> BOOLEAN]
    /\ overlapped \in BOOLEAN

(* Once no request of a list is waited for, it offers suggestions for what  *)
(* was typed last, and none if that was nothing, provided that no answer   *)
(* overtook an older one, none failed, and the input was not emptied while *)
(* one was waited for.  What happened before the list was last at rest     *)
(* does not matter.  This holds of the one-hop panel too, though its two   *)
(* inputs write to one list.                                               *)
SuggestionsOfText ==
    \A l \in Lists :
        orderly[l] /\ Waiting(l) = {} =>
            list[l] = IF typed[l] = NoText THEN <<>> ELSE <<typed[l]>>

(* A panel that says "Searching..." or "Loading..." does wait for a         *)
(* request: whatever was clicked and answered meanwhile, no panel is left  *)
(* busy when its last request was answered or failed.                      *)
BusyWaits ==
    /\ \A p \in {"lookup", "onehop"} : status[p] = "searching" => Waiting(p) # {}
    /\ results["report"] = <<"loading">> => Waiting("full") # {}

(* The status line of a panel tells of the answer it shows last: though     *)
(* searches overlap and one of them fails or is refused for its input, the *)
(* line never speaks of one answer above the result of another.            *)
StatusTellsResults ==
    \A p \in {"lookup", "onehop"} :
        /\ status[p] \in {"found", "none", "error"} =>
              results[p] # <<>> /\ results[p][Len(results[p])] = status[p]
        /\ status[p] = "searching" => results[p] = <<>>

(* The one-hop panel shows one answer at a time as long as no search is     *)
(* begun while another is waited for.  (Otherwise both are appended.)      *)
OneAnswerShown == ~overlapped => Len(results["onehop"]) <= 1
=============================================================================
