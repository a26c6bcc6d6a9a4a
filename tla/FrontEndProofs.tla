--------------------------- MODULE FrontEndProofs ---------------------------
(***************************************************************************)
(* The safety of the page, for any texts and any number of requests.       *)
(***************************************************************************)
EXTENDS FrontEnd, TLAPS

(* Requests are told apart by when they were made, and those of the lists  *)
(* are for a text.                                                         *)
RequestsOK ==
    /\ \A r \in pending : r.id <= made
    /\ \A r, s \in pending : r.id = s.id => r = s
    /\ \A r \in pending : r.by \in Lists => r.query \in Texts

(* While a list is waited for and nothing went out of order, the youngest   *)
(* of its requests is for what was typed last.                             *)
YoungestIsTyped ==
    \A l \in Lists :
        orderly[l] /\ Waiting(l) # {} =>
            \E r \in Waiting(l) :
                /\ r.query = typed[l] /\ typed[l] # NoText
                /\ \A s \in Waiting(l) : s.id <= r.id

(* Without overlap, the one search that is waited for finds an empty panel. *)
AppendsToNothing ==
    ~overlapped /\ Waiting("onehop") # {} =>
        /\ results["onehop"] = <<>>
        /\ \A r, s \in Waiting("onehop") : r = s

IInv ==
    /\ TypeOK
    /\ RequestsOK
    /\ YoungestIsTyped
    /\ SuggestionsOfText
    /\ BusyWaits
    /\ StatusTellsResults
    /\ AppendsToNothing
    /\ OneAnswerShown

Panels == {"lookup", "onehop", "report", "full"}

-----------------------------------------------------------------------------
LEMMA InitIInv == Init => IInv
<1> SUFFICES ASSUME Init PROVE IInv
  OBVIOUS
<1>1. TypeOK
  <2>1. text \in [Inputs -> Texts \cup {NoText}] /\ typed \in [Lists -> Texts \cup {NoText}]
    BY DEF Init
  <2>2. list \in [Lists -> Seq(Texts)] /\ \A l \in Lists : Len(list[l]) <= 1
    BY DEF Init
  <2>3. status \in [{"lookup", "onehop"} ->
                       {"idle", "invalid", "searching", "found", "none", "error"}]
    BY DEF Init
  <2>4. results \in [{"lookup", "onehop", "report"} ->
                        Seq({"loading", "found", "none", "error"})]
    <3>1. <<>> \in Seq({"loading", "found", "none", "error"})
      OBVIOUS
    <3> QED
      BY <3>1 DEF Init
  <2>5. pending \subseteq Requests /\ made \in 0..MaxRequests
    BY FrontEndAssumption DEF Init
  <2>6. orderly \in [Lists -> BOOLEAN] /\ overlapped \in BOOLEAN
    BY DEF Init
  <2> QED
    BY <2>1, <2>2, <2>3, <2>4, <2>5, <2>6 DEF TypeOK
<1>2. Waiting("lookup") = {} /\ \A l \in Lists : Waiting(l) = {}
  BY DEF Init, Waiting
<1> QED
  BY <1>1, <1>2 DEF Init, IInv, RequestsOK, YoungestIsTyped, SuggestionsOfText, BusyWaits,
                    StatusTellsResults, AppendsToNothing, OneAnswerShown, Waiting, Lists

(* A request that is made is younger than all others. *)
LEMMA FetchFacts ==
    ASSUME IInv, NEW by \in Lists \cup Panels, NEW query \in Texts \cup {NoText},
           by \in Lists => query \in Texts, Fetch(by, query)
    PROVE  /\ made' \in 0..MaxRequests /\ pending' \subseteq Requests
           /\ RequestsOK'
           /\ \A f \in (Lists \cup Panels) \ {by} : Waiting(f)' = Waiting(f)
           /\ \E r \in pending' :
                 /\ r.by = by /\ r.query = query
                 /\ \A s \in pending : s.id \in Nat /\ s.id < r.id
                 /\ r.id \in Nat
                 /\ Waiting(by)' = Waiting(by) \cup {r}
<1> DEFINE new == [id |-> made + 1, by |-> by, query |-> query]
<1>1. made' = made + 1 /\ made \in 0..MaxRequests /\ made < MaxRequests
      /\ pending' = pending \cup {new} /\ pending \subseteq Requests
  BY DEF Fetch, IInv, TypeOK
<1>2. new \in Requests /\ made' \in 0..MaxRequests
  BY <1>1, FrontEndAssumption DEF Requests, Panels
<1>3. \A s \in pending : s.id \in Nat /\ s.id <= made
  BY <1>1, FrontEndAssumption DEF IInv, RequestsOK, Requests
<1>4. \A s \in pending : s.id < new.id
  BY <1>1, <1>3
<1>5. RequestsOK'
  BY <1>1, <1>3, <1>4 DEF IInv, RequestsOK
<1>6. new.by = by /\ new.query = query /\ new.id \in Nat
  BY <1>1
<1>7. Waiting(by)' = Waiting(by) \cup {new}
      /\ \A f \in (Lists \cup Panels) \ {by} : Waiting(f)' = Waiting(f)
  BY <1>1, <1>6 DEF Waiting
<1> HIDE DEF new
<1> QED
  BY <1>1, <1>2, <1>3, <1>4, <1>5, <1>6, <1>7

(* An answered request leaves those of the others. *)
LEMMA SettleFacts ==
    ASSUME IInv, NEW r, Settle(r)
    PROVE  /\ r \in pending /\ r \in Requests
           /\ pending' \subseteq Requests /\ RequestsOK'
           /\ Waiting(r.by)' = Waiting(r.by) \ {r} /\ r \in Waiting(r.by)
           /\ \A f \in (Lists \cup Panels) \ {r.by} : Waiting(f)' = Waiting(f)
           /\ UNCHANGED <<text, made, typed, overlapped>>
  BY DEF Settle, IInv, TypeOK, RequestsOK, Waiting

(* What concerns the lists, when a step leaves them and their requests. *)
LEMMA ListsKept ==
    ASSUME IInv, UNCHANGED <<list, typed, orderly>>, \A l \in Lists : Waiting(l)' = Waiting(l)
    PROVE  YoungestIsTyped' /\ SuggestionsOfText'
  BY DEF IInv, YoungestIsTyped, SuggestionsOfText

(* What concerns the routes, when a step leaves them and their requests. *)
LEMMA RoutesKept ==
    ASSUME IInv, UNCHANGED overlapped, results'["onehop"] = results["onehop"],
           Waiting("onehop")' = Waiting("onehop")
    PROVE  AppendsToNothing' /\ OneAnswerShown'
  BY DEF IInv, AppendsToNothing, OneAnswerShown

(* What concerns the status lines, when a step leaves the panels and only   *)
(* ends requests that are not of a panel that is busy.                     *)
LEMMA PanelsKept ==
    ASSUME IInv, UNCHANGED <<status, results>>,
           \A p \in {"lookup", "onehop", "full"} : Waiting(p) # {} => Waiting(p)' # {}
    PROVE  BusyWaits' /\ StatusTellsResults'
  BY DEF IInv, BusyWaits, StatusTellsResults

-----------------------------------------------------------------------------
(* A key starts a request that is the youngest, or empties the list. *)
LEMMA TypeInv ==
    ASSUME IInv, NEW input \in Inputs, NEW t \in Texts \cup {NoText}, Type(input, t)
    PROVE  IInv'
<1> DEFINE l == ListOf(input)
<1>1. l \in Lists
  BY DEF ListOf, Lists
<1>2. /\ text' = [text EXCEPT ![input] = t] /\ typed' = [typed EXCEPT ![l] = t]
      /\ UNCHANGED <<status, results, overlapped>>
  BY DEF Type
<1> HIDE DEF l
<1>3. text' \in [Inputs -> Texts \cup {NoText}] /\ typed' \in [Lists -> Texts \cup {NoText}]
  BY <1>1, <1>2 DEF IInv, TypeOK
<1>4. CASE t = NoText
  <2>1. list' = [list EXCEPT ![l] = <<>>] /\ UNCHANGED <<pending, made>>
    BY <1>4 DEF Type, l
  <2>2. orderly' = [orderly EXCEPT ![l] = Waiting(l) = {}]
    BY <1>4 DEF Type, l
  <2>3. list' \in [Lists -> Seq(Texts)] /\ \A k \in Lists : Len(list'[k]) <= 1
    BY <1>1, <2>1 DEF IInv, TypeOK
  <2>4. orderly' \in [Lists -> BOOLEAN]
    BY <1>1, <2>2 DEF IInv, TypeOK
  <2>5. \A f : Waiting(f)' = Waiting(f)
    BY <2>1 DEF Waiting
  <2>6. TypeOK' /\ RequestsOK'
    BY <1>2, <1>3, <2>1, <2>3, <2>4 DEF IInv, TypeOK, RequestsOK
  <2>7. YoungestIsTyped' /\ SuggestionsOfText'
    <3>1. \A k \in Lists \ {l} : /\ list'[k] = list[k] /\ typed'[k] = typed[k]
                                 /\ orderly'[k] <=> orderly[k]
      BY <1>1, <1>2, <2>1, <2>2 DEF IInv, TypeOK
    <3>2. orderly'[l] => Waiting(l) = {}
      BY <1>1, <2>2 DEF IInv, TypeOK
    <3>3. list'[l] = <<>> /\ typed'[l] = NoText
      BY <1>1, <1>2, <1>4, <2>1 DEF IInv, TypeOK
    <3> QED
      BY <2>5, <3>1, <3>2, <3>3 DEF IInv, YoungestIsTyped, SuggestionsOfText
  <2> QED
    BY <1>2, <2>5, <2>6, <2>7, RoutesKept, PanelsKept DEF IInv
<1>5. CASE t # NoText
  <2>1. Fetch(l, t) /\ UNCHANGED list
    BY <1>5 DEF Type, l
  <2>2. orderly' = [orderly EXCEPT ![l] = @ \/ Waiting(l) = {}]
    BY <1>5 DEF Type, l
  <2>3. PICK r \in pending' : /\ r.by = l /\ r.query = t
                              /\ \A s \in pending : s.id \in Nat /\ s.id < r.id
                              /\ r.id \in Nat
                              /\ Waiting(l)' = Waiting(l) \cup {r}
    BY <1>1, <1>5, <2>1, FetchFacts
  <2>4. /\ made' \in 0..MaxRequests /\ pending' \subseteq Requests /\ RequestsOK'
        /\ \A f \in (Lists \cup Panels) \ {l} : Waiting(f)' = Waiting(f)
    BY <1>1, <1>5, <2>1, FetchFacts
  <2>5. orderly' \in [Lists -> BOOLEAN]
    BY <1>1, <2>2 DEF IInv, TypeOK
  <2>6. TypeOK'
    BY <1>2, <1>3, <2>1, <2>4, <2>5 DEF IInv, TypeOK
  <2>7. YoungestIsTyped' /\ SuggestionsOfText'
    <3>1. \A k \in Lists \ {l} : /\ list'[k] = list[k] /\ typed'[k] = typed[k]
                                 /\ orderly'[k] <=> orderly[k]
                                 /\ Waiting(k)' = Waiting(k)
      BY <1>1, <1>2, <2>1, <2>2, <2>4 DEF IInv, TypeOK
    <3>2. typed'[l] = t
      BY <1>1, <1>2 DEF IInv, TypeOK
    <3>3. r \in Waiting(l)' /\ \A s \in Waiting(l)' : s.id <= r.id
      BY <2>3 DEF Waiting
    <3> QED
      BY <1>5, <2>3, <3>1, <3>2, <3>3 DEF IInv, YoungestIsTyped, SuggestionsOfText
  <2>8. \A p \in Panels : Waiting(p)' = Waiting(p)
    BY <1>1, <2>4 DEF Lists, Panels
  <2> QED
    BY <1>2, <2>4, <2>6, <2>7, <2>8, RoutesKept, PanelsKept DEF IInv, Panels
<1> QED
  BY <1>4, <1>5

(* What a panel shows is well typed. *)
LEMMA ShowType ==
    ASSUME IInv, NEW panel \in {"lookup", "onehop"},
           NEW line \in {"invalid", "searching", "found", "none", "error"},
           NEW shown \in Seq({"loading", "found", "none", "error"}), Show(panel, line, shown)
    PROVE  /\ status' \in [{"lookup", "onehop"} ->
                             {"idle", "invalid", "searching", "found", "none", "error"}]
           /\ results' \in [{"lookup", "onehop", "report"} ->
                              Seq({"loading", "found", "none", "error"})]
           /\ status'[panel] = line /\ results'[panel] = shown
           /\ \A p \in {"lookup", "onehop"} \ {panel} : status'[p] = status[p]
           /\ \A p \in {"lookup", "onehop", "report"} \ {panel} : results'[p] = results[p]
  BY DEF Show, IInv, TypeOK

(* A search clears the result, or leaves it and says that the term is empty. *)
LEMMA SearchInv == ASSUME IInv, Search PROVE IInv'
<1>1. UNCHANGED <<text, list, typed, orderly, overlapped>>
  BY DEF Search
<1>2. CASE text["code"] = NoText
  <2>1. Show("lookup", "invalid", results["lookup"]) /\ UNCHANGED <<pending, made>>
    BY <1>2 DEF Search
  <2>2. results["lookup"] \in Seq({"loading", "found", "none", "error"})
    BY DEF IInv, TypeOK
  <2>3. TypeOK' /\ RequestsOK'
    BY <1>1, <2>1, <2>2, ShowType DEF IInv, TypeOK, RequestsOK
  <2>4. \A f : Waiting(f)' = Waiting(f)
    BY <2>1 DEF Waiting
  <2>5. BusyWaits' /\ StatusTellsResults'
    BY <2>1, <2>2, <2>4, ShowType DEF IInv, BusyWaits, StatusTellsResults
  <2>6. results'["onehop"] = results["onehop"]
    BY <2>1, <2>2, ShowType
  <2> QED
    BY <1>1, <2>3, <2>4, <2>5, <2>6, ListsKept, RoutesKept DEF IInv
<1>3. CASE text["code"] # NoText
  <2>1. Show("lookup", "searching", <<>>) /\ Fetch("lookup", NoQuery)
    BY <1>3 DEF Search
  <2>2. <<>> \in Seq({"loading", "found", "none", "error"})
    OBVIOUS
  <2>3. /\ made' \in 0..MaxRequests /\ pending' \subseteq Requests /\ RequestsOK'
        /\ \A f \in (Lists \cup Panels) \ {"lookup"} : Waiting(f)' = Waiting(f)
        /\ Waiting("lookup")' # {}
    BY <2>1, FetchFacts DEF Lists, Panels, NoQuery
  <2>4. /\ status' \in [{"lookup", "onehop"} ->
                            {"idle", "invalid", "searching", "found", "none", "error"}]
        /\ results' \in [{"lookup", "onehop", "report"} ->
                             Seq({"loading", "found", "none", "error"})]
        /\ status'["lookup"] = "searching" /\ results'["lookup"] = <<>>
        /\ status'["onehop"] = status["onehop"]
        /\ \A p \in {"onehop", "report"} : results'[p] = results[p]
    BY <2>1, <2>2, ShowType
  <2>5. TypeOK'
    BY <1>1, <2>3, <2>4 DEF IInv, TypeOK
  <2>6. BusyWaits' /\ StatusTellsResults'
    BY <2>3, <2>4 DEF IInv, BusyWaits, StatusTellsResults, Panels
  <2>7. \A l \in Lists : Waiting(l)' = Waiting(l)
    BY <2>3 DEF Lists
  <2> QED
    BY <1>1, <2>3, <2>4, <2>5, <2>6, <2>7, ListsKept, RoutesKept DEF IInv, Panels
<1> QED
  BY <1>2, <1>3

(* A search for routes finds its panel empty, whatever it then does. *)
LEMMA FindRoutesInv == ASSUME IInv, FindRoutes PROVE IInv'
<1>1. UNCHANGED <<text, list, typed, orderly>>
  BY DEF FindRoutes
<1>2. <<>> \in Seq({"loading", "found", "none", "error"})
  OBVIOUS
<1>3. CASE Refused
  <2>1. Show("onehop", "invalid", <<>>) /\ UNCHANGED <<pending, made, overlapped>>
    BY <1>3 DEF FindRoutes
  <2>2. /\ status' \in [{"lookup", "onehop"} ->
                            {"idle", "invalid", "searching", "found", "none", "error"}]
        /\ results' \in [{"lookup", "onehop", "report"} ->
                             Seq({"loading", "found", "none", "error"})]
        /\ status'["onehop"] = "invalid" /\ results'["onehop"] = <<>>
        /\ status'["lookup"] = status["lookup"]
        /\ \A p \in {"lookup", "report"} : results'[p] = results[p]
    BY <1>2, <2>1, ShowType
  <2>3. TypeOK' /\ RequestsOK'
    BY <1>1, <2>1, <2>2 DEF IInv, TypeOK, RequestsOK
  <2>4. \A f : Waiting(f)' = Waiting(f)
    BY <2>1 DEF Waiting
  <2>5. BusyWaits' /\ StatusTellsResults'
    BY <2>2, <2>4 DEF IInv, BusyWaits, StatusTellsResults
  <2>6. AppendsToNothing' /\ OneAnswerShown'
    BY <2>1, <2>2, <2>4 DEF IInv, AppendsToNothing, OneAnswerShown
  <2> QED
    BY <1>1, <2>1, <2>3, <2>4, <2>5, <2>6, ListsKept DEF IInv
<1>4. CASE ~Refused
  <2>1. /\ Show("onehop", "searching", <<>>) /\ Fetch("onehop", NoQuery)
        /\ overlapped' = (overlapped \/ Waiting("onehop") # {})
    BY <1>4 DEF FindRoutes
  <2>2. PICK r \in pending' : Waiting("onehop")' = Waiting("onehop") \cup {r}
    BY <2>1, FetchFacts DEF Lists, Panels, NoQuery
  <2>3. /\ made' \in 0..MaxRequests /\ pending' \subseteq Requests /\ RequestsOK'
        /\ \A f \in (Lists \cup Panels) \ {"onehop"} : Waiting(f)' = Waiting(f)
    BY <2>1, FetchFacts DEF Lists, Panels, NoQuery
  <2>4. overlapped' \in BOOLEAN
    BY <2>1
  <2>5. /\ status' \in [{"lookup", "onehop"} ->
                            {"idle", "invalid", "searching", "found", "none", "error"}]
        /\ results' \in [{"lookup", "onehop", "report"} ->
                             Seq({"loading", "found", "none", "error"})]
        /\ status'["onehop"] = "searching" /\ results'["onehop"] = <<>>
        /\ status'["lookup"] = status["lookup"]
        /\ \A p \in {"lookup", "report"} : results'[p] = results[p]
    BY <1>2, <2>1, ShowType
  <2>6. TypeOK'
    BY <1>1, <2>3, <2>4, <2>5 DEF IInv, TypeOK
  <2>7. BusyWaits' /\ StatusTellsResults'
    BY <2>2, <2>3, <2>5 DEF IInv, BusyWaits, StatusTellsResults, Panels
  <2>8. AppendsToNothing' /\ OneAnswerShown'
    <3>1. Len(results'["onehop"]) <= 1
      BY <2>5
    <3>2. ~overlapped' => Waiting("onehop")' = {r}
      BY <2>1, <2>2
    <3> QED
      BY <2>5, <3>1, <3>2 DEF AppendsToNothing, OneAnswerShown
  <2>9. \A l \in Lists : Waiting(l)' = Waiting(l)
    BY <2>3 DEF Lists
  <2> QED
    BY <1>1, <2>3, <2>6, <2>7, <2>8, <2>9, ListsKept DEF IInv
<1> QED
  BY <1>3, <1>4

(* A request for a report leaves the page as it is, or says that it loads. *)
LEMMA ReportsInv == ASSUME IInv, GenerateReport \/ FetchFullReport PROVE IInv'
<1>1. UNCHANGED <<text, list, status, typed, orderly, overlapped>>
  BY DEF GenerateReport, FetchFullReport
<1>2. PICK by \in {"report", "full"} :
         /\ Fetch(by, NoQuery)
         /\ results' = IF by = "report" THEN results
                       ELSE [results EXCEPT !["report"] = <<"loading">>]
  BY DEF GenerateReport, FetchFullReport
<1>3. by \in Panels \ Lists /\ NoQuery \in Texts \cup {NoText}
  BY <1>2 DEF Lists, Panels, NoQuery
<1>4. /\ made' \in 0..MaxRequests /\ pending' \subseteq Requests /\ RequestsOK'
      /\ \A f \in (Lists \cup Panels) \ {by} : Waiting(f)' = Waiting(f)
      /\ Waiting(by)' # {}
  BY <1>2, <1>3, FetchFacts
<1>5. /\ results' \in [{"lookup", "onehop", "report"} ->
                         Seq({"loading", "found", "none", "error"})]
      /\ \A p \in {"lookup", "onehop"} : results'[p] = results[p]
  <2>1. <<"loading">> \in Seq({"loading", "found", "none", "error"})
    OBVIOUS
  <2> QED
    BY <1>2, <2>1 DEF IInv, TypeOK
<1>6. TypeOK'
  BY <1>1, <1>4, <1>5 DEF IInv, TypeOK
<1>7. BusyWaits'
  <2>1. CASE by = "report"
    BY <1>1, <1>2, <1>4, <2>1 DEF IInv, BusyWaits, Panels
  <2>2. CASE by = "full"
    BY <1>1, <1>4, <2>2 DEF IInv, BusyWaits, Panels
  <2> QED
    BY <1>2, <2>1, <2>2
<1>8. StatusTellsResults'
  BY <1>1, <1>5 DEF IInv, StatusTellsResults
<1>9. \A f \in Lists \cup {"onehop"} : Waiting(f)' = Waiting(f)
  BY <1>2, <1>4 DEF Lists, Panels
<1> QED
  BY <1>1, <1>4, <1>5, <1>6, <1>7, <1>8, <1>9, ListsKept, RoutesKept DEF IInv

(* The last answer in order is that of the youngest request. *)
LEMMA SuggestInv ==
    ASSUME IInv, NEW r \in pending, SuggestAnswered(r) \/ SuggestFailed(r)
    PROVE  IInv'
<1> DEFINE l == r.by
<1>1. l \in Lists /\ Settle(r) /\ UNCHANGED <<status, results>>
  BY DEF SuggestAnswered, SuggestFailed
<1>2. /\ r \in Requests /\ pending' \subseteq Requests /\ RequestsOK'
      /\ Waiting(l)' = Waiting(l) \ {r} /\ r \in Waiting(l)
      /\ \A f \in (Lists \cup Panels) \ {l} : Waiting(f)' = Waiting(f)
      /\ UNCHANGED <<text, made, typed, overlapped>>
  BY <1>1, SettleFacts
<1>3. \A k \in Lists \ {l} : list'[k] = list[k] /\ (orderly'[k] <=> orderly[k])
  BY <1>1 DEF SuggestAnswered, SuggestFailed, IInv, TypeOK
<1>4. \A p \in Panels : Waiting(p)' = Waiting(p)
  BY <1>1, <1>2 DEF Lists, Panels
<1>5. YoungestIsTyped' /\ SuggestionsOfText' /\ TypeOK'
  <2>1. CASE SuggestAnswered(r)
    <3>1. /\ list' = [list EXCEPT ![l] = <<r.query>>]
          /\ orderly' = [orderly EXCEPT ![l] = @ /\ ~Overtakes(r)]
      BY <2>1 DEF SuggestAnswered
    <3>2. list'[l] = <<r.query>> /\ (orderly'[l] <=> orderly[l] /\ ~Overtakes(r))
      BY <1>1, <3>1 DEF IInv, TypeOK
    <3>3. ASSUME orderly'[l]
          PROVE  \E s \in Waiting(l) : /\ s.query = typed[l] /\ typed[l] # NoText
                                       /\ \A u \in Waiting(l) : u.id <= s.id
      BY <1>1, <1>2, <3>2, <3>3 DEF IInv, YoungestIsTyped
    <3>4. ASSUME orderly'[l], Waiting(l)' = {}
          PROVE  r.query = typed[l] /\ typed[l] # NoText
      BY <1>2, <3>3, <3>4
    <3>5. ASSUME orderly'[l], Waiting(l)' # {}
          PROVE  \E s \in Waiting(l)' : /\ s.query = typed[l] /\ typed[l] # NoText
                                        /\ \A u \in Waiting(l)' : u.id <= s.id
      <4>1. \A s \in Waiting(l) : s.id \in Nat /\ r.id <= s.id
        BY <1>2, <3>2, <3>5, FrontEndAssumption DEF IInv, TypeOK, Overtakes, Requests, Waiting
      <4>2. PICK s \in Waiting(l) : /\ s.query = typed[l] /\ typed[l] # NoText
                                    /\ \A u \in Waiting(l) : u.id <= s.id
        BY <3>3, <3>5
      <4>3. PICK u \in Waiting(l) : u # r
        BY <1>2, <3>5
      <4>4. s # r
        BY <1>2, <4>1, <4>2, <4>3 DEF IInv, RequestsOK, Waiting
      <4> QED
        BY <1>2, <4>2, <4>4
    <3>6. YoungestIsTyped' /\ SuggestionsOfText'
      BY <1>2, <1>3, <1>4, <3>2, <3>4, <3>5
         DEF IInv, YoungestIsTyped, SuggestionsOfText
    <3>7. orderly' \in [Lists -> BOOLEAN]
      BY <1>1, <3>1 DEF IInv, TypeOK
    <3>8. list' \in [Lists -> Seq(Texts)] /\ \A k \in Lists : Len(list'[k]) <= 1
      <4>1. r.query \in Texts
        BY <1>1 DEF IInv, RequestsOK
      <4>2. <<r.query>> \in Seq(Texts) /\ Len(<<r.query>>) <= 1
        BY <4>1
      <4> QED
        BY <1>1, <3>1, <4>2 DEF IInv, TypeOK
    <3>9. TypeOK'
      BY <1>1, <1>2, <3>7, <3>8 DEF IInv, TypeOK
    <3> QED
      BY <3>6, <3>9
  <2>2. CASE SuggestFailed(r)
    <3>1. orderly' = [orderly EXCEPT ![l] = FALSE] /\ UNCHANGED list
      BY <2>2 DEF SuggestFailed
    <3>2. ~orderly'[l]
      BY <1>1, <3>1 DEF IInv, TypeOK
    <3>3. YoungestIsTyped' /\ SuggestionsOfText'
      BY <1>2, <1>3, <3>2 DEF IInv, YoungestIsTyped, SuggestionsOfText
    <3>4. orderly' \in [Lists -> BOOLEAN]
      BY <1>1, <3>1 DEF IInv, TypeOK
    <3>5. TypeOK'
      BY <1>1, <1>2, <3>1, <3>4 DEF IInv, TypeOK
    <3> QED
      BY <3>3, <3>5
  <2> QED
    BY <2>1, <2>2
<1> QED
  BY <1>1, <1>2, <1>4, <1>5, RoutesKept, PanelsKept DEF IInv, Panels

LEMMA LookupSettledInv ==
    ASSUME IInv, NEW r \in pending, NEW kind \in {"found", "error"}, LookupSettled(r, kind)
    PROVE  IInv'
<1>1. r.by = "lookup" /\ Settle(r) /\ Show("lookup", kind, <<kind>>) /\ UNCHANGED <<list, orderly>>
  BY DEF LookupSettled
<1>2. /\ pending' \subseteq Requests /\ RequestsOK'
      /\ \A f \in (Lists \cup Panels) \ {"lookup"} : Waiting(f)' = Waiting(f)
      /\ UNCHANGED <<text, made, typed, overlapped>>
  BY <1>1, SettleFacts
<1>3. <<kind>> \in Seq({"loading", "found", "none", "error"}) /\ <<kind>> # <<>>
      /\ <<kind>>[Len(<<kind>>)] = kind
  OBVIOUS
<1>4. /\ status' \in [{"lookup", "onehop"} ->
                        {"idle", "invalid", "searching", "found", "none", "error"}]
      /\ results' \in [{"lookup", "onehop", "report"} ->
                         Seq({"loading", "found", "none", "error"})]
      /\ status'["lookup"] = kind /\ results'["lookup"] = <<kind>>
      /\ status'["onehop"] = status["onehop"]
      /\ \A p \in {"onehop", "report"} : results'[p] = results[p]
  BY <1>1, <1>3, ShowType
<1>5. TypeOK'
  BY <1>1, <1>2, <1>4 DEF IInv, TypeOK
<1>6. BusyWaits' /\ StatusTellsResults'
  BY <1>2, <1>3, <1>4 DEF IInv, BusyWaits, StatusTellsResults, Panels
<1>7. \A f \in Lists \cup {"onehop"} : Waiting(f)' = Waiting(f)
  BY <1>2 DEF Lists, Panels
<1> QED
  BY <1>1, <1>2, <1>4, <1>5, <1>6, <1>7, ListsKept, RoutesKept DEF IInv

(* Without overlap the answer is appended to an empty panel. *)
LEMMA RoutesInv ==
    ASSUME IInv, NEW r \in pending, NEW kind \in {"found", "none"},
           RoutesAnswered(r, kind) \/ RoutesFailed(r)
    PROVE  IInv'
<1>1. /\ r.by = "onehop" /\ Settle(r) /\ UNCHANGED <<list, orderly>>
      /\ results["onehop"] \in Seq({"loading", "found", "none", "error"})
  BY DEF RoutesAnswered, RoutesFailed, IInv, TypeOK
<1>2. PICK k \in {"found", "none", "error"} :
         \E s \in {Append(results["onehop"], k), <<k>>} : Show("onehop", k, s)
  <2>1. CASE RoutesAnswered(r, kind)
    BY <2>1 DEF RoutesAnswered
  <2>2. CASE RoutesFailed(r)
    BY <2>2 DEF RoutesFailed
  <2> QED
    BY <2>1, <2>2
<1>3. PICK shown \in {Append(results["onehop"], k), <<k>>} : Show("onehop", k, shown)
  BY <1>2
<1>4. /\ pending' \subseteq Requests /\ RequestsOK'
      /\ Waiting("onehop")' = Waiting("onehop") \ {r} /\ r \in Waiting("onehop")
      /\ \A f \in (Lists \cup Panels) \ {"onehop"} : Waiting(f)' = Waiting(f)
      /\ UNCHANGED <<text, made, typed, overlapped>>
  BY <1>1, SettleFacts
<1>5. /\ shown \in Seq({"loading", "found", "none", "error"})
      /\ shown # <<>> /\ shown[Len(shown)] = k
      /\ results["onehop"] = <<>> => Len(shown) = 1
  <2>1. CASE shown = <<k>>
    BY <2>1
  <2>2. CASE shown = Append(results["onehop"], k)
    BY <1>1, <2>2
  <2> QED
    BY <1>3, <2>1, <2>2
<1>6. /\ status' \in [{"lookup", "onehop"} ->
                        {"idle", "invalid", "searching", "found", "none", "error"}]
      /\ results' \in [{"lookup", "onehop", "report"} ->
                         Seq({"loading", "found", "none", "error"})]
      /\ status'["onehop"] = k /\ results'["onehop"] = shown
      /\ status'["lookup"] = status["lookup"]
      /\ \A p \in {"lookup", "report"} : results'[p] = results[p]
  BY <1>3, <1>5, ShowType
<1>7. TypeOK'
  BY <1>1, <1>4, <1>6 DEF IInv, TypeOK
<1>8. BusyWaits' /\ StatusTellsResults'
  BY <1>2, <1>4, <1>5, <1>6 DEF IInv, BusyWaits, StatusTellsResults, Panels
<1>9. ~overlapped => results["onehop"] = <<>> /\ Waiting("onehop")' = {}
  BY <1>4 DEF IInv, AppendsToNothing
<1>10. AppendsToNothing' /\ OneAnswerShown'
  BY <1>4, <1>5, <1>6, <1>9 DEF AppendsToNothing, OneAnswerShown
<1>11. \A l \in Lists : Waiting(l)' = Waiting(l)
  BY <1>4 DEF Lists
<1> QED
  BY <1>1, <1>4, <1>7, <1>8, <1>10, <1>11, ListsKept DEF IInv

LEMMA ReportSettledInv ==
    ASSUME IInv, NEW r \in pending, NEW kind \in {"found", "error"}, ReportSettled(r, kind)
    PROVE  IInv'
<1>1. /\ r.by \in {"report", "full"} /\ Settle(r) /\ UNCHANGED <<status, list, orderly>>
      /\ results' = IF r.by = "report" /\ kind = "error" THEN results
                    ELSE [results EXCEPT !["report"] = <<kind>>]
  BY DEF ReportSettled
<1>2. /\ pending' \subseteq Requests /\ RequestsOK'
      /\ \A f \in (Lists \cup Panels) \ {r.by} : Waiting(f)' = Waiting(f)
      /\ UNCHANGED <<text, made, typed, overlapped>>
  BY <1>1, SettleFacts
<1>3. <<kind>> \in Seq({"loading", "found", "none", "error"}) /\ <<kind>> # <<"loading">>
  OBVIOUS
<1>4. /\ results' \in [{"lookup", "onehop", "report"} ->
                         Seq({"loading", "found", "none", "error"})]
      /\ \A p \in {"lookup", "onehop"} : results'[p] = results[p]
      /\ results'["report"] = <<"loading">> =>
            results["report"] = <<"loading">> /\ r.by = "report"
  BY <1>1, <1>3 DEF IInv, TypeOK
<1>5. TypeOK'
  BY <1>1, <1>2, <1>4 DEF IInv, TypeOK
<1>6. \A f \in Lists \cup {"lookup", "onehop"} : Waiting(f)' = Waiting(f)
  BY <1>1, <1>2 DEF Lists, Panels
<1>7. r.by = "report" => Waiting("full")' = Waiting("full")
  BY <1>2 DEF Panels
<1>8. BusyWaits' /\ StatusTellsResults'
  BY <1>1, <1>4, <1>6, <1>7 DEF IInv, BusyWaits, StatusTellsResults
<1> QED
  BY <1>1, <1>2, <1>4, <1>5, <1>6, <1>8, ListsKept, RoutesKept DEF IInv

-----------------------------------------------------------------------------
LEMMA StepIInv == IInv /\ [Next]_vars => IInv'
<1> SUFFICES ASSUME IInv, [Next]_vars PROVE IInv'
  OBVIOUS
<1>1. CASE \E input \in Inputs, t \in Texts \cup {NoText} : Type(input, t)
  BY <1>1, TypeInv
<1>2. CASE Search
  BY <1>2, SearchInv
<1>3. CASE FindRoutes
  BY <1>3, FindRoutesInv
<1>4. CASE GenerateReport \/ FetchFullReport
  BY <1>4, ReportsInv
<1>5. ASSUME NEW r \in pending, SuggestAnswered(r) \/ SuggestFailed(r)
      PROVE  IInv'
  BY <1>5, SuggestInv
<1>6. ASSUME NEW r \in pending, NEW kind \in {"found", "error"},
             LookupSettled(r, kind) \/ ReportSettled(r, kind)
      PROVE  IInv'
  BY <1>6, LookupSettledInv, ReportSettledInv
<1>7. ASSUME NEW r \in pending, NEW kind \in {"found", "none"},
             RoutesAnswered(r, kind) \/ RoutesFailed(r)
      PROVE  IInv'
  BY <1>7, RoutesInv
<1>8. CASE UNCHANGED vars
  BY <1>8 DEF vars, IInv, TypeOK, RequestsOK, YoungestIsTyped, SuggestionsOfText, BusyWaits,
              StatusTellsResults, AppendsToNothing, OneAnswerShown, Waiting
<1> QED
  BY <1>1, <1>2, <1>3, <1>4, <1>5, <1>6, <1>7, <1>8 DEF Next

(* The strengthened invariant holds of every behaviour. *)
THEOREM Invariance == Spec => []IInv
  BY InitIInv, StepIInv, PTL DEF Spec

(* The page's state is well typed, and a datalist holds the suggestions of  *)
(* one query at most: every answer clears the options before it adds its   *)
(* own.                                                                    *)
THEOREM TypeCorrect == Spec => []TypeOK
<1>1. IInv => TypeOK
  BY DEF IInv
<1> QED
  BY <1>1, Invariance, PTL

(* A list that is not waited for, and saw no disorder since the last time,  *)
(* offers suggestions for what was typed last (fetchSuggestions and        *)
(* fetchAirportSuggest).                                                   *)
THEOREM ListFollowsText == Spec => []SuggestionsOfText
<1>1. IInv => SuggestionsOfText
  BY DEF IInv
<1> QED
  BY <1>1, Invariance, PTL

(* A panel that shows that it is busy waits for an answer. *)
THEOREM NoPanelIsStuckBusy == Spec => []BusyWaits
<1>1. IInv => BusyWaits
  BY DEF IInv
<1> QED
  BY <1>1, Invariance, PTL

(* A status line speaks of the answer that its panel shows last, for any    *)
(* overlap of searches, failures and refusals.                             *)
THEOREM StatusIsOfResults == Spec => []StatusTellsResults
<1>1. IInv => StatusTellsResults
  BY DEF IInv
<1> QED
  BY <1>1, Invariance, PTL

(* Searches for routes that do not overlap never show two answers. *)
THEOREM SearchesApartShowOne == Spec => []OneAnswerShown
<1>1. IInv => OneAnswerShown
  BY DEF IInv
<1> QED
  BY <1>1, Invariance, PTL
=============================================================================
