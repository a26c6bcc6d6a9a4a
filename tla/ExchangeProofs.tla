--------------------------- MODULE ExchangeProofs ---------------------------
(***************************************************************************)
(* The safety invariants of Exchange, for any number of requests on the    *)
(* connection: the response object is clean between requests, each request *)
(* is answered once, and the answer is that of the request.                *)
(***************************************************************************)
EXTENDS Exchange, TLAPS

(* While the connection lives, nothing but the status, the skip_body flag   *)
(* and the Keep-Alive header survives in the response object.              *)
Fresh(r) ==
    r.body = "none" /\ r.length = "unset" /\ r.flags \subseteq {"skip_body", "keep_alive"}

Unfinished ==
    stage # "closed" => Fresh(res) /\ (stage = "idle" => res.code = 200)

(* Nothing is sent before the request is handled. *)
SilentUntilHandled == stage \in {"url", "head", "body"} => sent = <<>> /\ served > 0

(* What the router found for the whole path, and its status for a path      *)
(* without a rule, as long as "100 Continue" was not written.              *)
Resolved ==
    stage \in {"head", "body"} =>
        /\ found = Found(req.route) /\ found # "none"
        /\ found = "catchAll" /\ (stage = "head" \/ ~req.expect) =>
              res.code = IF req.route = "unknown" THEN 404 ELSE 405

IInv ==
    /\ TypeOK
    /\ Unfinished
    /\ SilentUntilHandled
    /\ Resolved
    /\ AnsweredOnce
    /\ AnswerOfRequest

-----------------------------------------------------------------------------
(* The operations on the response object.                                  *)

LEMMA ClearFacts ==
    ASSUME NEW r \in Response
    PROVE  /\ Clear(r) \in Response
           /\ Clear(r).code = 200 /\ Clear(r).body = "none" /\ Clear(r).length = "unset"
           /\ Clear(r).flags = r.flags \cap {"skip_body", "manual_length"}
  BY DEF Clear, Blank, Response, Flags

LEMMA AssignFacts ==
    ASSUME NEW r \in Response, NEW code \in {200, 204, 400, 404, 405},
           NEW body \in {"none", "page"}
    PROVE  /\ Assign(r, code, body) \in Response
           /\ Assign(r, code, body).code = code
           /\ Assign(r, code, body).body = body
           /\ Assign(r, code, body).flags = r.flags \cap {"skip_body", "manual_length"}
<1>1. Clear(r) \in Response /\ Clear(r).flags = r.flags \cap {"skip_body", "manual_length"}
  BY ClearFacts
<1> QED
  BY <1>1 DEF Assign, Response

LEMMA CompleteFacts ==
    ASSUME NEW r \in Response
    PROVE  Complete(r) \in Response /\ Complete(r).code = r.code
  BY DEF Complete, Response, Flags

LEMMA FoundFacts ==
    ASSUME TypeOK, NEW route \in Routes
    PROVE  /\ Found(route) \in Routes \cup {"catchAll", "none"}
           /\ Found(route) = "none" <=>
                 \/ req.method = "HEAD" /\ route = "unknown"
                 \/ req.method = "OPTIONS"
           /\ Found(route) = "catchAll" <=>
                 \/ req.method = "GET" /\ route = "unknown"
                 \/ req.method = "POST"
           /\ Found(route) \in Routes => Found(route) = route /\ req.method \in {"GET", "HEAD"}
<1>1. req.method \in {"GET", "HEAD", "OPTIONS", "POST"}
  BY DEF TypeOK, Request
<1> QED
  BY <1>1 DEF Found, NoRule, Routes

(* A response that is not completed at once stays fresh, and has the status *)
(* that the catch-all will send.                                           *)
LEMMA InitialFacts ==
    ASSUME TypeOK, Fresh(res), NEW route \in Routes
    PROVE  /\ InitialRes(route) \in Response
           /\ Found(route) # "none" => Fresh(InitialRes(route))
           /\ Found(route) = "catchAll" =>
                 InitialRes(route).code = IF route = "unknown" THEN 404 ELSE 405
<1>1. req.method \in {"GET", "HEAD", "OPTIONS", "POST"} /\ res \in Response
  BY DEF TypeOK, Request
<1>2. Complete(Assign(res, 404, "none")) \in Response
      /\ Complete(Assign(res, 204, "none")) \in Response
  BY <1>1, AssignFacts, CompleteFacts
<1>3. CASE req.method = "HEAD"
  <2>1. CASE route = "unknown"
    BY <1>2, <1>3, <2>1, FoundFacts DEF InitialRes
  <2>2. CASE route # "unknown"
    <3>1. InitialRes(route) = [res EXCEPT !.flags = @ \cup {"skip_body"}]
      BY <1>3, <2>2 DEF InitialRes
    <3> QED
      BY <1>1, <1>3, <3>1, FoundFacts DEF Fresh, Response, Flags
  <2> QED
    BY <2>1, <2>2
<1>4. CASE req.method = "OPTIONS"
  <2>1. InitialRes(route) = Complete(Assign(res, IF route = "unknown" THEN 404 ELSE 204, "none"))
    BY <1>4 DEF InitialRes
  <2> QED
    BY <1>2, <1>4, <2>1, FoundFacts
<1>5. CASE req.method = "GET"
  <2>1. InitialRes(route) = IF route = "unknown" THEN [res EXCEPT !.code = 404] ELSE res
    BY <1>5 DEF InitialRes
  <2> QED
    BY <1>1, <1>5, <2>1, FoundFacts DEF Fresh, Response
<1>6. CASE req.method = "POST"
  <2>1. InitialRes(route) = IF route = "unknown" THEN [res EXCEPT !.code = 404]
                                                  ELSE [res EXCEPT !.code = 405]
    BY <1>6 DEF InitialRes
  <2> QED
    BY <1>1, <1>6, <2>1, FoundFacts DEF Fresh, Response
<1> QED
  BY <1>1, <1>3, <1>4, <1>5, <1>6

-----------------------------------------------------------------------------
LEMMA InvInit == Init => IInv
<1> SUFFICES ASSUME Init PROVE IInv
  OBVIOUS
<1>1. req \in Request
  BY DEF Init, Request, Routes
<1>2. Blank \in Response
  BY DEF Blank, Response
<1>3. TypeOK
  <2>1. served \in 0..MaxRequests /\ Len(sent) <= 1
    BY ExchangeAssumption DEF Init
  <2>2. res \in Response /\ keepAlive \in BOOLEAN /\ outcome \in {200, 404}
    BY <1>2 DEF Init
  <2>3. stage \in {"idle", "url", "head", "body", "closed"}
        /\ found \in Routes \cup {"catchAll", "none"}
    BY DEF Init
  <2> QED
    BY <1>1, <2>1, <2>2, <2>3 DEF TypeOK
<1>4. Unfinished /\ SilentUntilHandled /\ Resolved
  BY DEF Init, Unfinished, Fresh, Blank, SilentUntilHandled, Resolved
<1>5. AnsweredOnce /\ AnswerOfRequest
  BY DEF Init, AnsweredOnce, AnswerOfRequest, Answered
<1> QED
  BY <1>3, <1>4, <1>5 DEF IInv

LEMMA BeginStep ==
    ASSUME IInv, NEW r \in Request, NEW o \in {200, 404}, Begin(r, o)
    PROVE  IInv'
<1>1. TypeOK'
  BY ExchangeAssumption DEF Begin, IInv, TypeOK
<1>2. Unfinished' /\ SilentUntilHandled' /\ Resolved'
  BY ExchangeAssumption DEF Begin, IInv, TypeOK, Unfinished, SilentUntilHandled, Resolved
<1>3. AnsweredOnce' /\ AnswerOfRequest'
  BY DEF Begin, AnsweredOnce, AnswerOfRequest, Answered
<1> QED
  BY <1>1, <1>2, <1>3 DEF IInv

LEMMA OnUrlStep ==
    ASSUME IInv, NEW route \in Routes, NEW next \in {"url", "head"}, OnUrl(route, next),
           next = "head" => route = req.route
    PROVE  IInv'
<1>0. TypeOK /\ Fresh(res) /\ sent = <<>> /\ stage = "url" /\ served > 0
      /\ UNCHANGED <<req, outcome, keepAlive, served>> /\ found' = Found(route)
  BY DEF IInv, Unfinished, SilentUntilHandled, OnUrl
<1>1. /\ InitialRes(route) \in Response
      /\ Found(route) # "none" => Fresh(InitialRes(route))
      /\ Found(route) = "catchAll" =>
            InitialRes(route).code = IF route = "unknown" THEN 404 ELSE 405
  BY <1>0, InitialFacts
<1>2. Found(route) \in Routes \cup {"catchAll", "none"}
  BY <1>0, FoundFacts
<1>3. CASE Found(route) = "none"
  <2>1. /\ sent' = Append(sent, Wire(InitialRes(route), keepAlive))
        /\ res' = Clear(InitialRes(route)) /\ stage' = "closed"
    BY <1>3 DEF OnUrl
  <2>2. Len(sent') = 1
    BY <1>0, <2>1
  <2>3. TypeOK'
    BY <1>0, <1>1, <1>2, <2>1, <2>2, ClearFacts DEF TypeOK
  <2>4. req.method \notin {"GET", "POST"}
    BY <1>0, <1>3, FoundFacts
  <2>5. AnsweredOnce' /\ AnswerOfRequest'
    BY <1>0, <2>1, <2>2, <2>4 DEF AnsweredOnce, AnswerOfRequest, Answered
  <2> QED
    BY <2>1, <2>3, <2>5 DEF IInv, Unfinished, SilentUntilHandled, Resolved
<1>4. CASE Found(route) # "none"
  <2>1. res' = InitialRes(route) /\ stage' = next /\ UNCHANGED sent
    BY <1>4 DEF OnUrl
  <2>2. TypeOK' /\ Unfinished' /\ SilentUntilHandled'
    BY <1>0, <1>1, <1>2, <1>4, <2>1 DEF TypeOK, Unfinished, SilentUntilHandled, Fresh
  <2>3. Found(req.route)' = Found(req.route)
    BY <1>0 DEF Found, NoRule
  <2>4. Resolved'
    <3>1. CASE next = "url"
      BY <2>1, <3>1 DEF Resolved
    <3>2. CASE next = "head"
      BY <1>0, <1>1, <1>4, <2>1, <2>3, <3>2 DEF Resolved
    <3> QED
      BY <3>1, <3>2
  <2>5. AnsweredOnce' /\ AnswerOfRequest'
    BY <1>0, <2>1 DEF AnsweredOnce, AnswerOfRequest, Answered
  <2> QED
    BY <2>2, <2>4, <2>5 DEF IInv
<1> QED
  BY <1>3, <1>4

LEMMA HeaderStep ==
    ASSUME IInv, HandleHeader
    PROVE  IInv'
<1>0. TypeOK /\ Fresh(res) /\ sent = <<>> /\ stage = "head" /\ stage' = "body" /\ served > 0
      /\ UNCHANGED <<req, outcome, found, keepAlive, sent, served>>
  BY DEF IInv, Unfinished, SilentUntilHandled, HandleHeader
<1>1. res' = IF req.version = 11 /\ req.expect THEN Clear(res) ELSE res
  BY DEF HandleHeader
<1>2. res' \in Response /\ Fresh(res')
  BY <1>0, <1>1, ClearFacts DEF TypeOK, Fresh
<1>3. TypeOK' /\ Unfinished' /\ SilentUntilHandled'
  BY <1>0, <1>2 DEF TypeOK, Unfinished, SilentUntilHandled, Fresh
<1>4. Found(req.route)' = Found(req.route)
  BY <1>0 DEF Found, NoRule
<1>5. Resolved'
  BY <1>0, <1>1, <1>4 DEF IInv, Resolved
<1>6. AnsweredOnce' /\ AnswerOfRequest'
  BY <1>0 DEF AnsweredOnce, AnswerOfRequest, Answered
<1> QED
  BY <1>3, <1>5, <1>6 DEF IInv
-----------------------------------------------------------------------------
(* The three ways to handle a request.                                     *)

LEMMA RespondStep ==
    ASSUME NEW r, sent = <<>>, Respond(r)
    PROVE  /\ Len(sent') = 1 /\ sent'[1].code = r.code
           /\ stage' \in {"closed", "idle"}
  BY DEF Respond, Wire

LEMMA NoHostStep ==
    ASSUME IInv, HandleNoHost
    PROVE  IInv'
<1>0. /\ TypeOK /\ Fresh(res) /\ sent = <<>> /\ stage = "body" /\ served > 0
      /\ req.version = 11 /\ ~req.host
      /\ keepAlive' = WantsKeepAlive /\ UNCHANGED <<req, outcome, found, served>>
      /\ Respond(Assign(res, 400, "none")) /\ res' = Clear(res)
  BY DEF IInv, Unfinished, SilentUntilHandled, HandleNoHost, Handling
<1>1. Len(sent') = 1 /\ sent'[1].code = 400 /\ stage' \in {"closed", "idle"}
  BY <1>0, RespondStep, AssignFacts DEF TypeOK
<1>2. res' \in Response /\ Fresh(res') /\ res'.code = 200
  BY <1>0, ClearFacts DEF TypeOK, Fresh
<1>3. TypeOK'
  BY <1>0, <1>1, <1>2 DEF TypeOK, WantsKeepAlive
<1>4. Unfinished' /\ SilentUntilHandled' /\ Resolved'
  BY <1>1, <1>2 DEF Unfinished, Fresh, SilentUntilHandled, Resolved
<1>5. AnsweredOnce' /\ AnswerOfRequest'
  BY <1>0, <1>1 DEF AnsweredOnce, AnswerOfRequest, Expected
<1> QED
  BY <1>3, <1>4, <1>5 DEF IInv

LEMMA UpgradeStep ==
    ASSUME IInv, HandleUpgrade
    PROVE  IInv'
<1>0. /\ TypeOK /\ sent = <<>> /\ stage = "body" /\ stage' = "closed"
      /\ req.version = 11 /\ req.host /\ req.upgrade
      /\ res' = Complete(Assign(res, 404, "none"))
      /\ keepAlive' = WantsKeepAlive /\ UNCHANGED <<req, outcome, found, served, sent>>
  BY DEF IInv, SilentUntilHandled, HandleUpgrade, Handling
<1>1. res' \in Response
  BY <1>0, AssignFacts, CompleteFacts DEF TypeOK
<1>2. TypeOK'
  BY <1>0, <1>1 DEF TypeOK, WantsKeepAlive
<1>3. AnsweredOnce' /\ AnswerOfRequest'
  BY <1>0 DEF AnsweredOnce, AnswerOfRequest, Upgraded
<1> QED
  BY <1>0, <1>2, <1>3 DEF IInv, Unfinished, SilentUntilHandled, Resolved

(* What a handler leaves in res, and its status. *)
LEMMA HandledFacts ==
    ASSUME TypeOK
    PROVE  /\ Handled \in Response
           /\ Handled.code = CASE found = "catchAll" -> res.code
                               [] found = "static" -> 404
                               [] OTHER -> outcome
<1>1. res \in Response /\ outcome \in {200, 404}
  BY DEF TypeOK
<1>2. CASE found = "catchAll"
  BY <1>1, <1>2 DEF Handled
<1>3. CASE found = "static"
  <2>1. Handled = [res EXCEPT !.code = 404]
    BY <1>3 DEF Handled
  <2> QED
    BY <1>1, <1>3, <2>1 DEF Response
<1>4. CASE found # "catchAll" /\ found # "static"
  <2>1. Handled = Assign(res, outcome, IF outcome = 200 THEN "page" ELSE "none")
    BY <1>4 DEF Handled
  <2> QED
    BY <1>1, <1>4, <2>1, AssignFacts
<1> QED
  BY <1>2, <1>3, <1>4

LEMMA RequestStep ==
    ASSUME IInv, HandleRequest
    PROVE  IInv'
<1>0. /\ TypeOK /\ Fresh(res) /\ sent = <<>> /\ stage = "body" /\ served > 0
      /\ keepAlive' = WantsKeepAlive /\ UNCHANGED <<req, outcome, found, served>>
      /\ req.version = 11 => req.host
      /\ "completed" \notin res.flags
  BY DEF IInv, Unfinished, SilentUntilHandled, HandleRequest, Handling, Fresh
<1>1. /\ Respond(Complete(Handled))
      /\ res' = [Clear(Complete(Handled)) EXCEPT
                   !.flags = (@ \ {"skip_body", "manual_length"})
                             \cup (IF WantsKeepAlive THEN {"keep_alive"} ELSE {})]
  BY <1>0 DEF HandleRequest
<1>2. Complete(Handled) \in Response /\ Complete(Handled).code = Handled.code
  BY <1>0, HandledFacts, CompleteFacts
<1>3. Len(sent') = 1 /\ sent'[1].code = Handled.code /\ stage' \in {"closed", "idle"}
  BY <1>0, <1>1, <1>2, RespondStep
<1>4. /\ Clear(Complete(Handled)) \in Response
      /\ Clear(Complete(Handled)).code = 200
      /\ Clear(Complete(Handled)).body = "none"
      /\ Clear(Complete(Handled)).length = "unset"
      /\ Clear(Complete(Handled)).flags \subseteq {"skip_body", "manual_length"}
  BY <1>2, ClearFacts
<1>5. res' \in Response /\ Fresh(res') /\ res'.code = 200
  BY <1>1, <1>4 DEF Response, Flags, Fresh
<1>6. TypeOK'
  BY <1>0, <1>3, <1>5 DEF TypeOK, WantsKeepAlive
<1>7. Unfinished' /\ SilentUntilHandled' /\ Resolved'
  BY <1>3, <1>5 DEF Unfinished, Fresh, SilentUntilHandled, Resolved
<1>8. ASSUME req.method = "GET" \/ (req.method = "POST" /\ ~req.expect),
             req.expect => req.route # "unknown"
      PROVE  Handled.code = Expected
  <2>1. /\ found = Found(req.route) /\ found # "none"
        /\ found = "catchAll" /\ ~req.expect =>
              res.code = IF req.route = "unknown" THEN 404 ELSE 405
    BY <1>0 DEF IInv, Resolved
  <2>2. req.route \in Routes /\ req.version \in {10, 11}
    BY <1>0 DEF TypeOK, Request
  <2>3. CASE req.method = "POST"
    <3>1. found = "catchAll"
      BY <1>0, <2>1, <2>2, <2>3, FoundFacts
    <3>2. Handled.code = IF req.route = "unknown" THEN 404 ELSE 405
      BY <1>0, <1>8, <2>1, <2>3, <3>1, HandledFacts
    <3> QED
      BY <1>0, <2>2, <2>3, <3>2 DEF Expected, Routes
  <2>4. CASE req.method = "GET" /\ req.route = "unknown"
    <3>1. found = "catchAll"
      BY <1>0, <2>1, <2>2, <2>4, FoundFacts
    <3>2. Handled.code = 404
      BY <1>0, <1>8, <2>1, <2>4, <3>1, HandledFacts
    <3> QED
      BY <1>0, <2>2, <2>4, <3>2 DEF Expected
  <2>5. CASE req.method = "GET" /\ req.route # "unknown"
    <3>1. found = req.route
      BY <1>0, <2>1, <2>2, <2>5, FoundFacts
    <3>2. Handled.code = IF req.route = "static" THEN 404 ELSE outcome
      BY <1>0, <2>2, <2>5, <3>1, HandledFacts DEF Routes
    <3> QED
      BY <1>0, <2>2, <2>5, <3>2 DEF Expected
  <2> QED
    BY <1>8, <2>3, <2>4, <2>5
<1>9. AnsweredOnce' /\ AnswerOfRequest'
  <2>1. Expected' = Expected
    BY <1>0 DEF Expected
  <2> QED
    BY <1>0, <1>3, <1>8, <2>1 DEF AnsweredOnce, AnswerOfRequest
<1> QED
  BY <1>6, <1>7, <1>9 DEF IInv

LEMMA InvStep == IInv /\ [Next]_vars => IInv'
<1> SUFFICES ASSUME IInv, [Next]_vars PROVE IInv'
  OBVIOUS
<1>1. ASSUME NEW route \in Routes, UrlPrefix(route) PROVE IInv'
  BY <1>1, OnUrlStep DEF UrlPrefix
<1>2. CASE UrlComplete
  <2>1. req.route \in Routes
    BY DEF IInv, TypeOK, Request
  <2> QED
    BY <1>2, <2>1, OnUrlStep DEF UrlComplete
<1>3. CASE UNCHANGED vars
  <2>1. TypeOK' /\ Unfinished' /\ SilentUntilHandled'
    BY <1>3 DEF vars, IInv, TypeOK, Unfinished, Fresh, SilentUntilHandled
  <2>2. Found(req.route)' = Found(req.route)
    BY <1>3 DEF vars, Found, NoRule
  <2>3. Resolved'
    BY <1>3, <2>2 DEF vars, IInv, Resolved
  <2>4. Expected' = Expected
    BY <1>3 DEF vars, Expected
  <2>5. AnsweredOnce' /\ AnswerOfRequest'
    BY <1>3, <2>4 DEF vars, IInv, AnsweredOnce, AnswerOfRequest, Answered, Upgraded
  <2> QED
    BY <2>1, <2>3, <2>5 DEF IInv
<1> QED
  BY <1>1, <1>2, <1>3, BeginStep, HeaderStep, NoHostStep, UpgradeStep, RequestStep DEF Next

-----------------------------------------------------------------------------
(* The results.                                                            *)

LEMMA Inductive == Spec => []IInv
  BY InvInit, InvStep, PTL DEF Spec

(* Every variable keeps its type, and no request gets two responses. *)
THEOREM ExchangeTypes == Spec => []TypeOK
<1>1. IInv => TypeOK
  BY DEF IInv
<1> QED
  BY <1>1, Inductive, PTL

(* Of one request's response nothing but two flags reaches the next one.   *)
THEOREM CleanResponses == Spec => []CleanBetweenRequests
<1>1. IInv => CleanBetweenRequests
  <2> SUFFICES ASSUME IInv, stage = "idle"
               PROVE  \E f \in SUBSET {"keep_alive", "skip_body"} :
                         res = [Blank EXCEPT !.flags = f]
    BY DEF CleanBetweenRequests
  <2>1. res \in Response /\ Fresh(res) /\ res.code = 200
    BY DEF IInv, TypeOK, Unfinished
  <2>2. res = [Blank EXCEPT !.flags = res.flags]
    BY <2>1 DEF Response, Fresh, Blank
  <2> QED
    BY <2>1, <2>2 DEF Fresh
<1> QED
  BY <1>1, Inductive, PTL

(* Every request that was handled has one response, but for an upgrade. *)
THEOREM RequestsAreAnsweredOnce == Spec => []AnsweredOnce
<1>1. IInv => AnsweredOnce
  BY DEF IInv
<1> QED
  BY <1>1, Inductive, PTL

(* The status of the answer to a GET or POST is that of the request alone. *)
THEOREM AnswersAreOfTheRequest == Spec => []AnswerOfRequest
<1>1. IInv => AnswerOfRequest
  BY DEF IInv
<1> QED
  BY <1>1, Inductive, PTL
=============================================================================
