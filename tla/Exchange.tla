------------------------------ MODULE Exchange ------------------------------
(***************************************************************************)
(* The requests of one keep-alive connection, one after the other, through *)
(* the parser callbacks (crow/parser.h), Connection::handle_url, handle,   *)
(* complete_request and the writes (crow/http_connection.h), the router's  *)
(* decision (crow/routing.h) and the one response object `res` that every  *)
(* request of the connection reuses (crow/http_response.h).                *)
(*                                                                         *)
(* A body is one of "none" (empty), "page" (what a handler produced) and   *)
(* "error" (the status text); a length is the body it is the length of.    *)
(***************************************************************************)
EXTENDS Naturals, Sequences

CONSTANT MaxRequests     \* bound: requests of the connection

ASSUME ExchangeAssumption == MaxRequests \in Nat

(* What a path resolves to: a rule of server.cpp whose handler returns a    *)
(* response, the rule "/static/<path>" whose handler fills in `res` (there  *)
(* is no such directory, so with a 404), or no rule.                       *)
Routes == {"page", "static", "unknown"}

Request == [method : {"GET", "HEAD", "OPTIONS", "POST"}, route : Routes,
            version : {10, 11}, host : BOOLEAN,
            connection : {"unset", "keep-alive", "close"}, upgrade : BOOLEAN,
            expect : BOOLEAN]

VARIABLES
    stage,      \* "idle", "url" (reading the URL), "head" (reading the headers),
                \* "body" (up to the end of the message), "closed"
    req,        \* the request being read
    outcome,    \* what its handler will answer: 200 or an error of its own
    found,      \* routing_handle_result_ as the last handle_initial left it: the
                \* rule, "catchAll" (none, the catch-all answers) or "none"
    res,        \* the response object
    keepAlive,  \* add_keep_alive_
    sent,       \* responses written for this request, in order
    served      \* requests so far (bounded by MaxRequests)

vars == <<stage, req, outcome, found, res, keepAlive, sent, served>>

(* The flags of a response: completed_, skip_body, manual_length_header,    *)
(* and whether its headers hold "connection: Keep-Alive".                  *)
Flags == {"completed", "skip_body", "manual_length", "keep_alive"}

Blank == [code |-> 200, body |-> "none", length |-> "unset", flags |-> {}]

(* Mutant of Clear: the completion flag survives. *)
ClearKeepingCompletion(r) == [Blank EXCEPT !.flags = r.flags \ {"keep_alive"}]

(* response::clear() leaves skip_body and manual_length_header alone. *)
Clear(r) == [Blank EXCEPT !.flags = r.flags \cap {"skip_body", "manual_length"}]

(* res = response(code, body): so does the move assignment. *)
Assign(r, code, body) ==
    [code |-> code, body |-> body, length |-> "unset", flags |-> Clear(r).flags]

(* The part of response::end() before the completion handler is called. *)
Complete(r) ==
    IF "skip_body" \in r.flags
    THEN [code |-> r.code, body |-> "none", length |-> r.body,
          flags |-> r.flags \cup {"completed", "manual_length"}]
    ELSE [r EXCEPT !.flags = @ \cup {"completed"}]

(* write_header_into_buffer and the body after it: the bytes on the wire.  *)
Wire(r, addKeepAlive) ==
    LET body == IF r.code >= 400 /\ r.body = "none" THEN "error" ELSE r.body IN
    [method    |-> req.method,
     code      |-> r.code,
     announced |-> IF "manual_length" \notin r.flags /\ r.length = "unset"
                  THEN body ELSE r.length,
     body      |-> body,
     keepAlive |-> addKeepAlive \/ "keep_alive" \in r.flags]

Init ==
    /\ stage = "idle"
    /\ req = [method |-> "GET", route |-> "page", version |-> 11, host |-> TRUE,
              connection |-> "unset", upgrade |-> FALSE, expect |-> FALSE]
    /\ outcome = 200
    /\ found = "none"
    /\ res = Blank
    /\ keepAlive = FALSE
    /\ sent = <<>>
    /\ served = 0

(* The peer begins a request. *)
Begin(r, o) ==
    /\ stage = "idle"
    /\ served < MaxRequests
    /\ stage' = "url"
    /\ req' = r
    /\ outcome' = o
    /\ served' = served + 1
    /\ sent' = <<>>
    /\ UNCHANGED <<found, res, keepAlive>>

-----------------------------------------------------------------------------
(* Router::handle_initial for the path read so far, which resolves to route.*)
(* Only GET rules exist, so POST meets a known path in another method.      *)
NoRule(route) == route = "unknown" \/ req.method \in {"POST", "OPTIONS"}

(* Mutant of Found: catch_all is never reset. *)
FoundSticky(route) ==
    CASE found = "catchAll" \/ (NoRule(route) /\ req.method \in {"GET", "POST"}) -> "catchAll"
      [] found # "catchAll" /\ NoRule(route) /\ req.method \in {"HEAD", "OPTIONS"} -> "none"
      [] found # "catchAll" /\ ~NoRule(route) -> route

Found(route) ==
    CASE NoRule(route) /\ req.method \in {"GET", "POST"} -> "catchAll"
      [] NoRule(route) /\ req.method \in {"HEAD", "OPTIONS"} -> "none"
      [] ~NoRule(route) -> route

InitialRes(route) ==
    CASE req.method = "HEAD" /\ route = "unknown" -> Complete(Assign(res, 404, "none"))
      [] req.method = "HEAD" /\ route # "unknown" -> [res EXCEPT !.flags = @ \cup {"skip_body"}]
      [] req.method = "OPTIONS" ->
            Complete(Assign(res, IF route = "unknown" THEN 404 ELSE 204, "none"))
      [] req.method \in {"GET", "POST"} /\ route = "unknown" -> [res EXCEPT !.code = 404]
      [] req.method = "POST" /\ route # "unknown" -> [res EXCEPT !.code = 405]
      [] OTHER -> res

(* Mutant of OnUrl: the parser goes on after the early answer. *)
OnUrlUndone(route, next) ==
    /\ stage = "url"
    /\ found' = Found(route)
    /\ IF Found(route) = "none"
       THEN /\ sent' = Append(sent, Wire(InitialRes(route), keepAlive))
            /\ res' = Clear(InitialRes(route))
       ELSE /\ res' = InitialRes(route)
            /\ UNCHANGED sent
    /\ stage' = next
    /\ UNCHANGED <<req, outcome, keepAlive, served>>

(* on_url and Connection::handle_url.  http_parser reports a URL piece by   *)
(* piece, so this runs on every prefix of the URL at which a read ended.    *)
(* Without a rule and a catch-all the response is written at once; done()   *)
(* has put the parser into an error, so the read handler then closes.      *)
OnUrl(route, next) ==
    /\ stage = "url"
    /\ found' = Found(route)
    /\ IF Found(route) = "none"
       THEN /\ sent' = Append(sent, Wire(InitialRes(route), keepAlive))
            /\ res' = Clear(InitialRes(route))
            /\ stage' = "closed"
       ELSE /\ res' = InitialRes(route)
            /\ stage' = next
            /\ UNCHANGED sent
    /\ UNCHANGED <<req, outcome, keepAlive, served>>

(* The path ends here, or the read ended inside it. *)
UrlComplete == OnUrl(req.route, "head")
UrlPrefix(route) == OnUrl(route, "url")

(* Connection::handle_header, at the end of the headers: "100 Continue" is   *)
(* written at once, by the function that writes responses and clears res.  *)
HandleHeader ==
    /\ stage = "head"
    /\ stage' = "body"
    /\ res' = IF req.version = 11 /\ req.expect THEN Clear(res) ELSE res
    /\ UNCHANGED <<req, outcome, found, keepAlive, sent, served>>

-----------------------------------------------------------------------------
(* set_connection_parameters *)
WantsKeepAlive == req.version = 11 \/ req.connection = "keep-alive"
WantsClose == IF req.version = 10 THEN req.connection # "keep-alive"
                                  ELSE req.connection = "close"

(* What the rule, or the catch-all, has made of res when it calls end(). *)
Handled ==
    CASE found = "catchAll" -> res
      [] found = "static" -> [res EXCEPT !.code = 404]
      [] OTHER -> Assign(res, outcome, IF outcome = 200 THEN "page" ELSE "none")

(* A response leaves: r is res when complete_request runs. *)
Respond(r) ==
    /\ sent' = Append(sent, Wire(r, WantsKeepAlive))
    /\ stage' = IF WantsClose THEN "closed" ELSE "idle"

Handling ==
    /\ stage = "body"
    /\ keepAlive' = WantsKeepAlive
    /\ UNCHANGED <<req, outcome, found, served>>

(* Mutant of HandleNoHost: the response is ended, which sends nothing. *)
HandleNoHostEnding ==
    /\ Handling
    /\ req.version = 11 /\ ~req.host
    /\ res' = Complete(Assign(res, 400, "none"))
    /\ stage' = IF WantsClose THEN "closed" ELSE "idle"
    /\ UNCHANGED sent

(* handle(), HTTP/1.1 without Host: the response bypasses end(). *)
HandleNoHost ==
    /\ Handling
    /\ req.version = 11 /\ ~req.host
    /\ Respond(Assign(res, 400, "none"))
    /\ res' = Clear(res)

(* handle() of an upgrade no rule supports: end() finds no handler to call, *)
(* and the read handler drops the connection.                              *)
HandleUpgrade ==
    /\ Handling
    /\ req.version = 11 /\ req.host /\ req.upgrade
    /\ res' = Complete(Assign(res, 404, "none"))
    /\ stage' = "closed"
    /\ UNCHANGED sent

(* handle() of any other request.  The handler of end() writes the response *)
(* and clears res; back in end() the two flags are reset, and back in       *)
(* handle() the Keep-Alive header is set on the cleared object.             *)
HandleRequest ==
    /\ Handling
    /\ req.version = 11 => req.host /\ ~req.upgrade
    /\ IF "completed" \in res.flags
       THEN Respond(res) /\ res' = Clear(res)
       ELSE /\ Respond(Complete(Handled))
            /\ res' = [Clear(Complete(Handled)) EXCEPT
                           !.flags = (@ \ {"skip_body", "manual_length"})
                                     \cup (IF WantsKeepAlive THEN {"keep_alive"} ELSE {})]

Next ==
    \/ \E r \in Request, o \in {200, 404} : Begin(r, o)
    \/ \E route \in Routes : UrlPrefix(route)
    \/ UrlComplete
    \/ HandleHeader \/ HandleNoHost \/ HandleUpgrade \/ HandleRequest

Spec == Init /\ [][Next]_vars
-----------------------------------------------------------------------------
Response ==
    [code : {200, 204, 400, 404, 405}, body : {"none", "page"},
     length : {"unset", "none", "page"}, flags : SUBSET Flags]

TypeOK ==
    /\ stage \in {"idle", "url", "head", "body", "closed"}
    /\ req \in Request
    /\ outcome \in {200, 404}
    /\ found \in Routes \cup {"catchAll", "none"}
    /\ res \in Response
    /\ keepAlive \in BOOLEAN
    /\ Len(sent) <= 1
    /\ served \in 0..MaxRequests

Answered == stage \in {"idle", "closed"} /\ served > 0

(* http_parser accepts Upgrade on any version; handle() looks at it on 1.1. *)
Upgraded == req.version = 11 /\ req.host /\ req.upgrade

(* The response object is as good as new when the next request begins:      *)
(* neither the status, the body, the length nor the completion of a        *)
(* response reaches the next one of the connection.                        *)
CleanBetweenRequests ==
    stage = "idle" =>
        res \in {[Blank EXCEPT !.flags = f] : f \in SUBSET {"keep_alive", "skip_body"}}

(* Every request is answered, and by one response: the early answer of      *)
(* handle_url is never followed by one of handle().  (An upgrade request is *)
(* the exception: it is completed and dropped, see HandleUpgrade.)         *)
AnsweredOnce ==
    Answered => Len(sent) = 1 \/ (Upgraded /\ stage = "closed" /\ sent = <<>>)

(* What a GET or POST must be answered with, from the request alone. *)
Expected ==
    CASE req.version = 11 /\ ~req.host -> 400
      [] (req.version = 10 \/ req.host) /\ req.route = "unknown" -> 404
      [] (req.version = 10 \/ req.host) /\ req.route # "unknown" /\ req.method = "POST" -> 405
      [] (req.version = 10 \/ req.host) /\ req.route = "static" /\ req.method = "GET" -> 404
      [] OTHER -> outcome

(* The answer to a GET or a POST is that of the request alone: it depends   *)
(* neither on the requests before it nor on where the reads cut its URL.   *)
(* (A request for "100 Continue" that meets no rule is the exception, see  *)
(* NoRouteNoSuccess.)                                                      *)
AnswerOfRequest ==
    /\ Answered /\ sent # <<>>
    /\ req.method = "GET" \/ (req.method = "POST" /\ ~req.expect)
    /\ req.expect => req.route # "unknown"
    => sent[1].code = Expected

(* routing.h: "Route does not exist anywhere", code 404: such a request is  *)
(* never answered with a success.                                          *)
NoRouteNoSuccess ==
    Answered /\ sent # <<>> /\ req.route = "unknown" => sent[1].code # 200

(* http_response.h: skip_body is "Whether this is a response to a HEAD     *)
(* request": any other response has the body whose length it announces.    *)
OthersHaveTheirBody ==
    \A i \in DOMAIN sent : sent[i].method # "HEAD" => sent[i].body = sent[i].announced
=============================================================================
