# A verification development for AirDB

AirDB is a web application in C++: `server.cpp` serves a page (`index.html`) and a
small API over the OpenFlights tables of airlines, airports and routes, which
`airdp.cpp` loads and looks up. It runs on a copy of the Crow web framework kept in
the same tree (`crow/`), and that framework on asio. This directory holds TLA+
modules for the parts that carry the program's logic, TLC configurations that check
them on small instances, and proofs, checked by TLAPS, that the most important
properties hold for every value of the constants.

Contents

1. The system: components, state, interactions
2. The modules, and how they correspond to the code
3. What each run checks, and its bounds
4. What the runs refute
5. Fairness
6. What is proved, and how
7. What is only model-checked, and what is not modelled
8. Order of the work, and what could follow

## 1. The system

    browser (index.html) --HTTP--> acceptor thread --posts start()--> worker threads
                                                                         |
      one worker: io_context + task_timer + connections                  |
         read handler -> parser callbacks -> Connection -> Router -> rule of server.cpp
                                                                         |
                                                     AirTravelDB (airlines, airports, routes)

`main` loads the three files, one after the other, before it starts the server; after
that the tables never change. `Server::run` starts `concurrency - 1` workers, each with
an io_context and a timer of its own, waits for them at a barrier, and then accepts
clients on its own thread. An accepted connection is handed to one worker and stays
there: everything that happens to it runs on that thread, one handler at a time.
Concurrency therefore lives in four places: between the acceptor and the workers
(queue lengths, barrier, stop), between the handlers of one worker (reads that
complete, deadlines that fire, a socket closed under a handler that is already
queued), between the requests of one connection (one response object serves them
all), and in the browser (several requests of one panel wait at a time).

| Component | State it keeps | Operations | Hard behaviour | What makes it correct |
|---|---|---|---|---|
| Worker loop, deadlines (`http_connection.h`, `task_timer.h`) | ready handlers; tasks by identifier, last identifier issued; per connection its socket, task id, read in progress | start, read handler, timer tick, start/cancel of a deadline | identifiers restart at 0 when the timer empties; ticks close sockets under queued handlers; handlers that throw | a silent connection is ended, not before its time; a deadline never outlives its connection; a connection closed by its deadline is released |
| Server (`http_server.h`) | queue length per worker, barrier counter, stop flags | run, pick a worker, accept, failed accept, stop, join | the scan reads atomics that others decrement; failed accepts are counted a while; a write may block a worker | lengths are exact; workers are ready before they are used; the choice is good; stop returns |
| Exchange (`http_connection.h`, `parser.h`, `http_response.h`, `routing.h`) | parser stage, `res`, routing result, keep-alive flag | the parser callbacks, `handle`, `complete_request`, `end`, `clear` | early answers while the request is still being read; URL in several reads; flags of `res` that survive | each request is answered once, by its own status; `res` is clean in between |
| Tables (`airdp.cpp`, `airdb.h`, rules of `server.cpp`) | three maps per kind | loaders, lookup by number, IATA, ICAO, name; suggestions | duplicates, absent values (`""`, `\N`), fallbacks in a fixed order, terms that the page encodes and nobody decodes | last line wins in every map; an answer is about what was asked; nothing present is refused |
| Reports over routes | the routes; a map of counts | count per airport or per airline | the search is inexact, the loop must filter; routes from an airport to itself | the two reports agree |
| One-hop search | the routes; the list of results | early returns, first legs, second legs, sort | several flights per leg, missing airport records, stops | every journey is listed, once |
| Browser page (`index.html`) | inputs, datalists, status lines, results | one handler per button and input | answers overtake each other, fail, or arrive after the input changed | panels do not stay busy; what they say fits what they show |
| Router and trie (`routing.h`) | the rules; per method a list of rules and a trie | declare, validate (insert, optimise), find, answer | overlapping rules, greedy parameters, redirections of slashes that go before rules, fallbacks between methods | the rule that answers is the one a reading of each rule gives; nobody is refused whom a rule fits |
| WebSocket connection (`websocket.h`) | flags of the close handshake, two write buffers, the frame being read, the message so far | start, send, close from any thread; read and write handlers | writes that overlap, frames in pieces, both sides closing, failures half way, callbacks that throw | messages arrive whole; a close ends the connection; only a callback that throws orphans one |
| Blueprints, catch-alls and middlewares of the router; CSV splitting and escaping, ZIP; JSON, mustache, query strings; HTTP parser core; sessions, cookies, CORS; socket adaptors; app builder; build files | | | | not modelled, see section 7 |

## 2. The modules

| Module | Models | Shape |
|---|---|---|
| `TaskTimer` | `task_timer`: the deadline table | operators on a table |
| `Worker` | one worker thread and its connections | state machine, EXTENDS `TaskTimer` |
| `IdleTimeout` | what a worker promises about silence | abstract specification that `Worker` implements |
| `Server` | acceptor, workers' life, start and stop | state machine |
| `Exchange` | the requests of one connection | state machine |
| `AirTravelDB` | loading, lookups, suggestions | state machine |
| `RouteReports` | the two reports over routes | state machine, a step per turn of the loop |
| `OneHop` | the one-hop search | state machine, a step per turn of the loop |
| `Routes` | both walks over the routes, side by side | `RouteReports` with `OneHop` as an INSTANCE |
| `FrontEnd` | the event handlers of the page | state machine |
| `Router` | the rules, the tries, the answers of the router | state machine over recursive functions |
| `WebSocket` | one WebSocket connection | state machine over records |
| `MC...` | instances for TLC | |
| `WorkerProofs`, `ServerProofs`, `ExchangeProofs`, `AirTravelDBProofs`, `RoutesProofs`, `FrontEndProofs`, `RouterProofs`, `WebSocketProofs` | theorems | |

An operator named "Mutant of ..." in a comment is a wrong variant of the definition that
follows it; it is used by nothing and only serves to see a property fail.

**Worker.** `queue` is the ready queue of the io_context, first in first out, holding
connections (whose next handler `phase` tells) and the timer's tick. `RunStart`,
`RunReadOn`, `RunReadEnd` and `RunTick` are whole handlers: `Connection::start`, the
lambda of `do_read` with everything that parsing, handling and writing do to the deadline
and the socket, and `tick_handler`. `Accept`, `Arrive` and `Advance` are the other
parties: the acceptor's post, the peer, the clock. A deadline is kept as the ticks that
remain (`-1`: any time past it), so that time stays finite. A read result is one of
six classes, those the control flow tells apart. `fired` is a history variable.

**IdleTimeout.** Each served connection has a watch, wound up whenever its peer is
heard, and is timed out exactly when the watch has run off. The service may lose one
other connection's watch when a connection renews or ends its own, but only after some
connection was timed out: that clause is the imprint of the stale identifier described
in section 4. `Worker` maps to it by `StateOf` and `Watched`.

**Server.** The scan of `pick_io_context_idx` is modelled read by read (`CheckLoop`,
`ReadFirst`, `ReadSecond`, the two operands in either order), since the workers decrement
the lengths meanwhile. A connection object is counted from its creation, before anybody
connects, to its destructor; the handler of a failed accept holds the old object until
it ends (`EndAcceptHandler`), after the next one was created. `worker = "stuck"` is a
worker inside a synchronous `asio::write` whose peer does not read. `atScan` is history.
The optional user tick and `wait_for_server_start` are left out; the application uses
neither.

**Exchange.** `stage` is where the parser stands; each action is one callback with all
it calls. `res` holds status, body, announced length and the four flags that matter; a
body is "none", "page" or "error", a length is the body it is the length of. A read may
end inside the URL (`UrlPrefix`), with any resolution of the prefix, because http_parser
calls `on_url` for each piece. The outcome of a handler is chosen with the request.

**AirTravelDB.** Strings are numbers in the order of the strings; `Within` says which
occurs in which. `name` stands for the text fields that are searched (name, city,
country). One action per line of a file, and one per outcome of a lookup, guarded by the
failure of the steps before it, in the order of the code: number, IATA, ICAO of the right
length, name. The ICAO map of airports does enter `\N` (its loader lacks the test), as in
the code. Requests only read, under a mutex or without a writer, so each is one action. A
lookup has its term in the path of the url, which nobody decodes (`Sent`: what can stand
there); the search of the page sends `Encoded[text]`, the `encodeURIComponent` of what is
in its box. The term of a suggestion comes in the query string, which is decoded.

**RouteReports, OneHop.** A step per turn of the loops. The rows of a report are kept as
the map of counts they are sorted from (the sort is by count and then code, which
determines it). Lengths of journeys are a constant `Miles`; the trigonometry of
`CalculateDistanceKm` is left out. `Sorted` is what `std::sort` may leave: any permutation
without a pair out of order.

**FrontEnd.** One action per event handler up to its `await`, and one per way it goes on:
answered or failed. `pending` is a set, so answers come in any order. For the lists of
suggestions the query stands for its answer (the tables do not change); of the panels
only the kind of what they show is kept. `typed`, `orderly`, `overlapped` are history.

**Router.** A path is a sequence of characters and parameter types; a node of a trie is
the path that leads to it, so a trie is a function from paths to `rule_index`, and joining
a node to its only child is leaving it out of the domain. (The order of the children
decides only which of several redirections is taken, and they are all the same.)
`Declare`, `AddRule` and `Validate` are the start of the application, with the exception
for a path that is taken; `RequestHead`, `RequestOptions` and `RequestOther` are
`handle_initial` and `handle` by method. Against them stands a reading of the rules one by
one, without any trie: `Reads`, `Fits`, `Serving`, `Redirecting`. It shares with the model
only `Ends`, how far one parameter goes in a url, and `Taken`, what it captures. Numbers
are strings of a sign, two digits and a point: no exponent, no hexadecimal, no overflow.

**WebSocket.** One connection, from the `create()` that follows the upgrade to its end. All
its handlers run on one worker; calls of the application (and `App::stop`) are posted as
`tasks`, except from a callback, where `close()` runs at once (`AfterCallback`). The
functions of the code that change the flags are functions of the record `conn`
(`CheckDestroy`, `Ended`, `Closed`), those that change the buffers functions of `out`
(`Push`, `DoWrite`, `Cleared`, `Emit`, `Abort`); a handler is a composition of them.

A callback of the application may throw (`throws`). Nothing in `websocket.h` catches that:
what `open_handler_` and `accept_handler_` throw is caught by `Router::handle_upgrade`,
everything else by the loop of the worker, which logs it and goes on. In the model the
handler is cut off at the callback (`CutOff`, `CheckDestroy`, `Fail`): the flags set before
it stay, and what would follow it (the next read, the closing of the socket, the removal
from the list) does not happen. `cut` remembers it. One case differs: `close()` inside a
handler is dispatched, and asio keeps what it throws until that handler has ended, so the
close frame is lost (`CloseEmits`) but the handler goes on.

A write refers to the strings of a buffer and does not own them. `out.flight` counts the
writes under way by the buffer their strings are in: the swap of `do_write()` exchanges the
counts, a buffer that grows or is cleared leaves its writes with strings that are `gone`,
and what such a write sends is not defined. A write is taken by the socket at once or
later, in any order with the others, or fails.

A read passes through the states of `WebSocketReadState`, `Len16` and `Len64` being one; a
header may come in two pieces, since it is read by `async_read_some`. A payload is the
number of its frame; masking, status codes, subprotocols, reserved opcodes, the build
options `CROW_ENFORCE_WS_SPEC` and `CROW_ENABLE_DEBUG`, exceptions that are no
`std::exception` (they end the program), and a `close()` called by `close_handler_` or
`error_handler_` are left out. `peer`, `delivered`, `reports`, `dropped`, `cut`, `again` and
`overlap` are history.

## 3. The runs

| Run | Instance | What it shows |
|---|---|---|
| `worker` | 2 connections, timeout 1 tick, 2 surviving reads each | `DeadlineIsKnown`, `DeadlineOfOpenConn`, `GuardedUntilTimeout`, and refinement of `IdleTimeout`. `FiredIsReleased`: a connection closed by its deadline is released. `EndsOrStrands`: an accepted connection ends, or is left without a deadline - there is no third way to hang |
| `server` | 3 workers, 4 connections | `QueueLengthExact`, `ReadyBeforeUse`, `PickIsLeastLoaded`; `StopReturns` |
| `exchange_safety` | every sequence of 3 requests | `CleanBetweenRequests`, `AnsweredOnce`, `AnswerOfRequest` |
| `airdb_safety` | 9 records, up to 3 lines, terms of every class | `LastLineWins`, `AnswerIsMeant`, `RefusedIsAbsent`, `SuggestionsResolve` |
| `routes` | reports: any 3 routes, 2 airlines, 2 airports, one code occurring in others; one-hop: any 4 of 7 routes among 3 airports, any subset of them known | `RowsAreTouched`, `ReportsAgree`; `RowsAreJourneys`, `AllJourneysListed` |
| `front_end` | 4 requests, 2 texts | `SuggestionsOfText`, `BusyWaits`, `StatusTellsResults`, `OneAnswerShown` |
| `router` | any 3 of 14 overlapping rules, 13 urls, 4 methods | `FirstRuleAnswers`, `RefusalIsJust`, `AllowIsServed`, `RedirectIsServed` |
| `websocket` | 6 kinds of frames, 3 frames and calls together | `NoOrphan`, `CloseIsFinal`, `MessagesAreWhole`, `FramesApartAreIntact` |
| `worker_idle`, `exchange_expect`, `exchange_skip`, `websocket_frames` | as above | refuted statements, section 4 |

Most passing runs also check the module's `TypeOK` (that of `FrontEnd` is proved only).
`routes` is one run for two handlers that share nothing but the table they walk over: the
start of a behaviour chooses which of them runs.

Why the bounds are enough. *Worker*: the interesting histories need one connection that
times out and one that gets the identifier the first remembers; what a third one would see
is proved for any number. Two surviving reads let a connection renew a deadline that it
has renewed before. Timeout 1 distinguishes a deadline that is due from one that is past.
*Server*: with three workers the scan has two comparisons and a candidate can lose to a
later one; four connections load all of them and leave one to be created. *Exchange*: what
a request leaves in `res` reaches the next one; three requests show that nothing survives
longer. *AirTravelDB*: two lines collide in a map, a third is a bystander; the records
cover present, empty, `\N` and duplicate values of each key, and terms that are a number,
too big a number, a code of each length, a part of a name, `\N`, and a text with
a space, raw and encoded. *Reports*: a route
from an airport to itself, and two others. *OneHop*: two flights on each leg give four
rows. *FrontEnd*: one-hop needs two inputs typed and two overlapping searches: four.
*Router*: a search goes wrong when one rule hides another, in the trie or by its index, or
a redirection hides both: three rules; the fourteen share prefixes, differ in a slash, in
the type of a parameter or in the method. *WebSocket*: a message of two fragments with a
control frame between them, a call between two frames, or, with the handshake response,
four writes of which three overlap; each callback is called and may throw.

Deadlock is checked except where the system may really stop: a server that returned or
whose worker is stuck; a connection that is closed; reports that were all made; a page
whose requests are used up; a router that failed to start, or has answered (requests
change nothing in it, so one shows them all); a WebSocket connection that has ended.

## 4. What the runs refute

Four statements of the sources do not hold of the code; the run is the counterexample.

- **`IdleIsEnded`** (`worker_idle`). "Set the connection timeout" (`crow/app.h:336`). A
  connection remembers its task id after the task has run; the timer starts its ids again
  from 0 once it is empty (`crow/task_timer.h:143`); the cancel by the old owner
  (`crow/http_connection.h:468`) then erases the deadline of whoever has the id now. That
  connection, if its peer stays silent, waits for ever. `IsIdleTimeout` says how far the
  damage goes: nothing fires early, and one cancel costs one other deadline at most.
- **`NoRouteNoSuccess`** (`exchange_expect`). "Route does not exist anywhere", code 404
  (`crow/routing.h:1684`). With `Expect: 100-continue` the interim response is written by
  a function that clears `res` (`crow/http_connection.h:133`, `447`), and with it the 404
  stored a moment before: the client gets 200.
- **`OthersHaveTheirBody`** (`exchange_skip`). `skip_body` is "Whether this is a response
  to a HEAD request" (`crow/http_response.h:56`). A HEAD without Host is answered without
  `end()`, the only place that resets the flag, so the next GET of the connection
  announces a body that is not sent.
- **`EachFrameOnce`** (`websocket_frames`). "Send the buffers' data through the socket"
  (`crow/websocket.h:713`). `do_write()` swaps `sending_buffers_` and `write_buffers_`
  (line 721) although a write of the former may be under way: the frames in flight come
  back to the waiting ones, and the completion handler (line 739) writes them again.
  The same handler clears the other buffer (line 738) under a write that may refer to it.
  `FramesApartAreIntact` says when all this cannot happen: as long as no write is begun
  before the handler of the last one has run.

The positive properties are stated so that they say what holds next to these: for example
`AnswerOfRequest` excepts requests with `Expect` that meet no rule, and
`CleanBetweenRequests` names `skip_body` and the Keep-Alive header as what survives.

Three more texts of the sources do not hold of the code. They are modelled, and the
properties are stated around them, but no run is spent on them:

- "HEAD is always allowed" (`crow/routing.h:1613`, `1642`): OPTIONS lists HEAD for every url
  that has a rule, and a url with rules for POST only refuses HEAD with 404 (line 1594).
  `AllowIsServed` takes HEAD as listed always, and `RefusalIsJust` is about other methods.
- "or American Airlines" (`index.html:162`), an input that the page proposes: the page
  percent-encodes it (line 421), neither `on_url` (`crow/parser.h:33`) nor the search of the
  trie decodes it, and so no name contains it: the answer is 404. `SuggestionsResolve`
  excepts every suggestion that the encoding changes.
- "if the close handler was not yet called at this point we did not receive a close packet
  (or send one)" (`crow/websocket.h:756`): the application may have sent its close frame and
  the read then fail; and since `check_destroy()` leaves no note that it called the handler,
  a failed write and then a failed read report the end twice. `NoOrphan` says that there is
  one report unless the handler of a write dropped the connection.

Other things the models show, of which no text of the repository says the opposite: a
connection whose deadline was lost has no other way to end (`EndsOrStrands`); `stop()`
does not return while a worker is blocked in a write (`StopReturns` excepts it); a route
from an airport to itself counts twice in one report and once in the other (`ReportsAgree`
has the term), and gives one-hop journeys over the airport one starts from; a suggestion
whose IATA code is `\N`, or whose ICAO code has an unusual length, leads to a refused
search, and a number beyond an int to a 500 (`SuggestionsResolve` excepts them); two
overlapping one-hop searches leave both tables on the page, and an answer that is overtaken
leaves suggestions for a text that is no longer typed (`OneAnswerShown` and
`SuggestionsOfText` are stated without such overlaps); a HEAD or OPTIONS whose url arrives
in two reads may be refused for its first piece (`AnswerOfRequest` is about GET and POST); a
rule that ends in a slash takes urls from rules declared before it (`FirstRuleAnswers`); one
that has a `<path>` before the slash redirects for ever, and one that ends in two slashes
redirects whom another has redirected already (`RedirectIsServed` names these two, and its
theorem says that there is no third); a callback of the application that throws leaves its
WebSocket connection in `App::websockets_` without a read, so that nothing but the end of
the server removes it (`NoOrphan` and `CloseIsFinal` except it by `cut`); messages of a
WebSocket connection are delivered after its end was reported by a failed write.

## 5. Fairness

Safety needs none. For liveness:

- `Worker`: weak fairness of the worker thread (`Worker`) and of the clock (`Advance`).
  The thread is scheduled by the operating system and its loop takes the first ready
  handler; the asio queue is first in first out, so this is fair to every handler. Nothing
  is assumed of peers or of the acceptor: the properties hold if no byte ever arrives.
- `Server`: weak fairness of the acceptor thread as a whole and of each worker's
  initialisation and exit: threads that the operating system schedules. Nothing is assumed
  of clients or signals, nor that connections are started or finish.

`Exchange`, `AirTravelDB`, `RouteReports`, `OneHop`, `FrontEnd`, `Router` and `WebSocket`
are checked for safety only. For a WebSocket connection nothing better is justified: it
has no deadline, so a silent peer is waited for without end, also after `close()`.

## 6. What is proved

All theorems are about the specifications above, for every value of the constants that
satisfies the named assumptions. Those are weak: sets of connections are finite, bounds
and the timeout are natural numbers, there is at least one worker, every string occurs in
itself, and, for the tables, that the special strings are what they are (the text of `\N` does not encode to itself).

- **Worker** (`WorkerProofs`): `TypeOK`, `DeadlineIsKnown`, `DeadlineOfOpenConn`,
  `GuardedUntilTimeout`. None is inductive alone. `IInv` adds that a connection not yet
  started has no identifier and an open socket, and that a read to be survived was within
  the bound. The heart is `RestartFacts` (the new identifier is in nobody's use, since all
  registered ones are at most `highest`) and `DistinctIds` (until a deadline fires,
  connections in their read cycle have identifiers of their own).
- **Worker implements IdleTimeout** (`WorkerProofs`): `WorkerIsIdleTimeout`, that is
  `Spec => Abstract!Spec`, one lemma per handler. `UntouchedIsKept` is the argument about
  stale identifiers: a cancel removes one table entry, hence at most one watch besides its
  own, and `DistinctIds` makes it none before the first timeout.
- **Server** (`ServerProofs`): `TypeOK`, `QueueLengthExact`, `ReadyBeforeUse`,
  `PickIsLeastLoaded`. The invariant counts connections per worker
  (cardinalities of the sets of connections by home), ties `initCount` to the workers that
  passed the initialisation, and, for the choice, keeps that the best candidate so far is
  not above any worker already compared at the start of the scan, also between the two
  reads of a comparison: during a scan lengths only fall.
- **Exchange** (`ExchangeProofs`): `TypeOK`, `CleanBetweenRequests`, `AnsweredOnce`,
  `AnswerOfRequest`. The invariant follows `res` through the stages: which flags and which
  status it can have while the URL, the headers and the body are read, given the request.
- **AirTravelDB** (`AirTravelDBProofs`): `TypeOK`, `LastLineWins`, `AnswerIsMeant`,
  `RefusedIsAbsent`, `SuggestionsResolve`. The invariant is that the maps hold the last
  lines, that nothing changes or is asked before the loading is over, and that the lists
  are finite, so that a refused search by name means an empty set. A suggestion can be
  followed, if it is sent as it was offered, because what the page offers for a listed
  record is a key of its map, or a name that occurs in itself (`OfferedResolves`).
- **RouteReports** (`RoutesProofs`): `TypeOK`, `RowsAreTouched`, `ReportsAgree`. The
  invariant says what `counts` holds after each turn, as cardinalities of sets of route
  indices. The agreement of the reports is then
  `|F| + |T| = |F \cup T| + |F \cap T|` for the routes from and to the airport.
- **OneHop** (`RoutesProofs`, where it is the instance `Hop`): `RowsAreJourneys` and
  `AllJourneysListed`, of `Hop!Spec`. The invariant `HopInv` says that after n first legs
  the results list the journeys that begin with one of them, each once (`Lists`); the turn
  with a new leg adds a list of other journeys, and sorting permutes (`SortedLists`). That
  journeys are the pairs of a flight to the stop and one from it is `PairsAreJourneys`.
- **FrontEnd** (`FrontEndProofs`): all five properties. A list that is at rest shows the
  right suggestions because, while it was waited for, the youngest of its requests was for
  the text typed last and every answer was older than those that remain
  (`YoungestIsTyped`, which needs that identifiers order the requests, `RequestsOK`). One
  answer is shown at a time because a search that does not overlap is alone and waits
  with an empty panel (`AppendsToNothing`).
- **Router** (`RouterProofs`): `TypeOK`, `FirstRuleAnswers`, `RefusalIsJust`,
  `AllowIsServed`, `RedirectIsServed`, for any rules and urls; `RouterAssumption` asks of
  them only that a path begins with a slash. The inductive invariant ties the lists and
  the tries to the rules: a trie holds for each rule of its method the path with the
  rule's index, for each rule with a slash at its end the path without it as a
  redirection, and nothing else (`IsTrieOf`, `ListsAre`); `AddRule` keeps it because a path
  that is taken fails. What the search then finds is the least index among the nodes whose
  path reads the url (`FindIsRight`). Its step from a node to its children is
  `ReadsOfChild`: after `optimize`, the key of a child is one parameter or a run of
  characters (`KeysOfChildren`), and such a key matches where its pieces read one after
  another. `AlwaysAnswered` says that every answer was the one of these searches, and the
  four properties are read off it. For redirections the work is with what one more slash
  at the end of the url changes: a parameter stays where it was (`EndsStay`) but for
  `<path>`, and so does a reading of a whole path (`ReadsStay`).
- **WebSocket** (`WebSocketProofs`): `TypeOK`, `NoOrphan`, `CloseIsFinal`,
  `MessagesAreWhole`, `FramesApartAreIntact`. There is a lemma for each function of the
  connection and of its output, which says what it keeps, then one for each action. `EndInv`
  ties the flags to the outstanding read and to what was reported, for handlers that ran to
  their end and for those that a callback cut off; `MessageInv` says that what the peer has
  sent and what was made of it differ by the frame that is being read (`Pending`), if that is
  a frame of a message. For the writes, the invariant counts: while none overlapped, at most
  one is under way or over, and no frame that a write had waits for another (`Apart`).

## 7. What is only model-checked, and what is not modelled

Liveness (`FiredIsReleased`, `EndsOrStrands`, `StopReturns`) is
outside of what the proof system does, and so is ENABLED. Every invariant, action property
and refinement that a passing run checks is a theorem. `Router` computes by recursive
functions; the induction theorems of the library take an operator, which the provers cannot
instantiate, so `RouterProofs` states induction about a set of naturals instead
(`SetInduction`, from the well-foundedness of `<`). What stays with TLC beside liveness is
that the special cases do happen: that the bounds reach each action and each exception.

Abstractions that every reader should know: bytes, headers and bodies are classes; the
operating system, the peer and asio are the environment of `Worker` and `Server`, modelled
from how the code uses them; memory and exceptions appear where they change the control
(an HTTP handler that throws ends its connection, a WebSocket callback strands it).

Not modelled:

- blueprints, catch-all rules and middlewares of the router: the application declares none;
- splitting and escaping of CSV, the ZIP archive, JSON, mustache and query strings: pure
  functions on characters and bytes that no modelled property tells apart;
- the byte automaton of the HTTP parser, taken over from Node: only its callbacks;
- middlewares, sessions, compression, multipart: the application uses none;
- several WebSocket connections: `App::websockets_` is changed by all workers and walked over
  by `stop()` without a lock, which is undefined behaviour of the vector, and not a choice
  among outcomes that a model could list;
- the lists ordered by IATA, static pages, source viewer: no state, no interaction;
- static files, streamed bodies (the report of all airports is above the threshold) and
  exceptions of handlers inside `Exchange`.

## 8. Order of the work, and what could follow

The order was: what can fail through interleaving first (Worker, Server, Exchange), then
the application's own logic (tables, reports, one-hop), then the page, the router and the
WebSocket connection. What a team could add, and why it comes last:

1. `Found` of `Exchange` as the abstraction of `Router`: the classes of routes in `Exchange`
   would become sets of urls; neither module says anything new by it.
2. An abstract specification of the exchange (a request is read, then answered once) with
   `Exchange` as its refinement, and one of the load balancer for `Server`.
3. The session store of `crow/middlewares/session.h`, should the application use it.
4. The splitter of `airdp.cpp` and `csv_escape` of `server.cpp` over a small alphabet: pure
   functions, which unit tests reach as well.
5. Exceptions of handlers and static files in `Exchange`; a composition of `Worker` and
   `Exchange`.
