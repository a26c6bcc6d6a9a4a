----------------------------- MODULE RouteReports -----------------------------
(***************************************************************************)
(* The reports of server.cpp over the routes: the airports of an airline,  *)
(* and the airlines of an airport, each with its number of routes.  Both   *)
(* walk over all routes once and count in a map; a step of the model is    *)
(* one turn of that loop.  The rows of the response are the entries of the *)
(* map, by descending count and then by code, which determines their       *)
(* order: the model keeps the map.                                         *)
(*                                                                         *)
(* The routes do not change once requests are served, so reports that run  *)
(* at the same time on several workers do not interfere, and the model     *)
(* makes one after the other.                                              *)
(***************************************************************************)
EXTENDS Integers, Sequences, FiniteSets

CONSTANTS Airlines,   \* codes of airlines in routes.dat and in URLs
          Airports,   \* codes of airports
          Within,     \* <<t, s>>: t occurs in s, whatever the case
          MaxRoutes   \* bound: lines of routes.dat

Codes == Airlines \cup Airports
Route == [airline : Airlines, src : Airports, dst : Airports]

ASSUME ReportsAssumption ==
    /\ MaxRoutes \in Nat
    /\ \A s \in Codes : <<s, s>> \in Within

VARIABLES
    routes,          \* routes_
    job,             \* "loading", "idle", or the kind of the report being made
    key,             \* the code that it is made for
    pos,             \* the route that the loop comes to next
    counts,          \* counts, the map of the loop
    airlineReport,   \* the finished reports, per airline
    airportReport    \* and per airport

vars == <<routes, job, key, pos, counts, airlineReport, airportReport>>

Init ==
    /\ routes = <<>>
    /\ job = "loading"
    /\ key \in Codes
    /\ pos = 1
    /\ counts = <<>>
    /\ airlineReport = <<>>
    /\ airportReport = <<>>

(* LoadRoutesCSV, one line. *)
LoadRoute(r) ==
    /\ job = "loading"
    /\ Len(routes) < MaxRoutes
    /\ routes' = Append(routes, r)
    /\ UNCHANGED <<job, key, pos, counts, airlineReport, airportReport>>

(* The file ends, or could not be opened. *)
CloseFile ==
    /\ job = "loading"
    /\ job' = "idle"
    /\ UNCHANGED <<routes, key, pos, counts, airlineReport, airportReport>>

Start(kind, code) ==
    /\ job = "idle"
    /\ job' = kind
    /\ key' = code
    /\ pos' = 1
    /\ counts' = <<>>
    /\ UNCHANGED <<routes, airlineReport, airportReport>>

(* A report that was made comes out the same again: each is asked for once. *)
AskAirline(a) == a \notin DOMAIN airlineReport /\ Start("airline", a)
AskAirport(p) == p \notin DOMAIN airportReport /\ Start("airport", p)
-----------------------------------------------------------------------------
Put(map, k, v) == [x \in DOMAIN map \cup {k} |-> IF x = k THEN v ELSE map[x]]

(* The entry of x in a map of counts; no entry counts as zero. *)
N(map, x) == IF x \in DOMAIN map THEN map[x] ELSE 0

(* Mutant of Bump: a new entry starts from zero and is not incremented. *)
BumpFromZero(map, x) == Put(map, x, IF x \in DOMAIN map THEN map[x] + 1 ELSE 0)

(* ++counts[x] *)
Bump(map, x) == Put(map, x, N(map, x) + 1)

(* SearchRoutes keeps the routes that have the code in one of their codes,  *)
(* as a part of it and whatever the case.                                  *)
Searched(r) == {<<key, r.airline>>, <<key, r.src>>, <<key, r.dst>>} \cap Within # {}

(* Mutant of Wanted: what the search found is not compared. *)
WantedAsSearched(r) == TRUE

(* The test of the loop. *)
Wanted(r) ==
    \/ job = "airline" /\ r.airline = key
    \/ job = "airport" /\ (r.src = key \/ r.dst = key)

(* Mutant of Counted: an airport report counts both ends of a route. *)
CountedTwice(r) ==
    IF job = "airline" THEN Bump(Bump(counts, r.src), r.dst)
                       ELSE Bump(Bump(counts, r.airline), r.airline)

(* What one route adds: to an airline's report, one at each of its ends. *)
Counted(r) ==
    IF job = "airline" THEN Bump(Bump(counts, r.src), r.dst)
                       ELSE Bump(counts, r.airline)

(* One turn of the loop. *)
CountRoute ==
    /\ job \in {"airline", "airport"}
    /\ pos <= Len(routes)
    /\ counts' = IF Searched(routes[pos]) /\ Wanted(routes[pos])
                 THEN Counted(routes[pos]) ELSE counts
    /\ pos' = pos + 1
    /\ UNCHANGED <<routes, job, key, airlineReport, airportReport>>

(* The loop is over: the response is made of counts. *)
Answer ==
    /\ job \in {"airline", "airport"}
    /\ pos > Len(routes)
    /\ job' = "idle"
    /\ airlineReport' = IF job = "airline" THEN Put(airlineReport, key, counts)
                                           ELSE airlineReport
    /\ airportReport' = IF job = "airport" THEN Put(airportReport, key, counts)
                                           ELSE airportReport
    /\ UNCHANGED <<routes, key, pos, counts>>

Next ==
    \/ \E r \in Route : LoadRoute(r)
    \/ CloseFile
    \/ \E a \in Airlines : AskAirline(a)
    \/ \E p \in Airports : AskAirport(p)
    \/ CountRoute
    \/ Answer

Spec == Init /\ [][Next]_vars
-----------------------------------------------------------------------------
(* A map of counts: no row of a report has the number zero. *)
IsCounts(map, domain) ==
    DOMAIN map \subseteq domain /\ \A x \in DOMAIN map : map[x] \in Nat \ {0}

TypeOK ==
    /\ routes \in Seq(Route)
    /\ job \in {"loading", "idle", "airline", "airport"}
    /\ key \in IF job \in {"airline", "airport"}
               THEN IF job = "airline" THEN Airlines ELSE Airports
               ELSE Codes
    /\ pos \in 1..(Len(routes) + 1)
    /\ IsCounts(counts, Codes)
    /\ DOMAIN airlineReport \subseteq Airlines
    /\ DOMAIN airportReport \subseteq Airports
    /\ \A a \in DOMAIN airlineReport : IsCounts(airlineReport[a], Airports)
    /\ \A p \in DOMAIN airportReport : IsCounts(airportReport[p], Airlines)

Touches(r, p) == r.src = p \/ r.dst = p

(* A report has a row for what its routes touch and for nothing else: the   *)
(* inexact search neither adds a route nor loses one.                      *)
RowsAreTouched ==
    /\ \A a \in DOMAIN airlineReport :
          DOMAIN airlineReport[a] =
              {p \in Airports : \E i \in DOMAIN routes :
                  routes[i].airline = a /\ Touches(routes[i], p)}
    /\ \A p \in DOMAIN airportReport :
          DOMAIN airportReport[p] =
              {a \in Airlines : \E i \in DOMAIN routes :
                  routes[i].airline = a /\ Touches(routes[i], p)}

(* The routes of airline a from p to itself (routes.dat has one). *)
SelfRoutes(a, p) ==
    {i \in DOMAIN routes :
        routes[i].airline = a /\ routes[i].src = p /\ routes[i].dst = p}

(* The two reports agree: the number that an airline's report gives for an  *)
(* airport is the one that the airport's report gives for the airline, but *)
(* for the routes from the airport to itself, which the first counts at    *)
(* both of their ends and the second once.                                 *)
ReportsAgree ==
    \A a \in DOMAIN airlineReport, p \in DOMAIN airportReport :
        N(airlineReport[a], p) = N(airportReport[p], a) + Cardinality(SelfRoutes(a, p))
=============================================================================
