-------------------------------- MODULE OneHop --------------------------------
(***************************************************************************)
(* The search for connections with one stop (server.cpp, the rule          *)
(* /onehop/<src>/<dst>).  One step of the model is one turn of the loop    *)
(* over the first legs; the handler reads tables that no longer change, so *)
(* searches on several workers do not interfere and the model makes one    *)
(* after the other.                                                        *)
(***************************************************************************)
EXTENDS Integers, Sequences, FiniteSets, SequencesExt

CONSTANTS Airports,   \* codes of airports
          Lines,      \* the routes that the lines of routes.dat may hold
          Within,     \* <<t, s>>: t occurs in s, whatever the case
          Miles,      \* per source, stop and destination: the rounded length
          MaxRoutes   \* bound: lines of routes.dat

Route == [src : Airports, dst : Airports, stops : Int]   \* -1: none given

(* What the constants are assumed to be. *)
OneHopAssumption ==
    /\ Lines \subseteq Route
    /\ Miles \in [Airports \X Airports \X Airports -> Nat]
    /\ \A s \in Airports : <<s, s>> \in Within

VARIABLES
    known,     \* the airports that have a record under their IATA code
    routes,    \* routes_
    phase,     \* "loading", "idle", or "searching"
    src, dst,  \* the request
    pos,       \* the route that the loop over the first legs comes to next
    results,   \* the pairs of legs found: indices of routes
    status     \* of the last response, 0 while there is none

vars == <<known, routes, phase, src, dst, pos, results, status>>

Init ==
    /\ known \in SUBSET Airports
    /\ routes = <<>>
    /\ phase = "loading"
    /\ src \in Airports /\ dst = src
    /\ pos = 1
    /\ results = <<>>
    /\ status = 0

(* LoadRoutesCSV, one line. *)
LoadRoute(r) ==
    /\ phase = "loading"
    /\ Len(routes) < MaxRoutes
    /\ routes' = Append(routes, r)
    /\ UNCHANGED <<known, phase, src, dst, pos, results, status>>

(* The file ends, or could not be opened. *)
CloseFile ==
    /\ phase = "loading"
    /\ phase' = "idle"
    /\ UNCHANGED <<known, routes, src, dst, pos, results, status>>
-----------------------------------------------------------------------------
Request(s, d) ==
    /\ phase = "idle"
    /\ src' = s /\ dst' = d
    /\ pos' = 1
    /\ results' = <<>>
    /\ UNCHANGED <<known, routes>>

(* The early returns: an empty list, or "not found". *)
SearchSame(s) ==
    /\ Request(s, s)
    /\ status' = 200
    /\ UNCHANGED phase

SearchUnknown(s, d) ==
    /\ Request(s, d)
    /\ s # d /\ ~({s, d} \subseteq known)
    /\ status' = 404
    /\ UNCHANGED phase

Search(s, d) ==
    /\ Request(s, d)
    /\ s # d /\ {s, d} \subseteq known
    /\ status' = 0
    /\ phase' = "searching"
-----------------------------------------------------------------------------
(* SearchRoutes(src): src occurs in a code of the route. *)
Searched(r) == {<<src, r.src>>, <<src, r.dst>>} \cap Within # {}

FirstLeg(r) == Searched(r) /\ r.src = src /\ r.dst # dst /\ r.stops = 0

(* Mutant of SecondLegs: GetRoutesFromTo without the filter of the stops. *)
SecondLegsUnfiltered(via) ==
    {j \in DOMAIN routes : routes[j].src = via /\ routes[j].dst = dst}

(* GetRoutesFromTo(via, dst), less those with stops. *)
SecondLegs(via) ==
    {j \in DOMAIN routes : routes[j].src = via /\ routes[j].dst = dst /\ routes[j].stops = 0}

(* Mutant of Pairs: only the first of the second legs is taken. *)
FirstPair(i) ==
    IF FirstLeg(routes[i]) /\ routes[i].dst \in known /\ SecondLegs(routes[i].dst) # {}
    THEN <<SetToSeq({i} \X SecondLegs(routes[i].dst))[1]>>
    ELSE <<>>

(* What the turn for leg i appends: the pairs with each second leg; nothing *)
(* if the stop has no record of its own.  In which order does not matter,   *)
(* for std::sort may leave equals in any order (see Sorted).               *)
Pairs(i) ==
    IF FirstLeg(routes[i]) /\ routes[i].dst \in known
    THEN SetToSeq({i} \X SecondLegs(routes[i].dst))
    ELSE <<>>

NextLeg ==
    /\ phase = "searching"
    /\ pos <= Len(routes)
    /\ results' = results \o Pairs(pos)
    /\ pos' = pos + 1
    /\ UNCHANGED <<known, routes, phase, src, dst, status>>

Via(pair)    == routes[pair[1]].dst
Length(pair) == Miles[<<src, Via(pair), dst>>]

Shorter(a, b) == Length(a) < Length(b)

(* What std::sort may leave: a permutation without a pair out of order. *)
Sorted(s) ==
    {[i \in DOMAIN s |-> s[p[i]]] :
        p \in {q \in [DOMAIN s -> DOMAIN s] :
                  \A i, j \in DOMAIN s :
                      i < j => q[i] # q[j] /\ ~Shorter(s[q[j]], s[q[i]])}}

(* The loop is over: the response lists the sorted results. *)
Respond ==
    /\ phase = "searching"
    /\ pos > Len(routes)
    /\ results' \in Sorted(results)
    /\ phase' = "idle"
    /\ status' = 200
    /\ UNCHANGED <<known, routes, src, dst, pos>>

Next ==
    \/ \E r \in Lines : LoadRoute(r)
    \/ CloseFile
    \/ \E s \in Airports : SearchSame(s)
    \/ \E s, d \in Airports : SearchUnknown(s, d) \/ Search(s, d)
    \/ NextLeg
    \/ Respond

Spec == Init /\ [][Next]_vars
-----------------------------------------------------------------------------
Nonstop(a, b) == {i \in DOMAIN routes : routes[i] = [src |-> a, dst |-> b, stops |-> 0]}

Answered == phase = "idle" /\ status = 200

(* Each row of the response is a journey: two nonstop flights, the second   *)
(* from where the first ends, over a known airport that is not the goal.   *)
(* (It may be the source: nothing excludes a route from there to itself.)  *)
RowsAreJourneys ==
    Answered =>
        \A k \in DOMAIN results :
            LET via == Via(results[k]) IN
            /\ results[k][1] \in Nonstop(src, via)
            /\ results[k][2] \in Nonstop(via, dst)
            /\ via \in known \ {dst}

(* No journey is missing and none is listed twice: over each airport there  *)
(* are as many rows as pairs of a flight to it and a flight from it.       *)
AllJourneysListed ==
    Answered /\ src # dst =>
        \A via \in known \ {dst} :
            Cardinality({k \in DOMAIN results : Via(results[k]) = via}) =
                Cardinality(Nonstop(src, via)) * Cardinality(Nonstop(via, dst))

=============================================================================
