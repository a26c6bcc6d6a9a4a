----------------------------- MODULE RoutesProofs -----------------------------
(***************************************************************************)
(* Proofs about the two handlers that walk over the routes, for any routes  *)
(* and any codes.                                                          *)
(*                                                                         *)
(* The reports: the invariant says what the map of a loop has counted when *)
(* the loop has passed the first n routes; a finished report has passed    *)
(* them all.  That the two reports agree is then a fact about sets: a      *)
(* route touches an airport at its source, at its destination, or at both. *)
(*                                                                         *)
(* The one-hop search, as an instance next to them: the invariant says     *)
(* that the results list the journeys that begin with the first n legs,    *)
(* each once; that sorting keeps what is listed; and a journey is a pair   *)
(* of a flight to the stop and a flight from it.                           *)
(***************************************************************************)
EXTENDS Routes, FiniteSetTheorems, TLAPS

(* The routes of airline a, among the first n, that leave or reach p. *)
From(rs, a, p, n) == {i \in 1..n : rs[i].airline = a /\ rs[i].src = p}
To(rs, a, p, n)   == {i \in 1..n : rs[i].airline = a /\ rs[i].dst = p}

(* What the maps of the two kinds of reports hold after n routes. *)
AirlineCounts(rs, map, a, n) ==
    \A p \in Airports :
        /\ p \in DOMAIN map <=> From(rs, a, p, n) \cup To(rs, a, p, n) # {}
        /\ N(map, p) = Cardinality(From(rs, a, p, n)) + Cardinality(To(rs, a, p, n))

AirportCounts(rs, map, p, n) ==
    \A a \in Airlines :
        /\ a \in DOMAIN map <=> From(rs, a, p, n) \cup To(rs, a, p, n) # {}
        /\ N(map, a) = Cardinality(From(rs, a, p, n) \cup To(rs, a, p, n))

LoopCounts ==
    /\ job = "airline" => IsCounts(counts, Airports) /\ AirlineCounts(routes, counts, key, pos - 1)
    /\ job = "airport" => IsCounts(counts, Airlines) /\ AirportCounts(routes, counts, key, pos - 1)

ReportCounts ==
    /\ \A a \in DOMAIN airlineReport : AirlineCounts(routes, airlineReport[a], a, Len(routes))
    /\ \A p \in DOMAIN airportReport : AirportCounts(routes, airportReport[p], p, Len(routes))
    /\ job = "loading" => airlineReport = <<>> /\ airportReport = <<>>

IInv == TypeOK /\ LoopCounts /\ ReportCounts
-----------------------------------------------------------------------------
(* Sets of indices are finite, and the next index is new to them. *)
LEMMA Indices ==
    ASSUME NEW n \in Nat, NEW T \in SUBSET (1..n)
    PROVE  /\ IsFiniteSet(T)
           /\ Cardinality(T) \in Nat
           /\ Cardinality(T \cup {n + 1}) = Cardinality(T) + 1
<1>1. IsFiniteSet(1..n)
      BY FS_Interval
<1>2. IsFiniteSet(T)
      BY <1>1, FS_Subset
<1>3. n + 1 \notin T
      OBVIOUS
<1>. QED BY <1>2, <1>3, FS_CardinalityType, FS_AddElement

(* One more route joins the routes from and to the airports at its ends. *)
LEMMA OneMoreRoute ==
    ASSUME NEW n \in Nat, NEW a, NEW p
    PROVE  LET r == routes[n + 1] IN
           /\ From(routes, a, p, n + 1) = IF r.airline = a /\ r.src = p
                                  THEN From(routes, a, p, n) \cup {n + 1} ELSE From(routes, a, p, n)
           /\ To(routes, a, p, n + 1)   = IF r.airline = a /\ r.dst = p
                                  THEN To(routes, a, p, n) \cup {n + 1} ELSE To(routes, a, p, n)
<1>1. 1..(n + 1) = 1..n \cup {n + 1} /\ n + 1 \notin 1..n
      OBVIOUS
<1>2. CASE routes[n + 1].airline = a
  <2>1. From(routes, a, p, n + 1) = IF routes[n + 1].src = p
                            THEN From(routes, a, p, n) \cup {n + 1} ELSE From(routes, a, p, n)
        BY <1>1, <1>2 DEF From
  <2>2. To(routes, a, p, n + 1) = IF routes[n + 1].dst = p
                          THEN To(routes, a, p, n) \cup {n + 1} ELSE To(routes, a, p, n)
        BY <1>1, <1>2 DEF To
  <2>. QED BY <1>2, <2>1, <2>2
<1>3. CASE routes[n + 1].airline # a
      BY <1>1, <1>3 DEF From, To
<1>. QED BY <1>2, <1>3

(* How the cardinalities grow with the route r. *)
CountsGrow(r, a, p, n) ==
    /\ Cardinality(From(routes, a, p, n)) \in Nat
    /\ Cardinality(To(routes, a, p, n)) \in Nat
    /\ Cardinality(From(routes, a, p, n + 1)) = Cardinality(From(routes, a, p, n))
           + IF r.airline = a /\ r.src = p THEN 1 ELSE 0
    /\ Cardinality(To(routes, a, p, n + 1)) = Cardinality(To(routes, a, p, n))
           + IF r.airline = a /\ r.dst = p THEN 1 ELSE 0
    /\ Cardinality(From(routes, a, p, n + 1) \cup To(routes, a, p, n + 1)) =
           Cardinality(From(routes, a, p, n) \cup To(routes, a, p, n))
           + IF r.airline = a /\ Touches(r, p) THEN 1 ELSE 0

LEMMA OneMoreCount ==
    ASSUME NEW n \in Nat, NEW a, NEW p
    PROVE  CountsGrow(routes[n + 1], a, p, n)
<1> DEFINE r == routes[n + 1]
           F == From(routes, a, p, n)
           T == To(routes, a, p, n)
<1>1. F \subseteq 1..n /\ T \subseteq 1..n
      BY DEF From, To
<1>2. /\ From(routes, a, p, n + 1) = IF r.airline = a /\ r.src = p THEN F \cup {n + 1} ELSE F
      /\ To(routes, a, p, n + 1) = IF r.airline = a /\ r.dst = p THEN T \cup {n + 1} ELSE T
      BY OneMoreRoute
<1>3. /\ Cardinality(F) \in Nat /\ Cardinality(F \cup {n + 1}) = Cardinality(F) + 1
      /\ Cardinality(T) \in Nat /\ Cardinality(T \cup {n + 1}) = Cardinality(T) + 1
      BY <1>1, Indices
<1>4. /\ Cardinality(F \cup T) \in Nat
      /\ Cardinality((F \cup T) \cup {n + 1}) = Cardinality(F \cup T) + 1
  <2>1. F \cup T \in SUBSET (1..n)
        BY <1>1
  <2>. QED BY <2>1, Indices
<1> HIDE DEF F, T, r
<1>5. From(routes, a, p, n + 1) \cup To(routes, a, p, n + 1) =
          IF r.airline = a /\ Touches(r, p) THEN (F \cup T) \cup {n + 1} ELSE F \cup T
  <2>1. CASE r.airline = a /\ r.src = p
        BY <1>2, <2>1 DEF Touches
  <2>2. CASE r.airline = a /\ r.src # p /\ r.dst = p
        BY <1>2, <2>2 DEF Touches
  <2>3. CASE r.airline # a \/ (r.src # p /\ r.dst # p)
        BY <1>2, <2>3 DEF Touches
  <2>. QED BY <2>1, <2>2, <2>3
<1>6. Cardinality(From(routes, a, p, n + 1)) =
          Cardinality(F) + IF r.airline = a /\ r.src = p THEN 1 ELSE 0
      BY <1>2, <1>3
<1>7. Cardinality(To(routes, a, p, n + 1)) =
          Cardinality(T) + IF r.airline = a /\ r.dst = p THEN 1 ELSE 0
      BY <1>2, <1>3
<1>8. Cardinality(From(routes, a, p, n + 1) \cup To(routes, a, p, n + 1)) =
          Cardinality(F \cup T) + IF r.airline = a /\ Touches(r, p) THEN 1 ELSE 0
  <2>1. CASE r.airline = a /\ Touches(r, p)
        BY <1>4, <1>5, <2>1 DEF Touches
  <2>2. CASE ~(r.airline = a /\ Touches(r, p))
    <3>1. From(routes, a, p, n + 1) \cup To(routes, a, p, n + 1) = F \cup T
          BY <1>5, <2>2
    <3>2. Cardinality(F \cup T) + 0 = Cardinality(F \cup T)
          BY <1>4
    <3>. QED BY <2>2, <3>1, <3>2
  <2>. QED BY <2>1, <2>2
<1>. QED BY <1>3, <1>6, <1>7, <1>8 DEF CountsGrow, F, T, r

(* new has one more of x than map. *)
OneMore(new, map, x, D) ==
    /\ IsCounts(new, D)
    /\ DOMAIN new = DOMAIN map \cup {x}
    /\ \A y : N(map, y) \in Nat
    /\ \A y : N(new, y) = N(map, y) + IF y = x THEN 1 ELSE 0

(* ++counts[x] adds one to the entry of x and to no other. *)
LEMMA BumpAddsOne ==
    ASSUME NEW map, NEW D, NEW x \in D, IsCounts(map, D)
    PROVE  OneMore(Bump(map, x), map, x, D)
<1>1. \A y : N(map, y) \in Nat
      BY DEF N, IsCounts
<1>2. /\ DOMAIN Bump(map, x) = DOMAIN map \cup {x}
      /\ \A y \in DOMAIN Bump(map, x) :
            Bump(map, x)[y] = IF y = x THEN N(map, x) + 1 ELSE map[y]
      BY DEF Bump, Put
<1>3. N(map, x) + 1 \in Nat \ {0}
      BY <1>1
<1>4. IsCounts(Bump(map, x), D)
      BY <1>2, <1>3 DEF IsCounts
<1>5. ASSUME NEW y PROVE N(Bump(map, x), y) = N(map, y) + IF y = x THEN 1 ELSE 0
  <2>1. CASE y = x
        BY <1>2, <2>1 DEF N
  <2>2. CASE y # x
        BY <1>1, <1>2, <2>2 DEF N
  <2>. QED BY <2>1, <2>2
<1>. QED BY <1>1, <1>2, <1>4, <1>5 DEF OneMore
-----------------------------------------------------------------------------
(* A code occurs in itself: the search keeps every route that is wanted. *)
LEMMA WantedIsSearched ==
    ASSUME NEW r \in Route, key \in Codes, Wanted(r)
    PROVE  Searched(r)
BY ReportsAssumption DEF Wanted, Searched, Codes

(* One turn of the loop for an airline. *)
LEMMA AirlineTurn ==
    ASSUME NEW map, NEW n \in Nat, NEW a, routes[n + 1] \in Route,
           IsCounts(map, Airports), AirlineCounts(routes, map, a, n)
    PROVE  LET r == routes[n + 1]
               new == IF r.airline = a THEN Bump(Bump(map, r.src), r.dst) ELSE map
           IN  IsCounts(new, Airports) /\ AirlineCounts(routes, new, a, n + 1)
<1> DEFINE r == routes[n + 1]
           one == Bump(map, r.src)
           two == Bump(one, r.dst)
<1>1. r.src \in Airports /\ r.dst \in Airports
      BY DEF Route
<1>2. CASE r.airline # a
  <2>1. \A p : /\ From(routes, a, p, n + 1) = From(routes, a, p, n)
               /\ To(routes, a, p, n + 1) = To(routes, a, p, n)
        BY <1>2, OneMoreRoute
  <2>. QED BY <1>2, <2>1 DEF AirlineCounts
<1>3. CASE r.airline = a
  <2> HIDE DEF r
  <2>1. OneMore(one, map, r.src, Airports)
        BY <1>1, BumpAddsOne
  <2> HIDE DEF one
  <2>2. OneMore(two, one, r.dst, Airports)
    <3>1. IsCounts(one, Airports)
          BY <2>1 DEF OneMore
    <3>. QED BY <1>1, <3>1, BumpAddsOne
  <2> HIDE DEF two
  <2>3. ASSUME NEW p \in Airports
        PROVE  /\ p \in DOMAIN two <=> From(routes, a, p, n + 1) \cup To(routes, a, p, n + 1) # {}
               /\ N(two, p) = Cardinality(From(routes, a, p, n + 1))
                              + Cardinality(To(routes, a, p, n + 1))
    <3>1. /\ p \in DOMAIN map <=> From(routes, a, p, n) \cup To(routes, a, p, n) # {}
          /\ N(map, p) = Cardinality(From(routes, a, p, n)) + Cardinality(To(routes, a, p, n))
          BY DEF AirlineCounts
    <3>2. /\ From(routes, a, p, n + 1) = IF r.src = p
                                          THEN From(routes, a, p, n) \cup {n + 1} ELSE From(routes, a, p, n)
          /\ To(routes, a, p, n + 1) = IF r.dst = p
                                        THEN To(routes, a, p, n) \cup {n + 1} ELSE To(routes, a, p, n)
          BY <1>3, OneMoreRoute DEF r
    <3>3. /\ Cardinality(From(routes, a, p, n)) \in Nat /\ Cardinality(To(routes, a, p, n)) \in Nat
          /\ Cardinality(From(routes, a, p, n + 1)) =
                 Cardinality(From(routes, a, p, n)) + IF r.src = p THEN 1 ELSE 0
          /\ Cardinality(To(routes, a, p, n + 1)) =
                 Cardinality(To(routes, a, p, n)) + IF r.dst = p THEN 1 ELSE 0
      <4>1. CountsGrow(r, a, p, n)
            BY OneMoreCount DEF r
      <4>. QED BY <1>3, <4>1 DEF CountsGrow
    <3>4. p \in DOMAIN two <=> p \in DOMAIN map \/ p = r.src \/ p = r.dst
          BY <2>1, <2>2 DEF OneMore
    <3>5. From(routes, a, p, n + 1) \cup To(routes, a, p, n + 1) # {}
             <=> From(routes, a, p, n) \cup To(routes, a, p, n) # {} \/ p = r.src \/ p = r.dst
          BY <3>2
    <3>6. N(two, p) = N(map, p) + (IF p = r.src THEN 1 ELSE 0) + (IF p = r.dst THEN 1 ELSE 0)
          BY <2>1, <2>2 DEF OneMore
    <3>. QED BY <3>1, <3>3, <3>4, <3>5, <3>6
  <2>. QED BY <1>3, <2>2, <2>3 DEF AirlineCounts, OneMore, r, two, one
<1>. QED BY <1>2, <1>3

(* One turn of the loop for an airport. *)
LEMMA AirportTurn ==
    ASSUME NEW map, NEW n \in Nat, NEW p, routes[n + 1] \in Route,
           IsCounts(map, Airlines), AirportCounts(routes, map, p, n)
    PROVE  LET r == routes[n + 1]
               new == IF Touches(r, p) THEN Bump(map, r.airline) ELSE map
           IN  IsCounts(new, Airlines) /\ AirportCounts(routes, new, p, n + 1)
<1> DEFINE r == routes[n + 1]
           one == Bump(map, r.airline)
<1>1. r.airline \in Airlines
      BY DEF Route
<1>2. CASE ~Touches(r, p)
  <2>1. \A a : /\ From(routes, a, p, n + 1) = From(routes, a, p, n)
               /\ To(routes, a, p, n + 1) = To(routes, a, p, n)
        BY <1>2, OneMoreRoute DEF Touches
  <2>. QED BY <1>2, <2>1 DEF AirportCounts
<1>3. CASE Touches(r, p)
  <2> HIDE DEF r
  <2>1. OneMore(one, map, r.airline, Airlines)
        BY <1>1, BumpAddsOne
  <2> HIDE DEF one
  <2>2. ASSUME NEW a \in Airlines
        PROVE  /\ a \in DOMAIN one <=> From(routes, a, p, n + 1) \cup To(routes, a, p, n + 1) # {}
               /\ N(one, a) = Cardinality(From(routes, a, p, n + 1) \cup To(routes, a, p, n + 1))
    <3>1. /\ a \in DOMAIN map <=> From(routes, a, p, n) \cup To(routes, a, p, n) # {}
          /\ N(map, a) = Cardinality(From(routes, a, p, n) \cup To(routes, a, p, n))
          BY DEF AirportCounts
    <3>2. /\ From(routes, a, p, n + 1) = IF r.airline = a /\ r.src = p
                                 THEN From(routes, a, p, n) \cup {n + 1} ELSE From(routes, a, p, n)
          /\ To(routes, a, p, n + 1) = IF r.airline = a /\ r.dst = p
                               THEN To(routes, a, p, n) \cup {n + 1} ELSE To(routes, a, p, n)
          BY OneMoreRoute DEF r
    <3>3. Cardinality(From(routes, a, p, n + 1) \cup To(routes, a, p, n + 1)) =
              Cardinality(From(routes, a, p, n) \cup To(routes, a, p, n))
              + IF r.airline = a /\ Touches(r, p) THEN 1 ELSE 0
      <4>1. CountsGrow(r, a, p, n)
            BY OneMoreCount DEF r
      <4>. QED BY <4>1 DEF CountsGrow
    <3>4. CASE r.airline = a
          BY <1>3, <2>1, <3>1, <3>2, <3>3, <3>4 DEF OneMore, Touches
    <3>5. CASE r.airline # a
          BY <2>1, <3>1, <3>2, <3>3, <3>5 DEF OneMore
    <3>. QED BY <3>4, <3>5
  <2>. QED BY <1>3, <2>1, <2>2 DEF AirportCounts, OneMore, r, one
<1>. QED BY <1>2, <1>3

(* Before the first route a map is empty and nothing was counted. *)
LEMMA NothingCounted ==
    /\ \A a : IsCounts(<<>>, Airports) /\ AirlineCounts(routes, <<>>, a, 0)
    /\ \A p : IsCounts(<<>>, Airlines) /\ AirportCounts(routes, <<>>, p, 0)
<1>1. \A a, p : From(routes, a, p, 0) = {} /\ To(routes, a, p, 0) = {}
      BY DEF From, To
<1>2. Cardinality({}) = 0
      BY FS_EmptySet
<1>. QED BY <1>1, <1>2 DEF IsCounts, AirlineCounts, AirportCounts, N
-----------------------------------------------------------------------------
LEMMA InitIInv == Init => IInv
BY DEF Init, IInv, TypeOK, LoopCounts, ReportCounts, IsCounts

(* Loading a route disturbs no report: none is made yet. *)
LEMMA LoadingKeepsIInv ==
    ASSUME IInv, (\E r \in Route : LoadRoute(r)) \/ CloseFile
    PROVE  IInv'
<1> USE DEF IInv
<1>1. CASE CloseFile
      BY <1>1 DEF CloseFile, TypeOK, LoopCounts, ReportCounts, Codes
<1>2. ASSUME NEW r \in Route, LoadRoute(r) PROVE IInv'
  <2>1. /\ job = "loading" /\ job' = job /\ pos' = pos /\ key' = key /\ counts' = counts
        /\ airlineReport' = airlineReport /\ airportReport' = airportReport
        BY <1>2 DEF LoadRoute
  <2>2. routes' \in Seq(Route) /\ pos \in 1..(Len(routes') + 1)
        BY <1>2 DEF LoadRoute, TypeOK
  <2>3. airlineReport = <<>> /\ airportReport = <<>>
        BY <2>1 DEF ReportCounts
  <2>4. TypeOK'
        BY <2>1, <2>2 DEF TypeOK
  <2>5. LoopCounts' /\ ReportCounts'
        BY <2>1, <2>3 DEF LoopCounts, ReportCounts
  <2>. QED BY <2>4, <2>5
<1>. QED BY <1>1, <1>2

(* A report begins with an empty map, before the first route. *)
LEMMA StartKeepsIInv ==
    ASSUME IInv, NEW kind \in {"airline", "airport"}, NEW code, Start(kind, code),
           code \in IF kind = "airline" THEN Airlines ELSE Airports
    PROVE  IInv'
<1> USE DEF IInv
<1>1. job' = kind /\ key' = code /\ pos' = 1 /\ counts' = <<>>
      BY DEF Start
<1>2. routes' = routes /\ airlineReport' = airlineReport /\ airportReport' = airportReport
      BY DEF Start
<1>3. IsCounts(<<>>, Codes)
      BY DEF IsCounts
<1>4. 1 \in 1..(Len(routes) + 1)
      BY DEF TypeOK
<1>5. code \in Codes
      BY DEF Codes
<1>6. TypeOK'
      BY <1>1, <1>2, <1>3, <1>4, <1>5 DEF TypeOK
<1>7. LoopCounts'
  <2>1. pos' - 1 = 0
        BY <1>1
  <2>. QED BY <1>1, <1>2, <2>1, NothingCounted DEF LoopCounts
<1>8. ReportCounts'
      BY <1>1, <1>2 DEF ReportCounts
<1>. QED BY <1>6, <1>7, <1>8

LEMMA AskKeepsIInv ==
    ASSUME IInv, (\E a \in Airlines : AskAirline(a)) \/ (\E p \in Airports : AskAirport(p))
    PROVE  IInv'
<1>1. ASSUME NEW a \in Airlines, AskAirline(a) PROVE IInv'
      BY <1>1, StartKeepsIInv DEF AskAirline
<1>2. ASSUME NEW p \in Airports, AskAirport(p) PROVE IInv'
      BY <1>2, StartKeepsIInv DEF AskAirport
<1>. QED BY <1>1, <1>2

LEMMA CountRouteKeepsIInv ==
    ASSUME IInv, CountRoute
    PROVE  IInv'
<1> USE DEF IInv
<1> DEFINE r == routes[pos]
           n == pos - 1
<1>1. /\ job \in {"airline", "airport"} /\ pos \in 1..Len(routes)
      /\ job' = job /\ key' = key /\ routes' = routes /\ pos' = pos + 1
      /\ airlineReport' = airlineReport /\ airportReport' = airportReport
      BY DEF CountRoute, TypeOK
<1>2. r \in Route /\ n \in Nat /\ n + 1 = pos /\ pos' - 1 = n + 1 /\ Len(routes) \in Nat
      BY <1>1 DEF TypeOK
<1>3. key \in Codes
      BY DEF TypeOK, Codes
<1>4. counts' = IF Wanted(r) THEN Counted(r) ELSE counts
      BY <1>2, <1>3, WantedIsSearched DEF CountRoute
<1>5. ReportCounts'
      BY <1>1 DEF ReportCounts
<1>6. CASE job = "airline"
  <2>1. counts' = IF r.airline = key THEN Bump(Bump(counts, r.src), r.dst) ELSE counts
        BY <1>4, <1>6 DEF Wanted, Counted
  <2>2. IsCounts(counts', Airports) /\ AirlineCounts(routes, counts', key, n + 1)
        BY <1>2, <1>6, <2>1, AirlineTurn DEF LoopCounts
  <2>3. LoopCounts'
        BY <1>1, <1>2, <1>6, <2>2 DEF LoopCounts
  <2>4. TypeOK'
        BY <1>1, <1>2, <2>2 DEF TypeOK, IsCounts, Codes
  <2>. QED BY <1>5, <2>3, <2>4
<1>7. CASE job = "airport"
  <2>1. counts' = IF Touches(r, key) THEN Bump(counts, r.airline) ELSE counts
        BY <1>4, <1>7 DEF Wanted, Counted, Touches
  <2>2. IsCounts(counts', Airlines) /\ AirportCounts(routes, counts', key, n + 1)
        BY <1>2, <1>7, <2>1, AirportTurn DEF LoopCounts
  <2>3. LoopCounts'
        BY <1>1, <1>2, <1>7, <2>2 DEF LoopCounts
  <2>4. TypeOK'
        BY <1>1, <1>2, <2>2 DEF TypeOK, IsCounts, Codes
  <2>. QED BY <1>5, <2>3, <2>4
<1>. QED BY <1>1, <1>6, <1>7

(* When the loop is over it has passed every route. *)
LEMMA AnswerKeepsIInv ==
    ASSUME IInv, Answer
    PROVE  IInv'
<1> USE DEF IInv
<1>1. /\ job \in {"airline", "airport"} /\ job' = "idle" /\ key' = key /\ pos' = pos
      /\ routes' = routes /\ counts' = counts /\ pos - 1 = Len(routes)
      BY DEF Answer, TypeOK
<1>2. CASE job = "airline"
  <2>1. airlineReport' = Put(airlineReport, key, counts) /\ airportReport' = airportReport
        BY <1>2 DEF Answer
  <2>2. /\ IsCounts(counts, Airports)
        /\ AirlineCounts(routes, counts, key, Len(routes))
        /\ key \in Airlines
        BY <1>1, <1>2 DEF LoopCounts, TypeOK
  <2>3. TypeOK'
        BY <1>1, <1>2, <2>1, <2>2 DEF TypeOK, Put, Codes
  <2>4. ReportCounts'
        BY <1>1, <2>1, <2>2 DEF ReportCounts, Put
  <2>. QED BY <1>1, <2>3, <2>4 DEF LoopCounts
<1>3. CASE job = "airport"
  <2>1. airportReport' = Put(airportReport, key, counts) /\ airlineReport' = airlineReport
        BY <1>3 DEF Answer
  <2>2. /\ IsCounts(counts, Airlines)
        /\ AirportCounts(routes, counts, key, Len(routes))
        /\ key \in Airports
        BY <1>1, <1>3 DEF LoopCounts, TypeOK
  <2>3. TypeOK'
        BY <1>1, <1>3, <2>1, <2>2 DEF TypeOK, Put, Codes
  <2>4. ReportCounts'
        BY <1>1, <2>1, <2>2 DEF ReportCounts, Put
  <2>. QED BY <1>1, <2>3, <2>4 DEF LoopCounts
<1>. QED BY <1>1, <1>2, <1>3

(* The strengthened invariant of a report always holds. *)
THEOREM Invariance == Spec => []IInv
<1>1. Init => IInv
      BY InitIInv
<1>2. IInv /\ [Next]_vars => IInv'
  <2>1. CASE UNCHANGED vars
        BY <2>1 DEF vars, IInv, TypeOK, LoopCounts, ReportCounts
  <2>. QED BY <2>1, LoadingKeepsIInv, AskKeepsIInv, CountRouteKeepsIInv, AnswerKeepsIInv DEF Next
<1>. QED BY <1>1, <1>2, PTL DEF Spec
-----------------------------------------------------------------------------
(* The maps of the reports have no entry of zero and no foreign code. *)
THEOREM ReportsAreTyped == Spec => []TypeOK
<1>1. IInv => TypeOK
      BY DEF IInv
<1>. QED BY <1>1, Invariance, PTL

(* server.cpp, SearchRoutes and the test after it: a report has a row for    *)
(* whatever its routes touch and for nothing else.                         *)
THEOREM ReportsHaveTheirRows == Spec => []RowsAreTouched
<1>1. IInv => RowsAreTouched
  <2> SUFFICES ASSUME IInv PROVE RowsAreTouched
      OBVIOUS
  <2>1. DOMAIN routes = 1..Len(routes)
        BY DEF IInv, TypeOK
  <2>2. \A a, p : From(routes, a, p, Len(routes)) \cup To(routes, a, p, Len(routes)) # {}
                    <=> \E i \in DOMAIN routes : routes[i].airline = a /\ Touches(routes[i], p)
        BY <2>1 DEF From, To, Touches
  <2>3. ASSUME NEW a \in DOMAIN airlineReport
        PROVE  DOMAIN airlineReport[a] =
                  {p \in Airports : \E i \in DOMAIN routes :
                      routes[i].airline = a /\ Touches(routes[i], p)}
    <3>1. DOMAIN airlineReport[a] \subseteq Airports
          BY DEF IInv, TypeOK, IsCounts
    <3>. QED BY <2>2, <3>1 DEF IInv, ReportCounts, AirlineCounts
  <2>4. ASSUME NEW p \in DOMAIN airportReport
        PROVE  DOMAIN airportReport[p] =
                  {a \in Airlines : \E i \in DOMAIN routes :
                      routes[i].airline = a /\ Touches(routes[i], p)}
    <3>1. DOMAIN airportReport[p] \subseteq Airlines
          BY DEF IInv, TypeOK, IsCounts
    <3>. QED BY <2>2, <3>1 DEF IInv, ReportCounts, AirportCounts
  <2>. QED BY <2>3, <2>4 DEF RowsAreTouched
<1>. QED BY <1>1, Invariance, PTL

(* server.cpp: the numbers of the two reports agree but for the routes from  *)
(* an airport to itself: |F| + |T| = |F \cup T| + |F \cap T|.               *)
THEOREM ReportsDoAgree == Spec => []ReportsAgree
<1>1. IInv => ReportsAgree
  <2> SUFFICES ASSUME IInv, NEW a \in DOMAIN airlineReport, NEW p \in DOMAIN airportReport
               PROVE  N(airlineReport[a], p) =
                          N(airportReport[p], a) + Cardinality(SelfRoutes(a, p))
      BY DEF ReportsAgree
  <2> DEFINE n == Len(routes)
             F == From(routes, a, p, n)
             T == To(routes, a, p, n)
  <2>1. n \in Nat /\ DOMAIN routes = 1..n /\ a \in Airlines /\ p \in Airports
        BY DEF IInv, TypeOK
  <2>2. N(airlineReport[a], p) = Cardinality(F) + Cardinality(T)
        BY <2>1 DEF IInv, ReportCounts, AirlineCounts
  <2>3. N(airportReport[p], a) = Cardinality(F \cup T)
        BY <2>1 DEF IInv, ReportCounts, AirportCounts
  <2>4. SelfRoutes(a, p) = F \cap T
        BY <2>1 DEF SelfRoutes, From, To
  <2>5. F \in SUBSET (1..n) /\ T \in SUBSET (1..n)
        BY DEF From, To
  <2>6. /\ IsFiniteSet(F) /\ IsFiniteSet(T)
        /\ Cardinality(F) \in Nat /\ Cardinality(T) \in Nat
        BY <2>1, <2>5, Indices
  <2>7. F \cap T \in SUBSET (1..n)
        BY <2>5
  <2>8. Cardinality(F \cap T) \in Nat
        BY <2>1, <2>7, Indices
  <2>9. Cardinality(F \cup T) = Cardinality(F) + Cardinality(T) - Cardinality(F \cap T)
        BY <2>6, FS_Union
  <2> HIDE DEF F, T
  <2>. QED BY <2>2, <2>3, <2>4, <2>6, <2>8, <2>9
<1>. QED BY <1>1, Invariance, PTL
-----------------------------------------------------------------------------
(* The one-hop search. *)

(* The sequence s lists the set S: each of its elements, and once. *)
Lists(s, S) ==
    /\ s \in Seq(S)
    /\ \A x \in S : \E k \in DOMAIN s : s[k] = x
    /\ \A j, k \in DOMAIN s : s[j] = s[k] => j = k

(* Nothing lists nothing, and two lists of different things list both. *)
LEMMA ListsNone == Lists(<<>>, {})
BY DEF Lists

LEMMA ListsBoth ==
    ASSUME NEW s, NEW S, NEW t, NEW T, Lists(s, S), Lists(t, T), S \cap T = {}
    PROVE  Lists(s \o t, S \cup T)
<1>1. s \in Seq(S \cup T) /\ t \in Seq(S \cup T)
  BY DEF Lists
<1>2. /\ s \o t \in Seq(S \cup T)
      /\ DOMAIN (s \o t) = 1..(Len(s) + Len(t))
      /\ Len(s) \in Nat /\ Len(t) \in Nat
      /\ DOMAIN s = 1..Len(s) /\ DOMAIN t = 1..Len(t)
      /\ \A k \in 1..(Len(s) + Len(t)) : (s \o t)[k] = IF k <= Len(s) THEN s[k] ELSE t[k - Len(s)]
  BY <1>1
<1> DEFINE st == s \o t
<1> HIDE DEF st
<1>3. ASSUME NEW x \in S \cup T PROVE \E k \in DOMAIN st : st[k] = x
  <2>1. CASE x \in S
    <3>1. PICK k \in DOMAIN s : s[k] = x
      BY <2>1 DEF Lists
    <3> QED BY <1>2, <3>1 DEF st
  <2>2. CASE x \in T
    <3>1. PICK k \in DOMAIN t : t[k] = x
      BY <2>2 DEF Lists
    <3>2. k + Len(s) \in DOMAIN st /\ st[k + Len(s)] = t[k]
      BY <1>2 DEF st
    <3> QED BY <3>1, <3>2
  <2> QED BY <2>1, <2>2
<1>4. \A k \in DOMAIN s : s[k] \in S
  BY <1>2 DEF Lists
<1>5. \A k \in DOMAIN t : t[k] \in T
  BY <1>2 DEF Lists
<1>6. ASSUME NEW j \in DOMAIN st, NEW k \in DOMAIN st, st[j] = st[k] PROVE j = k
  <2>1. CASE j <= Len(s) /\ k <= Len(s)
    BY <1>2, <1>6, <2>1 DEF st, Lists
  <2>2. CASE j > Len(s) /\ k > Len(s)
    <3>1. j - Len(s) \in DOMAIN t /\ k - Len(s) \in DOMAIN t /\ t[j - Len(s)] = t[k - Len(s)]
      BY <1>2, <1>6, <2>2 DEF st
    <3>2. j - Len(s) = k - Len(s)
      BY <3>1 DEF Lists
    <3> QED BY <1>2, <3>2 DEF st
  <2>3. CASE ~(j <= Len(s) <=> k <= Len(s))
    BY <1>2, <1>4, <1>5, <1>6, <2>3 DEF st
  <2> QED BY <1>2, <2>1, <2>2, <2>3 DEF st
<1> QED BY <1>2, <1>3, <1>6 DEF Lists, st

(* The instance counts as this module does. *)
LEMMA HopCardinality == \A S : Hop!Cardinality(S) = Cardinality(S)
BY DEF Hop!Cardinality, Cardinality

(* SetToSeq lists a finite set. *)
LEMMA SetToSeqLists ==
    ASSUME NEW S, IsFiniteSet(S)
    PROVE  Lists(Hop!SetToSeq(S), S)
<1> DEFINE n == Cardinality(S)
           s == Hop!SetToSeq(S)
<1>1. n \in Nat /\ ExistsBijection(1..n, S)
  BY FS_CardinalityType
<1>2. PICK f \in [1..n -> S] : /\ \A x \in S : \E k \in 1..n : f[k] = x
                               /\ \A j, k \in 1..n : f[j] = f[k] => j = k
  BY <1>1 DEF ExistsBijection, Bijection, Injection, Surjection, IsInjective
<1>3. Hop!IsInjective(f) /\ Hop!Cardinality(S) = n
  BY <1>2, HopCardinality DEF Hop!IsInjective
<1>4. s \in [1..n -> S] /\ Hop!IsInjective(s)
  BY <1>3 DEF Hop!SetToSeq
<1>5. s \in Injection(1..n, S)
  BY <1>4 DEF Injection, Hop!IsInjective, IsInjective
<1>6. s \in Surjection(1..n, S)
  <2>1. IsFiniteSet(1..n) /\ Cardinality(1..n) = n
    BY <1>1, FS_Interval
  <2> QED BY <1>5, <2>1, FS_Injection
<1>7. s \in Seq(S) /\ DOMAIN s = 1..n
  BY <1>1, <1>4
<1> QED BY <1>4, <1>6, <1>7 DEF Lists, Surjection, Hop!IsInjective

(* Sorting keeps what is listed. *)
LEMMA SortedLists ==
    ASSUME NEW s, NEW S, NEW t \in Hop!Sorted(s), Lists(s, S)
    PROVE  Lists(t, S)
<1> DEFINE D == DOMAIN s
<1>1. D = 1..Len(s) /\ Len(s) \in Nat
  BY DEF Lists
<1>2. PICK p \in [D -> D] : /\ \A i, j \in D : i < j => p[i] # p[j]
                            /\ t = [i \in D |-> s[p[i]]]
  BY DEF Hop!Sorted
<1>3. \A i, j \in D : p[i] = p[j] => i = j
  BY <1>1, <1>2
<1>4. p \in Injection(D, D)
  BY <1>3 DEF Injection, IsInjective
<1>5. IsFiniteSet(D)
  BY <1>1, FS_Interval
<1>6. \A k \in D : \E i \in D : p[i] = k
  BY <1>4, <1>5, FS_Injection DEF Surjection
<1>7. t \in Seq(S) /\ DOMAIN t = D
  BY <1>1, <1>2 DEF Lists
<1> QED BY <1>2, <1>3, <1>6, <1>7 DEF Lists
-----------------------------------------------------------------------------
(* The pairs of legs that a search over the first n routes must find. *)
Journeys(n) ==
    {p \in (1..n) \X (DOMAIN legs) :
        /\ legs[p[1]].src = src /\ legs[p[1]].stops = 0 /\ legs[p[1]].dst \in known \ {dst}
        /\ p[2] \in Hop!SecondLegs(legs[p[1]].dst)}

(* What the results list, while the loop goes on and when it has ended. *)
HopInv ==
    /\ legs \in Seq(Hop!Route)
    /\ leg \in 1..(Len(legs) + 1)
    /\ phase \in {"loading", "idle", "searching"}
    /\ phase = "loading" => leg = 1 /\ status = 0
    /\ phase = "searching" => src # dst /\ Lists(results, Journeys(leg - 1))
    /\ phase = "idle" /\ status = 200 =>
           IF src = dst THEN results = <<>> ELSE Lists(results, Journeys(Len(legs)))

(* One turn of the loop finds the journeys that begin with that leg: the    *)
(* inexact search before it loses none.                                    *)
LEMMA PairsAreJourneys ==
    ASSUME HopInv, NEW n \in Nat, n + 1 \in DOMAIN legs
    PROVE  \E T : /\ Lists(Hop!Pairs(n + 1), T)
                  /\ Journeys(n) \cap T = {}
                  /\ Journeys(n + 1) = Journeys(n) \cup T
<1> DEFINE r == legs[n + 1]
           wanted == r.src = src /\ r.stops = 0 /\ r.dst \in known \ {dst}
           T == IF wanted THEN {n + 1} \X Hop!SecondLegs(r.dst) ELSE {}
<1>1. r \in Hop!Route
  BY DEF HopInv
<1>2. Hop!FirstLeg(r) /\ r.dst \in known <=> wanted
  <2>1. r.src = src => Hop!Searched(r)
    BY <1>1, HopAssumption DEF Hop!Searched, Hop!OneHopAssumption, Hop!Route
  <2> QED BY <2>1 DEF Hop!FirstLeg
<1>3. Lists(Hop!Pairs(n + 1), T)
  <2>1. CASE wanted
    <3>1. Hop!SecondLegs(r.dst) \subseteq 1..Len(legs) /\ Len(legs) \in Nat
      BY DEF Hop!SecondLegs, HopInv
    <3>2. IsFiniteSet({n + 1} \X Hop!SecondLegs(r.dst))
      <4>1. IsFiniteSet(1..Len(legs))
        BY <3>1, FS_Interval
      <4>2. IsFiniteSet(Hop!SecondLegs(r.dst))
        BY <3>1, <4>1, FS_Subset
      <4> QED BY <4>2, FS_Singleton, FS_Product
    <3>3. Hop!Pairs(n + 1) = Hop!SetToSeq(T)
      BY <1>2, <2>1 DEF Hop!Pairs
    <3> QED BY <2>1, <3>2, <3>3, SetToSeqLists
  <2>2. CASE ~wanted
    <3>1. Hop!Pairs(n + 1) = <<>> /\ T = {}
      BY <1>2, <2>2 DEF Hop!Pairs
    <3> QED BY <3>1, ListsNone
  <2> QED BY <2>1, <2>2
<1>4. Journeys(n) \cap T = {}
  BY DEF Journeys
<1>5. Journeys(n + 1) = Journeys(n) \cup T
  <2>1. 1..(n + 1) = (1..n) \cup {n + 1}
    OBVIOUS
  <2>2. Hop!SecondLegs(r.dst) \subseteq DOMAIN legs
    BY DEF Hop!SecondLegs
  <2>3. ASSUME NEW q \in Journeys(n + 1) PROVE q \in Journeys(n) \cup T
    BY <2>1 DEF Journeys
  <2>4. Journeys(n) \subseteq Journeys(n + 1)
    BY <2>1 DEF Journeys
  <2>5. T \subseteq Journeys(n + 1)
    BY <2>1, <2>2 DEF Journeys
  <2> QED BY <2>3, <2>4, <2>5
<1> HIDE DEF T
<1> QED BY <1>3, <1>4, <1>5

(* The search keeps to it: with a second leg at hand, and when sorting. *)
LEMMA HopInduction == Hop!Spec => []HopInv
<1>1. Hop!Init => HopInv
  BY DEF Hop!Init, HopInv
<1>2. HopInv /\ [Hop!Next]_Hop!vars => HopInv'
  <2> SUFFICES ASSUME HopInv, [Hop!Next]_Hop!vars PROVE HopInv'
    OBVIOUS
  <2>0. legs \in Seq(Hop!Route) /\ Len(legs) \in Nat /\ leg \in Nat
    BY DEF HopInv
  <2>1. ASSUME NEW r \in HopLines, Hop!LoadRoute(r) PROVE HopInv'
    <3>1. r \in Hop!Route
      BY HopAssumption DEF Hop!OneHopAssumption
    <3>2. phase = "loading" /\ legs' = Append(legs, r) /\ UNCHANGED <<phase, leg, status>>
      BY <2>1 DEF Hop!LoadRoute
    <3>3. legs' \in Seq(Hop!Route) /\ Len(legs') = Len(legs) + 1
      BY <2>0, <3>1, <3>2
    <3> QED BY <2>0, <3>2, <3>3 DEF HopInv
  <2>2. CASE Hop!CloseFile
    BY <2>2 DEF Hop!CloseFile, HopInv
  <2>3. ASSUME NEW s \in HopAirports, Hop!SearchSame(s) PROVE HopInv'
    BY <2>0, <2>3 DEF Hop!SearchSame, Hop!Request, HopInv
  <2>4. ASSUME NEW s \in HopAirports, NEW d \in HopAirports, Hop!SearchUnknown(s, d) PROVE HopInv'
    BY <2>0, <2>4 DEF Hop!SearchUnknown, Hop!Request, HopInv
  <2>5. ASSUME NEW s \in HopAirports, NEW d \in HopAirports, Hop!Search(s, d) PROVE HopInv'
    <3>1. /\ results' = <<>> /\ leg' = 1 /\ src' # dst' /\ phase' = "searching"
          /\ UNCHANGED legs
      BY <2>5 DEF Hop!Search, Hop!Request
    <3>2. Journeys(leg - 1)' = {}
      BY <3>1 DEF Journeys
    <3>3. Lists(results, Journeys(leg - 1))'
      BY <3>1, <3>2, ListsNone
    <3> QED BY <2>0, <3>1, <3>3 DEF HopInv
  <2>6. CASE Hop!NextLeg
    <3>1. /\ phase = "searching" /\ leg <= Len(legs)
          /\ results' = results \o Hop!Pairs(leg) /\ leg' = leg + 1
          /\ UNCHANGED <<known, legs, phase, src, dst, status>>
      BY <2>6 DEF Hop!NextLeg
    <3>2. leg - 1 \in Nat /\ (leg - 1) + 1 = leg /\ leg \in DOMAIN legs
      BY <2>0, <3>1 DEF HopInv
    <3>3. PICK T : /\ Lists(Hop!Pairs(leg), T)
                   /\ Journeys(leg - 1) \cap T = {}
                   /\ Journeys(leg) = Journeys(leg - 1) \cup T
      BY <3>2, PairsAreJourneys
    <3>4. Lists(results', Journeys(leg))
      BY <3>1, <3>3, ListsBoth DEF HopInv
    <3>5. Journeys(leg - 1)' = Journeys(leg)
      <4>1. leg' - 1 = leg
        BY <2>0, <3>1
      <4> QED BY <3>1, <4>1 DEF Journeys, Hop!SecondLegs
    <3>6. Lists(results, Journeys(leg - 1))'
      BY <3>4, <3>5
    <3> QED BY <2>0, <3>1, <3>6 DEF HopInv
  <2>7. CASE Hop!Respond
    <3>1. /\ phase = "searching" /\ leg > Len(legs) /\ results' \in Hop!Sorted(results)
          /\ phase' = "idle" /\ status' = 200
          /\ UNCHANGED <<known, legs, src, dst, leg>>
      BY <2>7 DEF Hop!Respond
    <3>2. leg - 1 = Len(legs)
      BY <2>0, <3>1 DEF HopInv
    <3>3. Lists(results', Journeys(Len(legs)))
      BY <3>1, <3>2, SortedLists DEF HopInv
    <3>4. Journeys(Len(legs))' = Journeys(Len(legs))
      BY <3>1 DEF Journeys, Hop!SecondLegs
    <3>5. Lists(results, Journeys(Len(legs)))'
      BY <3>3, <3>4
    <3> QED BY <2>0, <3>1, <3>5 DEF HopInv
  <2>8. CASE UNCHANGED Hop!vars
    BY <2>8 DEF Hop!vars, HopInv, Journeys, Hop!SecondLegs
  <2> QED BY <2>1, <2>2, <2>3, <2>4, <2>5, <2>6, <2>7, <2>8 DEF Hop!Next
<1> QED BY <1>1, <1>2, PTL DEF Hop!Spec
-----------------------------------------------------------------------------
(* server.cpp, /onehop: each row of the response is a journey of two        *)
(* nonstop flights over a known airport that is not the goal.              *)
THEOREM HopRowsAreJourneys == Hop!Spec => []RowsAreJourneys
<1>1. HopInv => RowsAreJourneys
  <2> SUFFICES ASSUME HopInv, Hop!Answered, NEW k \in DOMAIN results
               PROVE  LET via == Hop!Via(results[k]) IN
                      /\ results[k][1] \in Hop!Nonstop(src, via)
                      /\ results[k][2] \in Hop!Nonstop(via, dst)
                      /\ via \in known \ {dst}
    BY DEF RowsAreJourneys, Hop!RowsAreJourneys
  <2>1. Lists(results, Journeys(Len(legs)))
    BY DEF HopInv, Hop!Answered
  <2>2. results[k] \in Journeys(Len(legs))
    BY <2>1 DEF Lists
  <2>3. \A r \in Hop!Route : r = [src |-> r.src, dst |-> r.dst, stops |-> r.stops]
    BY DEF Hop!Route
  <2>4. DOMAIN legs = 1..Len(legs) /\ \A i \in 1..Len(legs) : legs[i] \in Hop!Route
    BY DEF HopInv
  <2> QED BY <2>2, <2>3, <2>4 DEF Journeys, Hop!SecondLegs, Hop!Via, Hop!Nonstop
<1> QED BY <1>1, HopInduction, PTL

(* server.cpp, /onehop: no journey is missing and none is listed twice,     *)
(* however the rows are sorted.                                            *)
THEOREM HopListsAllJourneys == Hop!Spec => []AllJourneysListed
<1>1. HopInv => AllJourneysListed
  <2> SUFFICES ASSUME HopInv, Hop!Answered, src # dst, NEW via \in known \ {dst}
               PROVE  Hop!Cardinality({k \in DOMAIN results : Hop!Via(results[k]) = via}) =
                        Hop!Cardinality(Hop!Nonstop(src, via))
                            * Hop!Cardinality(Hop!Nonstop(via, dst))
    BY DEF AllJourneysListed, Hop!AllJourneysListed
  <2> DEFINE A == Hop!Nonstop(src, via)
             B == Hop!Nonstop(via, dst)
             K == {k \in DOMAIN results : Hop!Via(results[k]) = via}
  <2>1. Lists(results, Journeys(Len(legs)))
    BY DEF HopInv, Hop!Answered
  <2>2. legs \in Seq(Hop!Route) /\ DOMAIN legs = 1..Len(legs) /\ Len(legs) \in Nat
    BY DEF HopInv
  <2>3. \A a, b : \A i \in DOMAIN legs :
           i \in Hop!Nonstop(a, b) <=> legs[i].src = a /\ legs[i].dst = b /\ legs[i].stops = 0
    <3>1. \A r \in Hop!Route : \A a, b :
             r = [src |-> a, dst |-> b, stops |-> 0] <=> r.src = a /\ r.dst = b /\ r.stops = 0
      BY DEF Hop!Route
    <3>2. \A i \in DOMAIN legs : legs[i] \in Hop!Route
      BY <2>2
    <3> QED BY <3>1, <3>2 DEF Hop!Nonstop
  <2>4. A \subseteq DOMAIN legs /\ B \subseteq DOMAIN legs
    BY DEF Hop!Nonstop
  <2>5. IsFiniteSet(A) /\ IsFiniteSet(B)
    <3>1. IsFiniteSet(DOMAIN legs)
      BY <2>2, FS_Interval
    <3> QED BY <2>4, <3>1, FS_Subset
  <2>6. IsFiniteSet(A \X B) /\ Cardinality(A \X B) = Cardinality(A) * Cardinality(B)
    BY <2>5, FS_Product
  <2>7. \A p \in Journeys(Len(legs)) : Hop!Via(p) = via <=> p \in A \X B
    BY <2>2, <2>3 DEF Journeys, Hop!SecondLegs, Hop!Via
  <2>8. A \X B \subseteq Journeys(Len(legs))
    BY <2>2, <2>3, <2>4 DEF Journeys, Hop!SecondLegs
  <2> HIDE DEF A, B
  <2> DEFINE f == [k \in K |-> results[k]]
  <2>9. \A k \in DOMAIN results : results[k] \in Journeys(Len(legs))
    BY <2>1 DEF Lists
  <2>10. f \in Bijection(K, A \X B)
    <3>1. f \in [K -> A \X B]
      BY <2>7, <2>9
    <3>2. \A j, k \in K : f[j] = f[k] => j = k
      BY <2>1 DEF Lists
    <3>3. \A p \in A \X B : \E k \in K : f[k] = p
      <4> TAKE p \in A \X B
      <4>1. PICK k \in DOMAIN results : results[k] = p
        BY <2>1, <2>8 DEF Lists
      <4>2. Hop!Via(p) = via
        BY <2>7, <2>8
      <4> QED BY <4>1, <4>2
    <3> HIDE DEF f, K
    <3> QED BY <3>1, <3>2, <3>3 DEF Bijection, Injection, Surjection, IsInjective
  <2>11. IsFiniteSet(K)
    <3>1. K \subseteq 1..Len(results) /\ Len(results) \in Nat
      BY <2>1 DEF Lists
    <3> QED BY <3>1, FS_Interval, FS_Subset
  <2>12. Cardinality(A \X B) = Cardinality(K)
    BY <2>10, <2>11, FS_Bijection DEF ExistsBijection
  <2> QED BY <2>6, <2>12, HopCardinality DEF A, B
<1> QED BY <1>1, HopInduction, PTL
=============================================================================
