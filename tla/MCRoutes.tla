------------------------------- MODULE MCRoutes -------------------------------
(* The two handlers that walk over the routes, on small tables.  They only  *)
(* read, so a behaviour of this run makes one of them walk, chosen at the  *)
(* start; the variables of the other one stay as they are.                 *)
(*                                                                         *)
(* The reports: two airlines and two airports; the code of the first       *)
(* airline occurs in those of the second and of an airport, as "I" would   *)
(* in "IL" and "PIN".  The one-hop search: three airports; over "b" the    *)
(* way is longer.  The routes offer from "a" to "c" a stop at "b", one at  *)
(* "a" itself (as routes.dat does for PKN) and one at "c", which must not  *)
(* count.                                                                  *)
EXTENDS Routes

CONSTANTS I, IL, PIN, ATL

MCWithin == {<<s, s>> : s \in {I, IL, PIN, ATL}} \cup {<<I, IL>>, <<I, PIN>>}

MCHopWithin == {<<p, p>> : p \in HopAirports}

Between(p, q) == IF p = q THEN 0 ELSE IF {p, q} = {"a", "c"} THEN 3 ELSE 2

MCHopMiles ==
    [t \in HopAirports \X HopAirports \X HopAirports |-> Between(t[1], t[2]) + Between(t[2], t[3])]

Fly(p, q, n) == [src |-> p, dst |-> q, stops |-> n]

MCHopLines ==
    {Fly("a", "a", 0), Fly("a", "b", 0), Fly("a", "b", 1), Fly("a", "c", 0),
     Fly("b", "c", 0), Fly("b", "c", -1), Fly("c", "c", 0)}

VARIABLE walker

MCInit ==
    /\ walker \in {"reports", "onehop"}
    /\ Init
    /\ Hop!Init
    /\ walker = "reports" => known = {} /\ src = "a"
    /\ walker = "onehop" => key = I

MCNext ==
    \/ walker = "reports" /\ Next /\ UNCHANGED <<walker, hopVars>>
    \/ walker = "onehop" /\ Hop!Next /\ UNCHANGED <<walker, vars>>

MCSpec == MCInit /\ [][MCNext]_<<walker, vars, hopVars>>
=============================================================================
