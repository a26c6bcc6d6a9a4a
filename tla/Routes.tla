-------------------------------- MODULE Routes --------------------------------
(***************************************************************************)
(* The two handlers that walk over the routes, side by side: the reports   *)
(* (module RouteReports) and the one-hop search (module OneHop), each with *)
(* a table of its own, for they look at different columns of routes.dat.   *)
(* They only read it, so neither sees the other.                           *)
(***************************************************************************)
EXTENDS RouteReports

CONSTANTS HopAirports, HopLines, HopWithin, HopMiles, HopMaxRoutes   \* as in OneHop

VARIABLES known, legs, phase, src, dst, leg, results, status         \* of OneHop

hopVars == <<known, legs, phase, src, dst, leg, results, status>>

Hop == INSTANCE OneHop WITH
           Airports <- HopAirports, Lines <- HopLines, Within <- HopWithin,
           Miles <- HopMiles, MaxRoutes <- HopMaxRoutes,
           routes <- legs, pos <- leg

ASSUME HopAssumption == Hop!OneHopAssumption

(* Each row of the response of /onehop is a journey, see module OneHop. *)
RowsAreJourneys == Hop!RowsAreJourneys

(* No journey is missing and none is listed twice, see module OneHop. *)
AllJourneysListed == Hop!AllJourneysListed
=============================================================================
