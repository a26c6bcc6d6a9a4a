---------------------------- MODULE MCAirTravelDB ----------------------------
(* "" = 0, "%5CN" = 1, "101" = 2 (too great for an int of 0..100), "7" = 3, *)
(* "AA" = 4, "AAA" = 5, "AAAA" = 6, two names, "BAA" = 7 and "C C" = 8,    *)
(* "C%20C" = 9, and "\N" = 10.                                             *)
EXTENDS AirTravelDB, TLC

MCStrings == 0..10
MCSized == "airline" :> {2, 5, 7, 8} @@ "airport" :> {1, 6}
MCValue == 3 :> 7 @@ 2 :> 101
MCSent == MCStrings \ {0, 8}
MCEncoded == [s \in MCStrings \ {0} |-> CASE s = 8 -> 9 [] s = 10 -> 1 [] OTHER -> s]
MCWithin == {<<s, s>> : s \in MCStrings} \cup
            {<<4, 5>>, <<4, 6>>, <<4, 7>>, <<5, 6>>} \cup {<<0, s>> : s \in MCStrings}

Line(id, iata, icao, name) == [id |-> id, iata |-> iata, icao |-> icao, name |-> name]

MCRecords ==
    {Line(7, 4, 5, 8), Line(7, 10, 6, 7), Line(9, 4, 6, 8), Line(-1, 10, 10, 7),
     Line(-1, 0, 6, 8), Line(9, 0, 0, 7), Line(9, 5, 0, 8), Line(6, 0, 5, 7), Line(5, 0, 0, 8)}
=============================================================================
