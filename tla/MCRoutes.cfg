SPECIFICATION MCSpec
CONSTANTS
    I = I
    IL = IL
    PIN = PIN
    ATL = ATL
    Airlines = {I, IL}
    Airports = {PIN, ATL}
    Within <- MCWithin
    MaxRoutes = 3
    HopAirports = {"a", "b", "c"}
    HopLines <- MCHopLines
    HopWithin <- MCHopWithin
    HopMiles <- MCHopMiles
    HopMaxRoutes = 4
INVARIANTS
    TypeOK RowsAreTouched ReportsAgree
    RowsAreJourneys AllJourneysListed
CHECK_DEADLOCK FALSE
