CONSTANTS
    f1 = f1
    f2 = f2
    Null = Null
    FlightIds <- MCFlightIds
    Locations <- MCLocations
    Outcomes = {TRUE, FALSE}
    MaxClicks = 3
    MaxReports = 4
    MaxDrops = 1
SPECIFICATION FairSpec
INVARIANT TypeOK
PROPERTY ImplementsFlightMap ReportsDrawn
CHECK_DEADLOCK FALSE
