CONSTANTS
    f1 = f1
    f2 = f2
    Null = Null
    FlightIds <- MCFlightIds
    Locations <- MCLocations
    Outcomes = {TRUE}
    MaxClicks = 2
    MaxReports = 0
    MaxDrops = 0
SPECIFICATION Spec
INVARIANT LabelAgreesWhenIdle
CHECK_DEADLOCK FALSE
