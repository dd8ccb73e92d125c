---------------------------- MODULE MCFlightClient ----------------------------
EXTENDS FlightClient, TLC

CONSTANTS f1, f2

MCFlightIds == {f1, f2}

\* Two locations whose x and y differ, one of them past 255.
MCLocations == {[x |-> 10, y |-> 20], [x |-> 300, y |-> 40]}
=============================================================================
