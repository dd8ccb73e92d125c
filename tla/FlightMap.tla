------------------------------ MODULE FlightMap ------------------------------
(***************************************************************************)
(* What the flight tracking page promises, stated without EventSource,    *)
(* tweens or Kinetic groups: the server reports locations of flights, one *)
(* after the other, and the map draws each flight at one of the locations *)
(* the server reported for it, never going back to a report older than   *)
(* the one it drew before.  Reports may be skipped (a lost event, or a    *)
(* report overtaken before it was drawn).                                 *)
(***************************************************************************)
EXTENDS Naturals, Sequences

CONSTANTS FlightIds, Locations, Null

ASSUME Null \notin Locations

VARIABLES
    sent,   \* flight -> the locations the server reported for it, in order
    at,     \* flight -> index in sent of the report drawn (0: no marker)
    shown   \* flight -> the location the map draws it at, or Null

vars == <<sent, at, shown>>

Init ==
    /\ sent = [f \in FlightIds |-> <<>>]
    /\ at = [f \in FlightIds |-> 0]
    /\ shown = [f \in FlightIds |-> Null]

Report(f, loc) ==
    /\ sent' = [sent EXCEPT ![f] = Append(@, loc)]
    /\ UNCHANGED <<at, shown>>

\* The map moves flight f to a report newer than the one it shows.
Draw(f, k) ==
    /\ at[f] < k /\ k <= Len(sent[f])
    /\ at' = [at EXCEPT ![f] = k]
    /\ shown' = [shown EXCEPT ![f] = sent[f][k]]
    /\ UNCHANGED sent

Next ==
    \E f \in FlightIds :
        \/ \E loc \in Locations : Report(f, loc)
        \/ \E k \in 1..Len(sent[f]) : Draw(f, k)

Spec == Init /\ [][Next]_vars
=============================================================================
