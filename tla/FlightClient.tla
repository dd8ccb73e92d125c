----------------------------- MODULE FlightClient -----------------------------
(***************************************************************************)
(* The flight tracking page, sse-client.js.  At load receiveMessages()    *)
(* opens an EventSource (where the browser has one).  Its onmessage       *)
(* handler draws a Kinetic group, a marker and a label, for a flight id   *)
(* it has not seen, at the reported location, and otherwise starts a      *)
(* 0.5 s Kinetic.Tween of the group to the new location.  The "startStop" *)
(* button flips its label and POSTs START or STOP; nothing reads the     *)
(* answer.                                                                *)
(*                                                                         *)
(* The environment is the simulation server: it takes the POSTs, each on  *)
(* its own connection, in any order, and may fail one; while running it   *)
(* reports flight locations on the event stream, whose undelivered events *)
(* are lost when the connection breaks (the EventSource reconnects by     *)
(* itself).  Tweens of one group all last 0.5 s, so they end in the order *)
(* they were started, and the last to end leaves the group at its target. *)
(***************************************************************************)
EXTENDS Naturals, Sequences, SequencesExt

CONSTANTS
    FlightIds,      \* flight ids the simulation reports
    Locations,      \* locations it reports, records [x, y]
    Outcomes,       \* whether a START/STOP POST may fail ({TRUE} or BOOLEAN)
    Null,           \* flights[id] == null
    MaxClicks,      \* bound on startStop() calls
    MaxReports,     \* bound on location reports the server sends
    MaxDrops        \* bound on broken event-stream connections

ASSUME Null \notin Locations /\ Outcomes \subseteq BOOLEAN /\ TRUE \in Outcomes

VARIABLES
    label,      \* the startStop button's innerHTML
    posts,      \* command -> number of its POSTs not yet taken by the server
    clicks,     \* startStop() calls so far
    running,    \* whether the simulation runs
    sse,        \* "open" or "unsupported": what receiveMessages() found
    stream,     \* events sent on the connection, not yet dispatched
    sent,       \* ghost: flight -> the locations the server reported, in order
    flights,    \* the flights object: id -> its group, or Null
    received,   \* ghost: flight -> index of the last report onmessage handled
    drops       \* connection breaks so far

vars == <<label, posts, clicks, running, sse, stream, sent, flights, received, drops>>

Commands == {"START", "STOP"}
Event == [id : FlightIds, loc : Locations, n : Nat]

\* A group: its position, the fill of its marker, the tweens playing on it
\* (target and report index, oldest first) and, as a ghost, the index of
\* the report it is drawn at.
Group == [pos : Locations, fill : [r : Nat, g : Nat, b : Nat],
          tweens : Seq(Locations \X Nat), at : Nat]

TypeOK ==
    /\ label \in {"Start", "Stop"}
    /\ posts \in [Commands -> 0..MaxClicks]
    /\ clicks \in 0..MaxClicks
    /\ running \in BOOLEAN
    /\ sse \in {"open", "unsupported"}
    /\ stream \in Seq(Event)
    /\ sent \in [FlightIds -> Seq(Locations)]
    /\ flights \in [FlightIds -> Group \cup {Null}]
    /\ received \in [FlightIds -> 0..MaxReports]
    /\ drops \in 0..MaxDrops

\* Reports the server sent so far, over all flights.
Reports == FoldFunction(LAMBDA s, acc : Len(s) + acc, 0, sent)

\* The page as loaded: the button reads "Start", the simulation is stopped,
\* no flight is drawn, and receiveMessages() has run.
Init ==
    /\ label = "Start"
    /\ posts = [c \in Commands |-> 0]
    /\ clicks = 0
    /\ running = FALSE
    /\ sse \in {"open", "unsupported"}
    /\ stream = <<>>
    /\ sent = [f \in FlightIds |-> <<>>]
    /\ flights = [f \in FlightIds |-> Null]
    /\ received = [f \in FlightIds |-> 0]
    /\ drops = 0

\* startStop(): the label flips at once and the POST is sent.
StartStop ==
    /\ clicks < MaxClicks
    /\ clicks' = clicks + 1
    /\ IF label = "Start"
       THEN label' = "Stop" /\ posts' = [posts EXCEPT !["START"] = @ + 1]
       ELSE label' = "Start" /\ posts' = [posts EXCEPT !["STOP"] = @ + 1]
    /\ UNCHANGED <<running, sse, stream, sent, flights, received, drops>>

\* The server takes a POST, any of those in flight; it runs the command
\* or fails the request.  Nobody looks at the answer.
ServeCommand(c) ==
    /\ posts[c] > 0
    /\ posts' = [posts EXCEPT ![c] = @ - 1]
    /\ \E ok \in Outcomes : running' = IF ok THEN c = "START" ELSE running
    /\ UNCHANGED <<label, clicks, sse, stream, sent, flights, received, drops>>

\* The running simulation reports a location of flight f to the open
\* connections.
Report(f, loc) ==
    /\ running /\ Reports < MaxReports
    /\ sent' = [sent EXCEPT ![f] = Append(@, loc)]
    /\ stream' = IF sse = "open"
                 THEN Append(stream, [id |-> f, loc |-> loc, n |-> Len(sent'[f])])
                 ELSE stream
    /\ UNCHANGED <<label, posts, clicks, running, sse, flights, received, drops>>

\* The connection breaks: the events not yet dispatched are lost.
Drop ==
    /\ sse = "open" /\ stream # <<>> /\ drops < MaxDrops
    /\ stream' = <<>>
    /\ drops' = drops + 1
    /\ UNCHANGED <<label, posts, clicks, running, sse, sent, flights, received>>

\* The marker's fillRGB: r: x % 256, g: y % 256, b: x + y % 256, where JavaScript
\* takes % before +.
Fill(loc) == [r |-> loc.x % 256, g |-> loc.y % 256, b |-> loc.x + (loc.y % 256)]

\* Variant with a plausible slip: new Kinetic.Group({x: 0, y: 0}).
NewGroupAtOrigin(e) ==
    [pos |-> [x |-> 0, y |-> 0], fill |-> Fill(e.loc), tweens |-> <<>>, at |-> e.n]

\* The group of a flight seen for the first time: at the reported location,
\* its marker filled from that location.
NewGroup(e) == [pos |-> e.loc, fill |-> Fill(e.loc), tweens |-> <<>>, at |-> e.n]

\* Variant with a plausible slip: x: data.location.y, y: data.location.x.
PlaySwapped(g, e) == [g EXCEPT !.tweens = Append(@, <<[x |-> e.loc.y, y |-> e.loc.x], e.n>>)]

\* Variant with a plausible slip: the tween is made and tween.play() left out.
PlayNotStarted(g, e) == g

\* new Kinetic.Tween({node: flight, x, y}).play(): one more tween on g.
Play(g, e) == [g EXCEPT !.tweens = Append(@, <<e.loc, e.n>>)]

\* source.onmessage: a new group at the location, or a tween to it.
OnMessage ==
    /\ stream # <<>>
    /\ LET e == Head(stream) IN
       /\ flights' = [flights EXCEPT ![e.id] = IF @ = Null THEN NewGroup(e) ELSE Play(@, e)]
       /\ received' = [received EXCEPT ![e.id] = e.n]
    /\ stream' = Tail(stream)
    /\ UNCHANGED <<label, posts, clicks, running, sse, sent, drops>>

\* The oldest tween playing on flight f's group ends at its target.
TweenEnd(f) ==
    /\ flights[f] # Null /\ flights[f].tweens # <<>>
    /\ LET t == Head(flights[f].tweens) IN
       flights' = [flights EXCEPT ![f] = [@ EXCEPT !.pos = t[1], !.at = t[2],
                                                   !.tweens = Tail(@)]]
    /\ UNCHANGED <<label, posts, clicks, running, sse, stream, sent, received, drops>>

Next ==
    \/ StartStop
    \/ \E c \in Commands : ServeCommand(c)
    \/ \E f \in FlightIds, loc \in Locations : Report(f, loc)
    \/ Drop
    \/ OnMessage
    \/ \E f \in FlightIds : TweenEnd(f)

Spec == Init /\ [][Next]_vars

\* The browser dispatches every queued event and runs every animation
\* frame; the user and the server owe the page nothing.
Fairness == WF_vars(OnMessage) /\ \A f \in FlightIds : WF_vars(TweenEnd(f))

FairSpec == Spec /\ Fairness

-----------------------------------------------------------------------------
(* Properties                                                              *)

\* The page implements FlightMap: a flight's marker is drawn at a location
\* the server reported for it, and never goes back to an older report.
\* It rests on the stream keeping the server's order, onmessage creating
\* the group at the reported location, and tweens ending in the order
\* onmessage started them.
Map == INSTANCE FlightMap WITH
           at <- [f \in FlightIds |-> IF flights[f] = Null THEN 0 ELSE flights[f].at],
           shown <- [f \in FlightIds |-> IF flights[f] = Null THEN Null ELSE flights[f].pos]

ImplementsFlightMap == Map!Spec

\* Every report onmessage handles is eventually drawn, or overtaken by a
\* newer one: the tween it starts ends, and the group is left at it or
\* further on.
ReportsDrawn ==
    \A f \in FlightIds, k \in 1..MaxReports :
        received[f] = k ~> (flights[f] # Null /\ flights[f].at >= k)

\* Once the server has taken every POST, the button offers the command
\* that changes what the simulation does: "Stop" while it runs, "Start"
\* while it does not.
LabelAgreesWhenIdle ==
    (\A c \in Commands : posts[c] = 0) => ((label = "Stop") = running)
=============================================================================
