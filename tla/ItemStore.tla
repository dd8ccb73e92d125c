----------------------------- MODULE ItemStore -----------------------------
(***************************************************************************)
(* The item store page, engine.js.  addItem POSTs the input field; on a    *)
(* 204 its callback clears the field and calls getItems, whose GET answer  *)
(* replaces #items.  receiveMessages opens an EventSource whose handlers   *)
(* prepend a message to #messages.  Every XMLHttpRequest is asynchronous   *)
(* and on its own connection: the server takes them in any order and the  *)
(* answers arrive in any order.  SSE events arrive in the server's order   *)
(* on one connection, and a connection error loses the events not yet     *)
(* delivered.  The server (not part of this code) appends a POSTed name to *)
(* its list, answers 204, and broadcasts the name, sometimes followed by a *)
(* "size" event; it may also fail a request.                               *)
(***************************************************************************)
EXTENDS Integers, Sequences, FiniteSets

CONSTANTS
    Names,          \* what the user may type into the "name" field
    MaxPosts,       \* bound on addItem calls
    MaxErrors       \* bound on SSE connection errors

ASSUME MaxPosts \in Nat /\ MaxErrors \in Nat

VARIABLES
    input,      \* the value of the "name" input field
    items,      \* the item list #items shows
    messages,   \* #messages, newest first
    reqs,       \* every XMLHttpRequest sent, by id: method, body, state
    store,      \* the server's item list
    sse,        \* "none" before receiveMessages, then "open" or "unsupported"
    events,     \* events the server sent on the SSE connection, not yet delivered
    errors,     \* SSE connection errors so far
    hasWindowEvent  \* whether the browser has the global window.event

vars == <<input, items, messages, reqs, store, sse, events, errors, hasWindowEvent>>

Empty == ""
Values == Names \cup {Empty}

\* A request is "sent", then "answered" by the server with a status (and,
\* for a GET, the list as responseText), then "done" once its
\* onreadystatechange has seen readyState 4.  A POST carries the name sent.
Request == [method : {"POST", "GET"}, name : Values, list : Seq(Values),
            state : {"sent", "answered", "done"}, status : {0, 200, 204, 500}]

Message == [kind : {"added"}, name : Values] \cup [kind : {"size"}, size : Nat]
             \cup [kind : {"error", "unsupported"}]
Event == [type : {"message"}, name : Values] \cup [type : {"size"}, size : Nat]

Posts == {r \in DOMAIN reqs : reqs[r].method = "POST"}

TypeOK ==
    /\ input \in Values
    /\ items \in Seq(Values)
    /\ messages \in Seq(Message)
    /\ reqs \in Seq(Request)
    /\ store \in Seq(Values)
    /\ sse \in {"none", "open", "unsupported"}
    /\ events \in Seq(Event)
    /\ errors \in 0..MaxErrors
    /\ hasWindowEvent \in BOOLEAN

\* A freshly loaded page over an empty store.
Init ==
    /\ input = Empty
    /\ items = <<>>
    /\ messages = <<>>
    /\ reqs = <<>>
    /\ store = <<>>
    /\ sse = "none"
    /\ events = <<>>
    /\ errors = 0
    /\ hasWindowEvent \in BOOLEAN

\* display(data, rgb): the new message goes before messages.firstChild.
Display(m) == messages' = <<m>> \o messages

\* Variant with a plausible slip: req.send() left out.
NewRequestUnsent(method, name) ==
    [method |-> method, name |-> name, list |-> <<>>, state |-> "unsent", status |-> 0]

NewRequest(method, name) ==
    [method |-> method, name |-> name, list |-> <<>>, state |-> "sent", status |-> 0]

\* The user edits the field.
Type(v) ==
    /\ input' = v
    /\ UNCHANGED <<items, messages, reqs, store, sse, events, errors, hasWindowEvent>>

\* addItem(): req.send("name=" + itemInput.value) takes the value now.
AddItem ==
    /\ Cardinality(Posts) < MaxPosts
    /\ reqs' = Append(reqs, NewRequest("POST", input))
    /\ UNCHANGED <<input, items, messages, store, sse, events, errors, hasWindowEvent>>

\* The server takes a POST: it stores the name, answers 204 and broadcasts
\* to an open SSE connection; or it fails the request and changes nothing.
ServePost(r) ==
    /\ reqs[r].method = "POST" /\ reqs[r].state = "sent"
    /\ \/ /\ reqs' = [reqs EXCEPT ![r].state = "answered", ![r].status = 204]
          /\ store' = Append(store, reqs[r].name)
          /\ \E withSize \in BOOLEAN :
                events' = IF sse # "open" THEN events
                          ELSE events \o <<[type |-> "message", name |-> reqs[r].name]>>
                                \o (IF withSize THEN <<[type |-> "size", size |-> Len(store')]>>
                                    ELSE <<>>)
       \/ /\ reqs' = [reqs EXCEPT ![r].state = "answered", ![r].status = 500]
          /\ UNCHANGED <<store, events>>
    /\ UNCHANGED <<input, items, messages, sse, errors, hasWindowEvent>>

\* The server answers a GET with its list as it is now, or fails it.
ServeGet(r) ==
    /\ reqs[r].method = "GET" /\ reqs[r].state = "sent"
    /\ \/ reqs' = [reqs EXCEPT ![r].state = "answered", ![r].status = 200, ![r].list = store]
       \/ reqs' = [reqs EXCEPT ![r].state = "answered", ![r].status = 500]
    /\ UNCHANGED <<input, items, messages, store, sse, events, errors, hasWindowEvent>>

\* addItem's callback: on 204 clear the field and getItems() sends a GET.
PostDone(r) ==
    /\ reqs[r].method = "POST" /\ reqs[r].state = "answered"
    /\ IF reqs[r].status = 204
       THEN /\ input' = Empty
            /\ reqs' = Append([reqs EXCEPT ![r].state = "done"], NewRequest("GET", Empty))
       ELSE /\ reqs' = [reqs EXCEPT ![r].state = "done"]
            /\ UNCHANGED input
    /\ UNCHANGED <<items, messages, store, sse, events, errors, hasWindowEvent>>

\* getItems' callback: on 200, #items.innerHTML = req.responseText.
GetDone(r) ==
    /\ reqs[r].method = "GET" /\ reqs[r].state = "answered"
    /\ reqs' = [reqs EXCEPT ![r].state = "done"]
    /\ items' = IF reqs[r].status = 200 THEN reqs[r].list ELSE items
    /\ UNCHANGED <<input, messages, store, sse, events, errors, hasWindowEvent>>

\* receiveMessages(), run once by the page: an EventSource where the browser
\* has one, otherwise the 'SSE not supported' message.
ReceiveMessages ==
    /\ sse = "none"
    /\ \/ sse' = "open" /\ UNCHANGED messages
       \/ sse' = "unsupported" /\ Display([kind |-> "unsupported"])
    /\ UNCHANGED <<input, items, reqs, store, events, errors, hasWindowEvent>>

\* source.onmessage: display("Added new item: " + event.data, ...).
OnMessage ==
    /\ events # <<>> /\ Head(events).type = "message"
    /\ Display([kind |-> "added", name |-> Head(events).name])
    /\ events' = Tail(events)
    /\ UNCHANGED <<input, items, reqs, store, sse, errors, hasWindowEvent>>

\* The "size" listener reads 'event', not its parameter e.  Where the
\* browser has window.event that is the event being dispatched; elsewhere
\* the read throws a ReferenceError and nothing is displayed.
OnSize ==
    /\ events # <<>> /\ Head(events).type = "size"
    /\ IF hasWindowEvent THEN Display([kind |-> "size", size |-> Head(events).size])
                         ELSE UNCHANGED messages
    /\ events' = Tail(events)
    /\ UNCHANGED <<input, items, reqs, store, sse, errors, hasWindowEvent>>

\* source.onerror: display(event.data, ...).  The connection broke; the
\* events the server sent on it and not yet delivered are lost, and the
\* EventSource reconnects by itself.
OnError ==
    /\ sse = "open" /\ errors < MaxErrors
    /\ Display([kind |-> "error"])
    /\ events' = <<>>
    /\ errors' = errors + 1
    /\ UNCHANGED <<input, items, reqs, store, sse, hasWindowEvent>>

Next ==
    \/ \E v \in Values : Type(v)
    \/ AddItem
    \/ \E r \in DOMAIN reqs : ServePost(r) \/ ServeGet(r) \/ PostDone(r) \/ GetDone(r)
    \/ ReceiveMessages
    \/ OnMessage
    \/ OnSize
    \/ OnError

Spec == Init /\ [][Next]_vars

-----------------------------------------------------------------------------
(* Properties                                                              *)

\* Once every request has completed and every GET succeeded, #items shows
\* what the server holds: the page is "updated in real time" (spec
\* section 1).
QuiescentShowsStore ==
    (\A r \in DOMAIN reqs : reqs[r].state = "done"
                           /\ (reqs[r].method = "GET" => reqs[r].status = 200))
        => items = store

\* The 204 callback clears the field only of the name its POST sent, so a
\* name typed while the request was on its way is not lost.
ClearsOnlySentName ==
    [][\A r \in DOMAIN reqs :
         (PostDone(r) /\ input' # input) => input = reqs[r].name]_vars
=============================================================================
