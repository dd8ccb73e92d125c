------------------------- MODULE ContactController -------------------------
(***************************************************************************)
(* ContactController of the bean-validation example (controllers.js).      *)
(* Every request of Contact ($resource) and of the search resource is      *)
(* asynchronous; the server takes them in any order and their callbacks    *)
(* run in any order.  Contact.query() returns an empty array at once and   *)
(* fills that same array when the answer comes, whatever $scope.contacts   *)
(* points to by then; a search answer replaces $scope.contacts.  A contact *)
(* is its id (the server assigns 1, 2, ...); its other fields are left     *)
(* out.  The server is the environment: it stores and deletes contacts,    *)
(* answers a query with its list and a search with some of it, and may    *)
(* reject a request with validation errors (an array) or fail with a body  *)
(* that is not an array.                                                   *)
(***************************************************************************)
EXTENDS Integers, Sequences, FiniteSets, SequencesExt

CONSTANTS
    MaxSaves,       \* bound on addContact calls
    MaxRemoves,     \* bound on removeContact calls
    MaxLists,       \* bound on refresh and search calls
    ErrorReports,   \* validation errors the server may report
    SearchTypes     \* the types the view passes to changeSearchType

ASSUME MaxSaves \in Nat /\ MaxRemoves \in Nat /\ MaxLists \in Nat
ASSUME "name" \in SearchTypes

VARIABLES
    arrays,         \* every contacts array made so far, by number
    shown,          \* the array $scope.contacts refers to
    contact,        \* $scope.contact, the form: "empty" or "edited"
    searchValue,    \* "" or "typed"
    searchType,     \* $scope.searchType
    searchIcon,     \* $scope.searchIcon
    httpStatus,     \* $scope.httpStatus: the status of a failed answer, 0 for ''

    errors,         \* $scope.errors
    reqs,           \* every request sent: op, argument, state, answer
    server,         \* the contacts the server holds, in the order it stored them
    nextId          \* the id the server gives the next contact it stores

vars == <<arrays, shown, contact, searchValue, searchType, searchIcon,
          httpStatus, errors, reqs, server, nextId>>

Ids == 1..MaxSaves
Icon == [t \in SearchTypes |->
            CASE t = "phone" -> "home" [] t = "email" -> "envelope"
              [] t = "unknown" -> "question-sign" [] OTHER -> "user"]

\* A request is "sent", then "answered" (ok, or failed with a status and
\* a body that is a list of errors or not an array at all), then "done"
\* once its callback has run.  target: the array a query fills.
Request == [op : {"save", "remove", "query", "search"}, id : Ids \cup {0},
            target : Nat, state : {"sent", "answered", "done"}, ok : BOOLEAN,
            status : {0, 400, 404, 500}, data : Seq(Ids) \cup Seq(ErrorReports),
            isArray : BOOLEAN]

TypeOK ==
    /\ arrays \in Seq(Seq(Ids)) /\ shown \in DOMAIN arrays
    /\ contact \in {"empty", "edited"} /\ searchValue \in {"", "typed"}
    /\ searchType \in SearchTypes /\ searchIcon = Icon[searchType]
    /\ httpStatus \in {0, 400, 404, 500} /\ errors \in Seq(ErrorReports)
    /\ reqs \in Seq(Request)
    /\ server \in Seq(Ids) /\ nextId \in 1..(MaxSaves + 1)

NewRequest(op, id, target) ==
    [op |-> op, id |-> id, target |-> target, state |-> "sent", ok |-> FALSE,
     status |-> 0, data |-> <<>>, isArray |-> TRUE]

Count(op) == Cardinality({r \in DOMAIN reqs : reqs[r].op = op})

\* $scope.clearErrors and $scope.reset as the primed values they give.
ClearErrors == httpStatus' = 0 /\ errors' = <<>>
Reset == contact' = "empty" /\ searchValue' = "" /\ ClearErrors

\* $scope.processErrors(response): clearErrors, the status, and then
\* response.data.forEach, which throws when the body is not an array and
\* leaves the errors empty.
ProcessErrors(r) ==
    /\ httpStatus' = reqs[r].status
    /\ errors' = IF reqs[r].isArray THEN reqs[r].data ELSE <<>>

\* $scope.refresh: reset, then $scope.contacts = Contact.query(), a new
\* empty array the query's answer will fill.
RefreshEffect ==
    /\ Reset
    /\ arrays' = Append(arrays, <<>>)
    /\ shown' = Len(arrays) + 1
    /\ reqs' = Append(reqs, NewRequest("query", 0, Len(arrays) + 1))

\* The controller is built: the fields' initial values and $scope.refresh().
Init ==
    /\ arrays = << <<>> >>
    /\ shown = 1
    /\ contact = "empty"
    /\ searchValue = ""
    /\ searchType = "name"
    /\ searchIcon = "user"
    /\ httpStatus = 0
    /\ errors = <<>>
    /\ reqs = << NewRequest("query", 0, 1) >>
    /\ server = <<>>
    /\ nextId = 1

-----------------------------------------------------------------------------
(* User operations                                                         *)

EditForm ==
    /\ contact' = "edited"
    /\ UNCHANGED <<arrays, shown, searchValue, searchType, searchIcon,
                   httpStatus, errors, reqs, server, nextId>>

EditSearch ==
    /\ searchValue' = "typed"
    /\ UNCHANGED <<arrays, shown, contact, searchType, searchIcon,
                   httpStatus, errors, reqs, server, nextId>>

Refresh ==
    /\ Count("query") + Count("search") < MaxLists
    /\ RefreshEffect
    /\ UNCHANGED <<searchType, searchIcon, server, nextId>>

\* $scope.addContact: Contact.save($scope.contact, ...).
AddContact ==
    /\ Count("save") < MaxSaves
    /\ reqs' = Append(reqs, NewRequest("save", 0, 0))
    /\ UNCHANGED <<arrays, shown, contact, searchValue, searchType, searchIcon,
                   httpStatus, errors, server, nextId>>

\* $scope.removeContact(id) for a contact of the list on screen.
RemoveContact(id) ==
    /\ Count("remove") < MaxRemoves
    /\ Contains(arrays[shown], id)
    /\ reqs' = Append(reqs, NewRequest("remove", id, 0))
    /\ UNCHANGED <<arrays, shown, contact, searchValue, searchType, searchIcon,
                   httpStatus, errors, server, nextId>>

\* Variant with a plausible slip: the icon assignment left out.
ChangeSearchTypeNoIcon(type) ==
    /\ searchType' = type
    /\ UNCHANGED <<arrays, shown, contact, searchValue, searchIcon, httpStatus, errors,
                   reqs, server, nextId>>

\* $scope.changeSearchType(type)
ChangeSearchType(type) ==
    /\ searchType' = type
    /\ searchIcon' = Icon[type]
    /\ UNCHANGED <<arrays, shown, contact, searchValue, httpStatus, errors,
                   reqs, server, nextId>>

\* $scope.search: a query of the search resource.
Search ==
    /\ Count("query") + Count("search") < MaxLists
    /\ reqs' = Append(reqs, NewRequest("search", 0, 0))
    /\ UNCHANGED <<arrays, shown, contact, searchValue, searchType, searchIcon,
                   httpStatus, errors, server, nextId>>

-----------------------------------------------------------------------------
(* The server (environment)                                                *)

ScopeUnchanged ==
    UNCHANGED <<arrays, shown, contact, searchValue, searchType, searchIcon,
                httpStatus, errors>>

Answer(r, ok, status, data, isArray) ==
    reqs' = [reqs EXCEPT ![r].state = "answered", ![r].ok = ok, ![r].status = status,
                         ![r].data = data, ![r].isArray = isArray]

\* A failure: validation errors as an array, or a body that is not one.
Fail(r, status) ==
    \/ \E report \in ErrorReports : Answer(r, FALSE, status, <<report>>, TRUE)
    \/ Answer(r, FALSE, 500, <<>>, FALSE)

ServeSave(r) ==
    /\ reqs[r].op = "save" /\ reqs[r].state = "sent"
    /\ \/ /\ Answer(r, TRUE, 0, <<nextId>>, TRUE)
          /\ server' = Append(server, nextId)
          /\ nextId' = nextId + 1
       \/ /\ Fail(r, 400)
          /\ UNCHANGED <<server, nextId>>
    /\ ScopeUnchanged

ServeRemove(r) ==
    /\ reqs[r].op = "remove" /\ reqs[r].state = "sent"
    /\ \/ /\ Contains(server, reqs[r].id)
          /\ Answer(r, TRUE, 0, <<reqs[r].id>>, TRUE)
          /\ server' = Remove(server, reqs[r].id)
       \/ /\ Fail(r, 404)
          /\ UNCHANGED server
    /\ UNCHANGED nextId
    /\ ScopeUnchanged

\* A query answers with the whole list, a search with the contacts that
\* match, which the model leaves open.
ServeList(r) ==
    /\ reqs[r].op \in {"query", "search"} /\ reqs[r].state = "sent"
    /\ \/ /\ reqs[r].op = "query" /\ Answer(r, TRUE, 0, server, TRUE)
       \/ /\ reqs[r].op = "search"
          /\ \E keep \in SUBSET DOMAIN server :
                Answer(r, TRUE, 0, SelectSeq(server, LAMBDA c : \E k \in keep : server[k] = c), TRUE)
       \/ Fail(r, 400)
    /\ UNCHANGED <<server, nextId>>
    /\ ScopeUnchanged

-----------------------------------------------------------------------------
(* Callbacks                                                               *)

\* $scope.remove(array, id): forEach over the array, splicing out each
\* element with the id.  forEach visits index k while k is below both the
\* length it started with and the current length, so after a splice the
\* element that moved into index k is not visited; i is k throughout.
\* Variant with a plausible slip: array.splice(i + 1, 1).
RemoveLoopNextIndex(array, id) ==
    LET RECURSIVE Loop(_, _)
        Loop(a, k) ==
            IF k >= Len(array) \/ k >= Len(a) THEN a
            ELSE IF a[k + 1] = id THEN Loop(RemoveAt(a, k + 2), k + 1)
            ELSE Loop(a, k + 1)
    IN Loop(array, 0)

RemoveLoop(array, id) ==
    LET RECURSIVE Loop(_, _)
        Loop(a, k) ==
            IF k >= Len(array) \/ k >= Len(a) THEN a
            ELSE IF a[k + 1] = id THEN Loop(RemoveAt(a, k + 1), k + 1)
            ELSE Loop(a, k + 1)
    IN Loop(array, 0)

\* Once its callback has run, nothing reads a request's answer again: a
\* completed request keeps only what it was (its op counts toward the bounds).
Done(r) == [reqs EXCEPT ![r] = [NewRequest(@.op, 0, 0) EXCEPT !.state = "done"]]

\* addContact's callbacks: push the saved contact and reset, or
\* processErrors.
SaveDone(r) ==
    /\ reqs[r].op = "save" /\ reqs[r].state = "answered"
    /\ reqs' = Done(r)
    /\ IF reqs[r].ok
       THEN /\ arrays' = [arrays EXCEPT ![shown] = Append(@, reqs[r].data[1])]
            /\ Reset
       ELSE /\ ProcessErrors(r)
            /\ UNCHANGED <<arrays, contact, searchValue>>
    /\ UNCHANGED <<shown, searchType, searchIcon, server, nextId>>

\* removeContact's callbacks: $scope.remove($scope.contacts, data.id), or
\* processErrors.
RemoveDone(r) ==
    /\ reqs[r].op = "remove" /\ reqs[r].state = "answered"
    /\ reqs' = Done(r)
    /\ IF reqs[r].ok
       THEN /\ arrays' = [arrays EXCEPT ![shown] = RemoveLoop(@, reqs[r].data[1])]
            /\ UNCHANGED <<httpStatus, errors>>
       ELSE /\ ProcessErrors(r)
            /\ UNCHANGED arrays
    /\ UNCHANGED <<shown, contact, searchValue, searchType, searchIcon, server, nextId>>

\* The answer of Contact.query() fills the array it returned; a failure
\* has no callback.
QueryDone(r) ==
    /\ reqs[r].op = "query" /\ reqs[r].state = "answered"
    /\ reqs' = Done(r)
    /\ arrays' = IF reqs[r].ok THEN [arrays EXCEPT ![reqs[r].target] = reqs[r].data]
                 ELSE arrays
    /\ UNCHANGED <<shown, contact, searchValue, searchType, searchIcon,
                   httpStatus, errors, server, nextId>>

\* search's callbacks: $scope.contacts = data and reset, or processErrors.
SearchDone(r) ==
    /\ reqs[r].op = "search" /\ reqs[r].state = "answered"
    /\ reqs' = Done(r)
    /\ IF reqs[r].ok
       THEN /\ arrays' = Append(arrays, reqs[r].data)
            /\ shown' = Len(arrays) + 1
            /\ Reset
       ELSE /\ ProcessErrors(r)
            /\ UNCHANGED <<arrays, shown, contact, searchValue>>
    /\ UNCHANGED <<searchType, searchIcon, server, nextId>>

Next ==
    \/ EditForm \/ EditSearch \/ Refresh \/ AddContact \/ Search
    \/ \E id \in Ids : RemoveContact(id)
    \/ \E type \in SearchTypes : ChangeSearchType(type)
    \/ \E r \in DOMAIN reqs :
          \/ ServeSave(r) \/ ServeRemove(r) \/ ServeList(r)
          \/ SaveDone(r) \/ RemoveDone(r) \/ QueryDone(r) \/ SearchDone(r)

Spec == Init /\ [][Next]_vars

-----------------------------------------------------------------------------
(* Properties                                                              *)

\* $scope.remove, on a list whose ids are distinct, removes exactly the
\* contact with the id and keeps the others in order, although it splices
\* the array forEach is walking.
RemoveFiltersUniqueIds ==
    [][\A r \in DOMAIN reqs :
         (RemoveDone(r) /\ reqs[r].ok /\ IsInjective(arrays[shown])) =>
             arrays'[shown] = SelectSeq(arrays[shown], LAMBDA c : c # reqs[r].data[1])]_vars

\* Once the server has deleted a contact and removeContact's success
\* callback has run, the list on screen no longer shows that contact.
RemovedContactGone ==
    [][\A r \in DOMAIN reqs :
         (RemoveDone(r) /\ reqs[r].ok) => ~Contains(arrays'[shown'], reqs[r].data[1])]_vars
=============================================================================
