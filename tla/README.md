# TLA+ models of the jersey example web clients

The JavaScript under `src/examples` is browser-side code of four Jersey demo
applications. None of them talks to another; each is driven by the browser's
event loop: user clicks, XMLHttpRequest callbacks and Server-Sent Events.

| Part | Source | What it does |
|---|---|---|
| Barcode plugin | `flight-mgmt-webapp/.../js/jquery.barcode.0.3.js` | `$(sel).barcode({code})` replaces every selected element's text by an `<img>` whose `src` is a `data:image/bmp;base64,` URI of a one-row bitmap of the Code 39 or Interleaved 2 of 5 bars of that text |
| Flight client | `flight-mgmt-webapp/.../js/sse-client.js` | SSE `onmessage` creates a marker per flight id or tweens it to a new location; `startStop` flips a button label and POSTs START/STOP |
| Item store page | `sse-item-store-jaxrs-webapp/.../js/engine.js` | `addItem` POSTs the input; on 204 clears the input and GETs the list, which replaces `#items`; SSE events are prepended to `#messages` |
| Contact controller | `bean-validation-webapp/.../controllers.js` | AngularJS scope over `contacts`, mutated by asynchronous save, remove, query and search callbacks |
| AngularJS loader | `bean-validation-webapp/.../lib/angular-loader.min.js` | third-party library, not modelled |

`spec.md` specifies only the barcode renderer (sections 2-8), so that component
comes first. The others are modelled from the code alone.

## Barcode plugin: inventory

State. The elements' content (text, or the `<img>` the plugin put there).
The running `each()` loop: the code and the next element. The browser's
`window.btoa`, probed once at load (line 204). The module-level tables and the
Code 39 BMP cache are computed once at load and never change.

Operations.
- `$.fn.barcode` (lines 20-27): merges the settings and runs `_barcodeBMP`.
- The `each()` callback (lines 118-152), one step per element. `code39` maps
  `'*' + trim(text) + '*'` through the cache. `I25` pads to even length,
  interleaves digit pairs and runs four `replace` passes. Any other code
  alerts and continues.
- `_createBmp` (210-257): the file header with `xxxx`/`yyyy` placeholders,
  the info header, the 256-entry palette and the padded row. It then patches
  the offset and the size with `String.replace` and base64-encodes the result.
- `_multiByteEncode` (181-202) and `_encode64` (155-177), or `window.btoa`.

Hard behaviours.
- The I25 `TypeError` leaves `each()` part way: partial output.
- A second call reads back the `<img>` markup.
- `String.replace` interprets `$` in its replacement string.
- Padding and base64 remainders at the boundaries of `% 4` and `% 3`.
- The overflow boundary of `_multiByteEncode`.

## Modules

| Module | Models |
|---|---|
| `JsString` | the ECMAScript built-ins the code relies on, on strings as sequences of character codes: `String.replace` with GetSubstitution (`$$`, `$&`, `` $` ``, `$'`), global one-character replace, concatenation, and `window.btoa` (RFC 4648) |
| `BarcodeCodes` | the Code 39 and I25 tables (lines 31-92), the BMP cache loop (94-115), and the two encoders of the `each()` callback (`EncodeCode39`, `EncodeI25`, `I25Throws`) |
| `Bmp` | `_multiByteEncode` (the loop and both throws), `_encode64` (the do-while, NaN handling), and `_createBmp` byte for byte: `BmpBytes` applies the `yyyy` and then the `xxxx` replace exactly as `String.replace` does |
| `BarcodePlugin` | the plugin over a set of `N` elements. Actions: `Barcode(code)` starts a call; `EachCode39`, `EachI25`, `EachI25Throws` and `EachNotImplemented` are the callback's four outcomes on the next element; `Return` ends `each()`. The ghost variable `from` (what each image was made from) lets the properties talk about the source of an image |
| `BarcodeDecode` | reference decoders written from the formats, not the plugin: base64, the BMP layout a standard decoder accepts, and a bar reader for both symbologies. They give the round trip its meaning |
| `MCBarcodePlugin` | texts and codes for TLC |
| `MCCodec` | one call of `_multiByteEncode` or `_encode64` on bounded inputs, compared with reference definitions |
| `FlightClient`, `FlightMap`, `MCFlightClient` | the flight tracking page, its abstract specification, and flight ids and locations for TLC |
| `MCBmpSize` | the file size of Code 39 bitmaps of up to `MaxChars` characters, as a number: rows of two million pixels cannot be built |

Data abstraction. Element text is a sequence of one-character strings; it
only indexes the tables. The pixel row, the bitmap and the base64 text are
sequences of numbers: character codes and alphabet indices. This keeps every
`replace`, `+=` and `charCodeAt` exact. jQuery's `each` is a loop that
continues on `return` and stops on an exception. `$.trim` removes spaces;
the model's alphabet has no other whitespace. The `<img>` markup a second
call reads back is abstracted to `<IMG>`; only its first character matters,
since `<` is in neither table.

## Item store page (engine.js)

`ItemStore` models the page and, as its environment, the server.
- `input`, `items` and `messages` are the field, `#items` and `#messages`.
- `reqs` records every XMLHttpRequest: `sent`, then `answered` with a
  status, then `done` once its `onreadystatechange` saw readyState 4.
- `store` is the server's list.
- `events` are the SSE events sent and not yet delivered.
- `hasWindowEvent` is the browser's global `window.event`.

| Action | Code |
|---|---|
| `Type(v)` | the user edits the field |
| `AddItem` | `addItem()` (lines 42-56): the POST body is the field's value at `send` |
| `ServePost(r)`, `ServeGet(r)` | the server, in any order: it appends and answers 204 (and broadcasts if the SSE connection is open), answers a GET with its list, or fails a request |
| `PostDone(r)` | the 204 callback (48-54): clears the field and `getItems()` sends a GET |
| `GetDone(r)` | the 200 callback (62-67): `#items.innerHTML = responseText` |
| `ReceiveMessages` | `receiveMessages()` (83-109): EventSource or the "not supported" message |
| `OnMessage`, `OnSize`, `OnError` | the three SSE handlers. `OnSize` reads the undeclared `event`: it shows the size where the browser has `window.event`, and throws otherwise. `OnError` loses the undelivered events; the EventSource reconnects by itself |

Answers arrive in any order because each XMLHttpRequest has its own
connection. SSE events keep their order because they share one connection.
`display` prepends (lines 79-80).

## Contact controller (controllers.js)

`ContactController` models the controller's scope and, as its environment,
the server.
- `arrays` holds every contacts array made so far. `shown` is the one
  `$scope.contacts` refers to. Both are needed because `Contact.query()`
  returns an empty array at once and fills that same array when the answer
  comes, even after a search has replaced `$scope.contacts`.
- A contact is its id; the server assigns 1, 2, ... as it stores them.
- `contact`, `searchValue`, `searchType`, `searchIcon`, `httpStatus` and
  `errors` are the scope fields. `reqs` are the requests, and `server` and
  `nextId` the server's state.

Each `$scope` function is an action or an operator.
- `AddContact`, `RemoveContact(id)`, `Search` and `Refresh` send requests.
- `SaveDone`, `RemoveDone`, `SearchDone` and `QueryDone` are their callbacks,
  success or error.
- `RemoveLoop` is `$scope.remove`: a `forEach` that splices the array it
  walks, translated with `forEach`'s rule. It visits index k while k is below
  the initial and the current length.
- `ProcessErrors` includes the `TypeError` of `response.data.forEach` on a
  body that is not an array.

A completed request keeps only its operation, since nothing reads its answer
again.

## Flight client (sse-client.js)

`FlightClient` models the page and, as its environment, the simulation
server.
- `label` is the button's text.
- `posts` counts the START and STOP POSTs not yet taken by the server.
- `running` is the simulation's state.
- `sse` is what `receiveMessages()` found at load.
- `stream` holds the events sent on the connection and not yet dispatched.
- `flights` is the `flights` object. Each group has its position, its
  marker's fill and the tweens playing on it.
- `sent`, `received` and a group's `at` are ghosts: the reports the server
  sent, and the report index each one was made from.

| Action | Code |
|---|---|
| `StartStop` | `startStop()` (117-131): the label flips and the POST is sent; no callback |
| `ServeCommand(c)` | the server takes any POST in flight, and runs it or fails it |
| `Report(f, loc)` | the running simulation reports a location on the stream |
| `Drop` | the stream breaks; undelivered events are lost and the EventSource reconnects |
| `OnMessage` | `source.onmessage` (57-100): `NewGroup` for an unknown id, else `Play` a tween |
| `TweenEnd(f)` | the oldest tween of a group ends, leaving the group at its target |

Every tween lasts 0.5 s, so the tweens of one group end in the order they
started. The last to end sets the group's final position.

`FlightMap` is what the page promises. The server reports locations, and
the map draws each flight at one of them, never going back to an older one.
Reports may be skipped. `FlightClient` implements it under the mapping
`at <- flights[f].at` and `shown <- flights[f].pos`.

## Runs

| Run | Expect | Shows |
|---|---|---|
| `plugin_roundtrip` | pass | `N = 2`, two calls, codes `code39`, `I25`, `ean13`, five texts (empty, odd length, a letter, surrounding spaces, an inner space), `hasBtoa` both ways. Every image made from a valid text decodes to its bars: `*`-bracketed for Code 39, `0`-padded for I25. About 2,100 states |
| `codec_reference` | pass | `_multiByteEncode` on numbers at each power-of-256 boundary and 0..4 bytes equals the little-endian encoding and throws exactly on overflow. `_encode64` equals `btoa` on all byte strings of length 1..4 over six byte values |
| `code39_unsupported` | violation | a Code 39 text `Ab` gives an image (spec 7: `UnsupportedCharacter`) |
| `items_store` | pass | two names (symmetric), two `addItem` calls, one SSE error, about 200,000 states. Every handler and every server step fires and every state is well typed. Whether `#items` ends up right is the question of `items_stale` |
| `items_stale` | violation | two adds whose GET answers arrive reversed: once everything has completed, `#items` shows the older list |
| `items_input_lost` | violation | the field is typed into while the POST is in flight; the 204 callback clears that unsent text |
| `contacts` | pass | two saves, one removal, the initial query plus one refresh or search, one validation error, two search types. About 1.5 million states. `$scope.remove` on a list of distinct ids removes exactly that contact under every interleaving |
| `contacts_removed_shown` | violation | a save answered after the initial query already returned the new contact pushes it a second time; removing it then leaves one copy on screen (9 states) |
| `flights` | pass | two flights, two locations (one with x past 255), three clicks, four reports, one broken connection, POSTs that may fail; about 56,000 states. The page implements `FlightMap`, and under the fairness below every report `onmessage` handles is eventually drawn or overtaken |
| `flights_label` | violation | two clicks, no failures: the server takes STOP before START, so the simulation runs while the button reads Start |
| `size_field_dollar` | violation | a Code 39 barcode of 49,320 characters: width 2,367,456, file size `0x242416`. The `$$` in the size bytes becomes `$`, so the header is corrupt |

Bounds. Two elements and two calls are enough to see a call read back the
previous call's image, and a throw after a render. The texts reach every
branch of both encoders and every `width % 4` the symbologies produce:
Code 39 widths are multiples of 48, and I25 widths are 87 + 54·pairs, so
`% 4` is 3 or 1. The codec's inputs cover every remainder mod 3 and every
byte boundary. TLC integers are 32-bit: four-byte `_multiByteEncode` calls
stay below 2^24, which covers every file the plugin can make below 16 MB.

Fairness. `ReportsDrawn` is checked under `FairSpec`, which has weak
fairness on `OnMessage` and on each flight's `TweenEnd`. The browser's event
loop dispatches every queued event, and Kinetic's animation runs every
started tween to its end. The user, the server and the network get no
fairness: nobody has to click, and the server need not report. Every other
property is a safety property.
- The barcode runs set `CHECK_DEADLOCK FALSE`: the page is idle once its
  calls have run.
- `MCCodec` sets it too: one helper call returns and the model stops.
- `MCFlightClient` sets it: once the bounded clicks and reports are used
  up and every tween has ended, the page is idle.
- `MCItemStore` and `MCContactController` check deadlock. The user can
  always type, so the page never stops.

Mutants. Each property of a passing run is shown to catch a plausible bug:
- padding of `width % 4` bytes, which breaks `RoundTrip`;
- `enc1` without `>> 2`, which breaks `TypeOK` of `BarcodePlugin` (base64 indices past 64);
- the two `isNaN` tests swapped, which breaks `Encode64IsBase64`;
- `number -= CharCode` dropped, which breaks `MultiByteIsLittleEndian`;
- a request never sent, which breaks `TypeOK` of `ItemStore`;
- `splice(i + 1, 1)`, which breaks `RemoveFiltersUniqueIds`;
- a missing icon assignment, which breaks `TypeOK` of `ContactController`;
- tween targets with x and y swapped, which breaks `TypeOK` of `FlightClient`;
- a new group at the origin, which breaks `ImplementsFlightMap`;
- a tween made but never played, which breaks `ReportsDrawn`.

## What is left

Every component with live code is modelled. The open points are these:
- An abstract `render(text, code)` from spec section 4 is not written. The
  plugin refines it on no useful set of inputs:
  - its bars are 3 and 9 pixels wide, where the spec says 1 and 3;
  - it renders unsupported Code 39 characters;
  - it leaves partial output when I25 fails.
  `RoundTrip`, checked against reference decoders, states what the code does
  guarantee. `FlightMap` is the project's refinement.
- Liveness for the item store and contact pages would need the server, and
  XMLHttpRequests that set no timeout, to be fair. The server code is not
  in this repository, so no fairness is assumed there.
- The contact controller's remaining hazards have no property: the save
  callback's `reset()` after a concurrent rejection, search answers
  arriving out of order, and a query answer wiping a pushed contact. The
  models contain these interleavings, but neither the spec nor a comment
  or test of the example says what the page should show in them, so a
  property would state an intent of our own.
- `contacts` with two removals grows past six million states without
  finishing in five minutes. One removal, with two saves and two list
  requests, is the largest instance that checks in time.

## Read from the code, not checked by a run

- An I25 text with a non-digit throws a `TypeError` out of `each()` (line
  137). Elements already processed in that call keep their new images and
  later ones are untouched. `EachI25Throws` models this; spec sections 4 and
  7 speak of one `render(text)`, and jQuery's iteration is out of their
  scope, so no property judges it.

- `_createBmp` (lines 226-240) fills palette entries 2..255 with white.
  Spec section 4 step 3 says they are zero. No pixel uses those entries.
- `sse-client.js` line 70 computes `b: x + y % 256`. JavaScript reads this
  as `x + (y % 256)`, which can exceed 255. `Fill` models it that way. No
  property states the intended colour.
- The Code 39 cache (lines 99-113) and the I25 replaces (lines 141-144)
  draw narrow bars 3 pixels wide and wide bars 9 pixels wide. Spec section
  3 and the Code 39 algorithm in section 4 say 1 and 3. The inter-character
  gap is 3 pixels in both. The reference decoder reads the code's widths.
- `addContact`'s success callback (controllers.js line 97) runs `reset()`.
  If another save was rejected just before, this clears the errors that
  rejection displayed and the form being corrected. `SaveDone` has this
  interleaving, but no property states what should happen.
- A save answered while a search result is shown pushes the new contact
  onto that result (line 96). Contacts are ids in the model, so matching a
  search is not represented.
- `source.onclose` (line 107) is not an EventSource event and never fires.

## Not modelled

- The commented-out DIV renderer (lines 261-319): it is not code.
- The AngularJS loader: third-party.
- Kinetic, jQuery and AngularJS internals, beyond what the code above uses.
- Logging and `alert` text.
- The widths and heights set on `<img>`.
