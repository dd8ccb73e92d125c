---------------------------- MODULE BarcodePlugin ----------------------------
(***************************************************************************)
(* The jQuery plugin $.fn.barcode / $.barcode._barcodeBMP applied to the  *)
(* elements of a jQuery set.  $(jQ).each runs the callback on the elements *)
(* in order; the callback reads the element's HTML, encodes it with the    *)
(* symbology settings.code names, and replaces the element's content by an *)
(* <img> whose src is the data URI _createBmp returns.  An unknown code    *)
(* alerts and returns from the callback, which moves on to the next        *)
(* element; a TypeError in the I25 branch propagates out of each() and     *)
(* ends the call.  Each step of the model is one run of the callback.      *)
(***************************************************************************)
EXTENDS Integers, Sequences, BarcodeCodes, Bmp

CONSTANTS
    N,          \* number of elements in the jQuery set
    Texts,      \* texts an element may hold before the plugin runs
    Codes,      \* values of settings.code a caller may pass
    MaxCalls    \* bound on the number of barcode() calls

ASSUME N \in Nat \ {0} /\ MaxCalls \in Nat \ {0}

VARIABLES
    html,       \* element -> its content: some text, or the <img> put there
    call,       \* the running call: its settings.code and the element next
                \* in the each() loop (0 when no call runs)
    calls,      \* barcode() calls made
    outcome,    \* how the last call ended: "none", "running", "returned", "threw"
    alerts,     \* alert() dialogs shown
    hasBtoa,    \* whether the browser has a working window.btoa
    from        \* ghost: the code and text each element's image was made from

vars == <<html, call, calls, outcome, alerts, hasBtoa, from>>

Elements == 1..N
Idle == [code |-> "none", next |-> 0]
NoSource == [code |-> "none", text |-> <<>>]

\* What $(this).html() returns.  An element that holds the plugin's <img>
\* returns its markup, which starts with '<', a character neither table
\* has; the rest of the markup is abstracted to a few characters.
ImgMarkup == <<"<", "I", "M", "G", ">">>
HtmlText(i) == IF html[i].kind = "text" THEN html[i].text ELSE ImgMarkup

TypeOK ==
    /\ \A i \in Elements :
          \/ html[i].kind = "text" /\ html[i].text \in Texts
          \/ html[i].kind = "img" /\ html[i].src.mime = "image/bmp"
                                   /\ html[i].src.base64 \in Seq(0..64)
    /\ call.code \in Codes \cup {"none"} /\ call.next \in 0..(N + 1)
    /\ calls \in 0..MaxCalls
    /\ outcome \in {"none", "running", "returned", "threw"}
    /\ alerts \in 0..(N * MaxCalls)
    /\ hasBtoa \in BOOLEAN
    /\ \A i \in Elements : from[i].code \in Codes \cup {"none"}

Init ==
    /\ html \in [Elements -> [kind : {"text"}, text : Texts]]
    /\ call = Idle
    /\ calls = 0
    /\ outcome = "none"
    /\ alerts = 0
    /\ hasBtoa \in BOOLEAN
    /\ from = [i \in Elements |-> NoSource]

\* $(selector).barcode(settings): the settings merged over the defaults and
\* the each() loop started at the first element.
Barcode(code) ==
    /\ call = Idle
    /\ calls < MaxCalls
    /\ call' = [code |-> code, next |-> 1]
    /\ calls' = calls + 1
    /\ outcome' = "running"
    /\ UNCHANGED <<html, alerts, hasBtoa, from>>

\* The end of the callback for element i: $(this).html("").append(img).
Render(i, encoded) ==
    /\ html' = [html EXCEPT ![i] = [kind |-> "img",
                                    src |-> CreateBmp(<<encoded>>, Palette, hasBtoa)]]
    /\ from' = [from EXCEPT ![i] = [code |-> call.code, text |-> HtmlText(i)]]
    /\ call' = [call EXCEPT !.next = @ + 1]
    /\ UNCHANGED <<calls, outcome, alerts, hasBtoa>>

\* case 'code39'
EachCode39 ==
    /\ call.next \in Elements
    /\ call.code = "code39"
    /\ Render(call.next, EncodeCode39(HtmlText(call.next)))

\* case 'I25' with every character a digit
EachI25 ==
    /\ call.next \in Elements
    /\ call.code = "I25"
    /\ ~I25Throws(HtmlText(call.next))
    /\ Render(call.next, EncodeI25(HtmlText(call.next)))

\* case 'I25' with a character that is not a digit: the TypeError leaves
\* each() and the call.
EachI25Throws ==
    /\ call.next \in Elements
    /\ call.code = "I25"
    /\ I25Throws(HtmlText(call.next))
    /\ call' = Idle
    /\ outcome' = "threw"
    /\ UNCHANGED <<html, calls, alerts, hasBtoa, from>>

\* default: alert(...); return;  -- each() continues with the next element.
EachNotImplemented ==
    /\ call.next \in Elements
    /\ call.code \notin {"code39", "I25"}
    /\ alerts' = alerts + 1
    /\ call' = [call EXCEPT !.next = @ + 1]
    /\ UNCHANGED <<html, calls, outcome, hasBtoa, from>>

\* each() has visited every element and barcode() returns.
Return ==
    /\ call.next = N + 1
    /\ call' = Idle
    /\ outcome' = "returned"
    /\ UNCHANGED <<html, calls, alerts, hasBtoa, from>>

Next ==
    \/ \E code \in Codes : Barcode(code)
    \/ EachCode39
    \/ EachI25
    \/ EachI25Throws
    \/ EachNotImplemented
    \/ Return

Spec == Init /\ [][Next]_vars

-----------------------------------------------------------------------------
(* Properties.  They decode the images with the reference decoders of      *)
(* BarcodeDecode, as an image decoder and a barcode reader would.          *)
Dec == INSTANCE BarcodeDecode

ValidFor(code, text) ==
    \A k \in DOMAIN Trim(text) :
        Trim(text)[k] \in (IF code = "code39" THEN Code39Chars ELSE Digits)

\* Round trip (spec section 8): every image the plugin made from a text that
\* has only characters of the symbology decodes, through base64 and the BMP
\* headers the code patched, to a one-row image whose bars read back as that
\* text: '*'-bracketed for Code 39, '0'-padded to even length for I25.
RoundTrip ==
    \A i \in Elements :
        (html[i].kind = "img" /\ ValidFor(from[i].code, from[i].text)) =>
            LET img == Dec!ImageRow(html[i].src)
            IN /\ img.ok
               /\ from[i].code = "code39" =>
                     Dec!ReadCode39(img.row) = <<"*">> \o Trim(from[i].text) \o <<"*">>
               /\ from[i].code = "I25" =>
                     Dec!ReadI25(img.row) = I25Code(from[i].text)

\* Spec section 7: a character the symbology has no entry for fails the
\* call; no image is made from such a text.
UnsupportedCharacterFails ==
    \A i \in Elements :
        html[i].kind = "img" => ValidFor(from[i].code, from[i].text)
=============================================================================
