------------------------------ MODULE Session ------------------------------
(***************************************************************************)
(* The connected console (app/static/novnc/core/rfb.js and decoders/): the *)
(* parser of the server's messages, of the rectangles of an update and of  *)
(* what their encodings hold, which stops wherever bytes are missing and   *)
(* goes on from what it kept; and the pacing of updates, which a client    *)
(* asks for one at a time and delays while its display is behind.          *)
(*                                                                         *)
(* The stream is cut into units: what the code takes off the queue at once *)
(* when all of it is there.  A unit is a few cells: its head, with what it *)
(* says (`v'; for Tight also a stream `s' and streams `z' to reset) and    *)
(* how many cells follow it in the unit, and those.                        *)
(***************************************************************************)
EXTENDS Naturals, Sequences

CONSTANTS Encodings,    \* encodings of the rectangles servers send
          Streams,      \* zlib streams of Tight (0..3)
          MaxRects,     \* bound: rectangles in an update
          Window        \* bound: cells on their way when the server goes on

VARIABLES
    over,       \* the connection has failed
    rq,         \* cells received and not read
    turn,       \* _handleMessage's loop runs
    fbu,        \* _FBU: rectangles to come, encoding and size of this one
    dec,        \* what the decoders keep between two calls
    fresh,      \* Tight streams that are as reset
    flushing,   \* _flushing
    drawing,    \* the display has images it waits for
    updating,   \* _enabledContinuousUpdates
    garbled,    \* something was read that is not what the server sent there
    inbox,      \* cells on their way from the server
    server      \* what the server is doing

readVars == <<rq, turn, fbu, dec, fresh, garbled>>
paceVars == <<flushing, drawing>>
netVars == <<inbox, server>>
sessVars == <<over, readVars, paceVars, updating, netVars>>

DataEncodings == {"raw", "copyrect", "rre", "hextile", "tight", "tightpng", "zrle", "jpeg"}
PseudoEncodings == {"cursor", "vmware", "name", "screens", "led", "size", "qemu"}
Known == DataEncodings \cup PseudoEncodings \cup {"last"}
NoEncoding == "none"
Many == 9       \* the count of an update that ends with LastRect

ASSUME SessAssumption == /\ Encodings \subseteq (Known \ {"last"}) \cup {"other"}
                         /\ Streams \subseteq 0..3
                         /\ MaxRects \in Nat \ {0} /\ MaxRects < Many
                         /\ Window \in Nat
-----------------------------------------------------------------------------
(* What the server sends. *)

Cell(kind, value, stream, resets, n) ==
    [k |-> kind, v |-> value, s |-> stream, z |-> resets, n |-> n]
Unit(kind, value, n) ==
    <<Cell(kind, value, 0, {}, n)>> \o [i \in 1..n |-> Cell("rest", "", 0, {}, n - i)]
Plain(kind, n) == Unit(kind, "", n)
Repeat(unit, n) == [i \in 1..(n * Len(unit)) |-> unit[((i - 1) % Len(unit)) + 1]]

Sized(enc, size, content) == {<<Cell("rect", enc, size, {}, 1), Cell("rest", "", 0, {}, 0)>> \o content}
Rect(enc, content) == Sized(enc, 1, content)
Length == Plain("length", 0)

(* A deflated block says whether it is the first of its stream. *)
Deflated(stream, sz) ==
    <<Cell("deflated", IF sz[stream] THEN "first" ELSE "next", stream, {}, 1), Cell("rest", "", 0, {}, 0)>>
AfterReset(sz, resets) == [s \in Streams |-> sz[s] \/ s \in resets]

(* The control byte implies the copy filter, or a filter follows it. *)
Filters == {<<>>, Unit("filter", "gradient", 0),
            Unit("filter", "palette", 0) \o Plain("palette", 1)}

(* A Tight rectangle, by what its control byte says. *)
Control(kind, stream, resets) == <<Cell("ctl", kind, stream, resets, 0)>>
Basic(filter, stream, resets) ==
    Control(IF filter = <<>> THEN "copy" ELSE "filtered", stream, resets) \o filter
Compressed(filter, stream, resets, sz) ==
    Basic(filter, stream, resets) \o Length \o Deflated(stream, sz)
TightRects(enc, stream, resets, sz) ==
    Rect(enc, Control("fill", 0, resets) \o Plain("pixel", 1)) \cup
    Rect(enc, Control("jpeg", 0, resets) \o Length \o Plain("image", 1)) \cup
    IF enc = "tightpng" THEN Rect(enc, Control("png", 0, resets) \o Length \o Plain("image", 1))
    ELSE UNION {Sized(enc, 1, Basic(f, stream, resets) \o Plain("pixels", 1)) \cup
                Sized(enc, 2, Compressed(f, stream, resets, sz)) : f \in Filters}

(* Of RRE, and of JPEG. *)
Subrects(n) == <<Cell("rre", "", n, {}, 0)>> \o Repeat(Plain("subrect", 1), n)
Segments(n) == Repeat(Plain("segment", 1), n) \o Unit("segment", "end", 0)

(* A rectangle of the other encodings.  Of size 0 it is empty. *)
Rects(enc) ==
    CASE enc = "raw" -> UNION {Sized(enc, n, Repeat(Plain("line", 1), n)) : n \in 0..2}
      [] enc = "copyrect" -> Rect(enc, Plain("source", 1))
      [] enc = "rre" -> UNION {Rect(enc, Subrects(n)) : n \in 0..2}
      [] enc = "hextile" -> UNION {Sized(enc, n, Repeat(Plain("tile", m), n)) : n \in 0..2, m \in 0..1}
      [] enc = "zrle" -> Rect(enc, Plain("zlength", 0) \o Plain("zdata", 1))
      [] enc = "jpeg" -> UNION {Rect(enc, Segments(n)) : n \in 1..2}
      [] enc \in {"cursor", "vmware", "name", "screens"} -> Rect(enc, Plain(enc, 1))
      [] enc = "led" -> Rect(enc, Plain(enc, 0))
      [] OTHER -> Rect(enc, <<>>)

(* What a decoder throws at. *)
Illegal == {"hextile", "jpeg", "zrle", "tight", "tightpng"}
IllegalRect(enc) ==
    Rect(enc, CASE enc = "hextile" -> Unit("tile", "illegal", 0)
                [] enc = "jpeg" -> Plain("segment", 1) \o Unit("segment", "illegal", 0)
                [] enc = "zrle" -> Plain("zlength", 0) \o Unit("zdata", "illegal", 1)
                [] OTHER -> Unit("ctl", "illegal", 0))

Messages == {Plain("bell", 0), Plain("cut", 1), Unit("cut", "bad", 1), Plain("fence", 1),
             Unit("xvp", "init", 1), Unit("xvp", "bad", 1), Plain("colours", 1), Plain("unknown", 1)}

Room == Len(inbox) + Len(rq) <= Window
Emit(cells) == inbox' = inbox \o cells
Serves(to) == /\ server' = to
              /\ UNCHANGED <<over, readVars, paceVars, updating>>

(* An update is sent when one is asked for, or at any time if updates are  *)
(* continuous.  It has as many rectangles as it says, or a last one.       *)
ServerUpdate ==
    /\ Room /\ server.left = 0 /\ ~server.open
    /\ server.requests > 0 \/ server.continuous
    /\ \E n \in 1..MaxRects, open \in BOOLEAN :
        /\ Emit(<<Cell("fbu", "", IF open THEN Many ELSE n, {}, 1), Cell("rest", "", 0, {}, 0)>>)
        /\ Serves([server EXCEPT !.left = n, !.open = open,
                                 !.requests = IF @ > 0 THEN @ - 1 ELSE 0])

ServerRect ==
    /\ Room /\ server.left > 0
    /\ \/ \E enc \in Encodings \ {"tight", "tightpng"} : \E r \in Rects(enc) :
            /\ Emit(r)
            /\ Serves([server EXCEPT !.left = @ - 1])
       \/ \E enc \in Encodings \cap Illegal : \E r \in IllegalRect(enc) :
            /\ Emit(r)
            /\ Serves([server EXCEPT !.left = @ - 1])
       \/ \E enc \in Encodings \cap {"tight", "tightpng"}, s \in Streams, resets \in SUBSET Streams :
            \E sz \in {AfterReset(server.fresh, resets)} : \E r \in TightRects(enc, s, resets, sz) :
                /\ Emit(r)
                /\ Serves([server EXCEPT !.left = @ - 1,
                             !.fresh = [sz EXCEPT ![s] = @ /\ r[Len(r) - 1].k # "deflated"]])

ServerLastRect ==
    /\ Room /\ server.left = 0 /\ server.open
    /\ \E r \in Rect("last", <<>>) : Emit(r)
    /\ Serves([server EXCEPT !.open = FALSE])

ServerMessage ==
    /\ Room /\ server.left = 0 /\ ~server.open
    /\ \/ \E m \in Messages : Emit(m) /\ Serves(server)
       \/ /\ ~server.offered
          /\ Emit(Plain("eocu", 0)) /\ Serves([server EXCEPT !.offered = TRUE])
-----------------------------------------------------------------------------
AtRest == [lines |-> 0, subrects |-> 0, tiles |-> 0, ctl |-> "", stream |-> 0,
           filter |-> "", colors |-> FALSE, len |-> FALSE, length |-> FALSE, segments |-> 0]
NoUpdate == [rects |-> 0, enc |-> NoEncoding, size |-> 0]

SessInit == /\ over = FALSE /\ rq = <<>> /\ turn = FALSE /\ garbled = FALSE
            /\ fbu = NoUpdate /\ dec = AtRest /\ fresh = [s \in Streams |-> TRUE]
            /\ flushing = FALSE /\ drawing = FALSE /\ updating = FALSE
            /\ inbox = <<>>
            /\ server = [left |-> 0, open |-> FALSE, requests |-> 1, continuous |-> FALSE,
                         offered |-> FALSE, fresh |-> [s \in Streams |-> TRUE]]

(* Bytes arrive, and _handleMessage is called; while flushing it returns. *)
Deliver ==
    /\ ~turn /\ ~over
    /\ \E n \in 1..Len(inbox) : /\ rq' = rq \o SubSeq(inbox, 1, n)
                                /\ inbox' = SubSeq(inbox, n + 1, Len(inbox))
    /\ turn' = ~flushing
    /\ UNCHANGED <<over, fbu, dec, fresh, garbled, paceVars, updating, server>>

Load == /\ ~turn /\ drawing
        /\ drawing' = FALSE
        /\ UNCHANGED <<over, readVars, flushing, updating, netVars>>

(* Variant: only the next message is handled. *)
FlushedQuietly ==
    /\ ~turn /\ flushing /\ ~drawing
    /\ flushing' = FALSE
    /\ UNCHANGED <<over, readVars, drawing, updating, netVars>>

(* The promise of the flush: what has arrived meanwhile is handled. *)
Flushed == /\ ~turn /\ flushing /\ ~drawing
           /\ flushing' = FALSE
           /\ turn' = (rq # <<>> /\ ~over)
           /\ UNCHANGED <<over, rq, fbu, dec, fresh, garbled, drawing, updating, netVars>>
-----------------------------------------------------------------------------
(* The unit the parser looks for. *)

TightWants ==
    CASE dec.ctl = "" -> "ctl"
      [] dec.ctl = "fill" -> "pixel"
      [] dec.ctl \in {"jpeg", "png"} -> IF dec.len THEN "image" ELSE "length"
      [] dec.ctl = "filtered" /\ dec.filter = "" -> "filter"
      [] dec.filter = "palette" /\ ~dec.colors -> "palette"
      [] OTHER -> IF fbu.size = 1 THEN "pixels" ELSE IF dec.len THEN "deflated" ELSE "length"

DecoderWants ==
    CASE fbu.enc = "raw" -> "line"
      [] fbu.enc = "copyrect" -> "source"
      [] fbu.enc = "rre" -> IF dec.subrects = 0 THEN "rre" ELSE "subrect"
      [] fbu.enc = "hextile" -> "tile"
      [] fbu.enc \in {"tight", "tightpng"} -> TightWants
      [] fbu.enc = "zrle" -> IF dec.length THEN "zdata" ELSE "zlength"
      [] fbu.enc = "jpeg" -> "segment"
      [] OTHER -> fbu.enc

Wants == CASE fbu.rects = 0 -> "message"
           [] fbu.rects > 0 /\ fbu.enc = NoEncoding -> "rect"
           [] OTHER -> DecoderWants

MessageKinds == {"fbu", "bell", "cut", "fence", "eocu", "xvp", "colours", "unknown"}
Whole == rq # <<>> /\ Len(rq) > Head(rq).n
InStep(kind) == IF Wants = "message" THEN kind \in MessageKinds ELSE kind = Wants

(* rQwait finds too little: the parser returns, and keeps what it has. *)
Waits == /\ turn /\ ~Whole
         /\ turn' = FALSE
         /\ UNCHANGED <<over, rq, fbu, dec, fresh, garbled, paceVars, updating, netVars>>

Finds(kinds) == turn /\ Whole /\ Wants \in kinds

(* Taking the next unit.  The loop ends after a message if nothing is left. *)
Takes == /\ rq' = SubSeq(rq, Head(rq).n + 2, Len(rq))
         /\ garbled' = (garbled \/ (~over /\ ~InStep(Head(rq).k)))
Says == Head(rq).v
Turns(on) == turn' = (on /\ rq' # <<>>)
Fails == over' = TRUE
-----------------------------------------------------------------------------
(* _normalMsg. *)

Asked(requests) == [server EXCEPT !.requests = @ + requests]

(* An update: it has to wait until the display has drawn the one before. *)
FramebufferUpdate ==
    /\ Finds({"message"}) /\ Takes /\ Head(rq).k = "fbu"
    /\ fbu' = [NoUpdate EXCEPT !.rects = Head(rq).s]
    /\ flushing' = drawing
    /\ turn' = ~drawing
    /\ UNCHANGED <<over, dec, fresh, drawing, updating, netVars>>

(* Variant: nothing is returned. *)
MessageOnce(kind, fails, goesOn) ==
    /\ Finds({"message"}) /\ Head(rq).k = kind
    /\ Takes
    /\ IF fails THEN Fails ELSE UNCHANGED over
    /\ Turns(FALSE)
    /\ UNCHANGED <<fbu, dec, fresh, paceVars, updating, netVars>>

(* Whether a message ends the loop is what its handler returns; two of     *)
(* those that fail do not.  What they keep of the message is left out.     *)
Message(kind, fails, goesOn) ==
    /\ Finds({"message"}) /\ Head(rq).k = kind
    /\ Takes
    /\ IF fails THEN Fails ELSE UNCHANGED over
    /\ Turns(goesOn)
    /\ UNCHANGED <<fbu, dec, fresh, paceVars, updating, netVars>>

SetColourMap == Message("colours", TRUE, FALSE)
Bell == Message("bell", FALSE, TRUE)
ServerCutText == Message("cut", Says = "bad", Says # "bad")
ServerFence == Message("fence", FALSE, TRUE)
Xvp == Message("xvp", Says = "bad", TRUE)
UnexpectedMessage == Message("unknown", TRUE, TRUE)

(* Variant: the server is not told to send them. *)
EndOfContinuousUpdatesUntold ==
    /\ Finds({"message"}) /\ Takes /\ Head(rq).k = "eocu"
    /\ updating' = TRUE
    /\ Turns(TRUE)
    /\ UNCHANGED <<over, fbu, dec, fresh, paceVars, netVars>>

(* The first EndOfContinuousUpdates tells that the server can have them. *)
EndOfContinuousUpdates ==
    /\ Finds({"message"}) /\ Takes /\ Head(rq).k = "eocu"
    /\ updating' = TRUE
    /\ server' = IF over THEN server ELSE [server EXCEPT !.continuous = TRUE]
    /\ Turns(TRUE)
    /\ UNCHANGED <<over, fbu, dec, fresh, paceVars, inbox>>

(* The end of a rectangle, with `left' to come; that of the last one ends  *)
(* the update, and asks for the next.                                      *)
RectEnds(left) ==
    /\ fbu' = [NoUpdate EXCEPT !.rects = left]
    /\ IF left > 0 THEN turn' = TRUE /\ UNCHANGED server
       ELSE /\ Turns(TRUE)
            /\ server' = Asked(IF updating \/ over THEN 0 ELSE 1)

RectGoesOn == turn' = TRUE /\ UNCHANGED <<fbu, server>>

(* The head of a rectangle.  Some end with it, as does an empty one. *)
RectHeader ==
    /\ Finds({"rect"}) /\ Takes
    /\ CASE Says \notin Known -> Fails /\ turn' = FALSE /\ UNCHANGED <<fbu, dec, server>>
         [] Says = "last" -> RectEnds(0) /\ UNCHANGED <<over, dec>>
         [] Says \in {"size", "qemu"} \/ (Says \in {"raw", "hextile"} /\ Head(rq).s = 0) ->
              RectEnds(fbu.rects - 1) /\ UNCHANGED <<over, dec>>
         [] OTHER ->
              /\ fbu' = [fbu EXCEPT !.enc = Says, !.size = Head(rq).s]
              /\ dec' = CASE Says = "raw" -> [dec EXCEPT !.lines = Head(rq).s]
                          [] Says = "hextile" -> [dec EXCEPT !.tiles = Head(rq).s]
                          [] OTHER -> dec
              /\ turn' = TRUE
              /\ UNCHANGED <<over, server>>
    /\ UNCHANGED <<fresh, paceVars, updating, inbox>>
-----------------------------------------------------------------------------
(* decodeRect, a unit at a time. *)

(* The decoder keeps `to', and the rectangle ends if `done'. *)
Decodes(to, done) ==
    /\ Takes
    /\ dec' = to
    /\ IF done THEN RectEnds(fbu.rects - 1) ELSE RectGoesOn
    /\ UNCHANGED <<over, flushing, updating, inbox>>

Drawn == UNCHANGED <<drawing, fresh>>
WithImage == drawing' = TRUE /\ UNCHANGED fresh

(* These are there as a whole or not at all.  What they hold is left out. *)
WholeRect(kind) == Finds({kind}) /\ Decodes(dec, TRUE) /\ Drawn
VMwareCursor == WholeRect("vmware")
Cursor == WholeRect("cursor")
DesktopName == WholeRect("name")
LedEvent == WholeRect("led")
ExtendedDesktopSize == WholeRect("screens")
CopyRect == WholeRect("source")

RawLine == /\ Finds({"line"})
           /\ Decodes([dec EXCEPT !.lines = @ - 1], dec.lines = 1) /\ Drawn

RreBackground == /\ Finds({"rre"})
                 /\ Decodes([dec EXCEPT !.subrects = Head(rq).s], Head(rq).s = 0) /\ Drawn

RreSubrect == /\ Finds({"subrect"})
              /\ Decodes([dec EXCEPT !.subrects = @ - 1], dec.subrects = 1) /\ Drawn

HextileTile == /\ Finds({"tile"}) /\ Says # "illegal"
               /\ Decodes([dec EXCEPT !.tiles = @ - 1], dec.tiles = 1) /\ Drawn

ZrleLength == Finds({"zlength"}) /\ Decodes([dec EXCEPT !.length = TRUE], FALSE) /\ Drawn
ZrleData == Finds({"zdata"}) /\ Says # "illegal" /\ Decodes([dec EXCEPT !.length = FALSE], TRUE) /\ Drawn

JpegSegment ==
    /\ Finds({"segment"})
    /\ \/ Says = "" /\ Decodes([dec EXCEPT !.segments = @ + 1], FALSE) /\ Drawn
       \/ Says = "end" /\ Decodes([dec EXCEPT !.segments = 0], TRUE) /\ WithImage

(* Variant: streams are reset for rectangles that use one. *)
TightControlBasic ==
    /\ Finds({"ctl"}) /\ Says # "illegal"
    /\ Decodes([dec EXCEPT !.ctl = Says, !.stream = Head(rq).s,
                           !.filter = IF Says = "copy" THEN "copy" ELSE ""], FALSE)
    /\ fresh' = IF Says \in {"copy", "filtered"} THEN AfterReset(fresh, Head(rq).z) ELSE fresh
    /\ UNCHANGED drawing

(* Tight: the streams are reset, whatever the rectangle is. *)
TightControl ==
    /\ Finds({"ctl"}) /\ Says # "illegal"
    /\ Decodes([dec EXCEPT !.ctl = Says, !.stream = Head(rq).s,
                           !.filter = IF Says = "copy" THEN "copy" ELSE ""], FALSE)
    /\ fresh' = AfterReset(fresh, Head(rq).z)
    /\ UNCHANGED drawing

TightFilter == Finds({"filter"}) /\ Decodes([dec EXCEPT !.filter = Says], FALSE) /\ Drawn
TightPalette == Finds({"palette"}) /\ Decodes([dec EXCEPT !.colors = TRUE], FALSE) /\ Drawn
TightLength == Finds({"length"}) /\ Decodes([dec EXCEPT !.len = TRUE], FALSE) /\ Drawn

TightDone == [dec EXCEPT !.ctl = "", !.stream = 0, !.filter = "", !.colors = FALSE, !.len = FALSE]

TightImage == Finds({"image"}) /\ Decodes(TightDone, TRUE) /\ WithImage
TightPixels == Finds({"pixel", "pixels"}) /\ Decodes(TightDone, TRUE) /\ Drawn

(* A block is inflated by a stream that has had all the blocks before it. *)
Inflates == (Says = "first") = fresh[dec.stream]
TightDeflated ==
    /\ Finds({"deflated"})
    /\ Takes
    /\ IF Inflates
       THEN dec' = TightDone /\ RectEnds(fbu.rects - 1) /\ UNCHANGED over
       ELSE Fails /\ turn' = FALSE /\ UNCHANGED <<fbu, dec, server>>
    /\ fresh' = [fresh EXCEPT ![dec.stream] = FALSE]
    /\ UNCHANGED <<paceVars, updating, inbox>>

(* An exception ends the connection, in the middle of the rectangle. *)
Throws == /\ Finds({"tile", "segment", "zdata", "ctl"}) /\ Says = "illegal"
          /\ Takes
          /\ Fails /\ turn' = FALSE
          /\ UNCHANGED <<fbu, dec, fresh, paceVars, updating, netVars>>

DecodeRect == \/ VMwareCursor \/ Cursor \/ DesktopName \/ LedEvent \/ ExtendedDesktopSize
              \/ CopyRect \/ RawLine \/ RreBackground \/ RreSubrect \/ HextileTile
              \/ ZrleLength \/ ZrleData \/ JpegSegment
              \/ TightControl \/ TightFilter \/ TightPalette \/ TightLength
              \/ TightImage \/ TightPixels \/ TightDeflated \/ Throws
-----------------------------------------------------------------------------
Parse == \/ Waits \/ FramebufferUpdate \/ SetColourMap \/ Bell \/ ServerCutText
         \/ ServerFence \/ Xvp \/ UnexpectedMessage \/ EndOfContinuousUpdates
         \/ RectHeader \/ DecodeRect
Serve == ~turn /\ ~over /\ (ServerUpdate \/ ServerRect \/ ServerLastRect \/ ServerMessage)
SessNext == Parse \/ Deliver \/ Load \/ Flushed \/ Serve

(* JavaScript runs on, images load, promises resolve. *)
SessSpec == /\ SessInit /\ [][SessNext]_sessVars
            /\ WF_sessVars(Parse) /\ WF_sessVars(Deliver)
            /\ WF_sessVars(Load) /\ WF_sessVars(Flushed)
-----------------------------------------------------------------------------
(* What everything is; never are two updates asked for at a time. *)
SessTypeOK ==
    /\ over \in BOOLEAN /\ turn \in BOOLEAN /\ flushing \in BOOLEAN /\ drawing \in BOOLEAN
    /\ fbu.rects \in 0..Many /\ fbu.enc \in Known \cup {NoEncoding}
    /\ dec.lines \in 0..2 /\ dec.subrects \in 0..2 /\ dec.tiles \in 0..2 /\ dec.segments \in 0..2
    /\ fresh \in [Streams -> BOOLEAN]
    /\ server.requests \in 0..1

(* However the stream is cut, the parser takes every unit as what the      *)
(* server meant it to be, and a deflated block by a stream that stands     *)
(* where the server's stood; and between two rectangles no decoder keeps   *)
(* anything of the last.                                                   *)
KeepsStep == /\ ~garbled
             /\ fbu.enc = NoEncoding /\ ~over => dec = AtRest
             /\ turn /\ Whole /\ Wants = "deflated" => Inflates

(* The parser does not stop in front of a unit that is there, unless it    *)
(* waits for the display.                                                  *)
NothingLeft == ~turn /\ ~flushing /\ ~over => ~Whole

(* The screen does not freeze: when all that was sent has been read, an    *)
(* update is asked for, or the server sends them by itself.                *)
NeverStarves ==
    (~turn /\ ~over /\ inbox = <<>> /\ rq = <<>> /\ fbu.rects = 0 /\ server.left = 0 /\ ~server.open)
        => server.requests > 0 \/ server.continuous

(* A flush ends, and what arrived during it is read. *)
FlushResumes == (flushing /\ Whole) ~> (over \/ ~Whole)
=============================================================================
