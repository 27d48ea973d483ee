------------------------------ MODULE Display ------------------------------
(***************************************************************************)
(* The display (app/static/novnc/core/display.js): a hidden canvas that is *)
(* drawn on, a queue that keeps drawing in order while an image loads, and *)
(* a visible canvas that shows the viewport and is brought up to date from *)
(* the damaged part.  One row of pixels; the other axis is alike.          *)
(***************************************************************************)
EXTENDS Canvas, Sequences

CONSTANTS Columns,        \* left edges of rectangles
          Widths,         \* of rectangles, viewports and framebuffers
          Moves,          \* distances the viewport is moved
          Colours,
          DefaultWidth,   \* of a new canvas (300)
          Far,            \* beyond every column (65535)
          MaxQueue,       \* bound: actions in the render queue
          MaxDraws,       \* bound: drawing calls
          MaxChanges      \* bound: changes of the viewport and the framebuffer

ASSUME WidthsAssumption == Widths \subseteq Nat /\ DefaultWidth \in Nat
ASSUME BoundsAssumption == MaxQueue \in Nat /\ MaxDraws \in Nat /\ MaxChanges \in Nat
ASSUME MovesAssumption == Moves \subseteq Int
ASSUME FarAssumption == Far \in Nat /\ \A x \in Columns, w \in Widths : x \in Nat /\ x + w < Far

VARIABLES view,       \* fb: framebuffer width; clip; x, w: the viewport
          back,       \* the hidden canvas
          target,     \* the visible one
          damage,     \* l, r: columns drawn on since the last flip
          renderQ,    \* drawing actions, oldest first
          flushing,   \* a flush promise waits
          calls       \* draws and changes made, for the bounds

dispVars == <<view, back, target, damage, renderQ, flushing, calls>>

DispInit ==
    /\ view = [fb |-> 0, clip |-> FALSE, x |-> 0, w |-> 0]
    /\ back = Cleared(DefaultWidth)
    /\ target = Cleared(0)
    /\ damage = [l |-> 0, r |-> DefaultWidth]
    /\ renderQ = <<>>
    /\ flushing = FALSE
    /\ calls = [draws |-> 0, changes |-> 0]

(* The methods below map a state [view, back, target, damage, q] to one. *)
State == [view |-> view, back |-> back, target |-> target, damage |-> damage, q |-> renderQ]
Become(s) == /\ view' = s.view /\ back' = s.back /\ target' = s.target
             /\ damage' = s.damage /\ renderQ' = s.q

Max2(a, b) == IF a > b THEN a ELSE b
Min2(a, b) == IF a < b THEN a ELSE b
-----------------------------------------------------------------------------
(* Drawing. *)

Damaged(s, x, w) ==
    [s EXCEPT !.damage = [l |-> Min2(@.l, x), r |-> Max2(@.r, x + w)]]

(* The damaged part, cut to the viewport on both sides. *)
ShowDamage(s) ==
    LET x == Max2(s.damage.l, s.view.x)
        vx == x - s.view.x
        w == Min2(s.damage.r - x, s.view.w - vx)
    IN [s EXCEPT !.target = IF w > 0 THEN Copied(@, s.back, x, vx, w) ELSE @,
                 !.damage = [l |-> Far, r |-> 0]]

Draw(s, a) ==
    CASE a.type = "flip" -> ShowDamage(s)
      [] a.type = "copy" ->
            Damaged([s EXCEPT !.back = Copied(@, @, a.from, a.x, a.w)], a.x, a.w)
      [] OTHER -> Damaged([s EXCEPT !.back = Painted(@, a.x, a.w, a.c)], a.x, a.w)

(* Variant: only images wait. *)
InOrderAtOnce(s, a, queued) == Draw(s, a)

(* Drawing calls that come behind something in the queue have to wait. *)
InOrder(s, a, queued) == IF s.q # <<>> THEN [s EXCEPT !.q = Append(@, queued)] ELSE Draw(s, a)

(* The first n actions of the queue, one after the other. *)
Drawing(s, q, n) ==
    LET after[k \in 0..n] == IF k = 0 THEN s ELSE Draw(after[k - 1], q[k])
    IN after[n]

(* _scanRenderQ: draw up to the first image that is not there yet, or that *)
(* came with the wrong dimensions: that one stays in the queue.            *)
Ready(a) == a.type = "img" => a.complete /\ a.fits
ReadyPrefix(q) ==
    CHOOSE n \in 0..Len(q) : /\ \A i \in 1..n : Ready(q[i])
                             /\ n < Len(q) => ~Ready(q[n + 1])

(* A scan that empties the queue resolves the flush promise. *)
ScanRenderQ(s) ==
    \E n \in {ReadyPrefix(s.q)} : \E t \in {Drawing(s, s.q, n)} :
        /\ Become([t EXCEPT !.q = SubSeq(@, n + 1, Len(@))])
        /\ flushing' = (flushing /\ n < Len(s.q))

FlipAction == [type |-> "flip"]
Flipped(s) == InOrder(s, FlipAction, FlipAction)
-----------------------------------------------------------------------------
(* The viewport. *)

(* How far viewportChangePos goes: back to 0 when the view is not clipped, *)
(* never off the left edge, then never off the right one.                  *)
Delta(v, asked) ==
    LET d0 == IF v.clip THEN asked ELSE -v.w
        d1 == IF d0 < 0 /\ v.x + d0 < 0 THEN -v.x ELSE d0
    IN IF v.x + v.w + d1 > v.fb THEN v.fb - v.x - v.w ELSE d1

(* Variant: only a new size damages the viewport. *)
ReframedQuiet(s, w, asked) ==
    LET d == Delta([s.view EXCEPT !.w = w], asked)
        x == s.view.x + d
        moved == [s EXCEPT !.view = [@ EXCEPT !.x = x, !.w = w],
                           !.target = IF w = s.view.w THEN @ ELSE Cleared(w)]
    IN IF w = s.view.w THEN Flipped(moved) ELSE Flipped(Damaged(moved, x, w))

(* Give the viewport width w and move it; anything new is damaged and      *)
(* shown.  The code comes here in several calls, and flips after each:     *)
(* flips with nothing drawn in between are one.                            *)
Reframed(s, w, asked) ==
    LET d == Delta([s.view EXCEPT !.w = w], asked)
        x == s.view.x + d
        moved == [s EXCEPT !.view = [@ EXCEPT !.x = x, !.w = w],
                           !.target = IF w = s.view.w THEN @ ELSE Cleared(w)]
    IN IF d = 0 /\ w = s.view.w THEN s ELSE Flipped(Damaged(moved, x, w))

(* The width viewportChangeSize gives the viewport. *)
AllowedWidth(v, asked) == IF v.clip THEN Min2(asked, v.fb) ELSE v.fb

Readjusted(s) == Reframed(s, AllowedWidth(s.view, s.view.w), 0)
-----------------------------------------------------------------------------
Draws == calls.draws < MaxDraws /\ calls' = [calls EXCEPT !.draws = @ + 1]
Changes == calls.changes < MaxChanges /\ calls' = [calls EXCEPT !.changes = @ + 1]
Keep(s) == \E t \in {s} : Len(t.q) <= MaxQueue /\ Become(t) /\ UNCHANGED flushing

FillRect(x, w, c) ==
    LET a == [type |-> "paint", x |-> x, w |-> w, c |-> c]
    IN Draws /\ Keep(InOrder(State, a, a))

CopyImage(from, x, w) ==
    LET a == [type |-> "copy", from |-> from, x |-> x, w |-> w]
    IN Draws /\ Keep(InOrder(State, a, a))

(* The array is the pixels of the rectangle, or a view of a larger buffer. *)
(* The queue keeps a copy of the start of the buffer, not of the view.     *)
BlitImage(x, w, c, whole) ==
    LET a == [type |-> "paint", x |-> x, w |-> w, c |-> c]
    IN Draws /\ Keep(InOrder(State, a, IF whole THEN a ELSE [a EXCEPT !.c = Stray]))

(* An image goes through the queue even when nothing waits; an empty one   *)
(* is not drawn.                                                           *)
ImageRect(x, w, c, complete, fits) ==
    LET a == [type |-> "img", x |-> x, w |-> w, c |-> c, complete |-> complete, fits |-> fits]
        s == [State EXCEPT !.q = Append(@, a)]
    IN /\ Draws /\ w # 0 /\ Len(s.q) <= MaxQueue
       /\ IF renderQ = <<>> THEN ScanRenderQ(s) ELSE Become(s) /\ UNCHANGED flushing

Flip == Draws /\ Keep(Flipped(State))

(* Resizing is not queued.  A server announces a new size at the start of  *)
(* an update, and rfb.js starts none while the queue holds anything.       *)
ResizeFb(n) ==
    /\ renderQ = <<>>
    /\ Changes /\ Keep(Readjusted([State EXCEPT !.view.fb = n, !.back = Resized(@, n)]))

SetClip(on) == Changes /\ Keep(Readjusted([State EXCEPT !.view.clip = on]))
ViewportChangeSize(w) ==
    LET allowed == AllowedWidth(view, w)
    IN Changes /\ Keep(IF allowed = view.w THEN State ELSE Reframed(State, allowed, 0))
ViewportChangePos(d) == Changes /\ Keep(Reframed(State, view.w, d))

(* rfb.js waits for the queue: a promise is kept only if there is one. *)
Flush == /\ renderQ # <<>>
         /\ flushing' = TRUE
         /\ UNCHANGED <<view, back, target, damage, renderQ, calls>>

(* Variant: nobody listens for the load of the first image. *)
LoadUnheard(i) ==
    /\ renderQ[i].type = "img" /\ ~renderQ[i].complete
    /\ Become([State EXCEPT !.q[i].complete = TRUE])
    /\ UNCHANGED <<flushing, calls>>

(* The browser finishes an image; if the queue waits for it, it goes on. *)
Load(i) ==
    /\ renderQ[i].type = "img" /\ ~renderQ[i].complete
    /\ UNCHANGED calls
    /\ \E s \in {[State EXCEPT !.q[i].complete = TRUE]} :
           IF i = 1 THEN ScanRenderQ(s) ELSE Become(s) /\ UNCHANGED flushing

Loading == \E i \in DOMAIN renderQ : Load(i)

DispNext ==
    \/ \E x \in Columns, w \in Widths, c \in Colours :
           \/ FillRect(x, w, c)
           \/ \E whole \in BOOLEAN : BlitImage(x, w, c, whole)
           \/ \E complete, fits \in BOOLEAN : ImageRect(x, w, c, complete, fits)
    \/ \E from, x \in Columns, w \in Widths : CopyImage(from, x, w)
    \/ \E w \in Widths : ResizeFb(w) \/ ViewportChangeSize(w)
    \/ \E d \in Moves : ViewportChangePos(d) \/ ViewportChangePos(-d)
    \/ \E on \in BOOLEAN : SetClip(on)
    \/ Flip \/ Flush
    \/ Loading

DispSpec == DispInit /\ [][DispNext]_dispVars
(* Every image that is decoded completes some day. *)
DispFairSpec == DispSpec /\ WF_dispVars(Loading)
-----------------------------------------------------------------------------
DispTypeOK ==
    /\ view \in [fb: Nat, clip: BOOLEAN, x: Int, w: Int]
    /\ DOMAIN target = 0..(view.w - 1)
    /\ damage.l \in Nat /\ damage.r \in Nat
    /\ flushing \in BOOLEAN
    /\ calls \in [draws: 0..MaxDraws, changes: 0..MaxChanges]
    /\ flushing => renderQ # <<>>

(* Whatever sizes the server and the window take, the viewport shows       *)
(* columns of the framebuffer, and a column that looks otherwise lies in   *)
(* the damaged part: the next flip shows it.  Moving, resizing and queued  *)
(* flips never forget one (display.js:92-170, 236-275).                   *)
StaleIsDamaged ==
    \A i \in DOMAIN target :
        /\ view.x + i \in 0..(view.fb - 1)
        /\ (view.x + i) \in DOMAIN back =>
            target[i] = back[view.x + i] \/ (view.x + i) \in damage.l..(damage.r - 1)

(* The picture that the hidden canvas and the queue will come to; nobody   *)
(* has to look at it.                                                      *)
WillDraw(a) == a.type # "img" \/ a.fits
Unseen(pic) == [view |-> [fb |-> 0, clip |-> FALSE, x |-> 0, w |-> 0], back |-> pic,
                target |-> Cleared(0), damage |-> [l |-> 0, r |-> 0], q |-> <<>>]
Put(pic, a) == IF WillDraw(a) THEN Draw(Unseen(pic), a).back ELSE pic
Final(pic, q) ==
    LET after[k \in 0..Len(q)] == IF k = 0 THEN pic ELSE Put(after[k - 1], q[k])
    IN after[Len(q)]
Eventual == Final(back, renderQ)

(* What the decoders rely on: a drawing call changes the picture as if it  *)
(* were carried out at once, in the order of the calls, though images take *)
(* time to load; and nothing else but a new size changes it.  It is said   *)
(* of blits of whole arrays: the pixels of a view come out as stray ones   *)
(* when they have to wait.                                                 *)
DrawsInOrder ==
    [][/\ \A x \in Columns, w \in Widths, c \in Colours :
            \/ FillRect(x, w, c)
            \/ BlitImage(x, w, c, TRUE)
            \/ \E complete \in BOOLEAN : ImageRect(x, w, c, complete, TRUE)
            => Eventual' = Painted(Eventual, x, w, c)
       /\ \A from, x \in Columns, w \in Widths :
            CopyImage(from, x, w) => Eventual' = Copied(Eventual, Eventual, from, x, w)
       /\ calls'.draws = calls.draws /\ DOMAIN back' = DOMAIN back => Eventual' = Eventual
      ]_dispVars

(* A flush ends, unless an image of wrong dimensions has stopped the queue *)
(* for good: its return leaves promise and queue as they are.              *)
Stopped == renderQ # <<>> /\ renderQ[1].type = "img" /\ renderQ[1].complete
           /\ ~renderQ[1].fits
FlushEnds == flushing ~> (~flushing \/ Stopped)
=============================================================================
