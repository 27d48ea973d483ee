------------------------------ MODULE Pointer ------------------------------
(***************************************************************************)
(* The pointer of the console (rfb.js): mouse events and the gestures of   *)
(* touches become moves and presses for the server.  Gesture events are    *)
(* handled before the touch event that caused them returns.                *)
(*                                                                         *)
(* The page leaves viewOnly and dragViewport off.  Coordinates are left    *)
(* out; how far a gesture went is a choice.                                *)
(***************************************************************************)
EXTENDS Gestures, SequencesExt

CONSTANT MouseButtons   \* buttons of the mouse

VARIABLES
    conn,       \* _rfbConnectionState
    held,       \* mouse buttons the user holds down
    mask,       \* _mouseButtonMask
    delayed,    \* _mouseMoveTimer is pending
    recent,     \* the last move went out less than MOUSE_MOVE_DELAY ago
    told        \* buttons of the last pointer event the server was sent

pointer == [mask |-> mask, delayed |-> delayed, recent |-> recent, told |-> told]
pointerVars == <<mask, delayed, recent, told>>
ptrVars == <<gestureVars, conn, held, pointerVars>>

Buttons == {"left", "middle", "right"}
Wheel == "wheel"        \* the button of any of the four directions

ASSUME ButtonsAssumption == MouseButtons \subseteq Buttons

Becomes(p) == /\ mask' = p.mask /\ told' = p.told
              /\ delayed' = p.delayed /\ recent' = p.recent

SendMouse(p, buttons) == [p EXCEPT !.told = IF conn = "connected" THEN buttons ELSE @]

(* A move that waits goes first, with the buttons there were. *)
HandleMouseButton(p, isDown, button) ==
    LET moved == IF p.delayed THEN SendMouse([p EXCEPT !.delayed = FALSE], p.mask) ELSE p
        buttons == IF isDown THEN p.mask \cup {button} ELSE p.mask \ {button}
    IN  SendMouse([moved EXCEPT !.mask = buttons], buttons)

Click(p, button) == HandleMouseButton(HandleMouseButton(p, TRUE, button), FALSE, button)

(* One move in MOUSE_MOVE_DELAY goes out; a move too soon waits. *)
HandleMouseMove(p) ==
    IF p.recent \/ p.delayed THEN [p EXCEPT !.delayed = TRUE]
    ELSE SendMouse([p EXCEPT !.recent = TRUE], p.mask)

HandleTapEvent(p, button) == Click(HandleMouseMove(p), button)

(* Scrolling sends as many clicks as the fingers went steps: one stands    *)
(* for them, as each leaves what the one before left.                      *)
Scroll(p, steps) == IF steps THEN Click(p, Wheel) ELSE p

ButtonOf == [drag |-> "left", longpress |-> "right",
             onetap |-> "left", twotap |-> "right", threetap |-> "middle"]

(* Variant: the end of a long press lets go of the button of a drag. *)
HandleGestureLeft(p, e, steps) ==
    CASE e.gesture \in Taps ->
            IF e.event = "gesturestart" THEN HandleTapEvent(p, ButtonOf[e.gesture]) ELSE p
      [] e.gesture \in TwoFingers -> HandleMouseMove(p)
      [] OTHER -> HandleMouseButton(HandleMouseMove(p), e.event = "gesturestart",
                    IF e.event = "gesturestart" THEN ButtonOf[e.gesture] ELSE "left")

HandleGesture(p, e, steps) ==
    CASE e.gesture \in Taps ->
            IF e.event = "gesturestart" THEN HandleTapEvent(p, ButtonOf[e.gesture]) ELSE p
      [] e.gesture \in TwoFingers ->
            (CASE e.event = "gesturestart" -> HandleMouseMove(p)
               [] e.event = "gesturemove" -> Scroll(HandleMouseMove(p), steps)
               [] OTHER -> p)
      [] OTHER ->
            LET there == HandleMouseMove(p)
            IN  CASE e.event = "gesturestart" -> HandleMouseButton(there, TRUE, ButtonOf[e.gesture])
                  [] e.event = "gestureend" -> HandleMouseButton(there, FALSE, ButtonOf[e.gesture])
                  [] OTHER -> there
-----------------------------------------------------------------------------
PtrInit == /\ GestureInit
           /\ conn = "connecting" /\ held = {} /\ mask = {}
           /\ delayed = FALSE /\ recent = FALSE
           /\ told = {}

Gesturing == /\ GestureNext
             /\ \E steps \in BOOLEAN :
                    Becomes(FoldLeft(LAMBDA p, e : HandleGesture(p, e, steps), pointer, pushed'))
             /\ UNCHANGED <<conn, held>>

Mouse == UNCHANGED <<handlerVars, down, thrown, conn>> /\ Quiet

MouseDown(b) == /\ b \notin held /\ held' = held \cup {b}
                /\ Becomes(HandleMouseButton(pointer, TRUE, b))
                /\ Mouse
MouseUp(b) == /\ b \in held /\ held' = held \ {b}
              /\ Becomes(HandleMouseButton(pointer, FALSE, b))
              /\ Mouse
MouseMove == /\ Becomes(HandleMouseMove(pointer))
             /\ Mouse /\ UNCHANGED held

(* Wheel steps add up to clicks, once connected. *)
HandleWheel == /\ conn = "connected"
               /\ Becomes(Scroll(pointer, TRUE))
               /\ Mouse /\ UNCHANGED held

HandleDelayedMouseMove ==
    /\ delayed
    /\ Becomes([SendMouse(pointer, mask) EXCEPT !.delayed = FALSE, !.recent = TRUE])
    /\ Mouse /\ UNCHANGED held

(* MOUSE_MOVE_DELAY after the last move; a timer that waits for it is due. *)
MoveDelayOver ==
    /\ recent /\ ~delayed /\ recent' = FALSE
    /\ Mouse /\ UNCHANGED <<held, mask, delayed, told>>

Connect == /\ conn = "connecting" /\ conn' = "connected"
           /\ Quiet /\ UNCHANGED <<handlerVars, down, thrown, held, pointerVars>>

(* The listeners are gone, and the timers. *)
Disconnect == /\ conn' = "disconnected"
              /\ longpress' = FALSE /\ twoTouch' = "null" /\ delayed' = FALSE
              /\ Quiet
              /\ UNCHANGED <<state, tracked, ignored, waitingRelease, late, down, thrown,
                             held, mask, recent, told>>

PtrNext ==
    /\ conn # "disconnected"
    /\ \/ Gesturing \/ MouseMove \/ HandleWheel
       \/ \E b \in MouseButtons : MouseDown(b) \/ MouseUp(b)
       \/ HandleDelayedMouseMove \/ MoveDelayOver
       \/ Connect \/ Disconnect

PtrSpec == PtrInit /\ [][PtrNext]_ptrVars
-----------------------------------------------------------------------------
(* Each variable holds what the code puts there; between two steps only    *)
(* the buttons of a mouse are pressed, as a turn of the wheel and a tap    *)
(* press and release at once (rfb.js:1226, 1299).                          *)
PtrTypeOK ==
    /\ state \subseteq Initial /\ ignored \subseteq Fingers /\ down \subseteq Fingers
    /\ \A i \in DOMAIN tracked :
        tracked[i] \in [id : Fingers, active : BOOLEAN, far : BOOLEAN, age : Fresh..Old]
    /\ {waitingRelease, late, longpress, thrown, delayed, recent} \subseteq BOOLEAN
    /\ twoTouch \in {"null", "running", "fired"}
    /\ conn \in {"connecting", "connected", "disconnected"}
    /\ held \subseteq MouseButtons /\ mask \subseteq Buttons /\ told \subseteq Buttons

(* The errors of the gesture handler stay unreachable whatever fingers and *)
(* timers do: no timer outlives its touches or strikes a gesture already   *)
(* found, and no touch ends unknown (gesturehandler.js:310, 384, 408).     *)
NeverThrows == ~thrown

(* With no finger on the screen the handler is as new: nothing is waited   *)
(* for that could swallow, or become, the next gesture                     *)
(* (gesturehandler.js:252-259, 330-346).                                   *)
RestsWhenLifted ==
    down = {} => /\ state = Initial /\ tracked = <<>> /\ ignored = {}
                 /\ ~waitingRelease /\ ~longpress /\ twoTouch # "running"

(* The server holds a button down only while the user does: with the mouse *)
(* or with a finger of the gesture (rfb.js:1345-1373).                     *)
HeldByUser ==
    told # {} => held # {} \/ \E i \in DOMAIN tracked : tracked[i].id \in down

(* A drag or a long press, once found, stays the gesture until its end is  *)
(* told: no timer, move or further finger turns it into another one        *)
(* (gesturehandler.js:122-129, 322-328).                                   *)
EndsAreTold ==
    [][\A g \in {"drag", "longpress"} : state = {g} /\ state' # {g} =>
        /\ pushed' # <<>>
        /\ Last(pushed') = [event |-> "gestureend", gesture |-> g]]_ptrVars

=============================================================================
