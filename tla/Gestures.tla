------------------------------ MODULE Gestures ------------------------------
(***************************************************************************)
(* The touch gestures of the console (core/input/gesturehandler.js): which *)
(* gestures the touches seen so far may still become, the touches that     *)
(* count and the ones that are ignored until they end, the two timers that *)
(* decide where touches alone do not, and the events that follow.          *)
(*                                                                         *)
(* `_state' is a set of gestures where the code has a mask of bits.  Of    *)
(* where a touch is only matters whether it is beyond the threshold; which *)
(* way two touches went is a choice of the moment they are compared.       *)
(***************************************************************************)
EXTENDS Naturals, Sequences, FiniteSets

CONSTANT Fingers        \* identifiers of touches

VARIABLES
    state,          \* _state: the gestures this may become
    tracked,        \* _tracked: touches that count
    ignored,        \* _ignored: identifiers of the ones that do not
    waitingRelease, \* _waitingRelease
    late,           \* _releaseStart is more than MULTITOUCH_TIMEOUT ago
    longpress,      \* the long press timer is pending
    twoTouch,       \* _twoTouchTimeoutId, and whether that timer is pending
    down,           \* fingers on the screen
    pushed,         \* events of the last step
    thrown          \* the handler threw

handlerVars == <<state, tracked, ignored, waitingRelease, late, longpress, twoTouch>>
gestureVars == <<handlerVars, down, pushed, thrown>>

ASSUME FingersAssumption == IsFiniteSet(Fingers)

Taps == {"onetap", "twotap", "threetap"}
TwoFingers == {"twodrag", "pinch"}
Initial == Taps \cup TwoFingers \cup {"drag", "longpress"}

(* Age of a touch: below MULTITOUCH_TIMEOUT, beyond it, beyond TAP_TIMEOUT *)
(* (which is LONGPRESS_TIMEOUT too).                                       *)
Fresh == 0
Slow == 1
Old == 2

Touch(f) == [id |-> f, active |-> TRUE, far |-> FALSE, age |-> Fresh]
Tracks(f) == \E i \in DOMAIN tracked : tracked[i].id = f
Active(touches) == {i \in DOMAIN touches : touches[i].active}

(* One gesture is left; for a tap every touch has ended as well. *)
Detected(s, touches) ==
    Cardinality(s) = 1 /\ (s \subseteq Taps => Active(touches) = {})
HasDetected == Detected(state, tracked)

(* Events carry the one gesture there is. *)
Push(s, types) == pushed' = [i \in DOMAIN types |->
                                [event |-> types[i], gesture |-> CHOOSE g \in s : TRUE]]
Quiet == pushed' = <<>>
-----------------------------------------------------------------------------
GestureInit ==
    /\ state = Initial /\ tracked = <<>> /\ ignored = {}
    /\ waitingRelease = FALSE /\ late = FALSE
    /\ longpress = FALSE /\ twoTouch = "null"
    /\ down = {} /\ pushed = <<>> /\ thrown = FALSE

(* Variant: a gesture that is found does not keep further touches out. *)
RefusesLess == \/ state = {} \/ waitingRelease
               \/ tracked # <<>> /\ tracked[1].age > Fresh

(* A touch is not counted if the gesture is found or given up, if the      *)
(* first touch is no longer fresh, or if touches have begun to end.        *)
Refuses == \/ HasDetected \/ state = {} \/ waitingRelease
           \/ tracked # <<>> /\ tracked[1].age > Fresh

StartIgnored(f) ==
    /\ Refuses
    /\ ignored' = ignored \cup {f}
    /\ state' = IF HasDetected THEN state ELSE {}
    /\ UNCHANGED <<tracked, longpress>>

(* Gestures that n touches cannot become. *)
Excluded(n) == CASE n = 1 -> {}
                 [] n = 2 -> {"onetap", "drag", "longpress"}
                 [] n = 3 -> {"twotap"} \cup TwoFingers
                 [] OTHER -> Initial

StartTracked(f) ==
    /\ ~Refuses
    /\ tracked' = Append(tracked, Touch(f))
    /\ state' = state \ Excluded(Len(tracked'))
    /\ longpress' = (Len(tracked') = 1 \/ (longpress /\ Len(tracked') # 2))
    /\ UNCHANGED ignored

TouchStart(f) ==
    /\ f \notin down
    /\ StartIgnored(f) \/ StartTracked(f)
    /\ down' = down \cup {f}
    /\ Quiet /\ UNCHANGED <<waitingRelease, late, twoTouch, thrown>>
-----------------------------------------------------------------------------
Moved(i, far) == [tracked EXCEPT ![i].far = far]

(* A move below the threshold decides nothing. *)
MoveSlightly(i) ==
    /\ ~HasDetected
    /\ tracked' = Moved(i, FALSE)
    /\ Quiet /\ UNCHANGED <<state, longpress, twoTouch>>

MoveOn(i) ==
    /\ HasDetected
    /\ \E far \in BOOLEAN : tracked' = Moved(i, far)
    /\ Push(state, <<"gesturemove">>)
    /\ UNCHANGED <<state, longpress, twoTouch>>

(* What a move beyond the threshold leaves. *)
Movable == state \cap CASE Len(tracked) = 1 -> {"drag"}
                        [] Len(tracked) = 2 -> TwoFingers
                        [] OTHER -> {}

MoveDecides(s) ==
    /\ state' = s
    /\ IF Detected(s, tracked') THEN Push(s, <<"gesturestart", "gesturemove">>) ELSE Quiet

(* With two touches it takes both to tell their directions apart; until    *)
(* then a timer runs, unless its identifier says one does.                 *)
MoveCompares(i) ==
    \/ /\ Len(tracked) # 2
       /\ MoveDecides(Movable) /\ UNCHANGED twoTouch
    \/ /\ Len(tracked) = 2 /\ tracked[3 - i].far
       /\ \E g \in TwoFingers : MoveDecides(Movable \ {g})
       /\ twoTouch' = "null"
    \/ /\ Len(tracked) = 2 /\ ~tracked[3 - i].far
       /\ MoveDecides(Movable)
       /\ twoTouch' = IF twoTouch = "null" THEN "running" ELSE twoTouch

(* Variant: the long press timer goes on. *)
MoveFarKeepsTimer(i) ==
    /\ ~HasDetected
    /\ tracked' = Moved(i, TRUE)
    /\ MoveCompares(i) /\ UNCHANGED longpress

MoveFar(i) ==
    /\ ~HasDetected
    /\ tracked' = Moved(i, TRUE)
    /\ longpress' = FALSE
    /\ MoveCompares(i)

TouchMove(f) ==
    /\ f \in down
    /\ \E i \in DOMAIN tracked :
        /\ tracked[i].id = f
        /\ MoveSlightly(i) \/ MoveOn(i) \/ MoveFar(i)
    /\ UNCHANGED <<ignored, waitingRelease, late, down, thrown>>
-----------------------------------------------------------------------------
(* Variant: nothing is reset when the last ignored touch ends. *)
EndIgnoredOnly(f) ==
    /\ ignored' = ignored \ {f}
    /\ Quiet /\ UNCHANGED <<state, waitingRelease, tracked, late, longpress, twoTouch, thrown>>

EndIgnored(f) ==
    /\ ignored' = ignored \ {f}
    /\ IF ignored' = {} /\ tracked = <<>>
       THEN state' = Initial /\ waitingRelease' = FALSE
       ELSE UNCHANGED <<state, waitingRelease>>
    /\ Quiet /\ UNCHANGED <<tracked, late, longpress, twoTouch, thrown>>

(* A touch that ends before the two touch timer takes the gesture back. *)
CalledOff == ~HasDetected /\ twoTouch # "null"
AtEnd == IF CalledOff THEN {} ELSE state

(* The gesture is undecided still: only taps are left, and of them, at the *)
(* first touch to end, the one for that many touches.                      *)
Tappable == AtEnd \cap
    IF waitingRelease THEN Taps
    ELSE CASE Len(tracked) = 1 -> {"onetap"}
           [] Len(tracked) = 2 -> {"twotap"}
           [] OTHER -> Taps

Undecided == ~Detected(AtEnd, tracked)
Waiting == waitingRelease \/ Undecided

(* A tap needs its touches to end soon, and together. *)
InTime == ~(waitingRelease /\ late) /\ \A i \in DOMAIN tracked : tracked[i].age < Old
Released(i) == [tracked EXCEPT ![i].active = ~Waiting]

Outcome == LET left == IF Undecided THEN Tappable ELSE AtEnd
           IN  IF Waiting /\ ~InTime THEN {} ELSE left

(* Other touches of the tap have to end yet. *)
EndAwaits(i) ==
    /\ Waiting /\ Outcome # {} /\ ~Detected(Outcome, Released(i))
    /\ state' = Outcome /\ tracked' = Released(i)
    /\ waitingRelease' = TRUE
    /\ late' = (waitingRelease /\ late)
    /\ Quiet /\ UNCHANGED ignored

(* The gesture is over, or there is none: what is left of it is ignored. *)
EndsGesture(i) ==
    /\ ~(Waiting /\ Outcome # {} /\ ~Detected(Outcome, Released(i)))
    /\ IF Detected(Outcome, Released(i))
       THEN Push(Outcome, IF Waiting THEN <<"gesturestart", "gestureend">> ELSE <<"gestureend">>)
       ELSE Quiet
    /\ ignored' = (ignored \cup {tracked[j].id : j \in Active(Released(i))}) \ {tracked[i].id}
    /\ tracked' = <<>>
    /\ state' = IF ignored' = {} THEN Initial ELSE {}
    /\ waitingRelease' = (Waiting /\ ignored' # {})
    /\ late' = (waitingRelease /\ late)

EndTracked(f) ==
    /\ \E i \in DOMAIN tracked :
        /\ tracked[i].id = f
        /\ EndAwaits(i) \/ EndsGesture(i)
    /\ longpress' = (longpress /\ ~Undecided)
    /\ twoTouch' = IF CalledOff THEN "null" ELSE twoTouch
    /\ UNCHANGED thrown

(* A touch that is neither tracked nor ignored is not there to end. *)
TouchEnd(f) ==
    /\ f \in down
    /\ IF f \in ignored THEN EndIgnored(f)
       ELSE IF Tracks(f) THEN EndTracked(f)
       ELSE thrown' = TRUE /\ Quiet /\ UNCHANGED handlerVars
    /\ down' = down \ {f}
-----------------------------------------------------------------------------
(* The gesture is a long press once its timer fires: whatever was found    *)
(* before, and at no touch at all, that is an error.                       *)
LongpressTimeout ==
    /\ longpress /\ (tracked # <<>> => tracked[1].age = Old)
    /\ longpress' = FALSE
    /\ IF HasDetected \/ tracked = <<>>
       THEN thrown' = TRUE /\ Quiet /\ UNCHANGED state
       ELSE /\ state' = {"longpress"} /\ Push(state', <<"gesturestart">>)
            /\ UNCHANGED thrown
    /\ UNCHANGED <<tracked, ignored, waitingRelease, late, twoTouch, down>>

(* The timer decides by how far the touches came apart.  Its identifier    *)
(* stays.                                                                  *)
TwoTouchTimeout ==
    /\ twoTouch = "running" /\ twoTouch' = "fired"
    /\ IF tracked = <<>>
       THEN thrown' = TRUE /\ Quiet /\ UNCHANGED state
       ELSE /\ \E g \in TwoFingers : state' = {g}
            /\ Push(state', <<"gesturestart", "gesturemove">>)
            /\ UNCHANGED thrown
    /\ UNCHANGED <<tracked, ignored, waitingRelease, late, longpress, down>>

(* Time passes: touches grow old in the order they came, none of them more *)
(* than MULTITOUCH_TIMEOUT before another.                                 *)
Ages ==
    /\ \E i \in DOMAIN tracked :
        /\ tracked[i].age < Old
        /\ \A j \in DOMAIN tracked :
            IF j < i THEN tracked[j].age > tracked[i].age ELSE tracked[j].age >= tracked[i].age
        /\ tracked' = [tracked EXCEPT ![i].age = @ + 1]
    /\ Quiet
    /\ UNCHANGED <<state, ignored, waitingRelease, late, longpress, twoTouch, down, thrown>>

GetsLate ==
    /\ waitingRelease /\ ~late
    /\ \A i \in DOMAIN tracked : tracked[i].age > Fresh
    /\ late' = TRUE
    /\ Quiet
    /\ UNCHANGED <<state, tracked, ignored, waitingRelease, longpress, twoTouch, down, thrown>>

GestureNext ==
    \/ \E f \in Fingers : TouchStart(f) \/ TouchMove(f) \/ TouchEnd(f)
    \/ LongpressTimeout \/ TwoTouchTimeout
    \/ Ages \/ GetsLate
=============================================================================
