----------------------------- MODULE RfbProofs -----------------------------
(***************************************************************************)
(* What rfb.js does once it is connected, in two parts that share nothing: *)
(* the pointer with its gestures, and the session with its decoders.       *)
(*                                                                         *)
(* Pointer, for any fingers and any mouse buttons.  The inductive          *)
(* invariant says whose touch every finger on the screen is, what a screen *)
(* without touches leaves, how far the gesture is narrowed down by the     *)
(* number of touches, and when a timer may still be pending.               *)
(*                                                                         *)
(* Session, for any encodings of those the model knows, any Tight          *)
(* streams, updates of any number of rectangles up to its bound, and any   *)
(* number of cells on their way.                                           *)
(*                                                                         *)
(* What is on its way or waits to be read is a path: from the state the    *)
(* parser is in, unit by unit, to a state in which the server's account of *)
(* the update, of the streams and of the requests is the parser's.  Each   *)
(* thing the server sends makes the path longer; each unit the parser      *)
(* takes moves it along the path; delivery only moves the border between   *)
(* what is read and what is not.                                           *)
(***************************************************************************)
EXTENDS Pointer, Session, FiniteSetTheorems, SequenceTheorems, TLAPS

TouchRecord == [id : Fingers, active : BOOLEAN, far : BOOLEAN, age : Fresh..Old]

Typed ==
    /\ state \subseteq Initial /\ tracked \in Seq(TouchRecord)
    /\ ignored \subseteq Fingers /\ down \subseteq Fingers
    /\ waitingRelease \in BOOLEAN /\ longpress \in BOOLEAN /\ thrown \in BOOLEAN
    /\ twoTouch \in {"null", "running", "fired"}

ActiveIds == {tracked[i].id : i \in Active(tracked)}

(* A finger on the screen is an ignored touch or an active one, never both; *)
(* touches that have ended stay only while others are waited for.          *)
Accounted ==
    /\ \A i, j \in DOMAIN tracked : tracked[i].id = tracked[j].id => i = j
    /\ down = ignored \cup ActiveIds
    /\ ignored \cap ActiveIds = {}
    /\ tracked # <<>> => Active(tracked) # {}
    /\ ~waitingRelease => Active(tracked) = DOMAIN tracked

(* Without touches that count nothing is pending, and the gesture is open  *)
(* or, until the others end, given up.                                     *)
Rested ==
    tracked = <<>> => /\ state = IF ignored = {} THEN Initial ELSE {}
                      /\ ignored = {} => ~waitingRelease
                      /\ ~longpress

(* The gesture is found, and it is none that has to wait for releases.     *)
Chosen(s) == \E g \in Initial \ Taps : s = {g}

(* Every touch excludes gestures; of the two for two fingers one goes only *)
(* when it leaves the other; once touches end at most one gesture is left. *)
Narrowed ==
    /\ Len(tracked) >= 2 => /\ "onetap" \notin state /\ "drag" \notin state
                            /\ "longpress" \notin state /\ ~longpress
    /\ Len(tracked) >= 3 => "twotap" \notin state
    /\ waitingRelease => /\ \A g, h \in state : g = h
                         /\ "drag" \notin state /\ "longpress" \notin state
                         /\ ~longpress
    /\ ("pinch" \in state <=> "twodrag" \in state) \/ Chosen(state)

(* A timer that is pending still has something to decide. *)
Timed ==
    /\ longpress => ~Chosen(state)
    /\ twoTouch = "running" => Len(tracked) >= 2 /\ ~Chosen(state)

GestureInv == Typed /\ Accounted /\ Rested /\ Narrowed /\ Timed

-----------------------------------------------------------------------------
LEMMA InitialIsFinite == IsFiniteSet(Initial)
<1> DEFINE A == {"onetap"}
           B == A \cup {"twotap"}
           C == B \cup {"threetap"}
           D == C \cup {"twodrag"}
           E == D \cup {"pinch"}
           F == E \cup {"drag"}
           G == F \cup {"longpress"}
<1>1. IsFiniteSet(A)
  BY FS_Singleton
<1>2. IsFiniteSet(B)
  BY <1>1, FS_AddElement, Zenon
<1>3. IsFiniteSet(C)
  BY <1>2, FS_AddElement, Zenon
<1>4. IsFiniteSet(D)
  BY <1>3, FS_AddElement, Zenon
<1>5. IsFiniteSet(E)
  BY <1>4, FS_AddElement, Zenon
<1>6. IsFiniteSet(F)
  BY <1>5, FS_AddElement, Zenon
<1>7. IsFiniteSet(G)
  BY <1>6, FS_AddElement, Zenon
<1>8. G = Initial
  BY DEF Initial, Taps, TwoFingers
<1> QED
  BY <1>7, <1>8

(* Detected without counting: one gesture, and for a tap no active touch.  *)
LEMMA DetectedIs ==
    ASSUME NEW s, s \subseteq Initial, NEW t
    PROVE  Detected(s, t) <=> (\E g \in Initial : s = {g}) /\ (s \subseteq Taps => Active(t) = {})
<1>1. IsFiniteSet(s)
  BY InitialIsFinite, FS_Subset
<1>2. Cardinality(s) = 1 <=> \E g : s = {g}
  BY <1>1, FS_Singleton
<1>3. (\E g : s = {g}) <=> \E g \in Initial : s = {g}
  OBVIOUS
<1> QED
  BY <1>2, <1>3 DEF Detected

(* While touches count, the gesture is detected exactly when it is chosen. *)
LEMMA DetectedIsChosen ==
    ASSUME Typed, Accounted, Rested
    PROVE  HasDetected <=> Chosen(state)
<1>1. HasDetected <=> /\ \E g \in Initial : state = {g}
                      /\ state \subseteq Taps => Active(tracked) = {}
  BY DetectedIs DEF Typed, HasDetected
<1>2. CASE tracked = <<>>
  <2>1. state = Initial \/ state = {}
    BY <1>2 DEF Rested
  <2>2. ~ \E g \in Initial : state = {g}
    BY <2>1 DEF Initial, Taps, TwoFingers
  <2> QED
    BY <1>1, <2>2 DEF Chosen
<1>3. CASE tracked # <<>>
  <2>1. Active(tracked) # {}
    BY <1>3 DEF Accounted
  <2> QED
    BY <1>1, <2>1 DEF Chosen
<1> QED
  BY <1>2, <1>3

(* A touch replaced in the sequence. *)
LEMMA ReplacedTouch ==
    ASSUME NEW s \in Seq(TouchRecord), NEW i \in DOMAIN s, NEW t \in TouchRecord
    PROVE  LET r == [s EXCEPT ![i] = t]
           IN  /\ r \in Seq(TouchRecord) /\ Len(r) = Len(s) /\ DOMAIN r = DOMAIN s
               /\ \A j \in DOMAIN s : r[j] = IF j = i THEN t ELSE s[j]
<1>1. DOMAIN s = 1..Len(s)
  BY LenProperties
<1>2. i \in 1..Len(s)
  BY <1>1
<1> QED
  BY <1>1, <1>2, ExceptSeq, LenProperties, Zenon

(* Steps that leave every touch its finger, and active if it was.          *)
LEMMA SameFingers ==
    ASSUME Typed, Accounted, tracked' \in Seq(TouchRecord),
           Len(tracked') = Len(tracked), DOMAIN tracked' = DOMAIN tracked,
           \A i \in DOMAIN tracked : /\ tracked'[i].id = tracked[i].id
                                     /\ tracked'[i].active = tracked[i].active,
           UNCHANGED <<ignored, down, waitingRelease>>
    PROVE  /\ Accounted'
           /\ (tracked' = <<>>) <=> (tracked = <<>>)
<1>1. Active(tracked') = Active(tracked)
  BY DEF Active
<1>2. ActiveIds' = ActiveIds
  BY <1>1 DEF ActiveIds, Active
<1>3. (tracked' = <<>>) <=> (tracked = <<>>)
  BY EmptySeq, LenProperties DEF Typed
<1> QED
  BY <1>1, <1>2, <1>3 DEF Accounted

-----------------------------------------------------------------------------
(* Each step of the gesture handler keeps the invariant. *)

LEMMA StartIgnoredKeeps ==
    ASSUME GestureInv, NEW f \in Fingers, f \notin down, StartIgnored(f),
           down' = down \cup {f}, UNCHANGED <<waitingRelease, twoTouch, thrown>>
    PROVE  GestureInv'
<1> USE DEF GestureInv
<1>1. HasDetected <=> Chosen(state)
  BY DetectedIsChosen
<1>2. /\ tracked' = tracked /\ longpress' = longpress
      /\ ignored' = ignored \cup {f}
      /\ state' = state \/ (state' = {} /\ ~Chosen(state))
  BY <1>1 DEF StartIgnored
<1>3. Typed'
  BY <1>2 DEF Typed
<1>4. Active(tracked') = Active(tracked) /\ ActiveIds' = ActiveIds
  BY <1>2 DEF Active, ActiveIds
<1>5. Accounted'
  BY <1>2, <1>4 DEF Accounted
<1>6. Rested'
  <2> SUFFICES ASSUME tracked = <<>>
               PROVE  state' = {} /\ ~longpress'
    BY <1>2 DEF Rested
  <2>1. ~Chosen(Initial)
    BY DEF Chosen, Initial, Taps, TwoFingers
  <2>2. Initial # {}
    BY DEF Initial, Taps
  <2>3. ignored # {}
    BY <1>1, <2>1, <2>2 DEF StartIgnored, Refuses, Rested
  <2> QED
    BY <1>2, <2>3 DEF Rested
<1>7. ~Chosen({})
  BY DEF Chosen
<1>8. Narrowed' /\ Timed'
  BY <1>2, <1>7 DEF Narrowed, Timed
<1> QED
  BY <1>3, <1>5, <1>6, <1>8

LEMMA StartTrackedKeeps ==
    ASSUME GestureInv, NEW f \in Fingers, f \notin down, StartTracked(f),
           down' = down \cup {f}, UNCHANGED <<waitingRelease, twoTouch, thrown>>
    PROVE  GestureInv'
<1> USE DEF GestureInv
<1> DEFINE n == Len(tracked)
<1>1. /\ ~Chosen(state) /\ state # {} /\ waitingRelease = FALSE /\ waitingRelease' = FALSE
      /\ ignored' = ignored
      /\ tracked' = Append(tracked, Touch(f))
      /\ state' = state \ Excluded(Len(tracked'))
      /\ longpress' <=> (Len(tracked') = 1 \/ (longpress /\ Len(tracked') # 2))
  BY DetectedIsChosen DEF StartTracked, Refuses, Typed
<1>2. n \in Nat /\ DOMAIN tracked = 1..n
  BY LenProperties DEF Typed
<1>3. Touch(f) \in TouchRecord
  BY DEF Touch, TouchRecord, Fresh, Old
<1>4. /\ tracked' \in Seq(TouchRecord) /\ Len(tracked') = n + 1 /\ tracked' # <<>>
      /\ DOMAIN tracked' = 1..(n + 1)
      /\ \A i \in 1..n : tracked'[i] = tracked[i]
      /\ tracked'[n + 1] = Touch(f)
  BY <1>1, <1>3, AppendProperties, LenProperties DEF Typed
<1>5. Typed'
  <2>1. longpress' \in BOOLEAN
    BY DEF StartTracked
  <2> QED
    BY <1>1, <1>4, <2>1 DEF Typed
<1>6. Accounted'
  <2>1. Active(tracked') = DOMAIN tracked'
    BY <1>1, <1>2, <1>4 DEF Active, Accounted, Touch
  <2>2. \A i \in 1..n : i \in Active(tracked) /\ tracked[i].id \in ActiveIds
    BY <1>1, <1>2 DEF Accounted, ActiveIds
  <2>3. ActiveIds' = ActiveIds \cup {f}
    BY <1>1, <1>2, <1>4, <2>1 DEF ActiveIds, Accounted, Touch
  <2>4. f \notin ActiveIds /\ f \notin ignored
    BY DEF Accounted
  <2>5. \A i, j \in DOMAIN tracked' : tracked'[i].id = tracked'[j].id => i = j
    <3> SUFFICES ASSUME NEW i \in 1..(n + 1), NEW j \in 1..(n + 1),
                        tracked'[i].id = tracked'[j].id
                 PROVE  i = j
      BY <1>4
    <3>1. tracked'[n + 1].id = f
      BY <1>4 DEF Touch
    <3>2. \A k \in 1..n : tracked'[k].id = tracked[k].id /\ tracked[k].id # f
      BY <1>4, <2>2, <2>4
    <3> QED
      BY <1>2, <3>1, <3>2 DEF Accounted
  <2> QED
    BY <1>1, <1>4, <2>1, <2>3, <2>4, <2>5 DEF Accounted
<1>7. Rested'
  BY <1>4 DEF Rested
<1>8. n = 0 => tracked = <<>>
  BY EmptySeq DEF Typed
<1>9. \/ n = 0 /\ state' = Initial
      \/ n = 1 /\ ~longpress' /\ state' = state \ {"onetap", "drag", "longpress"}
      \/ n = 2 /\ ~longpress' /\ state' = state \ ({"twotap"} \cup TwoFingers)
      \/ n >= 3 /\ ~longpress' /\ state' = {}
  <2>1. Len(tracked') = n + 1
    BY <1>4
  <2>2. CASE n = 0
    <3>1. state = Initial
      BY <1>1, <1>8, <2>2 DEF Rested
    <3>2. Excluded(1) = {}
      BY DEF Excluded
    <3> QED
      BY <1>1, <2>1, <2>2, <3>1, <3>2
  <2>3. CASE n = 1
    <3>1. Excluded(2) = {"onetap", "drag", "longpress"}
      BY DEF Excluded
    <3> QED
      BY <1>1, <2>1, <2>3, <3>1
  <2>4. CASE n = 2
    <3>1. Excluded(3) = {"twotap"} \cup TwoFingers
      BY DEF Excluded
    <3>2. ~longpress
      BY <2>4 DEF Narrowed
    <3> QED
      BY <1>1, <2>1, <2>4, <3>1, <3>2
  <2>5. CASE n >= 3
    <3>1. Excluded(n + 1) = Initial
      <4>1. n + 1 # 1 /\ n + 1 # 2 /\ n + 1 # 3
        BY <1>2, <2>5
      <4> QED
        BY <4>1, Zenon DEF Excluded
    <3>2. ~longpress
      BY <1>2, <2>5 DEF Narrowed
    <3>3. state' = state \ Initial
      BY <1>1, <2>1, <3>1
    <3>4. state' = {}
      BY <3>3 DEF Typed
    <3>5. ~longpress'
      BY <1>1, <1>2, <2>1, <2>5, <3>2
    <3> QED
      BY <2>5, <3>4, <3>5
  <2> QED
    BY <1>2, <2>2, <2>3, <2>4, <2>5
<1>10. \/ "pinch" \in state' <=> "twodrag" \in state'
       \/ Chosen(state')
  <2>1. "pinch" \in state <=> "twodrag" \in state
    BY <1>1 DEF Narrowed
  <2> QED
    BY <1>9, <2>1 DEF Initial, TwoFingers
<1>11. Len(tracked') = n + 1 /\ waitingRelease' = FALSE
  BY <1>1, <1>4
<1>12. Narrowed'
  <2>1. Len(tracked') >= 2 => {"onetap", "drag", "longpress"} \cap state' = {} /\ ~longpress'
    BY <1>2, <1>9, <1>11 DEF Narrowed
  <2>2. Len(tracked') >= 3 => "twotap" \notin state'
    BY <1>2, <1>9, <1>11 DEF Narrowed
  <2> QED
    BY <1>10, <1>11, <2>1, <2>2 DEF Narrowed
<1>13. Timed'
  <2>1. ~Chosen({}) /\ ~Chosen(Initial)
    BY DEF Chosen, Initial, Taps, TwoFingers
  <2>2. n >= 2 => ~Chosen(state')
    <3> SUFFICES ASSUME n >= 2, NEW g \in Initial \ Taps, state' = {g}
                 PROVE  FALSE
      BY DEF Chosen
    <3>1. CASE n = 2
      <4>1. {g} = state \ ({"twotap"} \cup TwoFingers)
        BY <1>9, <3>1
      <4>2. g \in {"drag", "longpress"} /\ g \in state
        BY <4>1 DEF Initial, Taps, TwoFingers
      <4> QED
        BY <3>1, <4>2 DEF Narrowed
    <3>2. CASE n # 2
      BY <1>2, <1>9, <3>2
    <3> QED
      BY <3>1, <3>2
  <2>3. longpress' => ~Chosen(state')
    BY <1>9, <2>1
  <2>4. twoTouch' = "running" => Len(tracked') >= 2 /\ ~Chosen(state')
    BY <1>2, <1>11, <2>2 DEF Timed
  <2> QED
    BY <2>3, <2>4 DEF Timed
<1> QED
  BY <1>5, <1>6, <1>7, <1>12, <1>13

LEMMA TouchStartKeeps ==
    ASSUME GestureInv, NEW f \in Fingers, TouchStart(f)
    PROVE  GestureInv' /\ thrown' = thrown
BY StartIgnoredKeeps, StartTrackedKeeps DEF TouchStart

(* A move changes only whether the touch is beyond the threshold. *)
LEMMA MovedKeepsFingers ==
    ASSUME Typed, Accounted, NEW i \in DOMAIN tracked, NEW far \in BOOLEAN,
           tracked' = Moved(i, far), UNCHANGED <<ignored, down, waitingRelease>>
    PROVE  /\ tracked' \in Seq(TouchRecord) /\ Len(tracked') = Len(tracked)
           /\ Accounted'
           /\ (tracked' = <<>>) <=> (tracked = <<>>)
<1> DEFINE t == [tracked[i] EXCEPT !.far = far]
<1>1. tracked[i] \in TouchRecord
  BY ElementOfSeq, LenProperties DEF Typed
<1>2. t \in TouchRecord /\ t.id = tracked[i].id /\ t.active = tracked[i].active
  BY <1>1 DEF TouchRecord
<1>3. tracked' = [tracked EXCEPT ![i] = t]
  BY DEF Moved
<1> HIDE DEF t
<1>4. /\ tracked' \in Seq(TouchRecord) /\ Len(tracked') = Len(tracked)
      /\ DOMAIN tracked' = DOMAIN tracked
      /\ \A j \in DOMAIN tracked : tracked'[j] = IF j = i THEN t ELSE tracked[j]
  BY <1>2, <1>3, ReplacedTouch DEF Typed
<1>5. \A j \in DOMAIN tracked : /\ tracked'[j].id = tracked[j].id
                                /\ tracked'[j].active = tracked[j].active
  BY <1>2, <1>4
<1> QED
  BY <1>4, <1>5, SameFingers

LEMMA MoveFarKeeps ==
    ASSUME GestureInv, NEW i \in DOMAIN tracked, MoveFar(i),
           UNCHANGED <<ignored, waitingRelease, down, thrown>>
    PROVE  GestureInv'
<1> USE DEF GestureInv
<1> DEFINE n == Len(tracked)
<1>1. ~Chosen(state)
  BY DetectedIsChosen DEF MoveFar
<1>2. tracked' = Moved(i, TRUE) /\ longpress' = FALSE /\ MoveCompares(i)
  BY DEF MoveFar
<1>3. /\ tracked' \in Seq(TouchRecord) /\ Len(tracked') = n
      /\ Accounted' /\ tracked' # <<>> /\ tracked # <<>>
  <2>1. tracked # <<>>
    <3>1. DOMAIN tracked = 1..n
      BY LenProperties DEF Typed
    <3>2. i \in 1..n
      BY <3>1
    <3> QED
      BY <3>2, EmptySeq DEF Typed
  <2> QED
    BY <1>2, <2>1, MovedKeepsFingers
<1>4. n \in Nat /\ n >= 1
  BY <1>3, LenProperties, EmptySeq DEF Typed
<1>5. \/ n = 1 /\ state' = state \cap {"drag"} /\ twoTouch' = twoTouch
      \/ n >= 3 /\ state' = {} /\ twoTouch' = twoTouch
      \/ /\ n = 2 /\ twoTouch' = "null"
         /\ \E g \in TwoFingers : state' = (state \cap TwoFingers) \ {g}
      \/ n = 2 /\ state' = state \cap TwoFingers /\ twoTouch' \in {"running", twoTouch}
  <2>1. CASE n = 1
    <3>1. Movable = state \cap {"drag"}
      BY <2>1 DEF Movable
    <3> QED
      BY <1>2, <2>1, <3>1 DEF MoveCompares, MoveDecides
  <2>2. CASE n = 2
    <3>1. Movable = state \cap TwoFingers
      BY <2>2 DEF Movable
    <3> QED
      BY <1>2, <2>2, <3>1 DEF MoveCompares, MoveDecides
  <2>3. CASE n >= 3
    <3>1. n # 1 /\ n # 2
      BY <2>3
    <3>2. Movable = state \cap {}
      BY <3>1, Zenon DEF Movable
    <3>3. MoveDecides(Movable) /\ twoTouch' = twoTouch
      BY <1>2, <3>1 DEF MoveCompares
    <3> QED
      BY <2>3, <3>2, <3>3 DEF MoveDecides
  <2>4. \A k \in Nat : k >= 1 => k = 1 \/ k = 2 \/ k >= 3
    OBVIOUS
  <2>5. n = 1 \/ n = 2 \/ n >= 3
    BY <1>4, <2>4, Zenon
  <2> QED
    BY <2>1, <2>2, <2>3, <2>5, Zenon
<1>6. state' \subseteq state
  BY <1>5
<1>7. Typed'
  BY <1>2, <1>3, <1>5, <1>6 DEF Typed
<1>8. Rested'
  BY <1>3 DEF Rested
<1>9. n = 2 /\ state' = state \cap TwoFingers
        => ~Chosen(state') /\ ("pinch" \in state' <=> "twodrag" \in state')
  BY <1>1 DEF Narrowed, Chosen, Initial, Taps, TwoFingers
<1>10. \/ "pinch" \in state' <=> "twodrag" \in state'
       \/ Chosen(state')
  BY <1>1, <1>5, <1>9 DEF Narrowed, Chosen, Initial, Taps, TwoFingers
<1>11. Narrowed'
  BY <1>2, <1>3, <1>6, <1>10 DEF Narrowed
<1>12. Timed'
  <2>1. ~Chosen({})
    BY DEF Chosen
  <2>2. ASSUME twoTouch' = "running"
        PROVE  \/ n = 2 /\ state' = state \cap TwoFingers
               \/ n >= 3 /\ state' = {}
    <3>1. n = 1 => twoTouch # "running"
      BY DEF Timed
    <3> QED
      BY <1>5, <2>2, <3>1
  <2>3. twoTouch' = "running" => n >= 2 /\ ~Chosen(state')
    <3>1. \A k \in Nat : k = 2 \/ k >= 3 => k >= 2
      OBVIOUS
    <3>2. n = 2 \/ n >= 3 => n >= 2
      BY <1>4, <3>1, Zenon
    <3> QED
      BY <1>9, <2>1, <2>2, <3>2, Zenon
  <2> QED
    BY <1>2, <1>3, <2>3 DEF Timed
<1> QED
  BY <1>3, <1>7, <1>8, <1>11, <1>12

LEMMA TouchMoveKeeps ==
    ASSUME GestureInv, NEW f \in Fingers, TouchMove(f)
    PROVE  GestureInv' /\ thrown' = thrown
<1> USE DEF GestureInv
<1>1. PICK i \in DOMAIN tracked : MoveSlightly(i) \/ MoveOn(i) \/ MoveFar(i)
  BY DEF TouchMove
<1>2. UNCHANGED <<ignored, waitingRelease, down, thrown>>
  BY DEF TouchMove
<1>3. CASE MoveFar(i)
  BY <1>2, <1>3, MoveFarKeeps
<1>4. CASE MoveSlightly(i) \/ MoveOn(i)
  <2>1. PICK far \in BOOLEAN : tracked' = Moved(i, far)
    BY <1>4 DEF MoveSlightly, MoveOn
  <2>2. UNCHANGED <<state, longpress, twoTouch>>
    BY <1>4 DEF MoveSlightly, MoveOn
  <2>3. /\ tracked' \in Seq(TouchRecord) /\ Len(tracked') = Len(tracked)
        /\ Accounted' /\ ((tracked' = <<>>) <=> (tracked = <<>>))
    BY <1>2, <2>1, MovedKeepsFingers
  <2>4. Typed'
    BY <1>2, <2>2, <2>3 DEF Typed
  <2>5. Rested' /\ Narrowed' /\ Timed'
    BY <1>2, <2>2, <2>3 DEF Rested, Narrowed, Timed
  <2> QED
    BY <1>2, <2>3, <2>4, <2>5
<1> QED
  BY <1>1, <1>2, <1>3, <1>4

LEMMA EndIgnoredKeeps ==
    ASSUME GestureInv, NEW f \in ignored, EndIgnored(f), down' = down \ {f}
    PROVE  GestureInv' /\ thrown' = thrown
<1> USE DEF GestureInv
<1>1. /\ ignored' = ignored \ {f} /\ thrown' = thrown
      /\ UNCHANGED <<tracked, longpress, twoTouch>>
  BY DEF EndIgnored
<1>2. \/ ignored' = {} /\ tracked = <<>> /\ state' = Initial /\ waitingRelease' = FALSE
      \/ ~(ignored' = {} /\ tracked = <<>>) /\ state' = state /\ waitingRelease' = waitingRelease
  BY DEF EndIgnored
<1>3. Typed'
  BY <1>1, <1>2 DEF Typed
<1>4. Active(tracked') = Active(tracked) /\ ActiveIds' = ActiveIds
  BY <1>1 DEF Active, ActiveIds
<1>5. f \notin ActiveIds
  BY DEF Accounted
<1>6. tracked = <<>> => DOMAIN tracked = {} /\ Len(tracked) = 0
  BY EmptySeq, LenProperties DEF Typed
<1>7. tracked = <<>> => Active(tracked) = {}
  BY <1>6 DEF Active
<1>8. Accounted'
  BY <1>1, <1>2, <1>4, <1>5, <1>6, <1>7 DEF Accounted
<1>9. Rested'
  BY <1>1, <1>2 DEF Rested
<1>10. Narrowed'
  BY <1>1, <1>2, <1>6 DEF Narrowed, Initial, TwoFingers
<1>11. Timed'
  BY <1>1, <1>2, <1>6 DEF Timed, Rested
<1> QED
  BY <1>1, <1>3, <1>8, <1>9, <1>10, <1>11

(* A finger that is not ignored is the active touch of one index. *)
LEMMA EndingTouch ==
    ASSUME Typed, Accounted, NEW f \in down \ ignored,
           NEW i \in DOMAIN tracked, tracked[i].id = f
    PROVE  /\ i \in Active(tracked)
           /\ \A j \in DOMAIN tracked : tracked[j].id = f => j = i
           /\ tracked[i] \in TouchRecord
           /\ tracked # <<>>
<1>1. f \in ActiveIds
  BY DEF Accounted
<1>2. \A j \in DOMAIN tracked : tracked[j].id = f => j = i
  BY DEF Accounted
<1>3. i \in Active(tracked)
  BY <1>1, <1>2 DEF ActiveIds, Active
<1>4. DOMAIN tracked = 1..Len(tracked)
  BY LenProperties DEF Typed
<1>5. i \in 1..Len(tracked)
  BY <1>4
<1> QED
  BY <1>2, <1>3, <1>5, ElementOfSeq, EmptySeq DEF Typed

(* What Released leaves: the touch that ends is active only if nothing is  *)
(* waited for.                                                             *)
LEMMA ReleasedTouch ==
    ASSUME Typed, Accounted, NEW f \in down \ ignored,
           NEW i \in DOMAIN tracked, tracked[i].id = f
    PROVE  /\ Released(i) \in Seq(TouchRecord) /\ Len(Released(i)) = Len(tracked)
           /\ Released(i) # <<>>
           /\ DOMAIN Released(i) = DOMAIN tracked
           /\ \A j \in DOMAIN tracked : Released(i)[j].id = tracked[j].id
           /\ Active(Released(i)) = IF Waiting THEN Active(tracked) \ {i} ELSE Active(tracked)
<1> DEFINE t == [tracked[i] EXCEPT !.active = ~Waiting]
<1>1. Waiting \in BOOLEAN
  BY DEF Waiting, Undecided, Detected, Typed
<1>2. tracked[i] \in TouchRecord /\ i \in Active(tracked) /\ tracked # <<>>
  BY EndingTouch
<1>3. t \in TouchRecord /\ t.id = tracked[i].id /\ (t.active <=> ~Waiting)
  BY <1>1, <1>2 DEF TouchRecord
<1>4. Released(i) = [tracked EXCEPT ![i] = t]
  BY DEF Released
<1> HIDE DEF t
<1>5. /\ Released(i) \in Seq(TouchRecord) /\ Len(Released(i)) = Len(tracked)
      /\ DOMAIN Released(i) = DOMAIN tracked
      /\ \A j \in DOMAIN tracked : Released(i)[j] = IF j = i THEN t ELSE tracked[j]
  BY <1>3, <1>4, ReplacedTouch DEF Typed
<1>6. \A j \in DOMAIN tracked : Released(i)[j].id = tracked[j].id
  BY <1>3, <1>5
<1>7. Active(Released(i)) = IF Waiting THEN Active(tracked) \ {i} ELSE Active(tracked)
  BY <1>2, <1>3, <1>5 DEF Active
<1>8. Released(i) # <<>>
  BY <1>2, <1>5, EmptySeq DEF Typed
<1> QED
  BY <1>5, <1>6, <1>7, <1>8

(* When a touch ends, the gesture is undecided unless it is chosen.        *)
LEMMA UndecidedIs ==
    ASSUME GestureInv, tracked # <<>>
    PROVE  /\ Undecided <=> ~Chosen(state)
           /\ Chosen(state) => AtEnd = state
           /\ AtEnd \subseteq state
<1> USE DEF GestureInv
<1>1. HasDetected <=> Chosen(state)
  BY DetectedIsChosen
<1>2. AtEnd \subseteq state /\ (Chosen(state) => AtEnd = state)
  BY <1>1 DEF AtEnd, CalledOff
<1>3. AtEnd = state \/ AtEnd = {}
  BY DEF AtEnd
<1>4. ~Detected({}, tracked)
  BY DetectedIs
<1>5. Detected(AtEnd, tracked) => Chosen(state)
  BY <1>1, <1>3, <1>4 DEF HasDetected
<1>6. Chosen(state) => Detected(AtEnd, tracked)
  BY <1>1, <1>2 DEF HasDetected
<1> QED
  BY <1>2, <1>5, <1>6 DEF Undecided

(* A gesture that is undecided can only become one tap. *)
LEMMA TapLeft ==
    ASSUME GestureInv, tracked # <<>>, Undecided
    PROVE  /\ Tappable \subseteq state /\ Tappable \subseteq Taps
           /\ \A g, h \in Tappable : g = h
<1> USE DEF GestureInv
<1>1. AtEnd \subseteq state
  BY UndecidedIs
<1>2. Len(tracked) \in Nat /\ Len(tracked) # 0
  BY LenProperties, EmptySeq DEF Typed
<1>3. CASE waitingRelease
  <2>1. Tappable = AtEnd \cap Taps
    BY <1>3 DEF Tappable
  <2> QED
    BY <1>1, <1>3, <2>1 DEF Narrowed
<1>4. CASE ~waitingRelease /\ Len(tracked) = 1
  <2>1. Tappable = AtEnd \cap {"onetap"}
    BY <1>4 DEF Tappable
  <2> QED
    BY <1>1, <2>1 DEF Taps
<1>5. CASE ~waitingRelease /\ Len(tracked) = 2
  <2>1. Tappable = AtEnd \cap {"twotap"}
    BY <1>5 DEF Tappable
  <2> QED
    BY <1>1, <2>1 DEF Taps
<1>6. CASE ~waitingRelease /\ Len(tracked) # 1 /\ Len(tracked) # 2
  <2>1. Tappable = AtEnd \cap Taps
    BY <1>6, Zenon DEF Tappable
  <2>2. \A n \in Nat : n # 0 /\ n # 1 /\ n # 2 => n >= 2 /\ n >= 3
    OBVIOUS
  <2>3. Len(tracked) >= 2 /\ Len(tracked) >= 3
    BY <1>2, <1>6, <2>2, Zenon
  <2>4. "onetap" \notin state /\ "twotap" \notin state
    BY <2>3 DEF Narrowed
  <2> QED
    BY <1>1, <2>1, <2>4 DEF Taps
<1> QED
  BY <1>3, <1>4, <1>5, <1>6

LEMMA EndAwaitsKeeps ==
    ASSUME GestureInv, NEW f \in down \ ignored, down' = down \ {f},
           NEW i \in DOMAIN tracked, tracked[i].id = f, EndAwaits(i),
           longpress' = (longpress /\ ~Undecided),
           twoTouch' = IF CalledOff THEN "null" ELSE twoTouch, UNCHANGED thrown
    PROVE  GestureInv' /\ ~Chosen(state)
<1> USE DEF GestureInv
<1>1. tracked # <<>> /\ i \in Active(tracked)
      /\ \A j \in DOMAIN tracked : tracked[j].id = f => j = i
  BY EndingTouch
<1>2. /\ Waiting /\ Outcome # {} /\ ~Detected(Outcome, Released(i))
      /\ state' = Outcome /\ tracked' = Released(i)
      /\ waitingRelease' = TRUE /\ ignored' = ignored
  BY DEF EndAwaits
<1>3. Undecided
  <2> SUFFICES ASSUME ~Undecided
               PROVE  FALSE
    OBVIOUS
  <2>1. Chosen(state) /\ AtEnd = state
    BY <1>1, UndecidedIs
  <2>2. Outcome = state
    BY <1>2, <2>1 DEF Outcome
  <2>3. PICK g \in Initial \ Taps : state = {g}
    BY <2>1 DEF Chosen
  <2>4. Detected(state, Released(i))
    BY <2>3, DetectedIs DEF Typed
  <2> QED
    BY <1>2, <2>2, <2>4
<1>4. ~Chosen(state)
  BY <1>1, <1>3, UndecidedIs
<1>5. Outcome = Tappable
  BY <1>2, <1>3 DEF Outcome
<1>6. state' \subseteq state /\ state' \subseteq Taps /\ \A g, h \in state' : g = h
  BY <1>1, <1>2, <1>3, <1>5, TapLeft
<1>7. /\ tracked' \in Seq(TouchRecord) /\ Len(tracked') = Len(tracked)
      /\ tracked' # <<>> /\ DOMAIN tracked' = DOMAIN tracked
      /\ \A j \in DOMAIN tracked : tracked'[j].id = tracked[j].id
      /\ Active(tracked') = Active(tracked) \ {i}
  BY <1>2, ReleasedTouch
<1>8. longpress' = FALSE /\ twoTouch' = "null"
  <2>1. HasDetected <=> Chosen(state)
    BY DetectedIsChosen
  <2> QED
    BY <1>3, <1>4, <2>1 DEF CalledOff
<1>9. Typed'
  BY <1>2, <1>6, <1>7, <1>8 DEF Typed
<1>10. Accounted'
  <2>1. Active(tracked') # {}
    <3>1. PICK g \in state' : state' = {g}
      BY <1>2, <1>6
    <3>2. state' \subseteq Initial /\ g \in Initial
      BY <1>6, <3>1 DEF Typed
    <3>3. Detected(state', tracked') <=> Active(tracked') = {}
      BY <1>6, <3>1, <3>2, DetectedIs
    <3> QED
      BY <1>2, <3>3
  <2>2. ActiveIds' = ActiveIds \ {f}
    BY <1>1, <1>7 DEF ActiveIds, Active
  <2>3. \A j, k \in DOMAIN tracked' : tracked'[j].id = tracked'[k].id => j = k
    BY <1>7 DEF Accounted
  <2> QED
    BY <1>2, <2>1, <2>2, <2>3 DEF Accounted
<1>11. Rested'
  BY <1>7 DEF Rested
<1>12. Narrowed'
  <2>1. \A g \in {"drag", "longpress", "pinch", "twodrag"} : g \notin state'
    BY <1>6 DEF Taps
  <2> QED
    BY <1>6, <1>7, <1>8, <2>1 DEF Narrowed
<1>13. Timed'
  BY <1>8 DEF Timed
<1> QED
  BY <1>4, <1>9, <1>10, <1>11, <1>12, <1>13

LEMMA EndsGestureKeeps ==
    ASSUME GestureInv, NEW f \in down \ ignored,
           down' = down \ {f}, NEW i \in DOMAIN tracked, tracked[i].id = f, EndsGesture(i),
           longpress' = (longpress /\ ~Undecided),
           twoTouch' = IF CalledOff THEN "null" ELSE twoTouch, UNCHANGED thrown
    PROVE  GestureInv'
<1> USE DEF GestureInv
<1>1. tracked # <<>> /\ i \in Active(tracked)
      /\ \A j \in DOMAIN tracked : tracked[j].id = f => j = i
  BY EndingTouch
<1>2. /\ ignored' = (ignored \cup {tracked[j].id : j \in Active(Released(i))}) \ {f}
      /\ tracked' = <<>>
      /\ state' = IF ignored' = {} THEN Initial ELSE {}
      /\ waitingRelease' <=> (Waiting /\ ignored' # {})
      /\ waitingRelease' \in BOOLEAN
  BY DEF EndsGesture
<1>3. Active(Released(i)) = Active(tracked) \/ Active(Released(i)) = Active(tracked) \ {i}
  BY ReleasedTouch
<1>4. ignored' = down'
  <2>1. {tracked[j].id : j \in Active(Released(i))} \ {f} = ActiveIds \ {f}
    BY <1>1, <1>3 DEF ActiveIds
  <2> QED
    BY <1>2, <2>1 DEF Accounted
<1>5. Active(tracked') = {} /\ ActiveIds' = {} /\ DOMAIN tracked' = {} /\ Len(tracked') = 0
      /\ tracked' \in Seq(TouchRecord)
  BY <1>2 DEF Active, ActiveIds
<1>6. ~longpress' /\ longpress' \in BOOLEAN
  BY <1>1, UndecidedIs DEF Timed, Typed
<1>7. twoTouch' # "running" /\ twoTouch' \in {"null", "running", "fired"}
  <2>1. HasDetected <=> Chosen(state)
    BY DetectedIsChosen
  <2> QED
    BY <2>1 DEF CalledOff, Timed, Typed
<1>8. Typed'
  <2>1. ignored' \subseteq Fingers /\ down' \subseteq Fingers
    BY <1>4 DEF Typed
  <2>2. state' \subseteq Initial
    BY <1>2
  <2>3. thrown' \in BOOLEAN
    BY DEF Typed
  <2> QED
    BY <1>2, <1>5, <1>6, <1>7, <2>1, <2>2, <2>3 DEF Typed
<1>9. Accounted'
  BY <1>2, <1>4, <1>5 DEF Accounted
<1>10. Rested'
  BY <1>2, <1>6 DEF Rested
<1>11. Narrowed'
  BY <1>2, <1>5, <1>6 DEF Narrowed, Initial, TwoFingers
<1>12. Timed'
  BY <1>6, <1>7 DEF Timed
<1> QED
  BY <1>8, <1>9, <1>10, <1>11, <1>12

LEMMA TouchEndKeeps ==
    ASSUME GestureInv, NEW f \in Fingers, TouchEnd(f)
    PROVE  GestureInv' /\ thrown' = thrown
<1> USE DEF GestureInv
<1>1. f \in down /\ down' = down \ {f}
  BY DEF TouchEnd
<1>2. CASE f \in ignored
  BY <1>1, <1>2, EndIgnoredKeeps DEF TouchEnd
<1>3. CASE f \notin ignored
  <2>1. Tracks(f)
    BY <1>1, <1>3 DEF Accounted, ActiveIds, Active, Tracks
  <2>2. EndTracked(f)
    BY <1>3, <2>1 DEF TouchEnd
  <2>3. PICK i \in DOMAIN tracked : tracked[i].id = f /\ (EndAwaits(i) \/ EndsGesture(i))
    BY <2>2 DEF EndTracked
  <2>4. /\ longpress' = (longpress /\ ~Undecided) /\ thrown' = thrown
        /\ twoTouch' = IF CalledOff THEN "null" ELSE twoTouch
    BY <2>2 DEF EndTracked
  <2> QED
    BY <1>1, <1>3, <2>3, <2>4, EndAwaitsKeeps, EndsGestureKeeps
<1> QED
  BY <1>2, <1>3

LEMMA LongpressTimeoutKeeps ==
    ASSUME GestureInv, LongpressTimeout
    PROVE  GestureInv' /\ thrown' = thrown /\ ~Chosen(state)
<1> USE DEF GestureInv
<1>1. longpress /\ ~Chosen(state) /\ tracked # <<>>
  BY DEF LongpressTimeout, Timed, Rested
<1>2. ~HasDetected
  BY <1>1, DetectedIsChosen
<1>3. /\ state' = {"longpress"} /\ longpress' = FALSE
      /\ UNCHANGED <<tracked, ignored, waitingRelease, twoTouch, down, thrown>>
  BY <1>1, <1>2 DEF LongpressTimeout
<1>4. ~(Len(tracked) >= 2) /\ ~waitingRelease
  BY <1>1 DEF Narrowed
<1>5. Typed'
  BY <1>3 DEF Typed, Initial
<1>6. Accounted'
  BY <1>3 DEF Accounted, ActiveIds, Active
<1>7. Rested'
  BY <1>1, <1>3 DEF Rested
<1>8. Narrowed'
  <2>1. ~(Len(tracked) >= 3)
    <3>1. \A n \in Nat : n >= 3 => n >= 2
      OBVIOUS
    <3>2. Len(tracked) \in Nat
      BY LenProperties DEF Typed
    <3> QED
      BY <1>4, <3>1, <3>2, Zenon
  <2> QED
    BY <1>3, <1>4, <2>1 DEF Narrowed
<1>9. Timed'
  BY <1>3, <1>4 DEF Timed
<1> QED
  BY <1>1, <1>3, <1>5, <1>6, <1>7, <1>8, <1>9

LEMMA TwoTouchTimeoutKeeps ==
    ASSUME GestureInv, TwoTouchTimeout
    PROVE  GestureInv' /\ thrown' = thrown /\ ~Chosen(state)
<1> USE DEF GestureInv
<1>1. Len(tracked) >= 2 /\ ~Chosen(state) /\ ~longpress
  BY DEF TwoTouchTimeout, Timed, Narrowed
<1>2. tracked # <<>>
  <2>1. Len(<<>>) = 0 /\ ~(0 >= 2)
    OBVIOUS
  <2> QED
    BY <1>1, <2>1, Zenon
<1>3. PICK g \in TwoFingers : state' = {g}
  BY <1>2 DEF TwoTouchTimeout
<1>4. /\ twoTouch' = "fired" /\ thrown' = thrown
      /\ UNCHANGED <<tracked, ignored, waitingRelease, longpress, down>>
  BY <1>2 DEF TwoTouchTimeout
<1>5. Chosen(state')
  BY <1>3 DEF Chosen, Initial, Taps, TwoFingers
<1>6. Typed'
  BY <1>3, <1>4 DEF Typed, Initial
<1>7. Accounted'
  BY <1>4 DEF Accounted, ActiveIds, Active
<1>8. Rested'
  BY <1>2, <1>4 DEF Rested
<1>9. \A h \in {"onetap", "twotap", "drag", "longpress"} : h \notin state'
  BY <1>3 DEF TwoFingers
<1>10. Narrowed'
  BY <1>1, <1>3, <1>4, <1>5, <1>9 DEF Narrowed
<1>11. Timed'
  BY <1>1, <1>4 DEF Timed
<1> QED
  BY <1>1, <1>4, <1>6, <1>7, <1>8, <1>10, <1>11

LEMMA AgesKeeps ==
    ASSUME GestureInv, Ages
    PROVE  GestureInv'
<1> USE DEF GestureInv
<1>1. PICK i \in DOMAIN tracked :
        /\ tracked[i].age < Old
        /\ tracked' = [tracked EXCEPT ![i].age = @ + 1]
  BY DEF Ages
<1>2. UNCHANGED <<state, ignored, waitingRelease, longpress, twoTouch, down, thrown>>
  BY DEF Ages
<1> DEFINE t == [tracked[i] EXCEPT !.age = @ + 1]
<1>3. tracked[i] \in TouchRecord
  BY ElementOfSeq, LenProperties DEF Typed
<1>4. t \in TouchRecord /\ t.id = tracked[i].id /\ t.active = tracked[i].active
  BY <1>1, <1>3 DEF TouchRecord, Fresh, Old
<1>5. tracked' = [tracked EXCEPT ![i] = t]
  BY <1>1
<1> HIDE DEF t
<1>6. /\ tracked' \in Seq(TouchRecord) /\ Len(tracked') = Len(tracked)
      /\ DOMAIN tracked' = DOMAIN tracked
      /\ \A j \in DOMAIN tracked : tracked'[j] = IF j = i THEN t ELSE tracked[j]
  BY <1>4, <1>5, ReplacedTouch DEF Typed
<1>7. \A j \in DOMAIN tracked : /\ tracked'[j].id = tracked[j].id
                                /\ tracked'[j].active = tracked[j].active
  BY <1>4, <1>6
<1>8. Accounted' /\ ((tracked' = <<>>) <=> (tracked = <<>>))
  BY <1>2, <1>6, <1>7, SameFingers
<1>9. Typed'
  BY <1>2, <1>6 DEF Typed
<1>10. Rested' /\ Narrowed' /\ Timed'
  BY <1>2, <1>6, <1>8 DEF Rested, Narrowed, Timed
<1> QED
  BY <1>8, <1>9, <1>10

(* What the gesture handler does not touch, a mouse say, changes nothing.  *)
LEMMA UntouchedKeeps ==
    ASSUME GestureInv,
           UNCHANGED <<state, tracked, ignored, waitingRelease, longpress, twoTouch, down, thrown>>
    PROVE  GestureInv'
BY DEF GestureInv, Typed, Accounted, Rested, Narrowed, Timed, ActiveIds, Active, Chosen

LEMMA DisconnectKeeps ==
    ASSUME GestureInv, Disconnect
    PROVE  GestureInv' /\ thrown' = thrown
<1> USE DEF GestureInv
<1>1. /\ longpress' = FALSE /\ twoTouch' = "null"
      /\ UNCHANGED <<state, tracked, ignored, waitingRelease, down, thrown>>
  BY DEF Disconnect
<1>2. Typed'
  BY <1>1 DEF Typed
<1>3. Accounted'
  BY <1>1 DEF Accounted, ActiveIds, Active
<1>4. Rested' /\ Narrowed' /\ Timed'
  BY <1>1 DEF Rested, Narrowed, Timed
<1> QED
  BY <1>1, <1>2, <1>3, <1>4

-----------------------------------------------------------------------------
LEMMA StartsSafe == PtrInit => GestureInv /\ ~thrown
<1> SUFFICES ASSUME PtrInit
             PROVE  GestureInv /\ ~thrown
  OBVIOUS
<1>1. /\ state = Initial /\ tracked = <<>> /\ ignored = {} /\ waitingRelease = FALSE
      /\ longpress = FALSE /\ twoTouch = "null" /\ down = {} /\ thrown = FALSE
  BY DEF PtrInit, GestureInit
<1>2. tracked \in Seq(TouchRecord) /\ DOMAIN tracked = {} /\ Len(tracked) = 0
  BY <1>1
<1>3. Active(tracked) = {} /\ ActiveIds = {}
  BY <1>2 DEF Active, ActiveIds
<1>4. Typed /\ Accounted /\ Rested
  BY <1>1, <1>2, <1>3 DEF Typed, Accounted, Rested
<1>5. Narrowed /\ Timed
  BY <1>1, <1>2 DEF Narrowed, Timed, Initial, TwoFingers
<1> QED
  BY <1>1, <1>4, <1>5 DEF GestureInv

LEMMA StaysSafe ==
    ASSUME GestureInv, ~thrown, [PtrNext]_ptrVars
    PROVE  GestureInv' /\ ~thrown'
<1>1. CASE \E f \in Fingers : TouchStart(f) \/ TouchMove(f) \/ TouchEnd(f)
  BY <1>1, TouchStartKeeps, TouchMoveKeeps, TouchEndKeeps
<1>2. CASE LongpressTimeout \/ TwoTouchTimeout
  BY <1>2, LongpressTimeoutKeeps, TwoTouchTimeoutKeeps
<1>3. CASE Ages
  BY <1>3, AgesKeeps DEF Ages
<1>4. CASE GetsLate
  BY <1>4, UntouchedKeeps DEF GetsLate
<1>5. CASE Disconnect
  BY <1>5, DisconnectKeeps
<1>6. CASE UNCHANGED <<handlerVars, down, thrown>>
  BY <1>6, UntouchedKeeps DEF handlerVars
<1>7. \/ GestureNext \/ Disconnect
      \/ UNCHANGED <<handlerVars, down, thrown>>
  BY DEF PtrNext, Gesturing, MouseMove, HandleWheel, MouseDown, MouseUp, Mouse,
         HandleDelayedMouseMove, MoveDelayOver, Connect, ptrVars, gestureVars
<1> QED
  BY <1>1, <1>2, <1>3, <1>4, <1>5, <1>6, <1>7 DEF GestureNext

(* The inductive invariant, and with it no error (gesturehandler.js).      *)
THEOREM GestureSafe == PtrSpec => [](GestureInv /\ ~thrown)
<1>1. GestureInv /\ ~thrown /\ [PtrNext]_ptrVars => (GestureInv /\ ~thrown)'
  BY StaysSafe
<1> QED
  BY <1>1, StartsSafe, PTL DEF PtrSpec

(* No timer outlives its touches or strikes a gesture already found, and   *)
(* no touch ends unknown, for any fingers (gesturehandler.js:310, 384,     *)
(* 408).                                                                   *)
THEOREM PointerNeverThrows == PtrSpec => []NeverThrows
<1>1. ~thrown => NeverThrows
  BY DEF NeverThrows
<1> QED
  BY <1>1, GestureSafe, PTL

(* With no finger on the screen the handler is as new, for any fingers     *)
(* (gesturehandler.js:252-259, 330-346).                                   *)
THEOREM PointerRests == PtrSpec => []RestsWhenLifted
<1>1. GestureInv => RestsWhenLifted
  <2> SUFFICES ASSUME GestureInv, down = {}
               PROVE  /\ state = Initial /\ tracked = <<>> /\ ignored = {}
                      /\ ~waitingRelease /\ ~longpress /\ twoTouch # "running"
    BY DEF RestsWhenLifted
  <2>1. ignored = {} /\ ActiveIds = {}
    BY DEF GestureInv, Accounted
  <2>2. Active(tracked) = {}
    BY <2>1 DEF ActiveIds
  <2>3. tracked = <<>>
    BY <2>2 DEF GestureInv, Accounted
  <2>4. ~(Len(tracked) >= 2)
    BY <2>3
  <2> QED
    BY <2>1, <2>3, <2>4 DEF GestureInv, Rested, Timed
<1> QED
  BY <1>1, GestureSafe, PTL

(* A drag or a long press that ends says so.                               *)
LEMMA EndIsPushed ==
    ASSUME GestureInv, NEW g \in {"drag", "longpress"}, state = {g},
           tracked # <<>>, NEW i, EndsGesture(i)
    PROVE  pushed' # <<>> /\ Last(pushed') = [event |-> "gestureend", gesture |-> g]
<1> USE DEF GestureInv
<1>1. Chosen(state) /\ g \in Initial /\ g \notin Taps
  BY DEF Chosen, Initial, Taps, TwoFingers
<1>2. ~Undecided /\ AtEnd = {g}
  BY <1>1, UndecidedIs
<1>3. ~Waiting
  BY <1>2 DEF Waiting, Narrowed
<1>4. Outcome = {g}
  BY <1>2, <1>3 DEF Outcome
<1>5. Detected({g}, Released(i))
  BY <1>1, DetectedIs
<1>6. Push({g}, <<"gestureend">>)
  BY <1>3, <1>4, <1>5 DEF EndsGesture
<1> DEFINE e == [event |-> "gestureend", gesture |-> g]
<1>7. (CHOOSE x \in {g} : TRUE) = g
  OBVIOUS
<1>8. pushed' = [k \in 1..1 |-> e]
  BY <1>6, <1>7 DEF Push
<1>9. pushed' = <<e>>
  BY <1>8
<1> QED
  BY <1>9 DEF Last

(* ... and before that it is no other gesture. *)
LEMMA EndsTold ==
    ASSUME GestureInv, [PtrNext]_ptrVars, NEW g \in {"drag", "longpress"},
           state = {g}, state' # {g}
    PROVE  pushed' # <<>> /\ Last(pushed') = [event |-> "gestureend", gesture |-> g]
<1>1. Chosen(state) /\ HasDetected
  <2>1. Chosen(state)
    BY DEF Chosen, Initial, Taps, TwoFingers
  <2> QED
    BY <2>1, DetectedIsChosen DEF GestureInv
<1>2. tracked # <<>>
  <2>1. state # Initial /\ state # {}
    BY DEF Initial, Taps
  <2> QED
    BY <2>1 DEF GestureInv, Rested
<1>3. ASSUME NEW f \in Fingers, TouchStart(f)
      PROVE  FALSE
  BY <1>1, <1>3 DEF TouchStart, StartIgnored, StartTracked, Refuses
<1>4. ASSUME NEW f \in Fingers, TouchMove(f)
      PROVE  FALSE
  BY <1>1, <1>4 DEF TouchMove, MoveSlightly, MoveOn, MoveFar
<1>5. ASSUME NEW f \in Fingers, TouchEnd(f)
      PROVE  \E i : EndsGesture(i)
  <2>1. f \in down /\ down' = down \ {f}
    BY <1>5 DEF TouchEnd
  <2>2. f \notin ignored /\ Tracks(f)
    BY <1>2, <1>5 DEF TouchEnd, EndIgnored, handlerVars
  <2>3. EndTracked(f)
    BY <1>5, <2>2 DEF TouchEnd
  <2>4. PICK i \in DOMAIN tracked : tracked[i].id = f /\ (EndAwaits(i) \/ EndsGesture(i))
    BY <2>3 DEF EndTracked
  <2> QED
    BY <1>1, <2>1, <2>2, <2>3, <2>4, EndAwaitsKeeps DEF EndTracked
<1>6. ~LongpressTimeout /\ ~TwoTouchTimeout
  BY <1>1, LongpressTimeoutKeeps, TwoTouchTimeoutKeeps
<1>7. ~Ages /\ ~GetsLate /\ ~Disconnect /\ ~UNCHANGED <<handlerVars, down, thrown>>
  BY DEF Ages, GetsLate, Disconnect, handlerVars
<1>8. GestureNext
  BY <1>7 DEF PtrNext, Gesturing, MouseMove, HandleWheel, MouseDown, MouseUp, Mouse,
       HandleDelayedMouseMove, MoveDelayOver, Connect, ptrVars, gestureVars
<1>9. \E i : EndsGesture(i)
  BY <1>3, <1>4, <1>5, <1>6, <1>7, <1>8 DEF GestureNext
<1> QED
  BY <1>2, <1>9, EndIsPushed

(* A drag or a long press, once found, stays the gesture until its end is  *)
(* told, for any fingers (gesturehandler.js:122-129, 322-328).             *)
THEOREM PointerEndsAreTold == PtrSpec => EndsAreTold
<1>1. GestureInv /\ [PtrNext]_ptrVars
        => [\A g \in {"drag", "longpress"} : state = {g} /\ state' # {g} =>
              /\ pushed' # <<>>
              /\ Last(pushed') = [event |-> "gestureend", gesture |-> g]]_ptrVars
  BY EndsTold
<1> QED
  BY <1>1, GestureSafe, PTL DEF PtrSpec, EndsAreTold
-----------------------------------------------------------------------------
(* The buttons.  Until the connection is there the server is sent nothing; *)
(* then it knows of no button that is not down; and a button that is down  *)
(* is held by the user or is the one of the gesture there is.              *)

Owed(s) == IF s = {"drag"} THEN {"left"} ELSE IF s = {"longpress"} THEN {"right"} ELSE {}

HeldInv ==
    /\ conn \in {"connecting", "connected", "disconnected"}
    /\ told \subseteq mask /\ (conn = "connecting" => told = {})
    /\ mask \subseteq held \cup Owed(state)

Points(p) == {"mask", "delayed", "recent", "told"} = DOMAIN p
Honest(p) == p.told \subseteq p.mask /\ (conn = "connecting" => p.told = {})

LEMMA SentMouse ==
    ASSUME NEW p, NEW buttons, NEW q, Points(p), q = SendMouse(p, buttons)
    PROVE  /\ Points(q) /\ q.mask = p.mask
           /\ q.told = IF conn = "connected" THEN buttons ELSE p.told
BY DEF SendMouse, Points

LEMMA ButtonIs ==
    ASSUME NEW p, NEW isDown \in BOOLEAN, NEW b, NEW q, Points(p), Honest(p),
           conn \in {"connecting", "connected"}, q = HandleMouseButton(p, isDown, b)
    PROVE  /\ Points(q) /\ Honest(q)
           /\ isDown => q.mask = p.mask \cup {b}
           /\ ~isDown => q.mask = p.mask \ {b}
<1>1. PICK u : u = [p EXCEPT !.delayed = FALSE]
  OBVIOUS
<1>2. Points(u) /\ u.mask = p.mask /\ u.told = p.told
  BY <1>1 DEF Points
<1>3. PICK m : m = IF p.delayed THEN SendMouse(u, p.mask) ELSE p
  OBVIOUS
<1>4. /\ Points(m) /\ m.mask = p.mask
      /\ (conn = "connecting" => m.told = p.told)
  BY <1>2, <1>3, SentMouse
<1>5. PICK buttons : buttons = IF isDown THEN p.mask \cup {b} ELSE p.mask \ {b}
  OBVIOUS
<1>6. PICK n : n = [m EXCEPT !.mask = buttons]
  OBVIOUS
<1>7. Points(n) /\ n.mask = buttons /\ n.told = m.told
  BY <1>4, <1>6 DEF Points
<1>8. q = SendMouse(n, buttons)
  BY <1>1, <1>3, <1>5, <1>6 DEF HandleMouseButton
<1>9. /\ Points(q) /\ q.mask = buttons
      /\ q.told = IF conn = "connected" THEN buttons ELSE n.told
  BY <1>7, <1>8, SentMouse
<1> QED
  BY <1>4, <1>5, <1>7, <1>9 DEF Honest

LEMMA MoveIs ==
    ASSUME NEW p, NEW q, Points(p), Honest(p), q = HandleMouseMove(p)
    PROVE  Points(q) /\ Honest(q) /\ q.mask = p.mask
<1>1. CASE p.recent \/ p.delayed
  <2>1. q = [p EXCEPT !.delayed = TRUE]
    BY <1>1 DEF HandleMouseMove
  <2> QED
    BY <2>1 DEF Points, Honest
<1>2. CASE ~(p.recent \/ p.delayed)
  <2>1. PICK u : u = [p EXCEPT !.recent = TRUE]
    OBVIOUS
  <2>2. Points(u) /\ u.mask = p.mask /\ u.told = p.told
    BY <2>1 DEF Points
  <2>3. q = SendMouse(u, p.mask)
    BY <1>2, <2>1 DEF HandleMouseMove
  <2> QED
    BY <2>2, <2>3, SentMouse DEF Honest
<1> QED
  BY <1>1, <1>2

LEMMA PressIs ==
    ASSUME NEW p, NEW b, NEW q, Points(p), Honest(p),
           conn \in {"connecting", "connected"}, q = HandleMouseButton(p, TRUE, b)
    PROVE  Points(q) /\ Honest(q) /\ q.mask = p.mask \cup {b}
<1> DEFINE yes == TRUE
<1>1. yes \in BOOLEAN /\ yes
  OBVIOUS
<1>2. q = HandleMouseButton(p, yes, b)
  OBVIOUS
<1> HIDE DEF yes
<1> QED
  BY <1>1, <1>2, ButtonIs

LEMMA LetGoIs ==
    ASSUME NEW p, NEW b, NEW q, Points(p), Honest(p),
           conn \in {"connecting", "connected"}, q = HandleMouseButton(p, FALSE, b)
    PROVE  Points(q) /\ Honest(q) /\ q.mask = p.mask \ {b}
<1> DEFINE no == FALSE
<1>1. no \in BOOLEAN /\ ~no
  OBVIOUS
<1>2. q = HandleMouseButton(p, no, b)
  OBVIOUS
<1> HIDE DEF no
<1> QED
  BY <1>1, <1>2, ButtonIs

LEMMA ClickIs ==
    ASSUME NEW p, NEW b, NEW q, Points(p), Honest(p),
           conn \in {"connecting", "connected"}, q = Click(p, b)
    PROVE  Points(q) /\ Honest(q) /\ q.mask \subseteq p.mask
<1>1. PICK u : u = HandleMouseButton(p, TRUE, b)
  OBVIOUS
<1>2. Points(u) /\ Honest(u) /\ u.mask = p.mask \cup {b}
  BY <1>1, PressIs, Zenon
<1>3. q = HandleMouseButton(u, FALSE, b)
  BY <1>1, Zenon DEF Click
<1>4. Points(q) /\ Honest(q) /\ q.mask = u.mask \ {b}
  BY <1>2, <1>3, LetGoIs, Zenon
<1> QED
  BY <1>2, <1>4

LEMMA ScrollIs ==
    ASSUME NEW p, NEW steps, NEW q, Points(p), Honest(p),
           conn \in {"connecting", "connected"}, q = Scroll(p, steps)
    PROVE  Points(q) /\ Honest(q) /\ q.mask \subseteq p.mask
BY ClickIs DEF Scroll

(* What one event of a gesture does to the buttons. *)
Presses(p, q, e) ==
    IF e.gesture \in {"drag", "longpress"}
    THEN LET b == ButtonOf[e.gesture]
         IN  q.mask = CASE e.event = "gesturestart" -> p.mask \cup {b}
                        [] e.event = "gestureend"   -> p.mask \ {b}
                        [] OTHER                    -> p.mask
    ELSE q.mask \subseteq p.mask

LEMMA GestureIs ==
    ASSUME NEW p, NEW e, NEW steps, NEW q, Points(p), Honest(p), e.gesture \in Initial,
           conn \in {"connecting", "connected"}, q = HandleGesture(p, e, steps)
    PROVE  Points(q) /\ Honest(q) /\ Presses(p, q, e)
<1>1. PICK there : there = HandleMouseMove(p)
  OBVIOUS
<1>2. Points(there) /\ Honest(there) /\ there.mask = p.mask
  BY <1>1, MoveIs
<1>3. CASE e.gesture \in Taps
  <2>1. e.gesture \notin {"drag", "longpress"} /\ e.gesture \notin TwoFingers
    BY <1>3 DEF Taps, TwoFingers
  <2>2. PICK b : b = ButtonOf[e.gesture]
    OBVIOUS
  <2>3. q = p \/ q = Click(there, b)
    <3>1. q = p \/ q = HandleTapEvent(p, b)
      BY <1>3, <2>1, <2>2, Zenon DEF HandleGesture
    <3> QED
      BY <1>1, <3>1 DEF HandleTapEvent
  <2>4. Points(q) /\ Honest(q) /\ q.mask \subseteq p.mask
    BY <1>2, <2>3, ClickIs
  <2> QED
    BY <2>1, <2>4 DEF Presses
<1>4. CASE e.gesture \in TwoFingers
  <2>1. e.gesture \notin {"drag", "longpress"} /\ e.gesture \notin Taps
    BY <1>4 DEF Taps, TwoFingers
  <2>2. q = p \/ q = there \/ q = Scroll(there, steps)
    BY <1>1, <1>4, <2>1 DEF HandleGesture
  <2>3. Points(q) /\ Honest(q) /\ q.mask \subseteq p.mask
    BY <1>2, <2>2, ScrollIs
  <2> QED
    BY <2>1, <2>3 DEF Presses
<1>5. CASE e.gesture \in {"drag", "longpress"}
  <2>1. e.gesture \notin TwoFingers /\ e.gesture \notin Taps
    BY <1>5 DEF Taps, TwoFingers
  <2>2. PICK b : b = ButtonOf[e.gesture]
    OBVIOUS
  <2>3. e.event = "gesturestart" => q = HandleMouseButton(there, TRUE, b)
    BY <1>1, <2>1, <2>2 DEF HandleGesture
  <2>4. /\ e.event = "gestureend" => q = HandleMouseButton(there, FALSE, b)
        /\ e.event \notin {"gesturestart", "gestureend"} => q = there
    BY <1>1, <2>1, <2>2 DEF HandleGesture
  <2>5. CASE e.event = "gesturestart"
    <3>1. q = HandleMouseButton(there, TRUE, b)
      BY <2>3, <2>5
    <3>2. Points(q) /\ Honest(q) /\ q.mask = there.mask \cup {b}
      BY <1>2, <3>1, PressIs, Zenon
    <3> QED
      BY <1>2, <1>5, <2>2, <2>5, <3>2 DEF Presses
  <2>6. CASE e.event = "gestureend"
    <3>1. q = HandleMouseButton(there, FALSE, b)
      BY <2>4, <2>6
    <3>2. Points(q) /\ Honest(q) /\ q.mask = there.mask \ {b}
      BY <1>2, <3>1, LetGoIs, Zenon
    <3> QED
      BY <1>2, <1>5, <2>2, <2>6, <3>2 DEF Presses
  <2>7. CASE e.event \notin {"gesturestart", "gestureend"}
    <3>1. q = there
      BY <2>4, <2>7
    <3> QED
      BY <1>2, <1>5, <2>2, <2>7, <3>1 DEF Presses
  <2> QED
    BY <2>5, <2>6, <2>7
<1> QED
  BY <1>3, <1>4, <1>5 DEF Initial
-----------------------------------------------------------------------------
(* At most two events are pushed in a step; the fold over them is what it  *)
(* looks like.  It is the function `iter' that its definition chooses, and *)
(* At is one.                                                              *)

NextFold(iter, base, seq, steps) ==
    [s \in SUBSET DOMAIN seq |->
        IF s = {} THEN base
        ELSE LET i == Max(s) IN HandleGesture(iter[s \ {i}], seq[i], steps)]

Folded(base, seq, steps) == CHOOSE iter : iter = NextFold(iter, base, seq, steps)

Handled(base, seq, steps) ==
    FoldLeft(LAMBDA p, e : HandleGesture(p, e, steps), base, seq)

LEMMA FoldIs ==
    ASSUME NEW base, NEW seq, NEW steps
    PROVE  Handled(base, seq, steps) = Folded(base, seq, steps)[DOMAIN seq]
BY DEF Handled, FoldLeft, MapThenFoldSet, NextFold, Folded

At(base, seq, steps, s) ==
    CASE s = {}  -> base
      [] s = {1} -> HandleGesture(base, seq[1], steps)
      [] s = {2} -> HandleGesture(base, seq[2], steps)
      [] OTHER   -> HandleGesture(HandleGesture(base, seq[1], steps), seq[2], steps)

LEMMA Maxima == Max({1}) = 1 /\ Max({2}) = 2 /\ Max({1, 2}) = 2
<1>1. Max({1}) = 1
  BY DEF Max
<1>2. Max({2}) = 2
  BY DEF Max
<1>3. Max({1, 2}) = 2
  BY DEF Max
<1> QED
  BY <1>1, <1>2, <1>3

LEMMA FoldExists ==
    ASSUME NEW base, NEW seq, NEW steps, DOMAIN seq \subseteq {1, 2}
    PROVE  \E iter : iter = NextFold(iter, base, seq, steps)
<1> DEFINE D == DOMAIN seq
           g == [s \in SUBSET D |-> At(base, seq, steps, s)]
<1>1. ASSUME NEW s \in SUBSET D, s # {}
      PROVE  At(base, seq, steps, s) =
                LET i == Max(s) IN HandleGesture(g[s \ {i}], seq[i], steps)
  <2>1. s = {1} \/ s = {2} \/ s = {1, 2}
    BY <1>1
  <2>2. CASE s = {1}
    <3>1. Max(s) = 1 /\ s \ {1} = {}
      BY <2>2, Maxima
    <3>2. g[{}] = base
      BY DEF At
    <3> QED
      BY <2>2, <3>1, <3>2 DEF At
  <2>3. CASE s = {2}
    <3>1. Max(s) = 2 /\ s \ {2} = {}
      BY <2>3, Maxima
    <3>2. g[{}] = base
      BY DEF At
    <3> QED
      BY <2>3, <3>1, <3>2 DEF At
  <2>4. CASE s = {1, 2}
    <3>1. Max(s) = 2 /\ s \ {2} = {1} /\ {1} \in SUBSET D
      BY <2>4, Maxima
    <3>2. g[{1}] = HandleGesture(base, seq[1], steps)
      BY <3>1 DEF At
    <3>3. s # {} /\ s # {1} /\ s # {2}
      BY <2>4
    <3> QED
      BY <3>1, <3>2, <3>3 DEF At
  <2> QED
    BY <2>1, <2>2, <2>3, <2>4
<1>2. At(base, seq, steps, {}) = base
  BY DEF At
<1>3. g = NextFold(g, base, seq, steps)
  BY <1>1, <1>2 DEF NextFold
<1> QED
  BY <1>3

LEMMA FoldedIs ==
    ASSUME NEW base, NEW seq, NEW steps, NEW q,
           q = Handled(base, seq, steps)
    PROVE  /\ DOMAIN seq = {} => q = base
           /\ DOMAIN seq = {1} => q = HandleGesture(base, seq[1], steps)
           /\ DOMAIN seq = {1, 2} =>
                q = HandleGesture(HandleGesture(base, seq[1], steps), seq[2], steps)
<1>1. PICK iter : iter = Folded(base, seq, steps)
  OBVIOUS
<1>2. q = iter[DOMAIN seq]
  BY <1>1, FoldIs
<1>3. CASE DOMAIN seq \subseteq {1, 2}
  <2>1. iter = NextFold(iter, base, seq, steps)
    BY <1>1, <1>3, FoldExists DEF Folded
  <2>2. iter[{}] = base
    BY <2>1 DEF NextFold
  <2>3. ASSUME DOMAIN seq = {1} \/ DOMAIN seq = {1, 2}
        PROVE  iter[{1}] = HandleGesture(base, seq[1], steps)
    <3>1. {1} \in SUBSET DOMAIN seq /\ {1} \ {1} = {} /\ {1} # {}
      BY <2>3
    <3>2. iter[{1}] = HandleGesture(iter[{1} \ {1}], seq[1], steps)
      BY <2>1, <3>1, Maxima DEF NextFold
    <3> QED
      BY <2>2, <3>1, <3>2
  <2>4. ASSUME DOMAIN seq = {1, 2}
        PROVE  iter[DOMAIN seq] = HandleGesture(iter[{1}], seq[2], steps)
    <3>1. PICK s : s = DOMAIN seq
      OBVIOUS
    <3>2. s \in SUBSET DOMAIN seq /\ s # {} /\ Max(s) = 2 /\ s \ {2} = {1}
      <4>1. s = {1, 2}
        BY <2>4, <3>1
      <4>2. Max(s) = 2
        BY <4>1, Maxima
      <4>3. s \ {2} = {1}
        BY <4>1, Maxima
      <4> QED
        BY <3>1, <4>1, <4>2, <4>3
    <3>3. iter[s] = HandleGesture(iter[s \ {Max(s)}], seq[Max(s)], steps)
      BY <2>1, <3>2 DEF NextFold
    <3> QED
      BY <3>1, <3>2, <3>3
  <2> QED
    BY <1>2, <2>2, <2>3, <2>4
<1>4. CASE ~(DOMAIN seq \subseteq {1, 2})
  BY <1>4
<1> QED
  BY <1>3, <1>4
-----------------------------------------------------------------------------
(* The events of a step tell of one gesture: the one there is then, or one *)
(* that ends.                                                              *)
Events(g, types) == [i \in DOMAIN types |-> [event |-> types[i], gesture |-> g]]

Tells(g) ==
    \/ state' = {g} /\ \/ pushed' = Events(g, <<"gesturestart">>)
                       \/ pushed' = Events(g, <<"gesturemove">>)
                       \/ pushed' = Events(g, <<"gesturestart", "gesturemove">>)
    \/ pushed' = Events(g, <<"gestureend">>)
    \/ pushed' = Events(g, <<"gesturestart", "gestureend">>)

LEMMA PushIs ==
    ASSUME NEW s, NEW g, s = {g}, NEW types, Push(s, types)
    PROVE  pushed' = Events(g, types)
<1>1. (CHOOSE x \in s : TRUE) = g
  OBVIOUS
<1> QED
  BY <1>1 DEF Push, Events

LEMMA GestureTells ==
    ASSUME GestureInv, GestureNext
    PROVE  pushed' = <<>> \/ \E g \in Initial : Tells(g)
<1> USE DEF GestureInv
<1>1. state \subseteq Initial
  BY DEF Typed
<1>2. ASSUME NEW f \in Fingers, TouchStart(f)
      PROVE  pushed' = <<>>
  BY <1>2 DEF TouchStart, Quiet
<1>3. ASSUME NEW i, MoveSlightly(i)
      PROVE  pushed' = <<>>
  BY <1>3 DEF MoveSlightly, Quiet
<1>4. ASSUME NEW i, MoveOn(i)
      PROVE  \E g \in Initial : Tells(g)
  <2>1. PICK g \in Initial : state = {g}
    BY <1>1, <1>4, DetectedIs DEF MoveOn, HasDetected
  <2>2. state' = {g} /\ Push(state, <<"gesturemove">>)
    BY <1>4, <2>1 DEF MoveOn
  <2>3. pushed' = Events(g, <<"gesturemove">>)
    BY <2>1, <2>2, PushIs
  <2> QED
    BY <2>2, <2>3 DEF Tells
<1>5. ASSUME NEW i, MoveFar(i)
      PROVE  pushed' = <<>> \/ \E g \in Initial : Tells(g)
  <2>1. PICK s \in SUBSET state : MoveDecides(s)
    BY <1>5 DEF MoveFar, MoveCompares, Movable
  <2>2. s \subseteq Initial /\ state' = s
    BY <1>1, <2>1 DEF MoveDecides
  <2>3. CASE Detected(s, tracked')
    <3>1. PICK g \in Initial : s = {g}
      BY <2>2, <2>3, DetectedIs
    <3>2. Push(s, <<"gesturestart", "gesturemove">>)
      BY <2>1, <2>3 DEF MoveDecides
    <3>3. pushed' = Events(g, <<"gesturestart", "gesturemove">>)
      BY <3>1, <3>2, PushIs
    <3> QED
      BY <2>2, <3>1, <3>3 DEF Tells
  <2>4. CASE ~Detected(s, tracked')
    BY <2>1, <2>4 DEF MoveDecides, Quiet
  <2> QED
    BY <2>3, <2>4
<1>6. ASSUME NEW i, EndsGesture(i)
      PROVE  pushed' = <<>> \/ \E g \in Initial : Tells(g)
  <2>1. CASE Detected(Outcome, Released(i))
    <3>1. Outcome \subseteq Initial
      BY <1>1 DEF Outcome, Tappable, AtEnd
    <3>2. PICK g \in Initial : Outcome = {g}
      BY <2>1, <3>1, DetectedIs
    <3>3. \/ Push(Outcome, <<"gesturestart", "gestureend">>)
          \/ Push(Outcome, <<"gestureend">>)
      BY <1>6, <2>1 DEF EndsGesture
    <3> QED
      BY <3>2, <3>3, PushIs DEF Tells
  <2>2. CASE ~Detected(Outcome, Released(i))
    BY <1>6, <2>2 DEF EndsGesture, Quiet
  <2> QED
    BY <2>1, <2>2
<1>7. ASSUME NEW f \in Fingers, TouchMove(f)
      PROVE  pushed' = <<>> \/ \E g \in Initial : Tells(g)
  BY <1>3, <1>4, <1>5, <1>7 DEF TouchMove
<1>8. ASSUME NEW f \in Fingers, TouchEnd(f)
      PROVE  pushed' = <<>> \/ \E g \in Initial : Tells(g)
  <2>1. EndIgnored(f) => pushed' = <<>>
    BY DEF EndIgnored, Quiet
  <2>2. ASSUME NEW i, EndAwaits(i)
        PROVE  pushed' = <<>>
    BY <2>2 DEF EndAwaits, Quiet
  <2>3. EndTracked(f) => pushed' = <<>> \/ \E g \in Initial : Tells(g)
    BY <1>6, <2>2 DEF EndTracked
  <2> QED
    BY <1>8, <2>1, <2>3 DEF TouchEnd, Quiet
<1>9. ASSUME LongpressTimeout
      PROVE  pushed' = <<>> \/ \E g \in Initial : Tells(g)
  <2>1. CASE HasDetected \/ tracked = <<>>
    BY <1>9, <2>1 DEF LongpressTimeout, Quiet
  <2>2. CASE ~(HasDetected \/ tracked = <<>>)
    <3>1. state' = {"longpress"} /\ Push(state', <<"gesturestart">>)
      BY <1>9, <2>2 DEF LongpressTimeout
    <3>2. pushed' = Events("longpress", <<"gesturestart">>)
      <4>1. (CHOOSE x \in {"longpress"} : TRUE) = "longpress"
        OBVIOUS
      <4> QED
        BY <3>1, <4>1 DEF Push, Events
    <3>3. "longpress" \in Initial
      BY DEF Initial
    <3> QED
      BY <3>1, <3>2, <3>3 DEF Tells
  <2> QED
    BY <2>1, <2>2
<1>10. ASSUME TwoTouchTimeout
       PROVE  pushed' = <<>> \/ \E g \in Initial : Tells(g)
  <2>1. CASE tracked = <<>>
    BY <1>10, <2>1 DEF TwoTouchTimeout, Quiet
  <2>2. CASE tracked # <<>>
    <3>1. PICK g \in TwoFingers : state' = {g}
      BY <1>10, <2>2 DEF TwoTouchTimeout
    <3>2. Push(state', <<"gesturestart", "gesturemove">>)
      BY <1>10, <2>2 DEF TwoTouchTimeout
    <3>3. pushed' = Events(g, <<"gesturestart", "gesturemove">>)
      <4>1. (CHOOSE x \in {g} : TRUE) = g
        OBVIOUS
      <4> QED
        BY <3>1, <3>2, <4>1 DEF Push, Events
    <3>4. g \in Initial
      BY <3>1 DEF Initial
    <3> QED
      BY <3>1, <3>3, <3>4 DEF Tells
  <2> QED
    BY <2>1, <2>2
<1>11. Ages \/ GetsLate => pushed' = <<>>
  BY DEF Ages, GetsLate, Quiet
<1> QED
  BY <1>2, <1>7, <1>8, <1>9, <1>10, <1>11 DEF GestureNext

(* What one or two such events do to the buttons. *)
LEMMA OneEvent ==
    ASSUME NEW g \in Initial, NEW type, NEW seq, seq = Events(g, <<type>>), NEW steps, NEW q,
           NEW p, Points(p), Honest(p), conn \in {"connecting", "connected"},
           q = Handled(p, seq, steps)
    PROVE  /\ Points(q) /\ Honest(q)
           /\ Presses(p, q, [event |-> type, gesture |-> g])
<1>1. PICK e : e = [event |-> type, gesture |-> g]
  OBVIOUS
<1>2. DOMAIN seq = {1} /\ seq[1] = e
  <2>1. PICK types : types = <<type>>
    OBVIOUS
  <2>2. DOMAIN types = {1} /\ types[1] = type
    BY <2>1
  <2>3. seq = Events(g, types)
    BY <2>1
  <2> QED
    BY <1>1, <2>2, <2>3 DEF Events
<1>3. q = HandleGesture(p, e, steps)
  BY <1>2, FoldedIs
<1>4. e.gesture \in Initial
  BY <1>1
<1>5. Points(q) /\ Honest(q) /\ Presses(p, q, e)
  BY <1>3, <1>4, GestureIs
<1> QED
  BY <1>1, <1>5

BothPress(p, q, d, e) == \E u : Presses(p, u, d) /\ Presses(u, q, e)

LEMMA TwoEvents ==
    ASSUME NEW g \in Initial, NEW one, NEW two, NEW seq, seq = Events(g, <<one, two>>),
           NEW steps, NEW q, NEW p, Points(p), Honest(p), conn \in {"connecting", "connected"},
           q = Handled(p, seq, steps)
    PROVE  /\ Points(q) /\ Honest(q)
           /\ BothPress(p, q, [event |-> one, gesture |-> g], [event |-> two, gesture |-> g])
<1>1. PICK d, e : d = [event |-> one, gesture |-> g] /\ e = [event |-> two, gesture |-> g]
  OBVIOUS
<1>2. DOMAIN seq = {1, 2} /\ seq[1] = d /\ seq[2] = e
  <2>1. PICK types : types = <<one, two>>
    OBVIOUS
  <2>2. DOMAIN types = {1, 2} /\ types[1] = one /\ types[2] = two
    BY <2>1
  <2>3. seq = Events(g, types)
    BY <2>1
  <2> QED
    BY <1>1, <2>2, <2>3 DEF Events
<1>3. PICK u : u = HandleGesture(p, d, steps)
  OBVIOUS
<1>4. q = HandleGesture(u, e, steps)
  BY <1>2, <1>3, FoldedIs
<1>5. d.gesture \in Initial /\ e.gesture \in Initial
  BY <1>1
<1>6. Points(u) /\ Honest(u) /\ Presses(p, u, d)
  BY <1>3, <1>5, GestureIs
<1>7. Points(q) /\ Honest(q) /\ Presses(u, q, e)
  BY <1>4, <1>5, <1>6, GestureIs
<1> QED
  BY <1>1, <1>6, <1>7 DEF BothPress

(* Over all its events a gesture adds its button only if it is the gesture *)
(* then, and takes it away at its end.                                     *)
LEMMA TellsIs ==
    ASSUME NEW g \in Initial, Tells(g), NEW steps, NEW q, NEW p, Points(p), Honest(p),
           conn \in {"connecting", "connected"}, q = Handled(p, pushed', steps)
    PROVE  /\ Points(q) /\ Honest(q)
           /\ g \notin {"drag", "longpress"} => q.mask \subseteq p.mask
           /\ g \in {"drag", "longpress"} =>
                \/ state' = {g} /\ q.mask \subseteq p.mask \cup {ButtonOf[g]}
                   /\ Last(pushed').event # "gestureend"
                \/ q.mask = p.mask \ {ButtonOf[g]}
<1>1. CASE state' = {g} /\ pushed' = Events(g, <<"gesturestart">>)
  <2>1. /\ Points(q) /\ Honest(q)
        /\ Presses(p, q, [event |-> "gesturestart", gesture |-> g])
    BY <1>1, OneEvent
  <2>2. Last(pushed').event = "gesturestart"
    BY <1>1 DEF Last, Events
  <2> QED
    BY <1>1, <2>1, <2>2 DEF Presses
<1>2. CASE state' = {g} /\ pushed' = Events(g, <<"gesturemove">>)
  <2>1. /\ Points(q) /\ Honest(q)
        /\ Presses(p, q, [event |-> "gesturemove", gesture |-> g])
    BY <1>2, OneEvent
  <2>2. Last(pushed').event = "gesturemove"
    BY <1>2 DEF Last, Events
  <2> QED
    BY <1>2, <2>1, <2>2 DEF Presses
<1>3. CASE state' = {g} /\ pushed' = Events(g, <<"gesturestart", "gesturemove">>)
  <2>1. /\ Points(q) /\ Honest(q)
        /\ BothPress(p, q, [event |-> "gesturestart", gesture |-> g],
                     [event |-> "gesturemove", gesture |-> g])
    BY <1>3, TwoEvents
  <2>2. PICK u : /\ Presses(p, u, [event |-> "gesturestart", gesture |-> g])
                 /\ Presses(u, q, [event |-> "gesturemove", gesture |-> g])
    BY <2>1 DEF BothPress
  <2>3. Last(pushed').event = "gesturemove"
    BY <1>3 DEF Last, Events
  <2> QED
    BY <1>3, <2>1, <2>2, <2>3 DEF Presses
<1>4. CASE pushed' = Events(g, <<"gestureend">>)
  <2>1. /\ Points(q) /\ Honest(q)
        /\ Presses(p, q, [event |-> "gestureend", gesture |-> g])
    BY <1>4, OneEvent
  <2> QED
    BY <2>1 DEF Presses
<1>5. CASE pushed' = Events(g, <<"gesturestart", "gestureend">>)
  <2>1. /\ Points(q) /\ Honest(q)
        /\ BothPress(p, q, [event |-> "gesturestart", gesture |-> g],
                     [event |-> "gestureend", gesture |-> g])
    BY <1>5, TwoEvents
  <2>2. PICK u : /\ Presses(p, u, [event |-> "gesturestart", gesture |-> g])
                 /\ Presses(u, q, [event |-> "gestureend", gesture |-> g])
    BY <2>1 DEF BothPress
  <2> QED
    BY <2>1, <2>2 DEF Presses
<1> QED
  BY <1>1, <1>2, <1>3, <1>4, <1>5 DEF Tells

LEMMA TellsLast ==
    ASSUME NEW g, Tells(g)
    PROVE  pushed' # <<>> /\ Last(pushed').gesture = g
<1>1. ASSUME NEW type, pushed' = Events(g, <<type>>)
      PROVE  pushed' # <<>> /\ Last(pushed').gesture = g
  BY <1>1 DEF Events, Last
<1>2. ASSUME NEW one, NEW two, pushed' = Events(g, <<one, two>>)
      PROVE  pushed' # <<>> /\ Last(pushed').gesture = g
  BY <1>2 DEF Events, Last
<1> QED
  BY <1>1, <1>2 DEF Tells

LEMMA PointerIs ==
    /\ Points(pointer) /\ pointer.mask = mask /\ pointer.told = told
    /\ pointer.delayed = delayed /\ pointer.recent = recent
BY DEF pointer, Points

LEMMA GesturingKeeps ==
    ASSUME GestureInv, HeldInv, conn # "disconnected", Gesturing
    PROVE  HeldInv'
<1>1. conn \in {"connecting", "connected"} /\ GestureNext /\ UNCHANGED <<conn, held>>
  BY DEF HeldInv, Gesturing
<1>2. PICK steps \in BOOLEAN : Becomes(Handled(pointer, pushed', steps))
  BY DEF Gesturing, Handled
<1>3. PICK q : q = Handled(pointer, pushed', steps)
  OBVIOUS
<1>4. mask' = q.mask /\ told' = q.told
  BY <1>2, <1>3 DEF Becomes
<1>5. Points(pointer) /\ Honest(pointer)
  BY PointerIs DEF HeldInv, Honest
<1>6. ASSUME NEW g \in {"drag", "longpress"}, state = {g}, state' # {g}
      PROVE  pushed' # <<>> /\ Last(pushed') = [event |-> "gestureend", gesture |-> g]
  <2>1. PtrNext
    BY DEF PtrNext
  <2> QED
    BY <1>6, <2>1, EndsTold
<1>7. \/ Owed(state) = {}
      \/ \E g \in {"drag", "longpress"} : state = {g} /\ Owed(state) = {ButtonOf[g]}
  BY DEF Owed, ButtonOf
<1>8. \A g \in {"drag", "longpress"} : Owed({g}) = {ButtonOf[g]}
  BY DEF Owed, ButtonOf
<1>9. mask \subseteq held \cup Owed(state)
  BY DEF HeldInv
<1>10. Honest(q) /\ mask' \subseteq held \cup Owed(state')
  <2>1. CASE pushed' = <<>>
    <3>1. q = pointer
      <4>1. DOMAIN pushed' = {}
        BY <2>1
      <4> QED
        BY <1>3, <4>1, FoldedIs
    <3>2. Owed(state) \subseteq Owed(state')
      BY <1>6, <1>7, <2>1
    <3> QED
      BY <1>4, <1>5, <1>9, <3>1, <3>2, PointerIs
  <2>2. ASSUME NEW g \in Initial, Tells(g)
        PROVE  Honest(q) /\ mask' \subseteq held \cup Owed(state')
    <3>1. /\ Points(q) /\ Honest(q)
          /\ g \notin {"drag", "longpress"} => q.mask \subseteq mask
          /\ g \in {"drag", "longpress"} =>
               \/ state' = {g} /\ q.mask \subseteq mask \cup {ButtonOf[g]}
                  /\ Last(pushed').event # "gestureend"
               \/ q.mask = mask \ {ButtonOf[g]}
      BY <1>1, <1>3, <1>5, <2>2, TellsIs, PointerIs
    <3>2. Last(pushed').gesture = g
      BY <2>2, TellsLast
    <3>3. ASSUME NEW h \in {"drag", "longpress"}, state = {h}, state' # {h}
          PROVE  g = h /\ Last(pushed').event = "gestureend"
      <4>1. Last(pushed') = [event |-> "gestureend", gesture |-> h]
        BY <1>6, <3>3
      <4> QED
        BY <3>2, <4>1
    <3>4. CASE Owed(state) = {}
      <4>1. CASE g \in {"drag", "longpress"} /\ state' = {g}
        BY <1>4, <1>8, <1>9, <3>1, <3>4, <4>1
      <4>2. CASE ~(g \in {"drag", "longpress"} /\ state' = {g})
        BY <1>4, <1>9, <3>1, <3>4, <4>2
      <4> QED
        BY <3>1, <4>1, <4>2
    <3>5. ASSUME NEW h \in {"drag", "longpress"}, state = {h}, Owed(state) = {ButtonOf[h]}
          PROVE  mask' \subseteq held \cup Owed(state')
      <4>1. CASE state' = {h}
        <5>1. Owed(state') = {ButtonOf[h]}
          BY <1>8, <4>1
        <5>2. g \in {"drag", "longpress"} /\ state' = {g} => g = h
          BY <4>1
        <5> QED
          BY <1>4, <1>9, <3>1, <3>5, <5>1, <5>2
      <4>2. CASE state' # {h}
        <5>1. g = h /\ Last(pushed').event = "gestureend"
          BY <3>3, <3>5, <4>2
        <5>2. q.mask = mask \ {ButtonOf[h]}
          BY <3>1, <5>1
        <5> QED
          BY <1>4, <1>9, <3>5, <5>2
      <4> QED
        BY <4>1, <4>2
    <3> QED
      BY <1>7, <3>1, <3>4, <3>5
  <2> QED
    BY <1>1, <2>1, <2>2, GestureTells
<1> QED
  BY <1>1, <1>4, <1>10 DEF HeldInv, Honest

LEMMA ButtonKeeps ==
    ASSUME HeldInv, conn # "disconnected", NEW q, Points(q), Honest(q), Becomes(q),
           conn' = conn, state' = state, q.mask \subseteq held' \cup Owed(state)
    PROVE  HeldInv'
BY DEF HeldInv, Honest, Becomes

LEMMA HeldNext ==
    ASSUME GestureInv, HeldInv, [PtrNext]_ptrVars
    PROVE  HeldInv'
<1>1. Points(pointer) /\ Honest(pointer) /\ pointer.mask = mask
  BY PointerIs DEF HeldInv, Honest
<1>2. ASSUME conn # "disconnected", Gesturing
      PROVE  HeldInv'
  BY <1>2, GesturingKeeps
<1>3. ASSUME conn # "disconnected", MouseMove
      PROVE  HeldInv'
  <2>1. PICK q : q = HandleMouseMove(pointer)
    OBVIOUS
  <2>2. Becomes(q) /\ conn' = conn /\ state' = state /\ held' = held
    BY <1>3, <2>1 DEF MouseMove, Mouse, handlerVars
  <2>3. Points(q) /\ Honest(q) /\ q.mask = mask
    BY <1>1, <2>1, MoveIs
  <2> QED
    BY <1>3, <2>2, <2>3, ButtonKeeps DEF HeldInv
<1>4. ASSUME conn # "disconnected", HandleWheel
      PROVE  HeldInv'
  <2>1. PICK q : q = Scroll(pointer, TRUE)
    OBVIOUS
  <2>2. Becomes(q) /\ conn' = conn /\ state' = state /\ held' = held /\ conn = "connected"
    BY <1>4, <2>1 DEF HandleWheel, Mouse, handlerVars
  <2>3. q = Click(pointer, Wheel)
    BY <2>1 DEF Scroll
  <2>4. Points(q) /\ Honest(q) /\ q.mask \subseteq mask
    BY <1>1, <2>2, <2>3, ClickIs
  <2> QED
    BY <1>4, <2>2, <2>4, ButtonKeeps DEF HeldInv
<1>5. ASSUME conn # "disconnected", NEW b, MouseDown(b)
      PROVE  HeldInv'
  <2>1. PICK q : q = HandleMouseButton(pointer, TRUE, b)
    OBVIOUS
  <2>2. /\ Becomes(q) /\ conn' = conn /\ state' = state /\ held' = held \cup {b}
        /\ conn \in {"connecting", "connected"}
    BY <1>5, <2>1 DEF MouseDown, Mouse, handlerVars, HeldInv
  <2>3. Points(q) /\ Honest(q) /\ q.mask = mask \cup {b}
    BY <1>1, <2>1, <2>2, PressIs, Zenon
  <2> QED
    BY <1>5, <2>2, <2>3, ButtonKeeps DEF HeldInv
<1>6. ASSUME conn # "disconnected", NEW b, MouseUp(b)
      PROVE  HeldInv'
  <2>1. PICK q : q = HandleMouseButton(pointer, FALSE, b)
    OBVIOUS
  <2>2. /\ Becomes(q) /\ conn' = conn /\ state' = state /\ held' = held \ {b}
        /\ conn \in {"connecting", "connected"}
    BY <1>6, <2>1 DEF MouseUp, Mouse, handlerVars, HeldInv
  <2>3. Points(q) /\ Honest(q) /\ q.mask = mask \ {b}
    BY <1>1, <2>1, <2>2, LetGoIs, Zenon
  <2> QED
    BY <1>6, <2>2, <2>3, ButtonKeeps DEF HeldInv
<1>7. ASSUME conn # "disconnected", HandleDelayedMouseMove
      PROVE  HeldInv'
  <2>1. PICK u : u = SendMouse(pointer, mask)
    OBVIOUS
  <2>2. Points(u) /\ u.mask = mask /\ u.told = IF conn = "connected" THEN mask ELSE told
    BY <2>1, SentMouse, PointerIs
  <2>3. PICK q : q = [u EXCEPT !.delayed = FALSE, !.recent = TRUE]
    OBVIOUS
  <2>4. Points(q) /\ q.mask = u.mask /\ q.told = u.told
    BY <2>2, <2>3 DEF Points
  <2>5. Becomes(q) /\ conn' = conn /\ state' = state /\ held' = held
    BY <1>7, <2>1, <2>3 DEF HandleDelayedMouseMove, Mouse, handlerVars
  <2>6. Honest(q)
    BY <2>2, <2>4 DEF Honest, HeldInv
  <2> QED
    BY <1>7, <2>2, <2>4, <2>5, <2>6, ButtonKeeps DEF HeldInv
<1>8. CASE UNCHANGED <<conn, state, held, mask, told>>
  BY <1>8 DEF HeldInv
<1>9. ASSUME Connect \/ Disconnect
      PROVE  HeldInv'
  BY <1>9 DEF Connect, Disconnect, HeldInv, handlerVars, pointerVars
<1>10. MoveDelayOver \/ UNCHANGED ptrVars => UNCHANGED <<conn, state, held, mask, told>>
  BY DEF MoveDelayOver, Mouse, handlerVars, ptrVars, gestureVars, pointerVars
<1> QED
  BY <1>2, <1>3, <1>4, <1>5, <1>6, <1>7, <1>8, <1>9, <1>10 DEF PtrNext

(* The server holds a button down only while the user does: with the mouse *)
(* or with a finger of the gesture, for any fingers and buttons            *)
(* (rfb.js:1345-1373).                                                     *)
THEOREM PointerHeldByUser == PtrSpec => []HeldByUser
<1>1. PtrInit => HeldInv
  BY DEF PtrInit, HeldInv
<1>2. GestureInv /\ ~thrown /\ HeldInv /\ [PtrNext]_ptrVars => HeldInv'
  BY HeldNext
<1>3. GestureInv /\ HeldInv => HeldByUser
  <2> SUFFICES ASSUME GestureInv, HeldInv, told # {}, held = {}
               PROVE  \E i \in DOMAIN tracked : tracked[i].id \in down
    BY DEF HeldByUser
  <2>1. Owed(state) # {}
    BY DEF HeldInv
  <2>2. state = {"drag"} \/ state = {"longpress"}
    BY <2>1 DEF Owed
  <2>3. tracked # <<>>
    <3>1. state # Initial /\ state # {}
      BY <2>2 DEF Initial, Taps
    <3> QED
      BY <3>1 DEF GestureInv, Rested
  <2>4. PICK i \in Active(tracked) : TRUE
    BY <2>3 DEF GestureInv, Accounted
  <2>5. tracked[i].id \in ActiveIds /\ i \in DOMAIN tracked
    BY <2>4 DEF ActiveIds, Active
  <2> QED
    BY <2>5 DEF GestureInv, Accounted
<1> QED
  BY <1>1, <1>2, <1>3, GestureSafe, PTL DEF PtrSpec
-----------------------------------------------------------------------------
-----------------------------------------------------------------------------
(* The parser reads what was sent.  Where a cell leaves it is said of a    *)
(* state of its own: what the model keeps in fbu, dec, fresh and updating, *)
(* the updates it has asked for, how many cells of the unit are still to   *)
(* come, and whether it has thrown.                                        *)
Kinds == {"rest", "fbu", "bell", "cut", "fence", "eocu", "xvp", "colours", "unknown", "rect",
          "length", "deflated", "filter", "palette", "ctl", "pixel", "pixels", "image", "line",
          "source", "rre", "subrect", "tile", "zlength", "zdata", "segment", "cursor", "vmware",
          "name", "screens", "led"}
Words == Known \cup {"other", "", "bad", "init", "illegal", "end", "fill", "jpeg", "png", "copy",
                     "filtered", "gradient", "palette", "first", "next"}
Cells == [k : Kinds, v : Words, s : 0..Many, z : SUBSET Streams, n : 0..1]
Blank(word) == word = ""
Rest == Cell("rest", "", 0, {}, 0)

Place(rects, enc, size, d, z, u, a) ==
    [rects |-> rects, enc |-> enc, size |-> size, dec |-> d, fresh |-> z, upd |-> u, asks |-> a,
     skip |-> 0, dead |-> FALSE]
Between(rects, z, u, a) == Place(rects, NoEncoding, 0, AtRest, z, u, a)
Asks(left, u, a) == IF left = 0 /\ ~u THEN a + 1 ELSE a

Decs == [lines : 0..2, subrects : 0..2, tiles : 0..2, ctl : Words, stream : 0..3,
         filter : Words, colors : BOOLEAN, len : BOOLEAN, length : BOOLEAN, segments : 0..2]
Places == [rects : 0..Many, enc : Known \cup {NoEncoding}, size : 0..Many, dec : Decs,
           fresh : [Streams -> BOOLEAN], upd : BOOLEAN, asks : Nat, skip : 0..1, dead : BOOLEAN]

(* Between two rectangles no decoder keeps anything. *)
Tidy(p) == ~p.dead /\ p.enc = NoEncoding => p.dec = AtRest

(* What is asked for and switched on stays so. *)
Before(p, e) == p \in Places /\ Tidy(p) /\ p.asks <= e.asks /\ (p.upd => e.upd)

Ends(p, left, d, z) == Place(left, NoEncoding, 0, d, z, p.upd, Asks(left, p.upd, p.asks))
Goes(p, d, z) == Place(p.rects, p.enc, p.size, d, z, p.upd, p.asks)
Decoded(p, d, z, done) == IF done THEN Ends(p, p.rects - 1, d, z) ELSE Goes(p, d, z)
Dead(p) == [p EXCEPT !.dead = TRUE]

(* What the parser looks for in a state. *)
TightWantsAt(p) ==
    CASE p.dec.ctl = "" -> "ctl"
      [] p.dec.ctl = "fill" -> "pixel"
      [] p.dec.ctl \in {"jpeg", "png"} -> IF p.dec.len THEN "image" ELSE "length"
      [] p.dec.ctl = "filtered" /\ p.dec.filter = "" -> "filter"
      [] p.dec.filter = "palette" /\ ~p.dec.colors -> "palette"
      [] OTHER -> IF p.size = 1 THEN "pixels" ELSE IF p.dec.len THEN "deflated" ELSE "length"

DecoderWantsAt(p) ==
    CASE p.enc = "raw" -> "line"
      [] p.enc = "copyrect" -> "source"
      [] p.enc = "rre" -> IF p.dec.subrects = 0 THEN "rre" ELSE "subrect"
      [] p.enc = "hextile" -> "tile"
      [] p.enc \in {"tight", "tightpng"} -> TightWantsAt(p)
      [] p.enc = "zrle" -> IF p.dec.length THEN "zdata" ELSE "zlength"
      [] p.enc = "jpeg" -> "segment"
      [] OTHER -> p.enc

(* What a unit with the head c means to the parser in state p. *)
MessageMeans(p, c, m) ==
    /\ p.rects = 0
    /\ \/ c.k = "fbu" /\ m = Place(c.s, NoEncoding, 0, p.dec, p.fresh, p.upd, p.asks)
       \/ c.k = "eocu" /\ m = Place(0, p.enc, p.size, p.dec, p.fresh, TRUE, p.asks)
       \/ c.k \in MessageKinds \ {"fbu", "eocu"}
          /\ m = Place(0, p.enc, p.size, p.dec, p.fresh, p.upd, p.asks)

RectMeans(p, c, m) ==
    /\ p.rects > 0 /\ p.enc = NoEncoding /\ c.k = "rect"
    /\ \/ c.v \notin Known /\ m = Dead(p)
       \/ c.v = "last" /\ m = Ends(p, 0, p.dec, p.fresh)
       \/ /\ c.v \in {"size", "qemu"} \/ (c.v \in {"raw", "hextile"} /\ c.s = 0)
          /\ m = Ends(p, p.rects - 1, p.dec, p.fresh)
       \/ /\ c.v \in Known \ {"last", "size", "qemu"} /\ (c.v \in {"raw", "hextile"} => c.s # 0)
          /\ m = Place(p.rects, c.v, c.s, CASE c.v = "raw" -> [p.dec EXCEPT !.lines = c.s]
                                         [] c.v = "hextile" -> [p.dec EXCEPT !.tiles = c.s]
                                         [] OTHER -> p.dec,
                    p.fresh, p.upd, p.asks)

TightEmptied(d) == [d EXCEPT !.ctl = "", !.stream = 0, !.filter = "", !.colors = FALSE,
   !.len = FALSE]

WholeMeans(p, c, m) ==
    c.k \in {"vmware", "cursor", "name", "led", "screens", "source"}
      /\ m = Decoded(p, p.dec, p.fresh, TRUE)

CountMeans(p, c, m) ==
    \/ c.k = "line" /\ m = Decoded(p, [p.dec EXCEPT !.lines = @ - 1], p.fresh, p.dec.lines = 1)
    \/ c.k = "rre" /\ m = Decoded(p, [p.dec EXCEPT !.subrects = c.s], p.fresh, c.s = 0)
    \/ c.k = "subrect" /\ m = Decoded(p, [p.dec EXCEPT !.subrects = @ - 1], p.fresh,
       p.dec.subrects = 1)
    \/ /\ c.k = "tile" /\ c.v # "illegal"
       /\ m = Decoded(p, [p.dec EXCEPT !.tiles = @ - 1], p.fresh, p.dec.tiles = 1)

BlockMeans(p, c, m) ==
    \/ c.k = "zlength" /\ m = Decoded(p, [p.dec EXCEPT !.length = TRUE], p.fresh, FALSE)
    \/ c.k = "zdata" /\ c.v # "illegal" /\ m = Decoded(p, [p.dec EXCEPT !.length = FALSE],
       p.fresh, TRUE)
    \/ c.k = "segment" /\ c.v = "" /\ m = Decoded(p, [p.dec EXCEPT !.segments = @ + 1],
       p.fresh, FALSE)
    \/ c.k = "segment" /\ c.v = "end" /\ m = Decoded(p, [p.dec EXCEPT !.segments = 0],
       p.fresh, TRUE)

ControlMeans(p, c, m) ==
    /\ c.k = "ctl" /\ c.v # "illegal"
    /\ m = Decoded(p, [p.dec EXCEPT !.ctl = c.v, !.stream = c.s,
       !.filter = IF c.v = "copy" THEN "copy" ELSE ""],
                   AfterReset(p.fresh, c.z), FALSE)

TightMeans(p, c, m) ==
    \/ ControlMeans(p, c, m)
    \/ c.k = "filter" /\ m = Decoded(p, [p.dec EXCEPT !.filter = c.v], p.fresh, FALSE)
    \/ c.k = "palette" /\ m = Decoded(p, [p.dec EXCEPT !.colors = TRUE], p.fresh, FALSE)
    \/ c.k = "length" /\ m = Decoded(p, [p.dec EXCEPT !.len = TRUE], p.fresh, FALSE)
    \/ c.k \in {"image", "pixel", "pixels"} /\ m = Decoded(p, TightEmptied(p.dec), p.fresh, TRUE)
    \/ /\ c.k = "deflated" /\ (c.v = "first") = p.fresh[p.dec.stream]
       /\ m = Decoded(p, TightEmptied(p.dec), [p.fresh EXCEPT ![p.dec.stream] = FALSE], TRUE)

IllegalMeans(p, c, m) ==
    c.k \in {"tile", "segment", "zdata", "ctl"} /\ c.v = "illegal" /\ m = Dead(p)

DecodeMeans(p, c, m) ==
    /\ p.rects > 0 /\ p.enc # NoEncoding /\ c.k = DecoderWantsAt(p)
    /\ \/ WholeMeans(p, c, m) \/ CountMeans(p, c, m) \/ BlockMeans(p, c, m)
       \/ TightMeans(p, c, m) \/ IllegalMeans(p, c, m)

Means(p, c, m) == MessageMeans(p, c, m) \/ RectMeans(p, c, m) \/ DecodeMeans(p, c, m)

(* A cell takes the parser from p to q. *)
Moves(p, c, q) ==
    \/ p.dead /\ q.dead
    \/ ~p.dead /\ p.skip = 1 /\ c.k = "rest" /\ q = [p EXCEPT !.skip = 0]
    \/ ~p.dead /\ p.skip = 0 /\ \E m : Means(p, c, m) /\ q = [m EXCEPT !.skip = c.n]

(* The cells take it from p to q. *)
Leads(cells, p, q, f) ==
    /\ f[1] = p /\ f[Len(cells) + 1] = q
    /\ \A i \in 1..Len(cells) : Moves(f[i], cells[i], f[i + 1])
    /\ \A i \in 1..(Len(cells) + 1) : Before(f[i], q)
Path(cells, p, q) == cells \in Seq(Cells) /\ \E f : Leads(cells, p, q, f)
-----------------------------------------------------------------------------
(* Paths. *)
LEMMA PathNone ==
    ASSUME NEW p, Before(p, p)
    PROVE  Path(<<>>, p, p)
<1>1. Leads(<<>>, p, p, [i \in {1} |-> p])
  BY DEF Leads
<1>. QED BY <1>1 DEF Path

LEMMA PathCell ==
    ASSUME NEW c \in Cells, NEW p, NEW q, Moves(p, c, q), Before(p, q), Before(q, q)
    PROVE  Path(<<c>>, p, q)
<1> DEFINE f == [i \in {1, 2} |-> IF i = 1 THEN p ELSE q]
<1>1. Len(<<c>>) = 1 /\ <<c>>[1] = c /\ <<c>> \in Seq(Cells)
  OBVIOUS
<1>2. f[1] = p /\ f[2] = q
  OBVIOUS
<1>3. \A i \in 1..1 : Moves(f[i], <<c>>[i], f[i + 1])
  BY <1>1, <1>2
<1>4. \A i \in 1..2 : Before(f[i], q)
  BY <1>2
<1>. HIDE DEF f
<1>5. Leads(<<c>>, p, q, f)
  BY <1>1, <1>2, <1>3, <1>4 DEF Leads
<1>. QED BY <1>1, <1>5 DEF Path

LEMMA PathJoined ==
    ASSUME NEW a, NEW b, NEW p, NEW q, NEW r, Path(a, p, q), Path(b, q, r)
    PROVE  Path(a \o b, p, r)
<1>1. a \in Seq(Cells) /\ b \in Seq(Cells)
  BY DEF Path
<1>2. PICK f : Leads(a, p, q, f)
  BY DEF Path
<1>3. PICK g : Leads(b, q, r, g)
  BY DEF Path
<1>4. PICK m \in Nat, n \in Nat : m = Len(a) /\ n = Len(b)
  BY <1>1
<1>5. PICK w : w = a \o b
  OBVIOUS
<1>6. /\ w \in Seq(Cells) /\ Len(w) = m + n
      /\ \A i \in 1..m : w[i] = a[i]
      /\ \A i \in 1..n : w[m + i] = b[i]
  BY <1>1, <1>4, <1>5
<1> DEFINE h == [i \in 1..(m + n + 1) |-> IF i <= m THEN f[i] ELSE g[i - m]]
<1>7. \A i \in 1..(m + 1) : h[i] = f[i]
  <2>1. h[m + 1] = g[1]
    BY <1>4
  <2>2. g[1] = f[m + 1]
    BY <1>2, <1>3, <1>4 DEF Leads
  <2>. QED BY <1>4, <2>1, <2>2
<1>8. \A i \in 1..(n + 1) : h[m + i] = g[i]
  <2>1. ASSUME NEW i \in 1..(n + 1) PROVE h[m + i] = g[i]
    <3>1. m + i \in 1..(m + n + 1) /\ ~(m + i <= m) /\ m + i - m = i
      BY <1>4
    <3>. QED BY <3>1
  <2>. QED BY <2>1
<1>. HIDE DEF h
<1>9. ASSUME NEW i \in 1..(m + n) PROVE Moves(h[i], w[i], h[i + 1])
  <2>1. CASE i <= m
    <3>1. i \in 1..m /\ i \in 1..(m + 1) /\ i + 1 \in 1..(m + 1)
      BY <1>4, <2>1
    <3>2. Moves(f[i], a[i], f[i + 1])
      BY <1>2, <1>4, <3>1 DEF Leads
    <3>. QED BY <1>6, <1>7, <3>1, <3>2
  <2>2. CASE ~(i <= m)
    <3>5. i - m \in 1..n /\ i = m + (i - m)
      BY <1>4, <2>2
    <3>1. PICK j \in 1..n : i = m + j
      BY <3>5
    <3>2. j \in 1..(n + 1) /\ j + 1 \in 1..(n + 1) /\ i + 1 = m + (j + 1)
      BY <1>4, <3>1
    <3>3. Moves(g[j], b[j], g[j + 1])
      BY <1>3, <1>4 DEF Leads
    <3>4. h[i] = g[j] /\ h[i + 1] = g[j + 1] /\ w[i] = b[j]
      BY <1>6, <1>8, <3>1, <3>2
    <3>. QED BY <3>3, <3>4
  <2>. QED BY <2>1, <2>2
<1>13. q.asks \in Nat /\ r.asks \in Nat
  <2>1. 1 \in 1..(n + 1) /\ n + 1 \in 1..(n + 1)
    BY <1>4
  <2>. QED BY <1>3, <1>4, <2>1 DEF Leads, Before, Places
<1>10. ASSUME NEW i \in 1..(m + n + 1) PROVE Before(h[i], r)
  <2>1. CASE i <= m
    <3>1. i \in 1..(m + 1)
      BY <1>4, <2>1
    <3>2. Before(f[i], q) /\ Before(q, r)
      <4>1. 1 \in 1..(n + 1)
        BY <1>4
      <4>. QED BY <1>2, <1>3, <1>4, <3>1, <4>1 DEF Leads
    <3>. QED BY <1>7, <1>13, <3>1, <3>2 DEF Before, Places
  <2>2. CASE ~(i <= m)
    <3>5. i - m \in 1..(n + 1) /\ i = m + (i - m)
      BY <1>4, <2>2
    <3>1. PICK j \in 1..(n + 1) : i = m + j
      BY <3>5
    <3>. QED BY <1>3, <1>4, <1>8, <3>1 DEF Leads
  <2>. QED BY <2>1, <2>2
<1>11. h[1] = p /\ h[m + n + 1] = r
  <2>1. 1 \in 1..(m + 1) /\ n + 1 \in 1..(n + 1) /\ m + n + 1 = m + (n + 1)
    BY <1>4
  <2>2. h[1] = f[1] /\ h[m + (n + 1)] = g[n + 1]
    BY <1>7, <1>8, <2>1
  <2>. QED BY <1>2, <1>3, <1>4, <2>1, <2>2 DEF Leads
<1>12. Leads(w, p, r, h)
  BY <1>6, <1>9, <1>10, <1>11 DEF Leads
<1>. QED BY <1>5, <1>6, <1>12 DEF Path

(* The first cell of a path, and what is left. *)
LEMMA PathTaken ==
    ASSUME NEW a, NEW p, NEW e, Path(a, p, e), a # <<>>
    PROVE  /\ a[1] \in Cells
           /\ \E q : Moves(p, a[1], q) /\ Path(SubSeq(a, 2, Len(a)), q, e)
<1>1. a \in Seq(Cells)
  BY DEF Path
<1>2. PICK f : Leads(a, p, e, f)
  BY DEF Path
<1>3. PICK n \in Nat : Len(a) = n + 1
  <2>1. Len(a) \in Nat /\ Len(a) # 0
    BY <1>1
  <2>. QED BY <2>1
<1>4. PICK b : b = SubSeq(a, 2, Len(a))
  OBVIOUS
<1>5. b \in Seq(Cells) /\ Len(b) = n /\ \A i \in 1..n : b[i] = a[i + 1]
  BY <1>1, <1>3, <1>4
<1> DEFINE g == [i \in 1..(n + 1) |-> f[i + 1]]
<1>6. \A i \in 1..n : i \in 1..(n + 1) /\ i + 1 \in 1..(n + 1) /\ (i + 1) + 1 = i + 2
  BY <1>3
<1>7. ASSUME NEW i \in 1..n PROVE Moves(g[i], b[i], g[i + 1])
  <2>1. Moves(f[i + 1], a[i + 1], f[(i + 1) + 1])
    BY <1>2, <1>3, <1>6 DEF Leads
  <2>2. g[i] = f[i + 1] /\ g[i + 1] = f[(i + 1) + 1] /\ b[i] = a[i + 1]
    BY <1>5, <1>6
  <2>. QED BY <2>1, <2>2
<1>8. ASSUME NEW i \in 1..(n + 1) PROVE Before(g[i], e)
  <2>1. i + 1 \in 1..(n + 1 + 1)
    BY <1>3
  <2>. QED BY <1>2, <1>3, <2>1 DEF Leads
<1>9. g[1] = f[2] /\ g[n + 1] = e
  <2>1. 1 \in 1..(n + 1) /\ n + 1 \in 1..(n + 1)
    BY <1>3
  <2>. QED BY <1>2, <1>3, <2>1 DEF Leads
<1>. HIDE DEF g
<1>10. Leads(b, f[2], e, g)
  BY <1>5, <1>7, <1>8, <1>9 DEF Leads
<1>11. Moves(p, a[1], f[2])
  BY <1>2, <1>3 DEF Leads
<1>12. a[1] \in Cells
  BY <1>1, <1>3
<1>. QED BY <1>4, <1>5, <1>10, <1>11, <1>12 DEF Path

LEMMA PathDead ==
    ASSUME NEW cells \in Seq(Cells), NEW p, p.dead, Before(p, p)
    PROVE  Path(cells, p, p)
<1>1. PICK n \in Nat : n = Len(cells)
  OBVIOUS
<1> DEFINE f == [i \in 1..(n + 1) |-> p]
<1>2. \A i \in 1..(n + 1) : f[i] = p
  OBVIOUS
<1>3. \A i \in 1..n : i \in 1..(n + 1) /\ i + 1 \in 1..(n + 1)
  BY <1>1
<1>4. \A i \in 1..n : Moves(f[i], cells[i], f[i + 1])
  BY <1>2, <1>3 DEF Moves
<1>5. f[1] = p /\ f[n + 1] = p
  BY <1>1, <1>2
<1>. HIDE DEF f
<1>6. Leads(cells, p, p, f)
  BY <1>1, <1>2, <1>4, <1>5 DEF Leads
<1>. QED BY <1>6 DEF Path

LEMMA PairOf ==
    ASSUME NEW x, NEW y
    PROVE  <<x>> \o <<y>> = <<x, y>>
<1>1. <<x>> \in Seq({x, y}) /\ <<y>> \in Seq({x, y}) /\ <<x, y>> \in Seq({x, y})
  OBVIOUS
<1>2. PICK a \in Seq({x, y}), b \in Seq({x, y}) : a = <<x>> /\ b = <<y>>
  BY <1>1
<1>3. Len(a) = 1 /\ Len(b) = 1 /\ a[1] = x /\ b[1] = y
  BY <1>2
<1>10. /\ a \o b \in Seq({x, y}) /\ Len(a \o b) = Len(a) + Len(b)
       /\ \A i \in 1..(Len(a) + Len(b)) : (a \o b)[i] = IF i <= Len(a) THEN a[i] ELSE b[i - Len(a)]
  BY ConcatProperties
<1>4. a \o b \in Seq({x, y}) /\ Len(a \o b) = 2 /\ (a \o b)[1] = x /\ (a \o b)[2] = y
  BY <1>3, <1>10
<1>5. PICK w \in Seq({x, y}) : w = a \o b
  BY <1>4
<1>6. PICK t \in Seq({x, y}) : t = <<x, y>>
  BY <1>1
<1>7. Len(t) = 2 /\ t[1] = x /\ t[2] = y
  BY <1>6
<1>8. Len(w) = Len(t) /\ \A i \in 1..Len(w) : w[i] = t[i]
  BY <1>4, <1>5, <1>7
<1>9. w = t
  BY <1>8, SeqEqual
<1>. QED BY <1>2, <1>5, <1>6, <1>9

(* The units of the stream. *)
LEMMA UnitIs ==
    ASSUME NEW kind, NEW v
    PROVE  /\ Unit(kind, v, 0) = <<Cell(kind, v, 0, {}, 0)>>
           /\ Unit(kind, v, 1) = <<Cell(kind, v, 0, {}, 1), Rest>>
           /\ Plain(kind, 0) = <<Cell(kind, "", 0, {}, 0)>>
           /\ Plain(kind, 1) = <<Cell(kind, "", 0, {}, 1), Rest>>
<1>1. ASSUME NEW w PROVE Unit(kind, w, 0) = <<Cell(kind, w, 0, {}, 0)>>
  <2>1. [i \in 1..0 |-> Cell("rest", "", 0, {}, 0 - i)] = <<>>
    OBVIOUS
  <2>. QED BY <2>1 DEF Unit
<1>2. ASSUME NEW w PROVE Unit(kind, w, 1) = <<Cell(kind, w, 0, {}, 1), Rest>>
  <2>1. [i \in 1..1 |-> Cell("rest", "", 0, {}, 1 - i)] = <<Rest>>
    <3>1. \A i \in 1..1 : Cell("rest", "", 0, {}, 1 - i) = Rest
      BY DEF Rest
    <3>2. PICK o : o = Rest
      OBVIOUS
    <3>3. [i \in 1..1 |-> o] = <<o>>
      OBVIOUS
    <3>. QED BY <3>1, <3>2, <3>3
  <2>2. \A x, y : <<x>> \o <<y>> = <<x, y>>
    BY PairOf
  <2>. QED BY <2>1, <2>2 DEF Unit
<1>. QED BY <1>1, <1>2 DEF Plain

LEMMA NumbersAre == 0 \in 0..Many /\ 1 \in 0..Many /\ 2 \in 0..Many /\
   \A i \in Streams : i \in 0..Many
BY SessAssumption DEF Many

LEMMA CellIs ==
    ASSUME NEW k \in Kinds, NEW v \in Words, NEW s \in 0..Many, NEW z \in SUBSET Streams,
           NEW n \in 0..1
    PROVE  /\ Cell(k, v, s, z, n) \in Cells
           /\ Cell(k, v, s, z, n).k = k /\ Cell(k, v, s, z, n).v = v /\ Cell(k, v, s, z, n).s = s
           /\ Cell(k, v, s, z, n).z = z /\ Cell(k, v, s, z, n).n = n
BY DEF Cell, Cells

LEMMA RestIs == Rest \in Cells /\ Rest.k = "rest"
<1>1. "rest" \in Kinds /\ "" \in Words
  BY DEF Kinds, Words
<1>2. 0 \in 0..Many /\ {} \in SUBSET Streams /\ 0 \in 0..1
  BY NumbersAre
<1>3. Cell("rest", "", 0, {}, 0) \in Cells /\ Cell("rest", "", 0, {}, 0).k = "rest"
  BY <1>1, <1>2 DEF Cell, Cells
<1>. QED BY <1>3 DEF Rest

LEMMA UnitIn ==
    ASSUME NEW kind \in Kinds, NEW v \in Words, NEW n \in 0..1
    PROVE  /\ Cell(kind, v, 0, {}, n) \in Cells
           /\ Unit(kind, v, n) \in Seq(Cells) /\ Len(Unit(kind, v, n)) = n + 1
<1>1. Cell(kind, v, 0, {}, n) \in Cells
  BY NumbersAre DEF Cell, Cells
<1>2. CASE n = 0
  <2>1. PICK c \in Cells : c = Cell(kind, v, 0, {}, n)
    BY <1>1
  <2>2. <<c>> \in Seq(Cells) /\ Len(<<c>>) = 1
    OBVIOUS
  <2>3. Unit(kind, v, n) = <<c>>
    BY <1>2, <2>1, UnitIs
  <2>4. Unit(kind, v, n) \in Seq(Cells) /\ Len(Unit(kind, v, n)) = 1
    BY <2>2, <2>3
  <2>. QED BY <1>1, <1>2, <2>4
<1>3. CASE n = 1
  <2>1. PICK c \in Cells : c = Cell(kind, v, 0, {}, n)
    BY <1>1
  <2>2. <<c, Rest>> \in Seq(Cells) /\ Len(<<c, Rest>>) = 2
    BY RestIs
  <2>3. Unit(kind, v, n) = <<c, Rest>>
    BY <1>3, <2>1, UnitIs
  <2>4. Unit(kind, v, n) \in Seq(Cells) /\ Len(Unit(kind, v, n)) = 2
    BY <2>2, <2>3
  <2>. QED BY <1>1, <1>3, <2>4
<1>. QED BY <1>1, <1>2, <1>3

LEMMA RepeatIs ==
    ASSUME NEW unit \in Seq(Cells), Len(unit) = 1 \/ Len(unit) = 2
    PROVE  /\ Repeat(unit, 0) = <<>> /\ Repeat(unit, 1) = unit
           /\ Repeat(unit, 2) = unit \o unit
<1>2. 0 % 1 = 0 /\ 1 % 1 = 0 /\ 0 % 2 = 0 /\ 1 % 2 = 1 /\ 2 % 2 = 0 /\ 3 % 2 = 1
  OBVIOUS
<1>3. Repeat(unit, 0) = <<>>
  BY DEF Repeat
<1>4. PICK l \in {1, 2} : l = Len(unit)
  OBVIOUS
<1>5. Repeat(unit, 1) = unit
  <2>1. 1 * Len(unit) = l
    BY <1>4
  <2>2. \A i \in 1..l : ((i - 1) % l) + 1 = i
    BY <1>2, <1>4
  <2>3. Repeat(unit, 1) = [i \in 1..l |-> unit[i]]
    BY <1>4, <2>1, <2>2 DEF Repeat
  <2>4. unit = [i \in 1..l |-> unit[i]]
    BY <1>4
  <2>. QED BY <2>3, <2>4
<1>6. Repeat(unit, 2) = unit \o unit
  <2>1. 2 * Len(unit) = 2 * l
    BY <1>4
  <2>2. \A i \in 1..(2 * l) : ((i - 1) % l) + 1 = IF i <= l THEN i ELSE i - l
    BY <1>2, <1>4
  <2>3. Repeat(unit, 2) = [i \in 1..(2 * l) |-> unit[IF i <= l THEN i ELSE i - l]]
    BY <1>4, <2>1, <2>2 DEF Repeat
  <2>4. PICK w \in Seq(Cells) : w = Repeat(unit, 2)
    <3>1. \A i \in 1..(2 * l) : unit[IF i <= l THEN i ELSE i - l] \in Cells
      BY <1>4
    <3>. QED BY <2>3, <3>1, <1>4
  <2>5. Len(w) = 2 * l /\ \A i \in 1..(2 * l) : w[i] = unit[IF i <= l THEN i ELSE i - l]
    BY <1>4, <2>3, <2>4
  <2>6. /\ unit \o unit \in Seq(Cells) /\ Len(unit \o unit) = l + l
        /\ \A i \in 1..(l + l) : (unit \o unit)[i] = IF i <= l THEN unit[i] ELSE unit[i - l]
    BY <1>4, ConcatProperties
  <2>7. PICK t \in Seq(Cells) : t = unit \o unit
    BY <2>6
  <2>8. Len(w) = Len(t) /\ \A i \in 1..Len(w) : w[i] = t[i]
    BY <1>4, <2>5, <2>6, <2>7
  <2>. QED BY <2>4, <2>7, <2>8, SeqEqual
<1>. QED BY <1>3, <1>5, <1>6

(* A unit takes the parser where its head says. *)
LEMMA UnitPath ==
    ASSUME NEW c \in Cells, NEW p, NEW m, Means(p, c, m),
           ~p.dead, p.skip = 0, m.skip = 0, Before(p, m), Before(m, m)
    PROVE  /\ c.n = 0 => Path(<<c>>, p, m)
           /\ c.n = 1 => Path(<<c, Rest>>, p, m)
<1>1. [m EXCEPT !.skip = 0] = m
  BY DEF Before, Places
<1>2. CASE c.n = 0
  <2>1. Moves(p, c, m)
    BY <1>1, <1>2 DEF Moves
  <2>. QED BY <1>2, <2>1, PathCell
<1>3. CASE c.n = 1
  <2>1. PICK h : h = [m EXCEPT !.skip = 1]
    OBVIOUS
  <2>9. m \in Places
    BY DEF Before
  <2>10. /\ h.asks = m.asks /\ h.upd = m.upd /\ h.enc = m.enc /\ h.dec = m.dec
         /\ h.skip = 1 /\ h.dead = m.dead
    BY <2>1, <2>9 DEF Places
  <2>11. h \in Places
    BY <2>1, <2>9 DEF Places
  <2>12. [h EXCEPT !.skip = 0] = m
    BY <2>1, <2>9 DEF Places
  <2>2. /\ h \in Places /\ Tidy(h) /\ h.asks = m.asks /\ h.upd = m.upd
        /\ h.skip = 1 /\ h.dead = m.dead /\ [h EXCEPT !.skip = 0] = m
    BY <2>10, <2>11, <2>12 DEF Before, Tidy
  <2>3. Before(h, m) /\ Before(h, h) /\ Before(p, h)
    BY <2>2 DEF Before, Places
  <2>4. Moves(p, c, h)
    BY <1>3, <2>1 DEF Moves
  <2>5. Rest \in Cells /\ Rest.k = "rest"
    BY RestIs
  <2>6. Moves(h, Rest, m)
    BY <2>2, <2>5 DEF Moves
  <2>7. Path(<<c>>, p, h) /\ Path(<<Rest>>, h, m)
    BY <2>3, <2>4, <2>5, <2>6, PathCell
  <2>8. <<c>> \o <<Rest>> = <<c, Rest>>
    BY PairOf
  <2>13. Path(<<c>> \o <<Rest>>, p, m)
    BY <2>7, PathJoined
  <2>14. Path(<<c, Rest>>, p, m)
    BY <2>8, <2>13, Zenon
  <2>. QED BY <1>3, <2>14
<1>. QED BY <1>2, <1>3

LEMMA AtIs ==
    ASSUME NEW r \in 0..Many, NEW e \in Known \cup {NoEncoding}, NEW sz \in 0..Many,
           NEW d \in Decs, NEW z \in [Streams -> BOOLEAN], NEW u \in BOOLEAN, NEW a \in Nat,
           e = NoEncoding => d = AtRest
    PROVE  Place(r, e, sz, d, z, u, a) \in Places /\ Tidy(Place(r, e, sz, d, z, u, a))
<1>1. PICK p : p = Place(r, e, sz, d, z, u, a)
  OBVIOUS
<1>2. /\ p.rects = r /\ p.enc = e /\ p.size = sz /\ p.dec = d /\ p.fresh = z /\ p.upd = u
      /\ p.asks = a /\ p.skip = 0 /\ p.dead = FALSE
  BY <1>1 DEF Place
<1>3. p \in Places
  BY <1>1 DEF Place, Places
<1>4. Tidy(p)
  BY <1>2 DEF Tidy
<1>. QED BY <1>1, <1>2, <1>3, <1>4

LEMMA AtRestIs == /\ AtRest \in Decs /\ AtRest.lines = 0 /\ AtRest.subrects = 0 /\ AtRest.tiles = 0
                  /\ AtRest.ctl = "" /\ AtRest.filter = "" /\ AtRest.colors = FALSE
                     /\ AtRest.len = FALSE
                  /\ AtRest.length = FALSE /\ AtRest.segments = 0 /\ AtRest.stream = 0
<1>3. 0 \in 0..2 /\ 0 \in 0..3
  OBVIOUS
<1>1. "" \in Words
  BY DEF Words
<1>2. AtRest \in Decs
  BY <1>1, <1>3, Zenon DEF AtRest, Decs
<1>. QED BY <1>2 DEF AtRest

(* Decoding goes on with the next unit, ends the rectangle, or throws.     *)
LEMMA UnitGoes ==
    ASSUME NEW r \in 1..Many, NEW e \in Known, NEW sz \in 0..Many,
           NEW d \in Decs, NEW d2 \in Decs, NEW z \in [Streams -> BOOLEAN],
             NEW z2 \in [Streams -> BOOLEAN],
           NEW u \in BOOLEAN, NEW a \in Nat, NEW c \in Cells,
           DecodeMeans(Place(r, e, sz, d, z, u, a), c, Place(r, e, sz, d2, z2, u, a))
    PROVE  /\ c.n = 0 => Path(<<c>>, Place(r, e, sz, d, z, u, a), Place(r, e, sz, d2, z2, u, a))
           /\ c.n = 1 => Path(<<c, Rest>>, Place(r, e, sz, d, z, u, a),
              Place(r, e, sz, d2, z2, u, a))
<1>1. r \in 0..Many /\ e # NoEncoding /\ e \in Known \cup {NoEncoding}
  BY DEF Many, Known, NoEncoding, DataEncodings, PseudoEncodings
<1>2. PICK p, m : p = Place(r, e, sz, d, z, u, a) /\ m = Place(r, e, sz, d2, z2, u, a)
  OBVIOUS
<1>6. p \in Places /\ Tidy(p) /\ m \in Places /\ Tidy(m)
  BY <1>1, <1>2, AtIs
<1>7. /\ p.asks = a /\ p.upd = u /\ p.skip = 0 /\ p.dead = FALSE
      /\ m.asks = a /\ m.upd = u /\ m.skip = 0
  BY <1>2 DEF Place
<1>3. /\ p \in Places /\ Tidy(p) /\ p.asks = a /\ p.upd = u /\ p.skip = 0 /\ ~p.dead
      /\ m \in Places /\ Tidy(m) /\ m.asks = a /\ m.upd = u /\ m.skip = 0
  BY <1>6, <1>7
<1>4. Before(p, m) /\ Before(m, m)
  BY <1>3 DEF Before
<1>5. Means(p, c, m)
  BY <1>2 DEF Means
<1>. QED BY <1>2, <1>3, <1>4, <1>5, UnitPath

LEMMA UnitEnds ==
    ASSUME NEW r \in 1..Many, NEW e \in Known, NEW sz \in 0..Many,
           NEW d \in Decs, NEW z \in [Streams -> BOOLEAN], NEW z2 \in [Streams -> BOOLEAN],
           NEW u \in BOOLEAN, NEW a \in Nat, NEW c \in Cells,
           DecodeMeans(Place(r, e, sz, d, z, u, a), c, Between(r - 1, z2, u, Asks(r - 1, u, a)))
    PROVE  /\ c.n = 0 => Path(<<c>>, Place(r, e, sz, d, z, u, a), Between(r - 1, z2, u,
              Asks(r - 1, u, a)))
           /\ c.n = 1 => Path(<<c, Rest>>, Place(r, e, sz, d, z, u, a), Between(r - 1, z2, u,
              Asks(r - 1, u, a)))
<1>1. r \in 0..Many /\ r - 1 \in 0..Many /\ e # NoEncoding /\ e \in Known \cup {NoEncoding}
      /\ Asks(r - 1, u, a) \in Nat /\ a <= Asks(r - 1, u, a)
  BY DEF Many, Known, NoEncoding, DataEncodings, PseudoEncodings, Asks
<1>2. PICK p, m : p = Place(r, e, sz, d, z, u, a) /\ m = Between(r - 1, z2, u, Asks(r - 1, u, a))
  OBVIOUS
<1>8. p \in Places /\ Tidy(p)
  BY <1>1, <1>2, AtIs
<1>3. p \in Places /\ Tidy(p) /\ p.asks = a /\ p.upd = u /\ p.skip = 0 /\ ~p.dead
  BY <1>2, <1>8 DEF Place
<1>6. 0 \in 0..Many
  BY NumbersAre
<1>7. m \in Places /\ Tidy(m) /\ m.asks = Asks(r - 1, u, a) /\ m.upd = u /\ m.skip = 0
  <2>1. NoEncoding \in Known \cup {NoEncoding} /\ AtRest \in Decs
    BY AtRestIs
  <2>2. m = Place(r - 1, NoEncoding, 0, AtRest, z2, u, Asks(r - 1, u, a))
    BY <1>2 DEF Between
  <2>3. m \in Places /\ Tidy(m)
    BY <1>1, <1>6, <2>1, <2>2, AtIs
  <2>. QED BY <2>2, <2>3 DEF Place
<1>4. Before(p, m) /\ Before(m, m)
  BY <1>1, <1>3, <1>7 DEF Before
<1>5. Means(p, c, m)
  BY <1>2 DEF Means
<1>. QED BY <1>2, <1>3, <1>4, <1>5, <1>7, UnitPath

Breaks(cells, p, a) == \E q : q.dead /\ q.asks = a /\ Path(cells, p, q)

LEMMA UnitThrows ==
    ASSUME NEW r \in 1..Many, NEW e \in Known, NEW sz \in 0..Many,
           NEW d \in Decs, NEW z \in [Streams -> BOOLEAN], NEW u \in BOOLEAN, NEW a \in Nat,
             NEW c \in Cells,
           c.k \in {"tile", "segment", "zdata", "ctl"}, c.v = "illegal",
           c.k = DecoderWantsAt(Place(r, e, sz, d, z, u, a))
    PROVE  /\ c.n = 0 => Breaks(<<c>>, Place(r, e, sz, d, z, u, a), a)
           /\ c.n = 1 => Breaks(<<c, Rest>>, Place(r, e, sz, d, z, u, a), a)
<1>1. r \in 0..Many /\ e # NoEncoding /\ e \in Known \cup {NoEncoding} /\ r > 0
  BY DEF Many, Known, NoEncoding, DataEncodings, PseudoEncodings
<1>2. PICK p : p = Place(r, e, sz, d, z, u, a)
  OBVIOUS
<1>3. p \in Places /\ Tidy(p)
  BY <1>1, <1>2, AtIs
<1>4. /\ p.asks = a /\ p.upd = u /\ p.skip = 0 /\ p.dead = FALSE /\ p.rects = r /\ p.enc = e
  BY <1>2 DEF Place
<1>5. PICK m : m = Dead(p)
  OBVIOUS
<1>6. m.asks = a /\ m.upd = u /\ m.skip = 0 /\ m.dead
  BY <1>3, <1>4, <1>5 DEF Dead, Places
<1>7. m \in Places
  BY <1>3, <1>5 DEF Dead, Places
<1>8. Before(p, m) /\ Before(m, m)
  BY <1>3, <1>4, <1>6, <1>7 DEF Before, Tidy
<1>9. Means(p, c, m)
  BY <1>1, <1>2, <1>4, <1>5 DEF Means, DecodeMeans, IllegalMeans
<1>10. ~p.dead
  BY <1>4
<1>11. /\ c.n = 0 => Path(<<c>>, p, m)
       /\ c.n = 1 => Path(<<c, Rest>>, p, m)
  BY <1>4, <1>6, <1>8, <1>9, <1>10, UnitPath
<1>. QED BY <1>2, <1>6, <1>11, Zenon DEF Breaks

(* A rectangle of which the decoder takes the content. *)
LEMMA RectGoes ==
    ASSUME NEW r \in 1..Many, NEW e \in Known \ {"last", "size", "qemu"}, NEW sz \in 0..Many,
           e \in {"raw", "hextile"} => sz # 0, NEW d \in Decs,
           d = (CASE e = "raw" -> [AtRest EXCEPT !.lines = sz]
                  [] e = "hextile" -> [AtRest EXCEPT !.tiles = sz]
                  [] OTHER -> AtRest),
           NEW z \in [Streams -> BOOLEAN], NEW u \in BOOLEAN, NEW a \in Nat,
           NEW content, NEW q, Path(content, Place(r, e, sz, d, z, u, a), q),
           NEW cells \in Sized(e, sz, content)
    PROVE  Path(cells, Between(r, z, u, a), q)
<1>1. /\ r \in 0..Many /\ r > 0 /\ e # NoEncoding /\ e \in Known \cup {NoEncoding}
      /\ NoEncoding \in Known \cup {NoEncoding} /\ 0 \in 0..Many
  BY DEF Many, Known, NoEncoding, DataEncodings, PseudoEncodings
<1>2. PICK p, m : p = Between(r, z, u, a) /\ m = Place(r, e, sz, d, z, u, a)
  OBVIOUS
<1>3. p \in Places /\ Tidy(p)
  BY <1>1, <1>2, AtIs, AtRestIs DEF Between
<1>4. m \in Places /\ Tidy(m)
  BY <1>1, <1>2, AtIs
<1>5. /\ p.asks = a /\ p.upd = u /\ p.skip = 0 /\ p.dead = FALSE /\ p.rects = r
         /\ p.enc = NoEncoding
      /\ p.dec = AtRest /\ p.fresh = z
      /\ m.asks = a /\ m.upd = u /\ m.skip = 0
  BY <1>2 DEF Place, Between
<1>6. Before(p, m) /\ Before(m, m) /\ ~p.dead
  BY <1>3, <1>4, <1>5 DEF Before
<1>7. PICK c : c = Cell("rect", e, sz, {}, 1)
  OBVIOUS
<1>8. c.k = "rect" /\ c.v = e /\ c.s = sz /\ c.n = 1
  BY <1>7 DEF Cell
<1>9. c \in Cells
  <2>1. "rect" \in Kinds /\ e \in Words
    BY DEF Kinds, Words
  <2>. QED BY <1>7, <2>1 DEF Cell, Cells
<1>10. RectMeans(p, c, m)
  BY <1>1, <1>2, <1>5, <1>8 DEF RectMeans
<1>11. Path(<<c, Rest>>, p, m)
  BY <1>5, <1>6, <1>8, <1>9, <1>10, UnitPath DEF Means
<1>12. Path(<<c, Rest>> \o content, p, q)
  BY <1>2, <1>11, PathJoined
<1>13. cells = <<c, Rest>> \o content
  BY <1>7 DEF Sized, Rest
<1>. QED BY <1>2, <1>12, <1>13, Zenon

(* What a rectangle comes to. *)
Arrives(cells, r, z, y, u, a) ==
    \E q : /\ Path(cells, Between(r, z, u, a), q)
           /\ q = Between(r - 1, y, u, Asks(r - 1, u, a)) \/ (q.dead /\ q.asks = a)

(* One that ends with its head, or throws there. *)
LEMMA RectIsHead ==
    ASSUME NEW r \in 1..Many, NEW e \in Words, NEW sz \in 0..Many,
           \/ e \notin Known
           \/ e \in {"size", "qemu"} \/ (e \in {"raw", "hextile"} /\ sz = 0),
           NEW z \in [Streams -> BOOLEAN], NEW u \in BOOLEAN, NEW a \in Nat,
           NEW cells \in Sized(e, sz, <<>>)
    PROVE  Arrives(cells, r, z, z, u, a)
<1>1. /\ r \in 0..Many /\ r > 0 /\ r - 1 \in 0..Many
      /\ NoEncoding \in Known \cup {NoEncoding} /\ 0 \in 0..Many
      /\ Asks(r - 1, u, a) \in Nat /\ a <= Asks(r - 1, u, a)
  BY DEF Many, Known, NoEncoding, DataEncodings, PseudoEncodings, Asks
<1>2. PICK p : p = Between(r, z, u, a)
  OBVIOUS
<1>3. p \in Places /\ Tidy(p)
  BY <1>1, <1>2, AtIs, AtRestIs DEF Between
<1>4. /\ p.asks = a /\ p.upd = u /\ p.skip = 0 /\ p.dead = FALSE /\ p.rects = r
         /\ p.enc = NoEncoding
      /\ p.dec = AtRest /\ p.fresh = z
  BY <1>2 DEF Place, Between
<1>7. PICK c : c = Cell("rect", e, sz, {}, 1)
  OBVIOUS
<1>8. c.k = "rect" /\ c.v = e /\ c.s = sz /\ c.n = 1
  BY <1>7 DEF Cell
<1>9. c \in Cells
  <2>1. "rect" \in Kinds
    BY DEF Kinds
  <2>. QED BY <1>7, <2>1 DEF Cell, Cells
<1>10. \E m : /\ RectMeans(p, c, m)
              /\ Before(p, m) /\ Before(m, m) /\ m.skip = 0
              /\ m = Between(r - 1, z, u, Asks(r - 1, u, a)) \/ (m.dead /\ m.asks = a)
  <2>1. CASE e \notin Known
    <3>1. PICK m : m = Dead(p)
      OBVIOUS
    <3>2. m.asks = a /\ m.upd = u /\ m.skip = 0 /\ m.dead
      BY <1>3, <1>4, <3>1 DEF Dead, Places
    <3>3. m \in Places
      BY <1>3, <3>1 DEF Dead, Places
    <3>4. Before(p, m) /\ Before(m, m)
      BY <1>3, <1>4, <3>2, <3>3 DEF Before, Tidy
    <3>5. RectMeans(p, c, m)
      BY <1>1, <1>4, <1>8, <2>1, <3>1 DEF RectMeans
    <3>. QED BY <3>2, <3>4, <3>5
  <2>2. CASE e \in {"size", "qemu"} \/ (e \in {"raw", "hextile"} /\ sz = 0)
    <3>1. PICK m : m = Between(r - 1, z, u, Asks(r - 1, u, a))
      OBVIOUS
    <3>2. m.asks = Asks(r - 1, u, a) /\ m.upd = u /\ m.skip = 0
      BY <3>1 DEF Place, Between
    <3>3. m \in Places /\ Tidy(m)
      BY <1>1, <3>1, AtIs, AtRestIs DEF Between
    <3>4. Before(p, m) /\ Before(m, m)
      BY <1>1, <1>3, <1>4, <3>2, <3>3 DEF Before
    <3>6. m = Ends(p, p.rects - 1, p.dec, p.fresh)
      BY <1>4, <3>1 DEF Ends, Between
    <3>5. RectMeans(p, c, m)
      BY <1>1, <1>4, <1>8, <2>2, <3>6 DEF RectMeans
    <3>. QED BY <3>1, <3>2, <3>4, <3>5
  <2>. QED BY <2>1, <2>2
<1>11. PICK m : /\ RectMeans(p, c, m)
                /\ Before(p, m) /\ Before(m, m) /\ m.skip = 0
                /\ m = Between(r - 1, z, u, Asks(r - 1, u, a)) \/ (m.dead /\ m.asks = a)
  BY <1>10
<1>12. ~p.dead
  BY <1>4
<1>13. Path(<<c, Rest>>, p, m)
  BY <1>4, <1>8, <1>9, <1>11, <1>12, UnitPath DEF Means
<1>14. <<c, Rest>> \in Seq(Cells)
  BY <1>9, RestIs
<1>15. cells = <<c, Rest>> \o <<>>
  BY <1>7 DEF Sized, Rest
<1>16. cells = <<c, Rest>>
  BY <1>14, <1>15, ConcatEmptySeq
<1>. QED BY <1>2, <1>11, <1>13, <1>16 DEF Arrives

(* A unit of the content, by what the decoder makes of it. *)
DecoderMeans(p, c, m) ==
    WholeMeans(p, c, m) \/ CountMeans(p, c, m) \/ BlockMeans(p, c, m) \/ TightMeans(p, c, m)

LEMMA NextUnit ==
    ASSUME NEW r \in 1..Many, NEW e \in Known, NEW sz \in 0..Many,
           NEW d \in Decs, NEW d2 \in Decs, NEW z \in [Streams -> BOOLEAN],
             NEW z2 \in [Streams -> BOOLEAN],
           NEW u \in BOOLEAN, NEW a \in Nat, NEW kind \in Kinds, NEW v \in Words, NEW n \in 0..1,
           DecoderWantsAt(Place(r, e, sz, d, z, u, a)) = kind,
           DecoderMeans(Place(r, e, sz, d, z, u, a), Cell(kind, v, 0, {}, n),
                        Place(r, e, sz, d2, z2, u, a))
    PROVE  Path(Unit(kind, v, n), Place(r, e, sz, d, z, u, a), Place(r, e, sz, d2, z2, u, a))
<1>1. PICK c \in Cells : c = Cell(kind, v, 0, {}, n)
  BY UnitIn
<1>2. c.k = kind /\ c.n = n
  BY <1>1 DEF Cell
<1>3. PICK p : p = Place(r, e, sz, d, z, u, a)
  OBVIOUS
<1>4. p.rects > 0 /\ p.enc # NoEncoding
  BY <1>3 DEF Place, Known, NoEncoding, DataEncodings, PseudoEncodings, Many
<1>10. DecoderMeans(p, c, Place(r, e, sz, d2, z2, u, a))
  BY <1>1, <1>3
<1>11. c.k = DecoderWantsAt(p)
  BY <1>2, <1>3
<1>5. DecodeMeans(p, c, Place(r, e, sz, d2, z2, u, a))
  BY <1>4, <1>10, <1>11 DEF DecodeMeans, DecoderMeans
<1>6. /\ n = 0 => Path(<<c>>, p, Place(r, e, sz, d2, z2, u, a))
      /\ n = 1 => Path(<<c, Rest>>, p, Place(r, e, sz, d2, z2, u, a))
  BY <1>2, <1>3, <1>5, UnitGoes
<1>7. n = 0 \/ n = 1
  OBVIOUS
<1>8. Unit(kind, v, n) = IF n = 0 THEN <<c>> ELSE <<c, Rest>>
  BY <1>1, <1>7, UnitIs
<1>. QED BY <1>3, <1>6, <1>7, <1>8

LEMMA LastUnit ==
    ASSUME NEW r \in 1..Many, NEW e \in Known, NEW sz \in 0..Many,
           NEW d \in Decs, NEW z \in [Streams -> BOOLEAN], NEW z2 \in [Streams -> BOOLEAN],
           NEW u \in BOOLEAN, NEW a \in Nat, NEW kind \in Kinds, NEW v \in Words, NEW n \in 0..1,
           DecoderWantsAt(Place(r, e, sz, d, z, u, a)) = kind,
           DecoderMeans(Place(r, e, sz, d, z, u, a), Cell(kind, v, 0, {}, n),
                        Between(r - 1, z2, u, Asks(r - 1, u, a)))
    PROVE  Path(Unit(kind, v, n), Place(r, e, sz, d, z, u, a), Between(r - 1, z2, u,
           Asks(r - 1, u, a)))
<1>1. PICK c \in Cells : c = Cell(kind, v, 0, {}, n)
  BY UnitIn
<1>2. c.k = kind /\ c.n = n
  BY <1>1 DEF Cell
<1>3. PICK p : p = Place(r, e, sz, d, z, u, a)
  OBVIOUS
<1>4. p.rects > 0 /\ p.enc # NoEncoding
  BY <1>3 DEF Place, Known, NoEncoding, DataEncodings, PseudoEncodings, Many
<1>10. DecoderMeans(p, c, Between(r - 1, z2, u, Asks(r - 1, u, a)))
  BY <1>1, <1>3
<1>11. c.k = DecoderWantsAt(p)
  BY <1>2, <1>3
<1>5. DecodeMeans(p, c, Between(r - 1, z2, u, Asks(r - 1, u, a)))
  BY <1>4, <1>10, <1>11 DEF DecodeMeans, DecoderMeans
<1>6. /\ n = 0 => Path(<<c>>, p, Between(r - 1, z2, u, Asks(r - 1, u, a)))
      /\ n = 1 => Path(<<c, Rest>>, p, Between(r - 1, z2, u, Asks(r - 1, u, a)))
  BY <1>2, <1>3, <1>5, UnitEnds
<1>7. n = 0 \/ n = 1
  OBVIOUS
<1>8. Unit(kind, v, n) = IF n = 0 THEN <<c>> ELSE <<c, Rest>>
  BY <1>1, <1>7, UnitIs
<1>. QED BY <1>3, <1>6, <1>7, <1>8

LEMMA PathRepeated ==
    ASSUME NEW unit \in Seq(Cells), Len(unit) = 1 \/ Len(unit) = 2,
           NEW p, NEW h, NEW q, Path(unit, h, q)
    PROVE  /\ Path(Repeat(unit, 1), h, q)
           /\ Path(unit, p, h) => Path(Repeat(unit, 2), p, q)
<1>1. Repeat(unit, 1) = unit /\ Repeat(unit, 2) = unit \o unit
  BY RepeatIs
<1>2. ASSUME Path(unit, p, h) PROVE Path(unit \o unit, p, q)
  BY <1>2, PathJoined
<1>. QED BY <1>1, <1>2

LEMMA PlainIn ==
    ASSUME NEW kind \in Kinds, NEW n \in 0..1
    PROVE  /\ Plain(kind, n) \in Seq(Cells) /\ Len(Plain(kind, n)) = n + 1
           /\ Len(Plain(kind, n)) = 1 \/ Len(Plain(kind, n)) = 2
<1>1. "" \in Words
  BY DEF Words
<1>2. Plain(kind, n) \in Seq(Cells) /\ Len(Plain(kind, n)) = n + 1
  BY <1>1, UnitIn DEF Plain
<1>. QED BY <1>2

(* What is counted down to the end of the rectangle. *)
LEMMA Counted ==
    ASSUME NEW r \in 1..Many, NEW e \in Known, NEW sz \in 0..Many, NEW z \in [Streams -> BOOLEAN],
           NEW u \in BOOLEAN, NEW a \in Nat, NEW kind \in Kinds, NEW m \in 0..1,
           NEW d1 \in Decs, NEW d2 \in Decs,
           DecoderWantsAt(Place(r, e, sz, d1, z, u, a)) = kind,
           DecoderWantsAt(Place(r, e, sz, d2, z, u, a)) = kind,
           CountMeans(Place(r, e, sz, d1, z, u, a), Cell(kind, "", 0, {}, m),
                      Between(r - 1, z, u, Asks(r - 1, u, a))),
           CountMeans(Place(r, e, sz, d2, z, u, a), Cell(kind, "", 0, {}, m),
             Place(r, e, sz, d1, z, u, a))
    PROVE  /\ Path(Repeat(Plain(kind, m), 1), Place(r, e, sz, d1, z, u, a), Between(r - 1, z, u,
              Asks(r - 1, u, a)))
           /\ Path(Repeat(Plain(kind, m), 2), Place(r, e, sz, d2, z, u, a), Between(r - 1, z, u,
              Asks(r - 1, u, a)))
<1>1. "" \in Words
  BY DEF Words
<1>2. /\ DecoderMeans(Place(r, e, sz, d1, z, u, a), Cell(kind, "", 0, {}, m),
                      Between(r - 1, z, u, Asks(r - 1, u, a)))
      /\ DecoderMeans(Place(r, e, sz, d2, z, u, a), Cell(kind, "", 0, {}, m),
         Place(r, e, sz, d1, z, u, a))
  BY Zenon DEF DecoderMeans
<1>3. Path(Unit(kind, "", m), Place(r, e, sz, d1, z, u, a), Between(r - 1, z, u, Asks(r - 1, u, a)))
  BY <1>1, <1>2, LastUnit
<1>4. Path(Unit(kind, "", m), Place(r, e, sz, d2, z, u, a), Place(r, e, sz, d1, z, u, a))
  BY <1>1, <1>2, NextUnit
<1>5. /\ Path(Plain(kind, m), Place(r, e, sz, d1, z, u, a), Between(r - 1, z, u, Asks(r - 1, u, a)))
      /\ Path(Plain(kind, m), Place(r, e, sz, d2, z, u, a), Place(r, e, sz, d1, z, u, a))
  BY <1>3, <1>4 DEF Plain
<1>. QED BY <1>5, PlainIn, PathRepeated

LEMMA DecsIs ==
    ASSUME NEW d \in Decs, NEW k \in 0..2
    PROVE  /\ [d EXCEPT !.lines = k] \in Decs /\ [d EXCEPT !.lines = k].lines = k
           /\ [d EXCEPT !.subrects = k] \in Decs /\ [d EXCEPT !.subrects = k].subrects = k
           /\ [d EXCEPT !.tiles = k] \in Decs /\ [d EXCEPT !.tiles = k].tiles = k
           /\ [d EXCEPT !.segments = k] \in Decs /\ [d EXCEPT !.segments = k].segments = k
<1>1. [d EXCEPT !.lines = k] \in Decs /\ [d EXCEPT !.lines = k].lines = k
  BY DEF Decs
<1>2. [d EXCEPT !.subrects = k] \in Decs /\ [d EXCEPT !.subrects = k].subrects = k
  BY DEF Decs
<1>3. [d EXCEPT !.tiles = k] \in Decs /\ [d EXCEPT !.tiles = k].tiles = k
  BY DEF Decs
<1>4. [d EXCEPT !.segments = k] \in Decs /\ [d EXCEPT !.segments = k].segments = k
  BY DEF Decs
<1>. QED BY <1>1, <1>2, <1>3, <1>4

LEMMA LineMeans ==
    ASSUME NEW r, NEW sz, NEW z, NEW u, NEW a, NEW d1, NEW d2,
           d1 = [AtRest EXCEPT !.lines = 1], d2 = [AtRest EXCEPT !.lines = 2]
    PROVE  /\ d1 \in Decs /\ d2 \in Decs
           /\ DecoderWantsAt(Place(r, "raw", sz, d1, z, u, a)) = "line"
           /\ DecoderWantsAt(Place(r, "raw", sz, d2, z, u, a)) = "line"
           /\ CountMeans(Place(r, "raw", sz, d1, z, u, a), Cell("line", "", 0, {}, 1),
                         Between(r - 1, z, u, Asks(r - 1, u, a)))
           /\ CountMeans(Place(r, "raw", sz, d2, z, u, a), Cell("line", "", 0, {}, 1),
                         Place(r, "raw", sz, d1, z, u, a))
<1>11. PICK o \in Decs : o = AtRest /\ o.lines = 0
  BY AtRestIs
<1>12. d1 = [o EXCEPT !.lines = 1] /\ d2 = [o EXCEPT !.lines = 2]
  BY <1>11
<1>13. 1 \in 0..2 /\ 2 \in 0..2
  OBVIOUS
<1>1. d1 \in Decs /\ d2 \in Decs /\ d1.lines = 1 /\ d2.lines = 2
  <2>1. [o EXCEPT !.lines = 1] \in Decs /\ [o EXCEPT !.lines = 1].lines = 1
    BY <1>13, DecsIs, Zenon
  <2>2. [o EXCEPT !.lines = 2] \in Decs /\ [o EXCEPT !.lines = 2].lines = 2
    BY <1>13, DecsIs, Zenon
  <2>. QED BY <1>12, <2>1, <2>2, Zenon
<1>2. [d1 EXCEPT !.lines = 0] = AtRest /\ [d2 EXCEPT !.lines = 1] = d1
  BY <1>11, <1>12 DEF Decs
<1>3. [d1 EXCEPT !.lines = @ - 1] = AtRest /\ [d2 EXCEPT !.lines = @ - 1] = d1
  BY <1>1, <1>2
<1>4. PICK c : c = Cell("line", "", 0, {}, 1)
  OBVIOUS
<1>5. c.k = "line"
  BY <1>4 DEF Cell
<1>6. PICK p, q : p = Place(r, "raw", sz, d1, z, u, a) /\ q = Place(r, "raw", sz, d2, z, u, a)
  OBVIOUS
<1>7. /\ p.rects = r /\ p.enc = "raw" /\ p.size = sz /\ p.dec = d1 /\ p.fresh = z /\ p.upd = u
         /\ p.asks = a
      /\ q.rects = r /\ q.enc = "raw" /\ q.size = sz /\ q.dec = d2 /\ q.fresh = z /\ q.upd = u
         /\ q.asks = a
  BY <1>6 DEF Place
<1>8. DecoderWantsAt(p) = "line" /\ DecoderWantsAt(q) = "line"
  BY <1>7 DEF DecoderWantsAt
<1>9. CountMeans(p, c, Between(r - 1, z, u, Asks(r - 1, u, a)))
  BY <1>1, <1>3, <1>5, <1>7 DEF CountMeans, Decoded, Ends, Between
<1>10. CountMeans(q, c, Place(r, "raw", sz, d1, z, u, a))
  BY <1>1, <1>3, <1>5, <1>7 DEF CountMeans, Decoded, Goes
<1>. QED BY <1>1, <1>4, <1>6, <1>8, <1>9, <1>10

LEMMA RawRects ==
    ASSUME NEW r \in 1..Many, NEW z \in [Streams -> BOOLEAN], NEW u \in BOOLEAN, NEW a \in Nat,
           NEW cells \in Rects("raw")
    PROVE  Arrives(cells, r, z, z, u, a)
<1>1. PICK n \in 0..2 : cells \in Sized("raw", n, Repeat(Plain("line", 1), n))
  BY DEF Rects
<1>2. /\ "raw" \in Known \ {"last", "size", "qemu"} /\ "raw" \in Words
      /\ "line" \in Kinds /\ n \in 0..Many /\ 1 \in 0..1
  BY DEF Known, DataEncodings, PseudoEncodings, Words, Kinds, Many
<1>3. PICK d1, d2 : d1 = [AtRest EXCEPT !.lines = 1] /\ d2 = [AtRest EXCEPT !.lines = 2]
  OBVIOUS
<1>4. /\ d1 \in Decs /\ d2 \in Decs
      /\ Path(Repeat(Plain("line", 1), 1), Place(r, "raw", n, d1, z, u, a), Between(r - 1, z, u,
         Asks(r - 1, u, a)))
      /\ Path(Repeat(Plain("line", 1), 2), Place(r, "raw", n, d2, z, u, a), Between(r - 1, z, u,
         Asks(r - 1, u, a)))
  <2>1. d1 \in Decs /\ d2 \in Decs
    BY <1>3, LineMeans
  <2>2. /\ DecoderWantsAt(Place(r, "raw", n, d1, z, u, a)) = "line"
        /\ DecoderWantsAt(Place(r, "raw", n, d2, z, u, a)) = "line"
        /\ CountMeans(Place(r, "raw", n, d1, z, u, a), Cell("line", "", 0, {}, 1),
                      Between(r - 1, z, u, Asks(r - 1, u, a)))
        /\ CountMeans(Place(r, "raw", n, d2, z, u, a), Cell("line", "", 0, {}, 1),
                      Place(r, "raw", n, d1, z, u, a))
    BY <1>3, LineMeans, Zenon
  <2>. QED BY <1>2, <2>1, <2>2, Counted
<1>5. CASE n = 0
  <2>1. cells \in Sized("raw", 0, <<>>)
    BY <1>1, <1>2, <1>5, PlainIn, RepeatIs
  <2>. QED BY <1>2, <1>5, <2>1, RectIsHead
<1>6. CASE n = 1
  <2>1. Path(cells, Between(r, z, u, a), Between(r - 1, z, u, Asks(r - 1, u, a)))
    BY <1>1, <1>2, <1>3, <1>4, <1>6, RectGoes
  <2>. QED BY <2>1 DEF Arrives
<1>7. CASE n = 2
  <2>1. Path(cells, Between(r, z, u, a), Between(r - 1, z, u, Asks(r - 1, u, a)))
    BY <1>1, <1>2, <1>3, <1>4, <1>7, RectGoes
  <2>. QED BY <2>1 DEF Arrives
<1>. QED BY <1>5, <1>6, <1>7

LEMMA SubrectMeans ==
    ASSUME NEW r, NEW sz, NEW z, NEW u, NEW a, NEW d1, NEW d2,
           d1 = [AtRest EXCEPT !.subrects = 1], d2 = [AtRest EXCEPT !.subrects = 2]
    PROVE  /\ d1 \in Decs /\ d2 \in Decs
           /\ DecoderWantsAt(Place(r, "rre", sz, d1, z, u, a)) = "subrect"
           /\ DecoderWantsAt(Place(r, "rre", sz, d2, z, u, a)) = "subrect"
           /\ CountMeans(Place(r, "rre", sz, d1, z, u, a), Cell("subrect", "", 0, {}, 1),
                         Between(r - 1, z, u, Asks(r - 1, u, a)))
           /\ CountMeans(Place(r, "rre", sz, d2, z, u, a), Cell("subrect", "", 0, {}, 1),
                         Place(r, "rre", sz, d1, z, u, a))
<1>11. PICK o \in Decs : o = AtRest /\ o.subrects = 0
  BY AtRestIs
<1>12. d1 = [o EXCEPT !.subrects = 1] /\ d2 = [o EXCEPT !.subrects = 2]
  BY <1>11
<1>13. 1 \in 0..2 /\ 2 \in 0..2
  OBVIOUS
<1>1. d1 \in Decs /\ d2 \in Decs /\ d1.subrects = 1 /\ d2.subrects = 2
  <2>1. [o EXCEPT !.subrects = 1] \in Decs /\ [o EXCEPT !.subrects = 1].subrects = 1
    BY <1>13, DecsIs, Zenon
  <2>2. [o EXCEPT !.subrects = 2] \in Decs /\ [o EXCEPT !.subrects = 2].subrects = 2
    BY <1>13, DecsIs, Zenon
  <2>. QED BY <1>12, <2>1, <2>2, Zenon
<1>2. [d1 EXCEPT !.subrects = 0] = AtRest /\ [d2 EXCEPT !.subrects = 1] = d1
  BY <1>11, <1>12 DEF Decs
<1>3. [d1 EXCEPT !.subrects = @ - 1] = AtRest /\ [d2 EXCEPT !.subrects = @ - 1] = d1
  BY <1>1, <1>2
<1>4. PICK c : c = Cell("subrect", "", 0, {}, 1)
  OBVIOUS
<1>5. c.k = "subrect"
  BY <1>4 DEF Cell
<1>6. PICK p, q : p = Place(r, "rre", sz, d1, z, u, a) /\ q = Place(r, "rre", sz, d2, z, u, a)
  OBVIOUS
<1>7. /\ p.rects = r /\ p.enc = "rre" /\ p.size = sz /\ p.dec = d1 /\ p.fresh = z /\ p.upd = u
         /\ p.asks = a
      /\ q.rects = r /\ q.enc = "rre" /\ q.size = sz /\ q.dec = d2 /\ q.fresh = z /\ q.upd = u
         /\ q.asks = a
  BY <1>6 DEF Place
<1>8. DecoderWantsAt(p) = "subrect" /\ DecoderWantsAt(q) = "subrect"
  BY <1>7 DEF DecoderWantsAt
<1>9. CountMeans(p, c, Between(r - 1, z, u, Asks(r - 1, u, a)))
  BY <1>1, <1>3, <1>5, <1>7 DEF CountMeans, Decoded, Ends, Between
<1>10. CountMeans(q, c, Place(r, "rre", sz, d1, z, u, a))
  BY <1>1, <1>3, <1>5, <1>7 DEF CountMeans, Decoded, Goes
<1>. QED BY <1>1, <1>4, <1>6, <1>8, <1>9, <1>10

LEMMA TileMeans ==
    ASSUME NEW r, NEW sz, NEW z, NEW u, NEW a, NEW d1, NEW d2, NEW m,
           d1 = [AtRest EXCEPT !.tiles = 1], d2 = [AtRest EXCEPT !.tiles = 2]
    PROVE  /\ d1 \in Decs /\ d2 \in Decs
           /\ DecoderWantsAt(Place(r, "hextile", sz, d1, z, u, a)) = "tile"
           /\ DecoderWantsAt(Place(r, "hextile", sz, d2, z, u, a)) = "tile"
           /\ CountMeans(Place(r, "hextile", sz, d1, z, u, a), Cell("tile", "", 0, {}, m),
                         Between(r - 1, z, u, Asks(r - 1, u, a)))
           /\ CountMeans(Place(r, "hextile", sz, d2, z, u, a), Cell("tile", "", 0, {}, m),
                         Place(r, "hextile", sz, d1, z, u, a))
<1>11. PICK o \in Decs : o = AtRest /\ o.tiles = 0
  BY AtRestIs
<1>12. d1 = [o EXCEPT !.tiles = 1] /\ d2 = [o EXCEPT !.tiles = 2]
  BY <1>11
<1>13. 1 \in 0..2 /\ 2 \in 0..2
  OBVIOUS
<1>1. d1 \in Decs /\ d2 \in Decs /\ d1.tiles = 1 /\ d2.tiles = 2
  <2>1. [o EXCEPT !.tiles = 1] \in Decs /\ [o EXCEPT !.tiles = 1].tiles = 1
    BY <1>13, DecsIs, Zenon
  <2>2. [o EXCEPT !.tiles = 2] \in Decs /\ [o EXCEPT !.tiles = 2].tiles = 2
    BY <1>13, DecsIs, Zenon
  <2>. QED BY <1>12, <2>1, <2>2, Zenon
<1>2. [d1 EXCEPT !.tiles = 0] = AtRest /\ [d2 EXCEPT !.tiles = 1] = d1
  BY <1>11, <1>12 DEF Decs
<1>3. [d1 EXCEPT !.tiles = @ - 1] = AtRest /\ [d2 EXCEPT !.tiles = @ - 1] = d1
  BY <1>1, <1>2
<1>4. PICK c : c = Cell("tile", "", 0, {}, m)
  OBVIOUS
<1>5. c.k = "tile" /\ c.v # "illegal"
  BY <1>4 DEF Cell
<1>6. PICK p, q : p = Place(r, "hextile", sz, d1, z, u, a)
           /\ q = Place(r, "hextile", sz, d2, z, u, a)
  OBVIOUS
<1>7. /\ p.rects = r /\ p.enc = "hextile" /\ p.size = sz /\ p.dec = d1 /\ p.fresh = z
         /\ p.upd = u /\ p.asks = a
      /\ q.rects = r /\ q.enc = "hextile" /\ q.size = sz /\ q.dec = d2 /\ q.fresh = z
         /\ q.upd = u /\ q.asks = a
  BY <1>6 DEF Place
<1>8. DecoderWantsAt(p) = "tile" /\ DecoderWantsAt(q) = "tile"
  BY <1>7 DEF DecoderWantsAt
<1>9. CountMeans(p, c, Between(r - 1, z, u, Asks(r - 1, u, a)))
  BY <1>1, <1>3, <1>5, <1>7 DEF CountMeans, Decoded, Ends, Between
<1>10. CountMeans(q, c, Place(r, "hextile", sz, d1, z, u, a))
  BY <1>1, <1>3, <1>5, <1>7 DEF CountMeans, Decoded, Goes
<1>. QED BY <1>1, <1>4, <1>6, <1>8, <1>9, <1>10

LEMMA HextileRects ==
    ASSUME NEW r \in 1..Many, NEW z \in [Streams -> BOOLEAN], NEW u \in BOOLEAN, NEW a \in Nat,
           NEW cells \in Rects("hextile")
    PROVE  Arrives(cells, r, z, z, u, a)
<1>1. PICK n \in 0..2, m \in 0..1 : cells \in Sized("hextile", n, Repeat(Plain("tile", m), n))
  BY DEF Rects
<1>2. /\ "hextile" \in Known \ {"last", "size", "qemu"} /\ "hextile" \in Words
      /\ "tile" \in Kinds /\ n \in 0..Many
  BY DEF Known, DataEncodings, PseudoEncodings, Words, Kinds, Many
<1>3. PICK d1, d2 : d1 = [AtRest EXCEPT !.tiles = 1] /\ d2 = [AtRest EXCEPT !.tiles = 2]
  OBVIOUS
<1>4. /\ d1 \in Decs /\ d2 \in Decs
      /\ Path(Repeat(Plain("tile", m), 1), Place(r, "hextile", n, d1, z, u, a),
         Between(r - 1, z, u, Asks(r - 1, u, a)))
      /\ Path(Repeat(Plain("tile", m), 2), Place(r, "hextile", n, d2, z, u, a),
         Between(r - 1, z, u, Asks(r - 1, u, a)))
  <2>1. d1 \in Decs /\ d2 \in Decs
    BY <1>3, TileMeans
  <2>2. /\ DecoderWantsAt(Place(r, "hextile", n, d1, z, u, a)) = "tile"
        /\ DecoderWantsAt(Place(r, "hextile", n, d2, z, u, a)) = "tile"
        /\ CountMeans(Place(r, "hextile", n, d1, z, u, a), Cell("tile", "", 0, {}, m),
                      Between(r - 1, z, u, Asks(r - 1, u, a)))
        /\ CountMeans(Place(r, "hextile", n, d2, z, u, a), Cell("tile", "", 0, {}, m),
                      Place(r, "hextile", n, d1, z, u, a))
    BY <1>3, TileMeans, Zenon
  <2>. QED BY <1>2, <2>1, <2>2, Counted
<1>5. CASE n = 0
  <2>1. cells \in Sized("hextile", 0, <<>>)
    BY <1>1, <1>2, <1>5, PlainIn, RepeatIs
  <2>. QED BY <1>2, <1>5, <2>1, RectIsHead
<1>6. CASE n = 1
  <2>1. Path(cells, Between(r, z, u, a), Between(r - 1, z, u, Asks(r - 1, u, a)))
    BY <1>1, <1>2, <1>3, <1>4, <1>6, RectGoes
  <2>. QED BY <2>1 DEF Arrives
<1>7. CASE n = 2
  <2>1. Path(cells, Between(r, z, u, a), Between(r - 1, z, u, Asks(r - 1, u, a)))
    BY <1>1, <1>2, <1>3, <1>4, <1>7, RectGoes
  <2>. QED BY <2>1 DEF Arrives
<1>. QED BY <1>5, <1>6, <1>7

LEMMA RreRects ==
    ASSUME NEW r \in 1..Many, NEW z \in [Streams -> BOOLEAN], NEW u \in BOOLEAN, NEW a \in Nat,
           NEW cells \in Rects("rre")
    PROVE  Arrives(cells, r, z, z, u, a)
<1>1. PICK n \in 0..2 : cells \in Sized("rre", 1, Subrects(n))
  BY DEF Rects, Rect
<1>2. /\ "rre" \in Known \ {"last", "size", "qemu"} /\ "rre" \in Kinds /\ "" \in Words
      /\ "subrect" \in Kinds /\ n \in 0..Many /\ 1 \in 0..1 /\ 0 \in 0..1 /\ 1 \in 0..Many
  BY DEF Known, DataEncodings, PseudoEncodings, Words, Kinds, Many
<1>3. PICK d1, d2 : d1 = [AtRest EXCEPT !.subrects = 1] /\ d2 = [AtRest EXCEPT !.subrects = 2]
  OBVIOUS
<1>4. PICK End : End = Between(r - 1, z, u, Asks(r - 1, u, a))
  OBVIOUS
<1>5. /\ d1 \in Decs /\ d2 \in Decs
      /\ Path(Repeat(Plain("subrect", 1), 1), Place(r, "rre", 1, d1, z, u, a), End)
      /\ Path(Repeat(Plain("subrect", 1), 2), Place(r, "rre", 1, d2, z, u, a), End)
  <2>1. d1 \in Decs /\ d2 \in Decs
    BY <1>3, SubrectMeans
  <2>2. /\ DecoderWantsAt(Place(r, "rre", 1, d1, z, u, a)) = "subrect"
        /\ DecoderWantsAt(Place(r, "rre", 1, d2, z, u, a)) = "subrect"
        /\ CountMeans(Place(r, "rre", 1, d1, z, u, a), Cell("subrect", "", 0, {}, 1),
                      Between(r - 1, z, u, Asks(r - 1, u, a)))
        /\ CountMeans(Place(r, "rre", 1, d2, z, u, a), Cell("subrect", "", 0, {}, 1),
                      Place(r, "rre", 1, d1, z, u, a))
    BY <1>3, SubrectMeans
  <2>. QED BY <1>2, <1>4, <2>1, <2>2, Counted
<1>6. PICK c \in Cells : c = Cell("rre", "", n, {}, 0)
  BY <1>2 DEF Cell, Cells
<1>7. c.k = "rre" /\ c.s = n /\ c.n = 0
  BY <1>6 DEF Cell
<1>8. PICK p : p = Place(r, "rre", 1, AtRest, z, u, a)
  OBVIOUS
<1>9. /\ p.rects = r /\ p.enc = "rre" /\ p.size = 1 /\ p.dec = AtRest /\ p.fresh = z
         /\ p.upd = u /\ p.asks = a
  BY <1>8 DEF Place
<1>10. DecoderWantsAt(p) = "rre" /\ p.rects > 0 /\ p.enc # NoEncoding
  <2>1. AtRest.subrects = 0
    BY AtRestIs
  <2>2. DecoderWantsAt(p) = "rre"
    BY <1>9, <2>1 DEF DecoderWantsAt
  <2>. QED BY <1>9, <2>2 DEF NoEncoding, Many
<1>11. AtRest \in Decs /\ Repeat(Plain("subrect", 1), 0) = <<>>
  BY <1>2, AtRestIs, PlainIn, RepeatIs
<1>12. \E q : Path(<<c>>, p, q) /\ Path(Repeat(Plain("subrect", 1), n), q, End)
  <2>1. CASE n = 0
    <3>1. [AtRest EXCEPT !.subrects = 0] = AtRest
      BY AtRestIs DEF Decs
    <3>2. CountMeans(p, c, End)
      BY <1>4, <1>7, <1>9, <2>1, <3>1 DEF CountMeans, Decoded, Ends, Between
    <3>3. DecodeMeans(p, c, Between(r - 1, z, u, Asks(r - 1, u, a)))
      BY <1>4, <1>7, <1>10, <3>2 DEF DecodeMeans
    <3>7. DecodeMeans(Place(r, "rre", 1, AtRest, z, u, a), c, Between(r - 1, z, u,
            Asks(r - 1, u, a)))
      BY <1>8, <3>3, Zenon
    <3>8. "rre" \in Known
      BY <1>2
    <3>4. Path(<<c>>, p, End)
      BY <1>2, <1>4, <1>7, <1>8, <1>11, <3>7, <3>8, UnitEnds, Zenon
    <3>5. PICK f : Leads(<<c>>, p, End, f)
      BY <3>4 DEF Path
    <3>6. Before(End, End)
      <4>1. Len(<<c>>) = 1 /\ 2 \in 1..2
        OBVIOUS
      <4>. QED BY <3>5, <4>1 DEF Leads
    <3>. QED BY <1>11, <2>1, <3>4, <3>6, PathNone
  <2>2. CASE n = 1
    <3>1. CountMeans(p, c, Place(r, "rre", 1, d1, z, u, a))
      BY <1>3, <1>7, <1>9, <2>2 DEF CountMeans, Decoded, Goes
    <3>2. DecodeMeans(p, c, Place(r, "rre", 1, d1, z, u, a))
      BY <1>7, <1>10, <3>1 DEF DecodeMeans
    <3>3. Path(<<c>>, p, Place(r, "rre", 1, d1, z, u, a))
      BY <1>2, <1>5, <1>7, <1>8, <1>11, <3>2, UnitGoes
    <3>. QED BY <1>5, <2>2, <3>3
  <2>3. CASE n = 2
    <3>1. CountMeans(p, c, Place(r, "rre", 1, d2, z, u, a))
      BY <1>3, <1>7, <1>9, <2>3 DEF CountMeans, Decoded, Goes
    <3>2. DecodeMeans(p, c, Place(r, "rre", 1, d2, z, u, a))
      BY <1>7, <1>10, <3>1 DEF DecodeMeans
    <3>3. Path(<<c>>, p, Place(r, "rre", 1, d2, z, u, a))
      BY <1>2, <1>5, <1>7, <1>8, <1>11, <3>2, UnitGoes
    <3>. QED BY <1>5, <2>3, <3>3
  <2>. QED BY <2>1, <2>2, <2>3
<1>15. Path(<<c>> \o Repeat(Plain("subrect", 1), n), p, End)
  BY <1>12, PathJoined
<1>13. Path(Subrects(n), p, End)
  BY <1>6, <1>15, Zenon DEF Subrects
<1>14. Path(cells, Between(r, z, u, a), End)
  BY <1>1, <1>2, <1>6, <1>8, <1>11, <1>13, RectGoes
<1>. QED BY <1>4, <1>14 DEF Arrives

(* A rectangle whose content is there as a whole or not at all. *)
LEMMA WholeUnit ==
    ASSUME NEW r \in 1..Many, NEW e \in {"copyrect", "cursor", "vmware", "name", "screens", "led"},
           NEW z \in [Streams -> BOOLEAN], NEW u \in BOOLEAN, NEW a \in Nat,
           NEW kind, kind = (IF e = "copyrect" THEN "source" ELSE e), NEW n \in 0..1,
           NEW cells \in Rect(e, Plain(kind, n))
    PROVE  Arrives(cells, r, z, z, u, a)
<1>1. /\ e \in Known \ {"last", "size", "qemu"} /\ kind \in Kinds /\ "" \in Words /\ 1 \in 0..Many
      /\ e \notin {"raw", "hextile"}
  BY DEF Known, DataEncodings, PseudoEncodings, Words, Kinds, Many
<1>2. PICK p : p = Place(r, e, 1, AtRest, z, u, a)
  OBVIOUS
<1>3. /\ p.rects = r /\ p.enc = e /\ p.size = 1 /\ p.dec = AtRest /\ p.fresh = z /\ p.upd = u
         /\ p.asks = a
  BY <1>2 DEF Place
<1>4. DecoderWantsAt(p) = kind
  BY <1>3 DEF DecoderWantsAt
<1>5. PICK c : c = Cell(kind, "", 0, {}, n)
  OBVIOUS
<1>6. c.k = kind
  BY <1>5 DEF Cell
<1>7. WholeMeans(p, c, Between(r - 1, z, u, Asks(r - 1, u, a)))
  BY <1>3, <1>6 DEF WholeMeans, Decoded, Ends, Between
<1>8. DecoderMeans(p, c, Between(r - 1, z, u, Asks(r - 1, u, a)))
  BY <1>7 DEF DecoderMeans
<1>9. AtRest \in Decs
  BY AtRestIs
<1>10. Path(Unit(kind, "", n), p, Between(r - 1, z, u, Asks(r - 1, u, a)))
  BY <1>1, <1>2, <1>4, <1>5, <1>8, <1>9, LastUnit
<1>11. Path(Plain(kind, n), p, Between(r - 1, z, u, Asks(r - 1, u, a)))
  BY <1>10 DEF Plain
<1>12. cells \in Sized(e, 1, Plain(kind, n))
  BY DEF Rect
<1>13. Path(cells, Between(r, z, u, a), Between(r - 1, z, u, Asks(r - 1, u, a)))
  BY <1>1, <1>2, <1>9, <1>11, <1>12, RectGoes
<1>. QED BY <1>13 DEF Arrives

LEMMA ZrleRects ==
    ASSUME NEW r \in 1..Many, NEW z \in [Streams -> BOOLEAN], NEW u \in BOOLEAN, NEW a \in Nat,
           NEW cells \in Rects("zrle") \cup IllegalRect("zrle")
    PROVE  Arrives(cells, r, z, z, u, a)
<1>1. /\ "zrle" \in Known \ {"last", "size", "qemu"} /\ "zlength" \in Kinds /\ "zdata" \in Kinds
      /\ "" \in Words /\ "illegal" \in Words /\ 1 \in 0..Many /\ 0 \in 0..1 /\ 1 \in 0..1
  BY DEF Known, DataEncodings, PseudoEncodings, Words, Kinds, Many
<1>2. PICK o \in Decs : o = AtRest
  BY AtRestIs
<1>3. PICK d : d = [o EXCEPT !.length = TRUE]
  OBVIOUS
<1>4. d \in Decs /\ d.length
  BY <1>3 DEF Decs
<1>5. [d EXCEPT !.length = FALSE] = AtRest
  <2>1. o.length = FALSE
    BY <1>2 DEF AtRest
  <2>2. [d EXCEPT !.length = FALSE] = o
    BY <1>3, <2>1 DEF Decs
  <2>. QED BY <1>2, <2>2
<1>6. PICK p, q : p = Place(r, "zrle", 1, AtRest, z, u, a) /\ q = Place(r, "zrle", 1, d, z, u, a)
  OBVIOUS
<1>7. /\ p.rects = r /\ p.enc = "zrle" /\ p.size = 1 /\ p.dec = AtRest /\ p.fresh = z
         /\ p.upd = u /\ p.asks = a
      /\ q.rects = r /\ q.enc = "zrle" /\ q.size = 1 /\ q.dec = d /\ q.fresh = z /\ q.upd = u
         /\ q.asks = a
  BY <1>6 DEF Place
<1>8. DecoderWantsAt(p) = "zlength" /\ DecoderWantsAt(q) = "zdata"
  <2>1. ~AtRest.length
    BY DEF AtRest
  <2>. QED BY <1>4, <1>7, <2>1 DEF DecoderWantsAt
<1>9. PICK c1, c2, c3 : /\ c1 = Cell("zlength", "", 0, {}, 0) /\ c2 = Cell("zdata", "", 0, {}, 1)
                        /\ c3 = Cell("zdata", "illegal", 0, {}, 1)
  OBVIOUS
<1>10. c1.k = "zlength" /\ c2.k = "zdata" /\ c2.v # "illegal" /\ c3.k = "zdata"
         /\ c3.v = "illegal" /\ c3.n = 1
  BY <1>9 DEF Cell
<1>11. Path(Plain("zlength", 0), p, q)
  <2>1. BlockMeans(p, c1, Place(r, "zrle", 1, d, z, u, a))
    BY <1>2, <1>3, <1>7, <1>10 DEF BlockMeans, Decoded, Goes
  <2>2. DecoderMeans(p, c1, Place(r, "zrle", 1, d, z, u, a))
    BY <2>1 DEF DecoderMeans
  <2>3. Path(Unit("zlength", "", 0), p, q)
    BY <1>1, <1>2, <1>4, <1>6, <1>8, <1>9, <2>2, NextUnit
  <2>. QED BY <2>3 DEF Plain
<1>12. Path(Plain("zdata", 1), q, Between(r - 1, z, u, Asks(r - 1, u, a)))
  <2>1. BlockMeans(q, c2, Between(r - 1, z, u, Asks(r - 1, u, a)))
    BY <1>5, <1>7, <1>10 DEF BlockMeans, Decoded, Ends, Between
  <2>2. DecoderMeans(q, c2, Between(r - 1, z, u, Asks(r - 1, u, a)))
    BY <2>1 DEF DecoderMeans
  <2>3. Path(Unit("zdata", "", 1), q, Between(r - 1, z, u, Asks(r - 1, u, a)))
    BY <1>1, <1>2, <1>4, <1>6, <1>8, <1>9, <2>2, LastUnit
  <2>. QED BY <2>3 DEF Plain
<1>13. \E m : m.dead /\ m.asks = a /\ Path(Unit("zdata", "illegal", 1), q, m)
  <2>1. c3 \in Cells
    BY <1>1, <1>9, UnitIn
  <2>4. Breaks(<<c3, Rest>>, q, a)
    BY <1>1, <1>4, <1>6, <1>8, <1>10, <2>1, UnitThrows
  <2>2. PICK m : m.dead /\ m.asks = a /\ Path(<<c3, Rest>>, q, m)
    BY <2>4, Zenon DEF Breaks
  <2>3. Unit("zdata", "illegal", 1) = <<c3, Rest>>
    BY <1>9, UnitIs
  <2>. QED BY <2>2, <2>3
<1>14. CASE cells \in Rects("zrle")
  <2>1. cells \in Sized("zrle", 1, Plain("zlength", 0) \o Plain("zdata", 1))
    BY <1>14 DEF Rects, Rect
  <2>2. Path(Plain("zlength", 0) \o Plain("zdata", 1), p, Between(r - 1, z, u, Asks(r - 1, u, a)))
    BY <1>11, <1>12, PathJoined
  <2>3. Path(cells, Between(r, z, u, a), Between(r - 1, z, u, Asks(r - 1, u, a)))
    BY <1>1, <1>2, <1>6, <2>1, <2>2, RectGoes
  <2>. QED BY <2>3 DEF Arrives
<1>15. CASE cells \in IllegalRect("zrle")
  <2>1. cells \in Sized("zrle", 1, Plain("zlength", 0) \o Unit("zdata", "illegal", 1))
    BY <1>15 DEF IllegalRect, Rect
  <2>2. PICK m : m.dead /\ m.asks = a /\ Path(Unit("zdata", "illegal", 1), q, m)
    BY <1>13
  <2>3. Path(Plain("zlength", 0) \o Unit("zdata", "illegal", 1), p, m)
    BY <1>11, <2>2, PathJoined
  <2>4. Path(cells, Between(r, z, u, a), m)
    BY <1>1, <1>2, <1>6, <2>1, <2>3, RectGoes
  <2>. QED BY <2>2, <2>4 DEF Arrives
<1>. QED BY <1>14, <1>15

LEMMA JpegRects ==
    ASSUME NEW r \in 1..Many, NEW z \in [Streams -> BOOLEAN], NEW u \in BOOLEAN, NEW a \in Nat,
           NEW cells \in Rects("jpeg") \cup IllegalRect("jpeg")
    PROVE  Arrives(cells, r, z, z, u, a)
<1>1. /\ "jpeg" \in Known \ {"last", "size", "qemu"} /\ "segment" \in Kinds
      /\ "" \in Words /\ "illegal" \in Words /\ "end" \in Words /\ 1 \in 0..Many /\ 0 \in 0..1
         /\ 1 \in 0..1
  BY DEF Known, DataEncodings, PseudoEncodings, Words, Kinds, Many
<1>2. PICK o \in Decs : o = AtRest /\ o.segments = 0
  BY AtRestIs
<1>3. PICK d1, d2 : d1 = [o EXCEPT !.segments = 1] /\ d2 = [o EXCEPT !.segments = 2]
  OBVIOUS
<1>4. d1 \in Decs /\ d2 \in Decs /\ d1.segments = 1
  <2>1. 1 \in 0..2 /\ 2 \in 0..2
    OBVIOUS
  <2>2. [o EXCEPT !.segments = 1] \in Decs /\ [o EXCEPT !.segments = 1].segments = 1
    BY <2>1, DecsIs, Zenon
  <2>3. [o EXCEPT !.segments = 2] \in Decs
    BY <2>1, DecsIs, Zenon
  <2>. QED BY <1>3, <2>2, <2>3, Zenon
<1>5. [d1 EXCEPT !.segments = 0] = o /\ [d2 EXCEPT !.segments = 0] = o
        /\ [d1 EXCEPT !.segments = 2] = d2
  BY <1>2, <1>3 DEF Decs
<1>6. [o EXCEPT !.segments = @ + 1] = d1 /\ [d1 EXCEPT !.segments = @ + 1] = d2
  BY <1>2, <1>3, <1>4, <1>5
<1>7. PICK p, h, q : /\ p = Place(r, "jpeg", 1, o, z, u, a) /\ h = Place(r, "jpeg", 1, d1, z, u, a)
                     /\ q = Place(r, "jpeg", 1, d2, z, u, a)
  OBVIOUS
<1>8. /\ p.rects = r /\ p.enc = "jpeg" /\ p.size = 1 /\ p.dec = o /\ p.fresh = z /\ p.upd = u
         /\ p.asks = a
      /\ h.rects = r /\ h.enc = "jpeg" /\ h.size = 1 /\ h.dec = d1 /\ h.fresh = z /\ h.upd = u
         /\ h.asks = a
      /\ q.rects = r /\ q.enc = "jpeg" /\ q.size = 1 /\ q.dec = d2 /\ q.fresh = z /\ q.upd = u
         /\ q.asks = a
  BY <1>7 DEF Place
<1>9. DecoderWantsAt(p) = "segment" /\ DecoderWantsAt(h) = "segment"
        /\ DecoderWantsAt(q) = "segment"
  BY <1>8 DEF DecoderWantsAt
<1>10. PICK c1, c2, c3 : /\ c1 = Cell("segment", "", 0, {}, 1)
                            /\ c2 = Cell("segment", "end", 0, {}, 0)
                         /\ c3 = Cell("segment", "illegal", 0, {}, 0)
  OBVIOUS
<1>11. /\ c1.k = "segment" /\ c1.v = "" /\ c2.k = "segment" /\ c2.v = "end"
       /\ c3.k = "segment" /\ c3.v = "illegal" /\ c3.n = 0
  BY <1>10 DEF Cell
<1>12. Path(Plain("segment", 1), p, h)
  <2>1. BlockMeans(p, c1, Place(r, "jpeg", 1, d1, z, u, a))
    BY <1>6, <1>8, <1>11 DEF BlockMeans, Decoded, Goes
  <2>2. DecoderMeans(p, c1, Place(r, "jpeg", 1, d1, z, u, a))
    BY <2>1 DEF DecoderMeans
  <2>3. Path(Unit("segment", "", 1), p, h)
    BY <1>1, <1>4, <1>7, <1>9, <1>10, <2>2, NextUnit
  <2>. QED BY <2>3 DEF Plain
<1>13. Path(Plain("segment", 1), h, q)
  <2>1. BlockMeans(h, c1, Place(r, "jpeg", 1, d2, z, u, a))
    BY <1>6, <1>8, <1>11 DEF BlockMeans, Decoded, Goes
  <2>2. DecoderMeans(h, c1, Place(r, "jpeg", 1, d2, z, u, a))
    BY <2>1 DEF DecoderMeans
  <2>3. Path(Unit("segment", "", 1), h, q)
    BY <1>1, <1>4, <1>7, <1>9, <1>10, <2>2, NextUnit
  <2>. QED BY <2>3 DEF Plain
<1>14. PICK End : End = Between(r - 1, z, u, Asks(r - 1, u, a))
  OBVIOUS
<1>15. Path(Unit("segment", "end", 0), h, End) /\ Path(Unit("segment", "end", 0), q, End)
  <2>1. BlockMeans(h, c2, Between(r - 1, z, u, Asks(r - 1, u, a)))
    BY <1>2, <1>5, <1>8, <1>11 DEF BlockMeans, Decoded, Ends, Between
  <2>2. BlockMeans(q, c2, Between(r - 1, z, u, Asks(r - 1, u, a)))
    BY <1>2, <1>5, <1>8, <1>11 DEF BlockMeans, Decoded, Ends, Between
  <2>3. /\ DecoderMeans(h, c2, Between(r - 1, z, u, Asks(r - 1, u, a)))
        /\ DecoderMeans(q, c2, Between(r - 1, z, u, Asks(r - 1, u, a)))
    BY <2>1, <2>2 DEF DecoderMeans
  <2>4. Path(Unit("segment", "end", 0), h, End)
    BY <1>1, <1>4, <1>7, <1>9, <1>10, <1>14, <2>3, LastUnit
  <2>5. Path(Unit("segment", "end", 0), q, End)
    BY <1>1, <1>4, <1>7, <1>9, <1>10, <1>14, <2>3, LastUnit
  <2>. QED BY <2>4, <2>5
<1>16. \E m : m.dead /\ m.asks = a /\ Path(Unit("segment", "illegal", 0), h, m)
  <2>1. c3 \in Cells
    BY <1>1, <1>10, UnitIn
  <2>4. Breaks(<<c3>>, h, a)
    BY <1>1, <1>4, <1>7, <1>9, <1>11, <2>1, UnitThrows
  <2>2. PICK m : m.dead /\ m.asks = a /\ Path(<<c3>>, h, m)
    BY <2>4, Zenon DEF Breaks
  <2>3. Unit("segment", "illegal", 0) = <<c3>>
    BY <1>10, UnitIs
  <2>. QED BY <2>2, <2>3
<1>17. CASE cells \in Rects("jpeg")
  <2>1. PICK n \in 1..2 : cells \in Sized("jpeg", 1, Segments(n))
    BY <1>17 DEF Rects, Rect
  <2>2. Path(Repeat(Plain("segment", 1), 1), p, h)
    BY <1>1, <1>12, PlainIn, PathRepeated
  <2>3. Path(Repeat(Plain("segment", 1), 2), p, q)
    BY <1>1, <1>12, <1>13, PlainIn, PathRepeated
  <2>4. CASE n = 1
    <3>1. Path(Repeat(Plain("segment", 1), 1) \o Unit("segment", "end", 0), p, End)
      BY <1>15, <2>2, PathJoined
    <3>2. Path(Segments(n), p, End)
      BY <2>4, <3>1, Zenon DEF Segments
    <3>. QED BY <1>1, <1>2, <1>7, <1>14, <2>1, <3>2, RectGoes DEF Arrives
  <2>5. CASE n = 2
    <3>1. Path(Repeat(Plain("segment", 1), 2) \o Unit("segment", "end", 0), p, End)
      BY <1>15, <2>3, PathJoined
    <3>2. Path(Segments(n), p, End)
      BY <2>5, <3>1, Zenon DEF Segments
    <3>. QED BY <1>1, <1>2, <1>7, <1>14, <2>1, <3>2, RectGoes DEF Arrives
  <2>. QED BY <2>4, <2>5
<1>18. CASE cells \in IllegalRect("jpeg")
  <2>1. cells \in Sized("jpeg", 1, Plain("segment", 1) \o Unit("segment", "illegal", 0))
    BY <1>18 DEF IllegalRect, Rect
  <2>2. PICK m : m.dead /\ m.asks = a /\ Path(Unit("segment", "illegal", 0), h, m)
    BY <1>16
  <2>3. Path(Plain("segment", 1) \o Unit("segment", "illegal", 0), p, m)
    BY <1>12, <2>2, PathJoined
  <2>4. Path(cells, Between(r, z, u, a), m)
    BY <1>1, <1>2, <1>7, <2>1, <2>3, RectGoes
  <2>. QED BY <2>2, <2>4 DEF Arrives
<1>. QED BY <1>17, <1>18

LEMMA HextileIllegal ==
    ASSUME NEW r \in 1..Many, NEW z \in [Streams -> BOOLEAN], NEW u \in BOOLEAN, NEW a \in Nat,
           NEW cells \in IllegalRect("hextile")
    PROVE  Arrives(cells, r, z, z, u, a)
<1>1. /\ "hextile" \in Known \ {"last", "size", "qemu"} /\ "tile" \in Kinds
      /\ "illegal" \in Words /\ 1 \in 0..Many /\ 0 \in 0..1
  BY DEF Known, DataEncodings, PseudoEncodings, Words, Kinds, Many
<1>2. PICK d1, d2 : d1 = [AtRest EXCEPT !.tiles = 1] /\ d2 = [AtRest EXCEPT !.tiles = 2]
  OBVIOUS
<1>3. d1 \in Decs
  BY <1>2, TileMeans
<1>4. DecoderWantsAt(Place(r, "hextile", 1, d1, z, u, a)) = "tile"
  BY <1>2, TileMeans
<1>5. PICK c \in Cells : c = Cell("tile", "illegal", 0, {}, 0)
  BY <1>1, UnitIn
<1>6. c.k = "tile" /\ c.v = "illegal" /\ c.n = 0
  BY <1>5 DEF Cell
<1>12. Breaks(<<c>>, Place(r, "hextile", 1, d1, z, u, a), a)
  BY <1>1, <1>3, <1>4, <1>6, UnitThrows
<1>7. PICK m : m.dead /\ m.asks = a /\ Path(<<c>>, Place(r, "hextile", 1, d1, z, u, a), m)
  BY <1>12, Zenon DEF Breaks
<1>8. Unit("tile", "illegal", 0) = <<c>>
  BY <1>5, UnitIs
<1>9. cells \in Sized("hextile", 1, Unit("tile", "illegal", 0))
  BY DEF IllegalRect, Rect
<1>10. Path(Unit("tile", "illegal", 0), Place(r, "hextile", 1, d1, z, u, a), m)
  BY <1>7, <1>8
<1>11. Path(cells, Between(r, z, u, a), m)
  BY <1>1, <1>2, <1>3, <1>9, <1>10, RectGoes
<1>. QED BY <1>7, <1>11 DEF Arrives

(* Tight: what the decoder keeps before it has emptied itself. *)
Tightly(d) == d \in Decs /\ TightEmptied(d) = AtRest

LEMMA TightlyIs ==
    ASSUME NEW d, Tightly(d), NEW g \in Words
    PROVE  /\ Tightly([d EXCEPT !.filter = g]) /\ Tightly([d EXCEPT !.colors = TRUE])
           /\ Tightly([d EXCEPT !.len = TRUE])
<1>1. d \in Decs
  BY DEF Tightly
<1>2. /\ [d EXCEPT !.filter = g] \in Decs /\ [d EXCEPT !.colors = TRUE] \in Decs
      /\ [d EXCEPT !.len = TRUE] \in Decs
  BY <1>1 DEF Decs
<1>3. TightEmptied([d EXCEPT !.filter = g]) = TightEmptied(d)
  BY <1>1 DEF Decs, TightEmptied
<1>4. TightEmptied([d EXCEPT !.colors = TRUE]) = TightEmptied(d)
  BY <1>1 DEF Decs, TightEmptied
<1>5. TightEmptied([d EXCEPT !.len = TRUE]) = TightEmptied(d)
  BY <1>1 DEF Decs, TightEmptied
<1>. QED BY <1>2, <1>3, <1>4, <1>5 DEF Tightly

LEMMA TightControlled ==
    ASSUME NEW r \in 1..Many, NEW e \in {"tight", "tightpng"}, NEW sz \in 0..Many,
           NEW z \in [Streams -> BOOLEAN], NEW u \in BOOLEAN, NEW a \in Nat,
           NEW kind \in Words \ {"illegal"}, NEW s \in 0..3, NEW resets \in SUBSET Streams
    PROVE  \E d : /\ Tightly(d) /\ d.ctl = kind /\ d.stream = s /\ d.colors = FALSE /\ d.len = FALSE
                  /\ (kind = "copy" => d.filter = "copy") /\ (kind # "copy" => Blank(d.filter))
                  /\ Path(Control(kind, s, resets), Place(r, e, sz, AtRest, z, u, a),
                          Place(r, e, sz, d, AfterReset(z, resets), u, a))
<1>1. /\ e \in Known /\ "ctl" \in Kinds /\ "" \in Words /\ "copy" \in Words /\ s \in 0..Many
  <2>1. e \in Known
    BY DEF Known, DataEncodings
  <2>2. "ctl" \in Kinds /\ "" \in Words /\ "copy" \in Words
    BY DEF Words, Kinds
  <2>3. s \in 0..Many
    BY DEF Many
  <2>. QED BY <2>1, <2>2, <2>3
<1>2. PICK o \in Decs : o = AtRest
  BY AtRestIs
<1>3. PICK f \in Words : f = IF kind = "copy" THEN "copy" ELSE ""
  BY <1>1
<1>4. PICK d : d = [o EXCEPT !.ctl = kind, !.stream = s, !.filter = f]
  OBVIOUS
<1>5. d \in Decs
  BY <1>4 DEF Decs
<1>6. d.ctl = kind /\ d.stream = s /\ d.filter = f /\ d.colors = o.colors /\ d.len = o.len
  BY <1>4 DEF Decs
<1>7. o.colors = FALSE /\ o.len = FALSE /\ o.ctl = "" /\ o.filter = ""
  BY <1>2 DEF AtRest
<1>8. Tightly(d)
  <2>1. TightEmptied(d) = TightEmptied(o)
    BY <1>4 DEF Decs, TightEmptied
  <2>3. o.ctl = "" /\ o.stream = 0 /\ o.filter = "" /\ o.colors = FALSE /\ o.len = FALSE
    BY <1>2 DEF AtRest
  <2>2. TightEmptied(o) = o
    BY <2>3 DEF TightEmptied, Decs
  <2>. QED BY <1>2, <1>5, <2>1, <2>2 DEF Tightly
<1>9. PICK c : c = Cell("ctl", kind, s, resets, 0)
  OBVIOUS
<1>10. c.k = "ctl" /\ c.v = kind /\ c.s = s /\ c.z = resets /\ c.n = 0
  BY <1>9 DEF Cell
<1>11. c \in Cells
  <2>1. kind \in Words /\ 0 \in 0..1
    OBVIOUS
  <2>. QED BY <1>1, <1>9, <2>1, CellIs
<1>12. PICK y \in [Streams -> BOOLEAN] : y = AfterReset(z, resets)
  BY DEF AfterReset
<1>13. PICK p : p = Place(r, e, sz, AtRest, z, u, a)
  OBVIOUS
<1>14. /\ p.rects = r /\ p.enc = e /\ p.size = sz /\ p.dec = o /\ p.fresh = z /\ p.upd = u
          /\ p.asks = a
  BY <1>2, <1>13 DEF Place
<1>15. DecoderWantsAt(p) = "ctl"
  <2>1. TightWantsAt(p) = "ctl"
    <3>1. p.dec.ctl = "" /\ p.dec.filter = ""
      BY <1>7, <1>14, Zenon
    <3>. QED BY <3>1 DEF TightWantsAt
  <2>2. CASE e = "tight"
    BY <1>14, <2>1, <2>2 DEF DecoderWantsAt
  <2>3. CASE e = "tightpng"
    BY <1>14, <2>1, <2>3 DEF DecoderWantsAt
  <2>. QED BY <2>2, <2>3
<1>16. ControlMeans(p, c, Place(r, e, sz, d, y, u, a))
  <2>1. [p.dec EXCEPT !.ctl = c.v, !.stream = c.s,
          !.filter = IF c.v = "copy" THEN "copy" ELSE ""] = d
    BY <1>3, <1>4, <1>10, <1>14
  <2>2. AfterReset(p.fresh, c.z) = y
    BY <1>10, <1>12, <1>14
  <2>. QED BY <1>10, <1>14, <2>1, <2>2 DEF ControlMeans, Decoded, Goes
<1>17. DecodeMeans(p, c, Place(r, e, sz, d, y, u, a))
  <2>1. TightMeans(p, c, Place(r, e, sz, d, y, u, a))
    BY <1>16 DEF TightMeans
  <2>2. p.rects > 0 /\ p.enc # NoEncoding
    BY <1>14 DEF Many, NoEncoding
  <2>. QED BY <1>10, <1>15, <2>1, <2>2 DEF DecodeMeans
<1>18. Path(<<c>>, p, Place(r, e, sz, d, y, u, a))
  BY <1>1, <1>2, <1>5, <1>10, <1>11, <1>13, <1>17, UnitGoes
<1>. QED BY <1>3, <1>6, <1>7, <1>8, <1>9, <1>12, <1>13, <1>18, Zenon DEF Control, Blank

(* What it looks for, as the fields say. *)
Filtered(d) == \/ d.ctl = "copy" /\ d.filter = "copy"
               \/ d.ctl = "filtered" /\ d.filter = "gradient"
               \/ d.ctl = "filtered" /\ d.filter = "palette" /\ d.colors

LEMMA TightWanted ==
    ASSUME NEW p, p.enc \in {"tight", "tightpng"}
    PROVE  /\ p.dec.ctl = "fill" /\ Blank(p.dec.filter) => DecoderWantsAt(p) = "pixel"
           /\ p.dec.ctl \in {"jpeg", "png"} /\ Blank(p.dec.filter) /\ p.dec.len
              => DecoderWantsAt(p) = "image"
           /\ p.dec.ctl \in {"jpeg", "png"} /\ Blank(p.dec.filter) /\ ~p.dec.len
              => DecoderWantsAt(p) = "length"
           /\ p.dec.ctl = "filtered" /\ Blank(p.dec.filter) => DecoderWantsAt(p) = "filter"
           /\ p.dec.ctl = "filtered" /\ p.dec.filter = "palette" /\ ~p.dec.colors
              => DecoderWantsAt(p) = "palette"
           /\ Filtered(p.dec) /\ p.size = 1 => DecoderWantsAt(p) = "pixels"
           /\ Filtered(p.dec) /\ p.size # 1 /\ p.dec.len => DecoderWantsAt(p) = "deflated"
           /\ Filtered(p.dec) /\ p.size # 1 /\ ~p.dec.len => DecoderWantsAt(p) = "length"
<1>1. DecoderWantsAt(p) = TightWantsAt(p)
  BY DEF DecoderWantsAt
<1>2. p.dec.ctl = "fill" /\ Blank(p.dec.filter) => TightWantsAt(p) = "pixel"
  BY DEF TightWantsAt, Blank
<1>3. p.dec.ctl \in {"jpeg", "png"} /\ Blank(p.dec.filter) /\ p.dec.len => TightWantsAt(p) = "image"
  BY DEF TightWantsAt, Blank
<1>4. p.dec.ctl \in {"jpeg", "png"} /\ Blank(p.dec.filter) /\ ~p.dec.len
        => TightWantsAt(p) = "length"
  BY DEF TightWantsAt, Blank
<1>5. p.dec.ctl = "filtered" /\ Blank(p.dec.filter) => TightWantsAt(p) = "filter"
  BY DEF TightWantsAt, Blank
<1>6. p.dec.ctl = "filtered" /\ p.dec.filter = "palette" /\ ~p.dec.colors
        => TightWantsAt(p) = "palette"
  BY DEF TightWantsAt
<1>7. Filtered(p.dec) /\ p.size = 1 => TightWantsAt(p) = "pixels"
  BY DEF TightWantsAt, Filtered
<1>8. Filtered(p.dec) /\ p.size # 1 /\ p.dec.len => TightWantsAt(p) = "deflated"
  BY DEF TightWantsAt, Filtered
<1>9. Filtered(p.dec) /\ p.size # 1 /\ ~p.dec.len => TightWantsAt(p) = "length"
  BY DEF TightWantsAt, Filtered
<1>. QED BY <1>1, <1>2, <1>3, <1>4, <1>5, <1>6, <1>7, <1>8, <1>9

(* The units after the control byte. *)
LEMMA TightNext ==
    ASSUME NEW r \in 1..Many, NEW e \in {"tight", "tightpng"}, NEW sz \in 0..Many,
           NEW y \in [Streams -> BOOLEAN], NEW u \in BOOLEAN, NEW a \in Nat, NEW d, Tightly(d)
    PROVE  /\ DecoderWantsAt(Place(r, e, sz, d, y, u, a)) = "length" =>
                Path(Length, Place(r, e, sz, d, y, u, a),
                  Place(r, e, sz, [d EXCEPT !.len = TRUE], y, u, a))
           /\ DecoderWantsAt(Place(r, e, sz, d, y, u, a)) = "palette" =>
                Path(Plain("palette", 1), Place(r, e, sz, d, y, u, a),
                  Place(r, e, sz, [d EXCEPT !.colors = TRUE], y, u, a))
           /\ DecoderWantsAt(Place(r, e, sz, d, y, u, a)) = "filter" => \A g \in Words :
                Path(Unit("filter", g, 0), Place(r, e, sz, d, y, u, a),
                  Place(r, e, sz, [d EXCEPT !.filter = g], y, u, a))
           /\ \A kind \in {"image", "pixel", "pixels"} :
                DecoderWantsAt(Place(r, e, sz, d, y, u, a)) = kind =>
                    Path(Plain(kind, 1), Place(r, e, sz, d, y, u, a), Between(r - 1, y, u,
                      Asks(r - 1, u, a)))
<1>1. e \in Known /\ "" \in Words /\ 0 \in 0..1 /\ 1 \in 0..1
  <2>1. e \in Known
    BY DEF Known, DataEncodings
  <2>2. "" \in Words
    BY DEF Words
  <2>3. 0 \in 0..1 /\ 1 \in 0..1
    OBVIOUS
  <2>. QED BY <2>1, <2>2, <2>3
<1>2. \A k \in {"length", "palette", "filter", "image", "pixel", "pixels"} : k \in Kinds
  BY DEF Kinds
<1>3. PICK p : p = Place(r, e, sz, d, y, u, a)
  OBVIOUS
<1>4. /\ p.rects = r /\ p.enc = e /\ p.size = sz /\ p.dec = d /\ p.fresh = y /\ p.upd = u
         /\ p.asks = a
  BY <1>3 DEF Place
<1>5. d \in Decs /\ TightEmptied(d) = AtRest
  BY DEF Tightly
<1>6. ASSUME DecoderWantsAt(p) = "length"
      PROVE  Path(Length, p, Place(r, e, sz, [d EXCEPT !.len = TRUE], y, u, a))
  <2>1. PICK d2 : d2 = [d EXCEPT !.len = TRUE] /\ d2 \in Decs
    BY <1>1, TightlyIs DEF Tightly
  <2>2. PICK c : c = Cell("length", "", 0, {}, 0)
    OBVIOUS
  <2>3. c.k = "length"
    BY <2>2 DEF Cell
  <2>4. TightMeans(p, c, Place(r, e, sz, d2, y, u, a))
    BY <1>4, <2>1, <2>3 DEF TightMeans, Decoded, Goes
  <2>5. DecoderMeans(p, c, Place(r, e, sz, d2, y, u, a))
    BY <2>4 DEF DecoderMeans
  <2>6. Path(Unit("length", "", 0), p, Place(r, e, sz, d2, y, u, a))
    BY <1>1, <1>2, <1>3, <1>5, <1>6, <2>1, <2>2, <2>5, NextUnit
  <2>. QED BY <2>1, <2>6 DEF Length, Plain
<1>7. ASSUME DecoderWantsAt(p) = "palette"
      PROVE  Path(Plain("palette", 1), p, Place(r, e, sz, [d EXCEPT !.colors = TRUE], y, u, a))
  <2>1. PICK d2 : d2 = [d EXCEPT !.colors = TRUE] /\ d2 \in Decs
    BY <1>1, TightlyIs DEF Tightly
  <2>2. PICK c : c = Cell("palette", "", 0, {}, 1)
    OBVIOUS
  <2>3. c.k = "palette"
    BY <2>2 DEF Cell
  <2>4. TightMeans(p, c, Place(r, e, sz, d2, y, u, a))
    BY <1>4, <2>1, <2>3 DEF TightMeans, Decoded, Goes
  <2>5. DecoderMeans(p, c, Place(r, e, sz, d2, y, u, a))
    BY <2>4 DEF DecoderMeans
  <2>6. Path(Unit("palette", "", 1), p, Place(r, e, sz, d2, y, u, a))
    BY <1>1, <1>2, <1>3, <1>5, <1>7, <2>1, <2>2, <2>5, NextUnit
  <2>. QED BY <2>1, <2>6 DEF Plain
<1>8. ASSUME DecoderWantsAt(p) = "filter", NEW g \in Words
      PROVE  Path(Unit("filter", g, 0), p, Place(r, e, sz, [d EXCEPT !.filter = g], y, u, a))
  <2>1. PICK d2 : d2 = [d EXCEPT !.filter = g] /\ d2 \in Decs
    BY TightlyIs DEF Tightly
  <2>2. PICK c : c = Cell("filter", g, 0, {}, 0)
    OBVIOUS
  <2>3. c.k = "filter" /\ c.v = g
    BY <2>2 DEF Cell
  <2>4. TightMeans(p, c, Place(r, e, sz, d2, y, u, a))
    BY <1>4, <2>1, <2>3 DEF TightMeans, Decoded, Goes
  <2>5. DecoderMeans(p, c, Place(r, e, sz, d2, y, u, a))
    BY <2>4 DEF DecoderMeans
  <2>6. Path(Unit("filter", g, 0), p, Place(r, e, sz, d2, y, u, a))
    BY <1>1, <1>2, <1>3, <1>5, <1>8, <2>1, <2>2, <2>5, NextUnit
  <2>. QED BY <2>1, <2>6
<1>9. ASSUME NEW kind \in {"image", "pixel", "pixels"}, DecoderWantsAt(p) = kind
      PROVE  Path(Plain(kind, 1), p, Between(r - 1, y, u, Asks(r - 1, u, a)))
  <2>2. PICK c : c = Cell(kind, "", 0, {}, 1)
    OBVIOUS
  <2>3. c.k = kind
    BY <2>2 DEF Cell
  <2>4. TightMeans(p, c, Between(r - 1, y, u, Asks(r - 1, u, a)))
    BY <1>4, <1>5, <2>3 DEF TightMeans, Decoded, Ends, Between
  <2>5. DecoderMeans(p, c, Between(r - 1, y, u, Asks(r - 1, u, a)))
    BY <2>4 DEF DecoderMeans
  <2>6. Path(Unit(kind, "", 1), p, Between(r - 1, y, u, Asks(r - 1, u, a)))
    BY <1>1, <1>2, <1>3, <1>5, <1>9, <2>2, <2>5, LastUnit
  <2>. QED BY <2>6 DEF Plain
<1>. QED BY <1>3, <1>6, <1>7, <1>8, <1>9

LEMMA TightInflated ==
    ASSUME NEW r \in 1..Many, NEW e \in {"tight", "tightpng"}, NEW sz \in 0..Many,
           NEW y \in [Streams -> BOOLEAN], NEW u \in BOOLEAN, NEW a \in Nat, NEW d, Tightly(d),
           NEW s \in Streams, d.stream = s, DecoderWantsAt(Place(r, e, sz, d, y, u, a)) = "deflated"
    PROVE  Path(Deflated(s, y), Place(r, e, sz, d, y, u, a),
                Between(r - 1, [y EXCEPT ![s] = FALSE], u, Asks(r - 1, u, a)))
<1>1. e \in Known
  BY DEF Known, DataEncodings
<1>2. "deflated" \in Kinds /\ "first" \in Words /\ "next" \in Words
  BY DEF Kinds, Words
<1>3. PICK p : p = Place(r, e, sz, d, y, u, a)
  OBVIOUS
<1>4. /\ p.rects = r /\ p.enc = e /\ p.size = sz /\ p.dec = d /\ p.fresh = y /\ p.upd = u
         /\ p.asks = a
  BY <1>3 DEF Place
<1>5. d \in Decs /\ TightEmptied(d) = AtRest
  BY DEF Tightly
<1>6. PICK w \in Words : w = IF y[s] THEN "first" ELSE "next"
  BY <1>2
<1>7. PICK c : c = Cell("deflated", w, s, {}, 1)
  OBVIOUS
<1>8. c.k = "deflated" /\ c.v = w /\ c.n = 1
  BY <1>7 DEF Cell
<1>9. c \in Cells
  <2>1. s \in 0..Many /\ 1 \in 0..1 /\ {} \in SUBSET Streams
    BY NumbersAre
  <2>. QED BY <1>2, <1>7, <2>1, CellIs
<1>10. (w = "first") = y[s]
  <2>1. y[s] \in BOOLEAN
    OBVIOUS
  <2>. QED BY <1>6, <2>1
<1>11. PICK y2 \in [Streams -> BOOLEAN] : y2 = [y EXCEPT ![s] = FALSE]
  OBVIOUS
<1>12. TightMeans(p, c, Between(r - 1, y2, u, Asks(r - 1, u, a)))
  <2>1. (c.v = "first") = p.fresh[p.dec.stream]
    BY <1>4, <1>8, <1>10
  <2>2. [p.fresh EXCEPT ![p.dec.stream] = FALSE] = y2
    BY <1>4, <1>11
  <2>3. Decoded(p, TightEmptied(p.dec), y2, TRUE) = Between(r - 1, y2, u, Asks(r - 1, u, a))
    BY <1>4, <1>5 DEF Decoded, Ends, Between
  <2>. QED BY <1>8, <2>1, <2>2, <2>3 DEF TightMeans
<1>13. DecodeMeans(p, c, Between(r - 1, y2, u, Asks(r - 1, u, a)))
  <2>1. p.rects > 0 /\ p.enc # NoEncoding
    BY <1>4 DEF Many, NoEncoding
  <2>. QED BY <1>3, <1>8, <1>12, <2>1 DEF DecodeMeans
<1>14. Path(<<c, Rest>>, p, Between(r - 1, y2, u, Asks(r - 1, u, a)))
  BY <1>1, <1>3, <1>5, <1>8, <1>9, <1>11, <1>13, UnitEnds
<1>15. Deflated(s, y) = <<c, Rest>>
  BY <1>6, <1>7 DEF Deflated, Rest
<1>. QED BY <1>3, <1>11, <1>14, <1>15

(* What follows the filter. *)
LEMMA TightBody ==
    ASSUME NEW r \in 1..Many, NEW e \in {"tight", "tightpng"},
           NEW y \in [Streams -> BOOLEAN], NEW u \in BOOLEAN, NEW a \in Nat, NEW d, Tightly(d),
           NEW s \in Streams, d.stream = s, d.len = FALSE,
           Filtered(d)
    PROVE  /\ Path(Plain("pixels", 1), Place(r, e, 1, d, y, u, a), Between(r - 1, y, u,
              Asks(r - 1, u, a)))
           /\ Path(Length \o Deflated(s, y), Place(r, e, 2, d, y, u, a),
                   Between(r - 1, [y EXCEPT ![s] = FALSE], u, Asks(r - 1, u, a)))
<1>1. 1 \in 0..Many /\ 2 \in 0..Many
  BY NumbersAre
<1>10. \A x, w : LET p == Place(r, e, x, w, y, u, a) IN p.enc = e /\ p.dec = w /\ p.size = x
  BY DEF Place
<1>2. DecoderWantsAt(Place(r, e, 1, d, y, u, a)) = "pixels"
  BY <1>10, TightWanted
<1>3. Path(Plain("pixels", 1), Place(r, e, 1, d, y, u, a), Between(r - 1, y, u, Asks(r - 1, u, a)))
  BY <1>1, <1>2, TightNext
<1>4. DecoderWantsAt(Place(r, e, 2, d, y, u, a)) = "length"
  <2>1. ~d.len
    OBVIOUS
  <2>. QED BY <1>10, <2>1, TightWanted
<1>5. PICK dl : dl = [d EXCEPT !.len = TRUE]
  OBVIOUS
<1>6. Path(Length, Place(r, e, 2, d, y, u, a), Place(r, e, 2, dl, y, u, a))
  BY <1>1, <1>4, <1>5, TightNext
<1>7. /\ Tightly(dl) /\ dl.len = TRUE /\ dl.ctl = d.ctl /\ dl.filter = d.filter
      /\ dl.colors = d.colors /\ dl.stream = s
  <2>1. "" \in Words
    BY DEF Words
  <2>2. Tightly(dl)
    BY <1>5, <2>1, TightlyIs
  <2>3. d \in Decs
    BY DEF Tightly
  <2>. QED BY <1>5, <2>2, <2>3 DEF Decs
<1>8. DecoderWantsAt(Place(r, e, 2, dl, y, u, a)) = "deflated"
  <2>1. dl.len /\ Filtered(dl)
    BY <1>7 DEF Filtered
  <2>. QED BY <1>10, <2>1, TightWanted
<1>9. Path(Deflated(s, y), Place(r, e, 2, dl, y, u, a),
           Between(r - 1, [y EXCEPT ![s] = FALSE], u, Asks(r - 1, u, a)))
  BY <1>1, <1>7, <1>8, TightInflated
<1>. QED BY <1>3, <1>6, <1>9, PathJoined

(* The control byte and, with it or after it, the filter. *)
LEMMA UnitHere == \A g \in Seq(Cells) : Len(g) = 1 => g # <<>>
OBVIOUS

LEMMA UnitOf ==
    ASSUME NEW c \in Cells
    PROVE  <<c, Rest>> \in Seq(Cells) /\ Len(<<c, Rest>>) = 2 /\ <<c, Rest>>[1] = c
BY RestIs

LEMMA FiltersAre == /\ Unit("filter", "gradient", 0) # <<>>
                    /\ Unit("filter", "palette", 0) \o Plain("palette", 1) # <<>>
<1>1. /\ "gradient" \in Words /\ "palette" \in Words /\ "filter" \in Kinds /\ "palette" \in Kinds
      /\ 0 \in 0..1 /\ 1 \in 0..1
  <2>1. "gradient" \in Words /\ "palette" \in Words /\ "filter" \in Kinds /\ "palette" \in Kinds
    BY DEF Words, Kinds
  <2>. QED BY <2>1
<1>2. \A g \in Words : Unit("filter", g, 0) \in Seq(Cells) /\ Len(Unit("filter", g, 0)) = 1
  BY <1>1, UnitIn
<1>3. Plain("palette", 1) \in Seq(Cells)
  BY <1>1, PlainIn
<1>4. PICK m \in Seq(Cells), n \in Seq(Cells) : m = Unit("filter", "palette", 0)
           /\ n = Plain("palette", 1) /\ Len(m) = 1
  BY <1>1, <1>2, <1>3
<1>5. Len(m \o n) = Len(m) + Len(n) /\ Len(n) \in Nat
  BY ConcatProperties
<1>6. PICK w \in Seq(Cells) : w = m \o n
  BY ConcatProperties
<1>7. w # <<>>
  BY <1>4, <1>5, <1>6
<1>9. PICK g \in Seq(Cells) : g = Unit("filter", "gradient", 0) /\ Len(g) = 1
  BY <1>1, <1>2
<1>10. g # <<>>
  BY <1>9, UnitHere
<1>8. Unit("filter", "gradient", 0) # <<>>
  BY <1>9, <1>10
<1>. QED BY <1>4, <1>6, <1>7, <1>8

LEMMA TightBasic ==
    ASSUME NEW r \in 1..Many, NEW e \in {"tight", "tightpng"}, NEW sz \in 0..Many,
           NEW z \in [Streams -> BOOLEAN], NEW u \in BOOLEAN, NEW a \in Nat,
           NEW s \in Streams, NEW resets \in SUBSET Streams, NEW filter \in Filters
    PROVE  \E d : /\ Tightly(d) /\ d.stream = s /\ d.len = FALSE
                  /\ Filtered(d)
                  /\ Path(Basic(filter, s, resets), Place(r, e, sz, AtRest, z, u, a),
                          Place(r, e, sz, d, AfterReset(z, resets), u, a))
<1>1. s \in 0..3
  BY SessAssumption
<1>2. /\ "copy" \in Words \ {"illegal"} /\ "filtered" \in Words \ {"illegal"}
      /\ "gradient" \in Words /\ "palette" \in Words /\ "" \in Words /\ "filter" \in Kinds
         /\ "palette" \in Kinds
  BY DEF Words, Kinds, Known, DataEncodings, PseudoEncodings
<1>3. PICK y \in [Streams -> BOOLEAN] : y = AfterReset(z, resets)
  BY DEF AfterReset
<1>4. PICK p : p = Place(r, e, sz, AtRest, z, u, a)
  OBVIOUS
<1>9. \A w : LET q == Place(r, e, sz, w, y, u, a) IN q.enc = e /\ q.dec = w
  BY DEF Place
<1>5. CASE filter = <<>>
  <2>1. PICK d : /\ Tightly(d) /\ d.ctl = "copy" /\ d.stream = s /\ d.colors = FALSE
                    /\ d.len = FALSE
                 /\ d.filter = "copy"
                 /\ Path(Control("copy", s, resets), p, Place(r, e, sz, d,
                    AfterReset(z, resets), u, a))
    BY <1>1, <1>2, <1>4, TightControlled
  <2>2. Control("copy", s, resets) \in Seq(Cells)
    BY <2>1 DEF Path
  <2>3. Basic(filter, s, resets) = Control("copy", s, resets) \o <<>>
    BY <1>5, Zenon DEF Basic
  <2>4. Basic(filter, s, resets) = Control("copy", s, resets)
    BY <2>2, <2>3, ConcatEmptySeq
  <2>. QED BY <1>4, <2>1, <2>4 DEF Filtered
<1>6. ASSUME filter # <<>>
      PROVE  \E d : /\ Tightly(d) /\ d.ctl = "filtered" /\ d.stream = s /\ d.colors = FALSE
                       /\ d.len = FALSE
                    /\ Blank(d.filter)
                    /\ Path(Control("filtered", s, resets), p, Place(r, e, sz, d, y, u, a))
                    /\ Basic(filter, s, resets) = Control("filtered", s, resets) \o filter
  <2>1. PICK d : /\ Tightly(d) /\ d.ctl = "filtered" /\ d.stream = s /\ d.colors = FALSE
                    /\ d.len = FALSE
                 /\ Blank(d.filter)
                 /\ Path(Control("filtered", s, resets), p, Place(r, e, sz, d,
                    AfterReset(z, resets), u, a))
    <3>1. PICK kind \in Words \ {"illegal"} : kind = "filtered"
      BY <1>2
    <3>2. \E d : /\ Tightly(d) /\ d.ctl = kind /\ d.stream = s /\ d.colors = FALSE /\ d.len = FALSE
                 /\ (kind = "copy" => d.filter = "copy") /\ (kind # "copy" => Blank(d.filter))
                 /\ Path(Control(kind, s, resets), Place(r, e, sz, AtRest, z, u, a),
                         Place(r, e, sz, d, AfterReset(z, resets), u, a))
      BY <1>1, TightControlled, Zenon
    <3>3. kind # "copy"
      BY <3>1
    <3>. QED BY <1>4, <3>1, <3>2, <3>3, Zenon
  <2>2. Basic(filter, s, resets) = Control("filtered", s, resets) \o filter
    BY <1>6, Zenon DEF Basic
  <2>. QED BY <1>3, <2>1, <2>2, Zenon
<1>7. CASE filter = Unit("filter", "gradient", 0)
  <2>1. filter # <<>>
    BY <1>7, FiltersAre, Zenon
  <2>2. PICK d : /\ Tightly(d) /\ d.ctl = "filtered" /\ d.stream = s /\ d.colors = FALSE
                    /\ d.len = FALSE
                 /\ Blank(d.filter)
                 /\ Path(Control("filtered", s, resets), p, Place(r, e, sz, d, y, u, a))
                 /\ Basic(filter, s, resets) = Control("filtered", s, resets) \o filter
    BY <1>6, <2>1
  <2>3. DecoderWantsAt(Place(r, e, sz, d, y, u, a)) = "filter"
    BY <1>9, <2>2, TightWanted
  <2>4. PICK d2 : d2 = [d EXCEPT !.filter = "gradient"]
    OBVIOUS
  <2>5. Path(Unit("filter", "gradient", 0), Place(r, e, sz, d, y, u, a),
          Place(r, e, sz, d2, y, u, a))
    BY <1>2, <2>2, <2>3, <2>4, TightNext
  <2>6. Tightly(d2)
    BY <1>2, <2>2, <2>4, TightlyIs
  <2>7. d2.ctl = "filtered" /\ d2.stream = s /\ d2.len = FALSE /\ d2.filter = "gradient"
    BY <2>2, <2>4 DEF Tightly, Decs
  <2>8. Path(Control("filtered", s, resets) \o Unit("filter", "gradient", 0), p,
          Place(r, e, sz, d2, y, u, a))
    BY <2>2, <2>5, PathJoined
  <2>. QED BY <1>3, <1>4, <1>7, <2>2, <2>6, <2>7, <2>8 DEF Filtered
<1>8. CASE filter = Unit("filter", "palette", 0) \o Plain("palette", 1)
  <2>1. filter # <<>>
    BY <1>8, FiltersAre, Zenon
  <2>2. PICK d : /\ Tightly(d) /\ d.ctl = "filtered" /\ d.stream = s /\ d.colors = FALSE
                    /\ d.len = FALSE
                 /\ Blank(d.filter)
                 /\ Path(Control("filtered", s, resets), p, Place(r, e, sz, d, y, u, a))
                 /\ Basic(filter, s, resets) = Control("filtered", s, resets) \o filter
    BY <1>6, <2>1
  <2>3. DecoderWantsAt(Place(r, e, sz, d, y, u, a)) = "filter"
    BY <1>9, <2>2, TightWanted
  <2>4. PICK d2 : d2 = [d EXCEPT !.filter = "palette"]
    OBVIOUS
  <2>5. Path(Unit("filter", "palette", 0), Place(r, e, sz, d, y, u, a),
          Place(r, e, sz, d2, y, u, a))
    BY <1>2, <2>2, <2>3, <2>4, TightNext
  <2>6. Tightly(d2)
    BY <1>2, <2>2, <2>4, TightlyIs
  <2>7. d2.ctl = "filtered" /\ d2.stream = s /\ d2.len = FALSE /\ d2.colors = FALSE
          /\ d2.filter = "palette"
    BY <2>2, <2>4 DEF Tightly, Decs
  <2>8. DecoderWantsAt(Place(r, e, sz, d2, y, u, a)) = "palette"
    <3>1. ~d2.colors
      BY <2>7
    <3>. QED BY <1>9, <2>7, <3>1, TightWanted
  <2>9. PICK d3 : d3 = [d2 EXCEPT !.colors = TRUE]
    OBVIOUS
  <2>10. Path(Plain("palette", 1), Place(r, e, sz, d2, y, u, a), Place(r, e, sz, d3, y, u, a))
    BY <2>6, <2>8, <2>9, TightNext
  <2>11. Tightly(d3)
    BY <1>2, <2>6, <2>9, TightlyIs
  <2>12. d3.ctl = "filtered" /\ d3.stream = s /\ d3.len = FALSE /\ d3.colors = TRUE
           /\ d3.filter = "palette"
    BY <2>6, <2>7, <2>9 DEF Tightly, Decs
  <2>13. Path(Unit("filter", "palette", 0) \o Plain("palette", 1), Place(r, e, sz, d, y, u, a),
           Place(r, e, sz, d3, y, u, a))
    BY <2>5, <2>10, PathJoined
  <2>14. Path(Control("filtered", s, resets) \o (Unit("filter", "palette", 0)
           \o Plain("palette", 1)), p, Place(r, e, sz, d3, y, u, a))
    BY <2>2, <2>13, PathJoined
  <2>. QED BY <1>3, <1>4, <1>8, <2>2, <2>11, <2>12, <2>14 DEF Filtered
<1>. QED BY <1>5, <1>7, <1>8 DEF Filters

(* The kind of the unit that ends a rectangle, if it has a second cell. *)
LastKind(cells) == cells[Len(cells) - 1].k
LEMMA LastOf ==
    ASSUME NEW a \in Seq(Cells), NEW b \in Seq(Cells), Len(b) >= 2
    PROVE  a \o b \in Seq(Cells) /\ Len(a \o b) >= 2 /\ LastKind(a \o b) = LastKind(b)
<1>1. PICK m \in Nat, n \in Nat : m = Len(a) /\ n = Len(b) /\ n >= 2
  OBVIOUS
<1>2. PICK w : w = a \o b
  OBVIOUS
<1>3. w \in Seq(Cells) /\ Len(w) = m + n
      /\ \A i \in 1..(m + n) : w[i] = IF i <= m THEN a[i] ELSE b[i - m]
  BY <1>1, <1>2, ConcatProperties
<1>4. m + n - 1 \in 1..(m + n) /\ ~(m + n - 1 <= m) /\ m + n - 1 - m = n - 1
  BY <1>1
<1>5. w[m + n - 1] = b[n - 1]
  BY <1>3, <1>4
<1>6. m + n >= 2
  BY <1>1
<1>. QED BY <1>1, <1>2, <1>3, <1>5, <1>6 DEF LastKind

LEMMA LastUnitIs ==
    ASSUME NEW kind \in Kinds
    PROVE  Plain(kind, 1) \in Seq(Cells) /\ Len(Plain(kind, 1)) >= 2
           /\ LastKind(Plain(kind, 1)) = kind
<1>1. PICK c \in Cells : c = Cell(kind, "", 0, {}, 1)
  <2>1. "" \in Words /\ 1 \in 0..1
    BY DEF Words
  <2>. QED BY <2>1, UnitIn
<1>2. c.k = kind
  BY <1>1 DEF Cell
<1>3. PICK w \in Seq(Cells) : w = <<c, Rest>> /\ Len(w) = 2 /\ w[1] = c
  BY UnitOf, Zenon
<1>4. Len(w) = 2 /\ w[1] = c
  BY <1>3
<1>5. Plain(kind, 1) = w
  BY <1>1, <1>3, UnitIs
<1>6. LastKind(w) = kind
  BY <1>2, <1>4 DEF LastKind
<1>7. w \in Seq(Cells) /\ Len(w) >= 2
  BY <1>4
<1>. QED BY <1>5, <1>6, <1>7, Zenon

LEMMA DeflatedIs ==
    ASSUME NEW s \in Streams, NEW y
    PROVE  Deflated(s, y) \in Seq(Cells) /\ Len(Deflated(s, y)) >= 2
           /\ LastKind(Deflated(s, y)) = "deflated"
<1>1. PICK w \in Words : w = IF y[s] THEN "first" ELSE "next"
  BY DEF Words
<1>2. PICK c : c = Cell("deflated", w, s, {}, 1)
  OBVIOUS
<1>3. c.k = "deflated"
  BY <1>2 DEF Cell
<1>4. c \in Cells
  <2>1. s \in 0..Many /\ 1 \in 0..1 /\ {} \in SUBSET Streams /\ "deflated" \in Kinds
    BY NumbersAre DEF Kinds
  <2>. QED BY <1>2, <2>1, CellIs
<1>5. PICK v \in Seq(Cells) : v = <<c, Rest>> /\ Len(v) = 2 /\ v[1] = c
  BY <1>4, UnitOf, Zenon
<1>6. v \in Seq(Cells) /\ Len(v) = 2 /\ v[1] = c
  BY <1>5
<1>7. Deflated(s, y) = v
  BY <1>1, <1>2, <1>5 DEF Deflated, Rest
<1>8. LastKind(v) = "deflated"
  BY <1>3, <1>6 DEF LastKind
<1>9. v \in Seq(Cells) /\ Len(v) >= 2
  BY <1>6
<1>. QED BY <1>7, <1>8, <1>9, Zenon

(* A rectangle by its content, and the kind that ends it. *)
LEMMA TightEnds ==
    ASSUME NEW r \in 1..Many, NEW e \in {"tight", "tightpng"}, NEW sz \in 1..2,
           NEW z \in [Streams -> BOOLEAN], NEW u \in BOOLEAN, NEW a \in Nat,
           NEW first, NEW content, NEW p, NEW q,
           Path(first, Place(r, e, sz, AtRest, z, u, a), p), Path(content, p, q),
           Len(content) >= 2, NEW cells \in Sized(e, sz, first \o content)
    PROVE  Path(cells, Between(r, z, u, a), q) /\ LastKind(cells) = LastKind(content)
<1>1. e \in Known \ {"last", "size", "qemu"} /\ e \notin {"raw", "hextile"}
  BY DEF Known, DataEncodings, PseudoEncodings
<1>2. sz \in 0..Many /\ sz # 0
  BY DEF Many
<1>3. first \in Seq(Cells) /\ content \in Seq(Cells)
  BY DEF Path
<1>4. PICK w : w = first \o content
  OBVIOUS
<1>5. w \in Seq(Cells) /\ Len(w) >= 2 /\ LastKind(w) = LastKind(content)
  BY <1>3, <1>4, LastOf
<1>6. PICK p0 : p0 = Place(r, e, sz, AtRest, z, u, a)
  OBVIOUS
<1>7. Path(w, p0, q)
  BY <1>4, <1>6, PathJoined
<1>8. Path(cells, Between(r, z, u, a), q)
  BY <1>1, <1>2, <1>4, <1>6, <1>7, AtRestIs, RectGoes
<1>9. PICK h \in Seq(Cells) : h = <<Cell("rect", e, sz, {}, 1), Cell("rest", "", 0, {}, 0)>>
  <2>4. {} \in SUBSET Streams /\ 1 \in 0..1
    OBVIOUS
  <2>1. "rect" \in Kinds /\ e \in Words
    BY <1>1 DEF Kinds, Words
  <2>2. PICK c \in Cells : c = Cell("rect", e, sz, {}, 1)
    BY <1>2, <2>1, <2>4, CellIs
  <2>3. <<c, Rest>> \in Seq(Cells)
    BY <2>2, UnitOf
  <2>. QED BY <2>2, <2>3 DEF Rest
<1>10. cells = h \o w
  BY <1>4, <1>9 DEF Sized
<1>11. LastKind(h \o w) = LastKind(w)
  BY <1>5, <1>9, LastOf
<1>. QED BY <1>5, <1>8, <1>10, <1>11

(* The streams after it. *)
TightFresh(cells, s, y) == [y EXCEPT ![s] = @ /\ LastKind(cells) # "deflated"]

LEMMA TightFreshIs ==
    ASSUME NEW cells, NEW y \in [Streams -> BOOLEAN], NEW s \in Streams
    PROVE  /\ LastKind(cells) # "deflated" => TightFresh(cells, s, y) = y
           /\ LastKind(cells) = "deflated" => TightFresh(cells, s, y) = [y EXCEPT ![s] = FALSE]
<1>1. y[s] \in BOOLEAN
  OBVIOUS
<1>2. ASSUME LastKind(cells) # "deflated" PROVE TightFresh(cells, s, y) = y
  <2>1. (y[s] /\ LastKind(cells) # "deflated") = y[s]
    BY <1>1, <1>2
  <2>. QED BY <2>1 DEF TightFresh
<1>3. ASSUME LastKind(cells) = "deflated" PROVE TightFresh(cells, s, y) = [y EXCEPT ![s] = FALSE]
  <2>1. (y[s] /\ LastKind(cells) # "deflated") = FALSE
    BY <1>3
  <2>. QED BY <2>1 DEF TightFresh
<1>. QED BY <1>2, <1>3

LEMMA TightFilled ==
    ASSUME NEW r \in 1..Many, NEW e \in {"tight", "tightpng"},
           NEW z \in [Streams -> BOOLEAN], NEW u \in BOOLEAN, NEW a \in Nat,
           NEW s \in Streams, NEW resets \in SUBSET Streams, NEW y, y = AfterReset(z, resets),
           NEW cells \in Rect(e, Control("fill", 0, resets) \o Plain("pixel", 1))
    PROVE  Arrives(cells, r, z, TightFresh(cells, s, y), u, a)
<1>1. "fill" \in Words \ {"illegal"} /\ 0 \in 0..3 /\ 1 \in 0..Many /\ 1 \in 1..2
        /\ "pixel" \in Kinds
  BY DEF Words, Many, Kinds, Known, DataEncodings, PseudoEncodings
<1>2. y \in [Streams -> BOOLEAN]
  BY DEF AfterReset
<1>3. PICK d : /\ Tightly(d) /\ d.ctl = "fill" /\ Blank(d.filter)
               /\ Path(Control("fill", 0, resets), Place(r, e, 1, AtRest, z, u, a),
                  Place(r, e, 1, d, y, u, a))
  <2>1. PICK d : /\ Tightly(d) /\ d.ctl = "fill" /\ d.stream = 0 /\ d.colors = FALSE
                    /\ d.len = FALSE
                 /\ ("fill" = "copy" => d.filter = "copy") /\ ("fill" # "copy" => Blank(d.filter))
                 /\ Path(Control("fill", 0, resets), Place(r, e, 1, AtRest, z, u, a),
                         Place(r, e, 1, d, AfterReset(z, resets), u, a))
    <3>1. 1 \in 0..Many /\ 0 \in 0..3 /\ "fill" \in Words \ {"illegal"}
      BY <1>1, Zenon
    <3>. QED BY <3>1, TightControlled, Zenon
  <2>2. "fill" # "copy"
    OBVIOUS
  <2>. QED BY <2>1, <2>2, Zenon
<1>4. PICK p : p = Place(r, e, 1, d, y, u, a)
  OBVIOUS
<1>5. p.enc = e /\ p.dec = d
  BY <1>4 DEF Place
<1>6. DecoderWantsAt(p) = "pixel"
  BY <1>3, <1>5, TightWanted
<1>7. PICK q : q = Between(r - 1, y, u, Asks(r - 1, u, a))
  OBVIOUS
<1>8. Path(Plain("pixel", 1), p, q)
  BY <1>1, <1>2, <1>3, <1>4, <1>6, <1>7, TightNext
<1>9. Len(Plain("pixel", 1)) >= 2 /\ LastKind(Plain("pixel", 1)) = "pixel"
  BY <1>1, LastUnitIs
<1>10. cells \in Sized(e, 1, Control("fill", 0, resets) \o Plain("pixel", 1))
  BY DEF Rect
<1>11. Path(cells, Between(r, z, u, a), q) /\ LastKind(cells) = LastKind(Plain("pixel", 1))
  BY <1>1, <1>3, <1>4, <1>8, <1>9, <1>10, TightEnds
<1>12. LastKind(cells) # "deflated"
  BY <1>9, <1>11
<1>13. TightFresh(cells, s, y) = y
  BY <1>2, <1>12, TightFreshIs
<1>. QED BY <1>7, <1>11, <1>13, Zenon DEF Arrives

LEMMA TightImaged ==
    ASSUME NEW r \in 1..Many, NEW e \in {"tight", "tightpng"}, NEW kind \in {"jpeg", "png"},
           NEW z \in [Streams -> BOOLEAN], NEW u \in BOOLEAN, NEW a \in Nat,
           NEW s \in Streams, NEW resets \in SUBSET Streams, NEW y, y = AfterReset(z, resets),
           NEW cells \in Rect(e, Control(kind, 0, resets) \o Length \o Plain("image", 1))
    PROVE  Arrives(cells, r, z, TightFresh(cells, s, y), u, a)
<1>1. kind \in Words \ {"illegal"} /\ 0 \in 0..3 /\ 1 \in 0..Many /\ 1 \in 1..2 /\ "image" \in Kinds
      /\ "" \in Words
  <2>1. kind \in Words \ {"illegal"} /\ "image" \in Kinds
    BY DEF Words, Kinds, Known, DataEncodings
  <2>2. "" \in Words
    BY DEF Words
  <2>3. 0 \in 0..3 /\ 1 \in 0..Many /\ 1 \in 1..2
    BY DEF Many
  <2>. QED BY <2>1, <2>2, <2>3
<1>2. y \in [Streams -> BOOLEAN]
  BY DEF AfterReset
<1>3. PICK d : /\ Tightly(d) /\ d.ctl = kind /\ ~d.len /\ Blank(d.filter)
               /\ Path(Control(kind, 0, resets), Place(r, e, 1, AtRest, z, u, a),
                  Place(r, e, 1, d, y, u, a))
  <2>1. PICK d : /\ Tightly(d) /\ d.ctl = kind /\ d.stream = 0 /\ d.colors = FALSE /\ d.len = FALSE
                 /\ (kind = "copy" => d.filter = "copy") /\ (kind # "copy" => Blank(d.filter))
                 /\ Path(Control(kind, 0, resets), Place(r, e, 1, AtRest, z, u, a),
                         Place(r, e, 1, d, AfterReset(z, resets), u, a))
    <3>1. 1 \in 0..Many /\ 0 \in 0..3 /\ kind \in Words \ {"illegal"}
      BY <1>1, Zenon
    <3>. QED BY <3>1, TightControlled, Zenon
  <2>2. kind # "copy"
    OBVIOUS
  <2>. QED BY <2>1, <2>2, Zenon
<1>4. PICK d2 : d2 = [d EXCEPT !.len = TRUE]
  OBVIOUS
<1>5. Tightly(d2) /\ d2.ctl = kind /\ d2.len /\ d2.filter = d.filter
  <2>1. Tightly(d2)
    BY <1>1, <1>3, <1>4, TightlyIs
  <2>. QED BY <1>3, <1>4, <2>1 DEF Tightly, Decs
<1>6. PICK p, h : p = Place(r, e, 1, d, y, u, a) /\ h = Place(r, e, 1, d2, y, u, a)
  OBVIOUS
<1>7. p.enc = e /\ p.dec = d /\ h.enc = e /\ h.dec = d2
  BY <1>6 DEF Place
<1>8. DecoderWantsAt(p) = "length" /\ DecoderWantsAt(h) = "image"
  <2>1. p.dec.ctl \in {"jpeg", "png"} /\ Blank(p.dec.filter) /\ ~p.dec.len
    BY <1>3, <1>7
  <2>2. h.dec.ctl \in {"jpeg", "png"} /\ Blank(h.dec.filter) /\ h.dec.len
    BY <1>3, <1>5, <1>7
  <2>. QED BY <1>7, <2>1, <2>2, TightWanted
<1>9. PICK q : q = Between(r - 1, y, u, Asks(r - 1, u, a))
  OBVIOUS
<1>10. Path(Length, p, h)
  BY <1>1, <1>2, <1>3, <1>4, <1>6, <1>8, TightNext
<1>11. Path(Plain("image", 1), h, q)
  BY <1>1, <1>2, <1>5, <1>6, <1>8, <1>9, TightNext
<1>12. Len(Plain("image", 1)) >= 2 /\ LastKind(Plain("image", 1)) = "image"
  BY <1>1, LastUnitIs
<1>18. PICK f : f = Control(kind, 0, resets) \o Length
  OBVIOUS
<1>13. Path(f, Place(r, e, 1, AtRest, z, u, a), h)
  BY <1>3, <1>6, <1>10, <1>18, PathJoined
<1>14. cells \in Sized(e, 1, f \o Plain("image", 1))
  BY <1>18 DEF Rect
<1>15. Path(cells, Between(r, z, u, a), q) /\ LastKind(cells) = LastKind(Plain("image", 1))
  <2>1. 1 \in 1..2 /\ Len(Plain("image", 1)) >= 2
    BY <1>12
  <2>. QED BY <1>11, <1>13, <1>14, <2>1, TightEnds
<1>16. LastKind(cells) # "deflated"
  BY <1>12, <1>15
<1>17. TightFresh(cells, s, y) = y
  BY <1>2, <1>16, TightFreshIs
<1>. QED BY <1>9, <1>15, <1>17, Zenon DEF Arrives

LEMMA TightDrawn ==
    ASSUME NEW r \in 1..Many, NEW e \in {"tight", "tightpng"}, NEW filter \in Filters,
           NEW z \in [Streams -> BOOLEAN], NEW u \in BOOLEAN, NEW a \in Nat,
           NEW s \in Streams, NEW resets \in SUBSET Streams, NEW y, y = AfterReset(z, resets),
           NEW cells \in Sized(e, 1, Basic(filter, s, resets) \o Plain("pixels", 1))
    PROVE  Arrives(cells, r, z, TightFresh(cells, s, y), u, a)
<1>1. 1 \in 0..Many /\ 1 \in 1..2 /\ "pixels" \in Kinds
  BY DEF Many, Kinds
<1>2. y \in [Streams -> BOOLEAN]
  BY DEF AfterReset
<1>3. PICK d : /\ Tightly(d) /\ d.stream = s /\ d.len = FALSE /\ Filtered(d)
               /\ Path(Basic(filter, s, resets), Place(r, e, 1, AtRest, z, u, a),
                  Place(r, e, 1, d, y, u, a))
  BY <1>1, TightBasic
<1>4. PICK q : q = Between(r - 1, y, u, Asks(r - 1, u, a))
  OBVIOUS
<1>5. Path(Plain("pixels", 1), Place(r, e, 1, d, y, u, a), q)
  BY <1>2, <1>3, <1>4, TightBody
<1>6. Len(Plain("pixels", 1)) >= 2 /\ LastKind(Plain("pixels", 1)) = "pixels"
  BY <1>1, LastUnitIs
<1>7. Path(cells, Between(r, z, u, a), q) /\ LastKind(cells) = LastKind(Plain("pixels", 1))
  BY <1>1, <1>3, <1>5, <1>6, TightEnds
<1>8. LastKind(cells) # "deflated"
  BY <1>6, <1>7
<1>9. TightFresh(cells, s, y) = y
  BY <1>2, <1>8, TightFreshIs
<1>. QED BY <1>4, <1>7, <1>9, Zenon DEF Arrives

LEMMA TightCompressed ==
    ASSUME NEW r \in 1..Many, NEW e \in {"tight", "tightpng"}, NEW filter \in Filters,
           NEW z \in [Streams -> BOOLEAN], NEW u \in BOOLEAN, NEW a \in Nat,
           NEW s \in Streams, NEW resets \in SUBSET Streams, NEW y, y = AfterReset(z, resets),
           NEW cells \in Sized(e, 2, Compressed(filter, s, resets, y))
    PROVE  Arrives(cells, r, z, TightFresh(cells, s, y), u, a)
<1>1. 2 \in 0..Many /\ 2 \in 1..2 /\ "length" \in Kinds
  BY DEF Many, Kinds
<1>2. y \in [Streams -> BOOLEAN]
  BY DEF AfterReset
<1>3. PICK d : /\ Tightly(d) /\ d.stream = s /\ d.len = FALSE /\ Filtered(d)
               /\ Path(Basic(filter, s, resets), Place(r, e, 2, AtRest, z, u, a),
                  Place(r, e, 2, d, y, u, a))
  BY <1>1, TightBasic
<1>4. PICK q : q = Between(r - 1, [y EXCEPT ![s] = FALSE], u, Asks(r - 1, u, a))
  OBVIOUS
<1>5. PICK rest : rest = Length \o Deflated(s, y)
  OBVIOUS
<1>6. Path(rest, Place(r, e, 2, d, y, u, a), q)
  BY <1>2, <1>3, <1>4, <1>5, TightBody
<1>7. Length \in Seq(Cells)
  BY <1>1, PlainIn DEF Length
<1>8. Deflated(s, y) \in Seq(Cells) /\ Len(Deflated(s, y)) >= 2
        /\ LastKind(Deflated(s, y)) = "deflated"
  BY DeflatedIs
<1>9. Len(rest) >= 2 /\ LastKind(rest) = "deflated"
  BY <1>5, <1>7, <1>8, LastOf
<1>10. Basic(filter, s, resets) \in Seq(Cells)
  BY <1>3 DEF Path
<1>11. Compressed(filter, s, resets, y) = Basic(filter, s, resets) \o rest
  <2>1. Compressed(filter, s, resets, y) = (Basic(filter, s, resets) \o Length) \o Deflated(s, y)
    BY Zenon DEF Compressed
  <2>2. PICK b, l, x : b = Basic(filter, s, resets) /\ l = Length /\ x = Deflated(s, y)
    OBVIOUS
  <2>3. b \in Seq(Cells) /\ l \in Seq(Cells) /\ x \in Seq(Cells)
    BY <1>7, <1>8, <1>10, <2>2
  <2>4. (b \o l) \o x = b \o (l \o x)
    BY <2>3, ConcatAssociative
  <2>. QED BY <1>5, <2>1, <2>2, <2>4, Zenon
<1>12. cells \in Sized(e, 2, Basic(filter, s, resets) \o rest)
  BY <1>11
<1>13. Path(cells, Between(r, z, u, a), q) /\ LastKind(cells) = LastKind(rest)
  BY <1>1, <1>3, <1>6, <1>9, <1>12, TightEnds
<1>14. TightFresh(cells, s, y) = [y EXCEPT ![s] = FALSE]
  BY <1>2, <1>9, <1>13, TightFreshIs
<1>. QED BY <1>4, <1>13, <1>14, Zenon DEF Arrives

LEMMA TightArrives ==
    ASSUME NEW r \in 1..Many, NEW e \in {"tight", "tightpng"},
           NEW z \in [Streams -> BOOLEAN], NEW u \in BOOLEAN, NEW a \in Nat,
           NEW s \in Streams, NEW resets \in SUBSET Streams, NEW y, y = AfterReset(z, resets),
           NEW cells \in TightRects(e, s, resets, y)
    PROVE  Arrives(cells, r, z, TightFresh(cells, s, y), u, a)
<1>1. CASE cells \in Rect(e, Control("fill", 0, resets) \o Plain("pixel", 1))
  BY <1>1, TightFilled
<1>2. ASSUME NEW kind \in {"jpeg", "png"}, cells \in Rect(e, Control(kind, 0, resets) \o Length
             \o Plain("image", 1))
      PROVE  Arrives(cells, r, z, TightFresh(cells, s, y), u, a)
  BY <1>2, TightImaged
<1>3. ASSUME NEW f \in Filters, cells \in Sized(e, 1, Basic(f, s, resets) \o Plain("pixels", 1))
      PROVE  Arrives(cells, r, z, TightFresh(cells, s, y), u, a)
  BY <1>3, TightDrawn
<1>4. ASSUME NEW f \in Filters, cells \in Sized(e, 2, Compressed(f, s, resets, y))
      PROVE  Arrives(cells, r, z, TightFresh(cells, s, y), u, a)
  BY <1>4, TightCompressed
<1>5. \/ cells \in Rect(e, Control("fill", 0, resets) \o Plain("pixel", 1))
      \/ \E kind \in {"jpeg", "png"} : cells \in Rect(e, Control(kind, 0, resets) \o Length
         \o Plain("image", 1))
      \/ \E f \in Filters : \/ cells \in Sized(e, 1, Basic(f, s, resets) \o Plain("pixels", 1))
                            \/ cells \in Sized(e, 2, Compressed(f, s, resets, y))
  BY Zenon DEF TightRects
<1>. QED BY <1>1, <1>2, <1>3, <1>4, <1>5

LEMMA TightIllegal ==
    ASSUME NEW r \in 1..Many, NEW e \in {"tight", "tightpng"},
           NEW z \in [Streams -> BOOLEAN], NEW u \in BOOLEAN, NEW a \in Nat,
           NEW cells \in IllegalRect(e)
    PROVE  Arrives(cells, r, z, z, u, a)
<1>1. e \in Known \ {"last", "size", "qemu"} /\ e \notin {"raw", "hextile"}
  BY DEF Known, DataEncodings, PseudoEncodings
<1>2. "ctl" \in Kinds /\ "illegal" \in Words /\ 1 \in 0..Many
  BY DEF Kinds, Words, Many
<1>3. PICK p : p = Place(r, e, 1, AtRest, z, u, a)
  OBVIOUS
<1>4. p.enc = e /\ p.dec = AtRest
  BY <1>3 DEF Place
<1>5. DecoderWantsAt(p) = "ctl"
  <2>1. PICK o : o = AtRest /\ o.ctl = "" /\ o.filter = ""
    BY AtRestIs
  <2>2. TightWantsAt(p) = "ctl"
    <3>1. p.dec.ctl = "" /\ p.dec.filter = ""
      BY <1>4, <2>1, Zenon
    <3>. QED BY <3>1 DEF TightWantsAt
  <2>3. CASE e = "tight"
    BY <1>4, <2>2, <2>3 DEF DecoderWantsAt
  <2>4. CASE e = "tightpng"
    BY <1>4, <2>2, <2>4 DEF DecoderWantsAt
  <2>. QED BY <2>3, <2>4
<1>6. PICK c \in Cells : c = Cell("ctl", "illegal", 0, {}, 0)
  <2>1. 0 \in 0..1
    OBVIOUS
  <2>. QED BY <1>2, <2>1, UnitIn
<1>7. c.k = "ctl" /\ c.v = "illegal" /\ c.n = 0
  BY <1>6 DEF Cell
<1>8. AtRest \in Decs
  BY AtRestIs
<1>14. Breaks(<<c>>, p, a)
  <2>1. e \in Known /\ c.k \in {"tight", "tile", "segment", "zdata", "ctl"}
    BY <1>1, <1>7
  <2>. QED BY <1>2, <1>3, <1>5, <1>7, <1>8, <2>1, UnitThrows
<1>9. PICK m : m.dead /\ m.asks = a /\ Path(<<c>>, p, m)
  BY <1>14, Zenon DEF Breaks
<1>10. Unit("ctl", "illegal", 0) = <<c>>
  BY <1>6, UnitIs
<1>11. cells \in Sized(e, 1, Unit("ctl", "illegal", 0))
  BY DEF IllegalRect, Rect
<1>12. Path(Unit("ctl", "illegal", 0), p, m)
  BY <1>9, <1>10
<1>13. Path(cells, Between(r, z, u, a), m)
  BY <1>1, <1>2, <1>3, <1>8, <1>11, <1>12, RectGoes
<1>. QED BY <1>9, <1>13 DEF Arrives

(* A rectangle of any encoding but Tight. *)
LEMMA RectArrives ==
    ASSUME NEW r \in 1..Many, NEW z \in [Streams -> BOOLEAN], NEW u \in BOOLEAN, NEW a \in Nat,
           NEW enc \in Encodings \ {"tight", "tightpng"}, NEW cells \in Rects(enc)
    PROVE  Arrives(cells, r, z, z, u, a)
<1>1. enc \in {"raw", "copyrect", "rre", "hextile", "zrle", "jpeg", "cursor", "vmware", "name",
        "screens",
               "led", "size", "qemu", "other"}
  BY SessAssumption DEF Known, DataEncodings, PseudoEncodings
<1>2. CASE enc = "raw"
  BY <1>2, RawRects
<1>3. CASE enc = "rre"
  BY <1>3, RreRects
<1>4. CASE enc = "hextile"
  BY <1>4, HextileRects
<1>5. CASE enc = "zrle"
  BY <1>5, ZrleRects
<1>6. CASE enc = "jpeg"
  BY <1>6, JpegRects
<1>11. 0 \in 0..1 /\ 1 \in 0..1 /\ 1 \in 0..Many
  BY DEF Many
<1>7. CASE enc = "copyrect"
  <2>1. cells \in Rect(enc, Plain("source", 1))
    BY <1>7 DEF Rects
  <2>2. enc \in {"copyrect", "cursor", "vmware", "name", "screens", "led"}
        /\ "source" = (IF enc = "copyrect" THEN "source" ELSE enc)
    BY <1>7
  <2>. QED BY <1>11, <2>1, <2>2, WholeUnit
<1>8. CASE enc \in {"cursor", "vmware", "name", "screens"}
  <2>1. cells \in Rect(enc, Plain(enc, 1))
    BY <1>8 DEF Rects
  <2>2. enc \in {"copyrect", "cursor", "vmware", "name", "screens", "led"}
        /\ enc = (IF enc = "copyrect" THEN "source" ELSE enc)
    BY <1>8
  <2>. QED BY <1>11, <2>1, <2>2, WholeUnit
<1>9. CASE enc = "led"
  <2>1. cells \in Rect(enc, Plain(enc, 0))
    BY <1>9 DEF Rects
  <2>2. enc \in {"copyrect", "cursor", "vmware", "name", "screens", "led"}
        /\ enc = (IF enc = "copyrect" THEN "source" ELSE enc)
    BY <1>9
  <2>. QED BY <1>11, <2>1, <2>2, WholeUnit
<1>10. CASE enc \in {"size", "qemu", "other"}
  <2>1. cells \in Sized(enc, 1, <<>>)
    BY <1>10 DEF Rects, Rect
  <2>2. enc \in Words /\ (enc \notin Known \/ enc \in {"size", "qemu"})
    BY <1>10 DEF Words, Known, DataEncodings, PseudoEncodings
  <2>. QED BY <1>11, <2>1, <2>2, RectIsHead
<1>. QED BY <1>1, <1>2, <1>3, <1>4, <1>5, <1>6, <1>7, <1>8, <1>9, <1>10

LEMMA IllegalArrives ==
    ASSUME NEW r \in 1..Many, NEW z \in [Streams -> BOOLEAN], NEW u \in BOOLEAN, NEW a \in Nat,
           NEW enc \in Illegal, NEW cells \in IllegalRect(enc)
    PROVE  Arrives(cells, r, z, z, u, a)
<1>1. CASE enc = "hextile"
  BY <1>1, HextileIllegal
<1>2. CASE enc = "jpeg"
  BY <1>2, JpegRects
<1>3. CASE enc = "zrle"
  BY <1>3, ZrleRects
<1>4. CASE enc \in {"tight", "tightpng"}
  BY <1>4, TightIllegal
<1>. QED BY <1>1, <1>2, <1>3, <1>4 DEF Illegal

(* A message, the head of an update and the last rectangle of one. *)
LEMMA MessageGoes ==
    ASSUME NEW r \in 0..Many, NEW z \in [Streams -> BOOLEAN], NEW u \in BOOLEAN, NEW u2 \in BOOLEAN,
           u => u2, NEW a \in Nat, NEW c \in Cells,
           MessageMeans(Between(0, z, u, a), c, Between(r, z, u2, a))
    PROVE  /\ c.n = 0 => Path(<<c>>, Between(0, z, u, a), Between(r, z, u2, a))
           /\ c.n = 1 => Path(<<c, Rest>>, Between(0, z, u, a), Between(r, z, u2, a))
<1>1. 0 \in 0..Many
  BY NumbersAre
<1>2. PICK p, m : p = Between(0, z, u, a) /\ m = Between(r, z, u2, a)
  OBVIOUS
<1>3. p \in Places /\ Tidy(p) /\ m \in Places /\ Tidy(m)
  BY <1>1, <1>2, AtIs, AtRestIs DEF Between
<1>4. p.asks = a /\ p.upd = u /\ p.skip = 0 /\ p.dead = FALSE /\ m.asks = a /\ m.upd = u2
        /\ m.skip = 0
  BY <1>2 DEF Between, Place
<1>5. Before(p, m) /\ Before(m, m)
  BY <1>3, <1>4 DEF Before
<1>6. Means(p, c, m)
  BY <1>2 DEF Means
<1>7. ~p.dead
  BY <1>4
<1>. QED BY <1>2, <1>4, <1>5, <1>6, <1>7, UnitPath

LEMMA MessageArrives ==
    ASSUME NEW z \in [Streams -> BOOLEAN], NEW u \in BOOLEAN, NEW a \in Nat,
           NEW kind \in MessageKinds \ {"fbu", "eocu"}, NEW v \in Words, NEW n \in 0..1
    PROVE  Path(Unit(kind, v, n), Between(0, z, u, a), Between(0, z, u, a))
<1>1. kind \in Kinds
  BY DEF MessageKinds, Kinds
<1>2. PICK c \in Cells : c = Cell(kind, v, 0, {}, n)
  BY <1>1, UnitIn
<1>3. c.k = kind /\ c.n = n
  BY <1>2 DEF Cell
<1>4. PICK p : p = Between(0, z, u, a)
  OBVIOUS
<1>5. /\ p.rects = 0 /\ p.enc = NoEncoding /\ p.size = 0 /\ p.dec = AtRest /\ p.fresh = z
         /\ p.upd = u
      /\ p.asks = a
  BY <1>4 DEF Between, Place
<1>6. MessageMeans(p, c, Between(0, z, u, a))
  BY <1>3, <1>5 DEF MessageMeans, Between
<1>7. /\ n = 0 => Path(<<c>>, p, p)
      /\ n = 1 => Path(<<c, Rest>>, p, p)
  BY <1>3, <1>4, <1>6, NumbersAre, MessageGoes
<1>8. n = 0 \/ n = 1
  OBVIOUS
<1>9. Unit(kind, v, n) = IF n = 0 THEN <<c>> ELSE <<c, Rest>>
  BY <1>2, <1>8, UnitIs
<1>. QED BY <1>4, <1>7, <1>8, <1>9

LEMMA MessagesArrive ==
    ASSUME NEW z \in [Streams -> BOOLEAN], NEW u \in BOOLEAN, NEW a \in Nat, NEW m \in Messages
    PROVE  Path(m, Between(0, z, u, a), Between(0, z, u, a))
<1>1. \A k \in {"bell", "cut", "fence", "xvp", "colours", "unknown"} :
        k \in MessageKinds \ {"fbu", "eocu"}
  BY DEF MessageKinds
<1>2. "" \in Words /\ "bad" \in Words /\ "init" \in Words
  BY DEF Words
<1>3. 0 \in 0..1 /\ 1 \in 0..1
  OBVIOUS
<1>4. \E k \in {"bell", "cut", "fence", "xvp", "colours", "unknown"}, v \in Words, n \in 0..1 :
        m = Unit(k, v, n)
  BY <1>2, <1>3, Zenon DEF Messages, Plain
<1>. QED BY <1>1, <1>4, MessageArrives

LEMMA OfferArrives ==
    ASSUME NEW z \in [Streams -> BOOLEAN], NEW u \in BOOLEAN, NEW a \in Nat
    PROVE  Path(Plain("eocu", 0), Between(0, z, u, a), Between(0, z, TRUE, a))
<1>1. "eocu" \in Kinds /\ "" \in Words
  BY DEF Kinds, Words
<1>10. 0 \in 0..1
  OBVIOUS
<1>2. PICK c \in Cells : c = Cell("eocu", "", 0, {}, 0)
  BY <1>1, <1>10, UnitIn
<1>3. c.k = "eocu" /\ c.n = 0
  BY <1>2 DEF Cell
<1>4. PICK p : p = Between(0, z, u, a)
  OBVIOUS
<1>5. /\ p.rects = 0 /\ p.enc = NoEncoding /\ p.size = 0 /\ p.dec = AtRest /\ p.fresh = z
         /\ p.asks = a
  BY <1>4 DEF Between, Place
<1>6. MessageMeans(p, c, Between(0, z, TRUE, a))
  BY <1>3, <1>5 DEF MessageMeans, Between
<1>7. Path(<<c>>, p, Between(0, z, TRUE, a))
  BY <1>3, <1>4, <1>6, NumbersAre, MessageGoes
<1>8. Plain("eocu", 0) = <<c>>
  BY <1>2, UnitIs
<1>. QED BY <1>4, <1>7, <1>8

LEMMA UpdateArrives ==
    ASSUME NEW z \in [Streams -> BOOLEAN], NEW u \in BOOLEAN, NEW a \in Nat, NEW n \in 0..Many
    PROVE  Path(<<Cell("fbu", "", n, {}, 1), Cell("rest", "", 0, {}, 0)>>,
                Between(0, z, u, a), Between(n, z, u, a))
<1>1. "fbu" \in Kinds /\ "" \in Words
  BY DEF Kinds, Words
<1>10. 1 \in 0..1 /\ {} \in SUBSET Streams
  OBVIOUS
<1>2. PICK c : c = Cell("fbu", "", n, {}, 1)
  OBVIOUS
<1>11. c \in Cells
  BY <1>1, <1>2, <1>10, CellIs
<1>3. c.k = "fbu" /\ c.n = 1 /\ c.s = n
  BY <1>2 DEF Cell
<1>4. PICK p : p = Between(0, z, u, a)
  OBVIOUS
<1>5. /\ p.rects = 0 /\ p.enc = NoEncoding /\ p.size = 0 /\ p.dec = AtRest /\ p.fresh = z
         /\ p.asks = a
      /\ p.upd = u
  BY <1>4 DEF Between, Place
<1>6. MessageMeans(p, c, Between(n, z, u, a))
  BY <1>3, <1>5 DEF MessageMeans, Between
<1>7. Path(<<c, Rest>>, p, Between(n, z, u, a))
  BY <1>3, <1>4, <1>6, <1>11, MessageGoes
<1>8. <<Cell("fbu", "", n, {}, 1), Cell("rest", "", 0, {}, 0)>> = <<c, Rest>>
  BY <1>2 DEF Rest
<1>. QED BY <1>4, <1>7, <1>8

LEMMA LastArrives ==
    ASSUME NEW r \in 1..Many, NEW z \in [Streams -> BOOLEAN], NEW u \in BOOLEAN, NEW a \in Nat,
           NEW cells \in Rect("last", <<>>)
    PROVE  Path(cells, Between(r, z, u, a), Between(0, z, u, Asks(0, u, a)))
<1>1. /\ r \in 0..Many /\ r > 0 /\ 0 \in 0..Many
      /\ NoEncoding \in Known \cup {NoEncoding}
      /\ Asks(0, u, a) \in Nat /\ a <= Asks(0, u, a)
  BY DEF Many, Asks
<1>2. PICK p, m : p = Between(r, z, u, a) /\ m = Between(0, z, u, Asks(0, u, a))
  OBVIOUS
<1>3. p \in Places /\ Tidy(p) /\ m \in Places /\ Tidy(m)
  BY <1>1, <1>2, AtIs, AtRestIs DEF Between
<1>4. /\ p.asks = a /\ p.upd = u /\ p.skip = 0 /\ p.dead = FALSE /\ p.rects = r
         /\ p.enc = NoEncoding
      /\ p.dec = AtRest /\ p.fresh = z /\ m.asks = Asks(0, u, a) /\ m.upd = u /\ m.skip = 0
  BY <1>2 DEF Place, Between
<1>5. Before(p, m) /\ Before(m, m) /\ ~p.dead
  BY <1>1, <1>3, <1>4 DEF Before
<1>7. PICK c : c = Cell("rect", "last", 1, {}, 1)
  OBVIOUS
<1>8. c.k = "rect" /\ c.v = "last" /\ c.s = 1 /\ c.n = 1
  BY <1>7 DEF Cell
<1>9. c \in Cells
  <2>1. "rect" \in Kinds /\ "last" \in Words /\ 1 \in 0..Many
    BY DEF Kinds, Words, Known, Many
  <2>2. 1 \in 0..1 /\ {} \in SUBSET Streams
    OBVIOUS
  <2>. QED BY <1>7, <2>1, <2>2, CellIs
<1>10. m = Ends(p, 0, p.dec, p.fresh)
  BY <1>2, <1>4 DEF Ends, Between
<1>11. RectMeans(p, c, m)
  BY <1>1, <1>4, <1>8, <1>10 DEF RectMeans
<1>12. Path(<<c, Rest>>, p, m)
  BY <1>4, <1>5, <1>8, <1>9, <1>11, UnitPath DEF Means
<1>14. <<c, Rest>> \in Seq(Cells)
  BY <1>9, RestIs
<1>15. cells = <<c, Rest>> \o <<>>
  BY <1>7 DEF Rect, Sized, Rest
<1>16. cells = <<c, Rest>>
  BY <1>14, <1>15, ConcatEmptySeq
<1>. QED BY <1>2, <1>12, <1>16

-----------------------------------------------------------------------------
(* The unit in front is taken. *)
LEMMA PathEnd ==
    ASSUME NEW cells, NEW p, NEW q, Path(cells, p, q)
    PROVE  cells \in Seq(Cells) /\ Before(p, q) /\ Before(q, q)
<1>1. PICK f : Leads(cells, p, q, f)
  BY DEF Path
<1>2. cells \in Seq(Cells)
  BY DEF Path
<1>3. PICK n \in Nat : n = Len(cells)
  BY <1>2
<1>4. 1 \in 1..(n + 1) /\ n + 1 \in 1..(n + 1)
  BY <1>3
<1>. QED BY <1>1, <1>2, <1>3, <1>4 DEF Leads

LEMMA Dropped ==
    ASSUME NEW S, NEW s \in Seq(S), NEW n \in Nat, NEW j \in Nat, Len(s) = j + n
    PROVE  /\ SubSeq(s, n + 1, Len(s)) \in Seq(S) /\ Len(SubSeq(s, n + 1, Len(s))) = j
           /\ \A i \in 1..j : SubSeq(s, n + 1, Len(s))[i] = s[i + n]
<1>1. \A i \in (n + 1)..(j + n) : s[i] \in S
  OBVIOUS
<1>2. n + 1 \in Int /\ j + n \in Int /\ (j + n) - (n + 1) + 1 = j /\ (j > 0 <=> n + 1 <= j + n)
  OBVIOUS
<1>3. PICK b : b = SubSeq(s, n + 1, j + n)
  OBVIOUS
<1>4. /\ b \in Seq(S)
      /\ Len(b) = IF n + 1 <= j + n THEN (j + n) - (n + 1) + 1 ELSE 0
      /\ \A i \in 1..((j + n) - (n + 1) + 1) : b[i] = s[(n + 1) + i - 1]
  BY <1>1, <1>2, <1>3, SubSeqProperties
<1>5. Len(b) = j
  BY <1>2, <1>4
<1>6. ASSUME NEW i \in 1..j PROVE b[i] = s[i + n]
  <2>1. (n + 1) + i - 1 = i + n
    OBVIOUS
  <2>. QED BY <1>2, <1>4, <2>1
<1>. QED BY <1>3, <1>4, <1>5, <1>6

LEMMA DropConcat ==
    ASSUME NEW S, NEW s \in Seq(S), NEW t \in Seq(S), NEW n \in Nat, NEW j \in Nat, Len(s) = j + n
    PROVE  SubSeq(s \o t, n + 1, Len(s \o t)) = SubSeq(s, n + 1, Len(s)) \o t
<1>1. PICK k \in Nat, l \in Nat : k = Len(s) /\ l = Len(t)
  <2>1. Len(s) \in Nat /\ Len(t) \in Nat
    OBVIOUS
  <2>. QED BY <2>1, Zenon
<1>4. PICK w : w = s \o t
  OBVIOUS
<1>2. k = j + n
  BY <1>1
<1>3. PICK b : b = SubSeq(s, n + 1, Len(s)) /\ b \in Seq(S) /\ Len(b) = j /\
           \A i \in 1..j : b[i] = s[i + n]
  <2>2. /\ SubSeq(s, n + 1, Len(s)) \in Seq(S) /\ Len(SubSeq(s, n + 1, Len(s))) = j
        /\ \A i \in 1..j : SubSeq(s, n + 1, Len(s))[i] = s[i + n]
    BY Dropped
  <2>. QED BY <2>2, Zenon
<1>5. w \in Seq(S) /\ Len(w) = k + l /\ \A i \in 1..(k + l) :
        w[i] = IF i <= k THEN s[i] ELSE t[i - k]
  BY <1>1, <1>4, ConcatProperties
<1>6. PICK f \in Nat : f = j + l
  BY <1>1
<1>12. Len(w) = f + n
  BY <1>1, <1>2, <1>5, <1>6
<1>7. PICK v : v = SubSeq(w, n + 1, Len(w)) /\ v \in Seq(S) /\ Len(v) = f
               /\ \A i \in 1..f : v[i] = w[i + n]
  <2>1. w \in Seq(S)
    BY <1>5
  <2>2. /\ SubSeq(w, n + 1, Len(w)) \in Seq(S) /\ Len(SubSeq(w, n + 1, Len(w))) = f
        /\ \A i \in 1..f : SubSeq(w, n + 1, Len(w))[i] = w[i + n]
    BY <1>12, <2>1, Dropped
  <2>. QED BY <2>2, Zenon
<1>8. PICK x : x = b \o t
  OBVIOUS
<1>9. /\ x \in Seq(S) /\ Len(x) = j + l
      /\ \A i \in 1..(j + l) : x[i] = IF i <= j THEN b[i] ELSE t[i - j]
  <2>1. /\ b \o t \in Seq(S) /\ Len(b \o t) = Len(b) + Len(t)
        /\ \A i \in 1..(Len(b) + Len(t)) : (b \o t)[i] = IF i <= Len(b) THEN b[i] ELSE t[i - Len(b)]
    BY <1>3, ConcatProperties
  <2>2. Len(b) = j /\ Len(t) = l
    BY <1>1, <1>3
  <2>. QED BY <1>8, <2>1, <2>2, Zenon
<1>10. ASSUME NEW i \in 1..(j + l) PROVE v[i] = x[i]
  <2>1. i + n \in 1..(k + l) /\ (i <= j <=> i + n <= k) /\ (i + n) - k = i - j
    BY <1>1, <1>2
  <2>2. v[i] = IF i + n <= k THEN s[i + n] ELSE t[(i + n) - k]
    BY <1>5, <1>6, <1>7, <2>1
  <2>3. i <= j => b[i] = s[i + n]
    BY <1>3
  <2>. QED BY <1>9, <2>1, <2>2, <2>3
<1>11. v = x
  BY <1>6, <1>7, <1>9, <1>10, SeqEqual
<1>. QED BY <1>3, <1>4, <1>7, <1>8, <1>11, Zenon

SomeAt(m) == \E r, e, sz, d, z, u, a : m = Place(r, e, sz, d, z, u, a)

LEMMA DecodedIsAt ==
    ASSUME NEW p, NEW d, NEW z, NEW done
    PROVE  SomeAt(Decoded(p, d, z, done))
<1>1. CASE done
  BY <1>1, Zenon DEF Decoded, Ends, SomeAt
<1>2. CASE ~done
  BY <1>2, Zenon DEF Decoded, Goes, SomeAt
<1>. QED BY <1>1, <1>2

Skipped(m, h, n) == h.skip = n /\ h.dead = m.dead /\ [h EXCEPT !.skip = 0] = m

LEMMA MeansSkips ==
    ASSUME NEW p \in Places, p.skip = 0, NEW c, NEW m, Means(p, c, m), NEW n,
           NEW h, h = [m EXCEPT !.skip = n]
    PROVE  /\ m.skip = 0
           /\ [m EXCEPT !.skip = 0] = m
           /\ Skipped(m, h, n)
<1>1. m = Dead(p) \/ SomeAt(m)
  <2>2. CASE MessageMeans(p, c, m)
    BY <2>2, Zenon DEF MessageMeans, SomeAt
  <2>3. CASE RectMeans(p, c, m)
    BY <2>3, Zenon DEF RectMeans, Ends, SomeAt
  <2>4. CASE WholeMeans(p, c, m)
    BY DecodedIsAt, <2>4, Zenon DEF WholeMeans
  <2>5. CASE CountMeans(p, c, m)
    <3>1. \E d, done : m = Decoded(p, d, p.fresh, done)
      BY <2>5 DEF CountMeans
    <3>. QED BY DecodedIsAt, <3>1
  <2>6. CASE BlockMeans(p, c, m)
    BY DecodedIsAt, <2>6, Zenon DEF BlockMeans
  <2>7. CASE TightMeans(p, c, m)
    BY DecodedIsAt, <2>7, Zenon DEF TightMeans, ControlMeans
  <2>8. CASE IllegalMeans(p, c, m)
    BY <2>8 DEF IllegalMeans
  <2>. QED BY <2>2, <2>3, <2>4, <2>5, <2>6, <2>7, <2>8 DEF Means, DecodeMeans
<1>2. CASE m = Dead(p)
  <2>1. m \in Places /\ m.skip = 0
    BY <1>2 DEF Dead, Places
  <2>2. h \in [rects : {m.rects}, enc : {m.enc}, size : {m.size}, dec : {m.dec}, fresh : {m.fresh},
               upd : {m.upd}, asks : {m.asks}, skip : {n}, dead : {m.dead}]
    BY <2>1 DEF Places
  <2>3. Skipped(m, h, n)
    BY <2>1, <2>2 DEF Places, Skipped
  <2>. QED BY <2>1, <2>3 DEF Places
<1>3. ASSUME NEW r, NEW e, NEW sz, NEW d, NEW z, NEW u, NEW a, m = Place(r, e, sz, d, z, u, a)
      PROVE  /\ m.skip = 0
             /\ [m EXCEPT !.skip = 0] = m
             /\ Skipped(m, h, n)
  <2>1. m \in [rects : {r}, enc : {e}, size : {sz}, dec : {d}, fresh : {z}, upd : {u}, asks : {a},
               skip : {0}, dead : {FALSE}]
    BY <1>3 DEF Place
  <2>5. m.skip = 0
    BY <2>1
  <2>2. [m EXCEPT !.skip = 0] = m
    BY <2>1
  <2>3. h.skip = n /\ h.dead = m.dead
    BY <2>1
  <2>4. [h EXCEPT !.skip = 0] = m
    BY <2>1
  <2>. QED BY <2>2, <2>3, <2>4, <2>5 DEF Skipped
<1>. QED BY <1>1, <1>2, <1>3 DEF SomeAt

LEMMA FirstOf ==
    ASSUME NEW S, NEW q \in Seq(S), NEW t \in Seq(S), q # <<>>
    PROVE  /\ q[1] \in S /\ SubSeq(q, 2, Len(q)) \in Seq(S)
           /\ Len(SubSeq(q, 2, Len(q))) = Len(q) - 1
           /\ q \o t \in Seq(S) /\ q \o t # <<>> /\ (q \o t)[1] = q[1]
           /\ SubSeq(q \o t, 2, Len(q \o t)) = SubSeq(q, 2, Len(q)) \o t
<1>1. Len(q) \in Nat /\ Len(q) # 0 /\ Len(t) \in Nat
  OBVIOUS
<1>2. PICK n \in Nat, j \in Nat : n = 1 /\ Len(q) = j + n
  <2>1. Len(q) - 1 \in Nat /\ Len(q) = (Len(q) - 1) + 1
    BY <1>1
  <2>. QED BY <2>1
<1>3. SubSeq(q, n + 1, Len(q)) \in Seq(S) /\ Len(SubSeq(q, n + 1, Len(q))) = j
  BY <1>2, Dropped
<1>12. PICK u : u = q \o t
  OBVIOUS
<1>13. SubSeq(u, n + 1, Len(u)) = SubSeq(q, n + 1, Len(q)) \o t
  BY <1>2, <1>12, DropConcat, Zenon
<1>4. n + 1 = 2 /\ j = Len(q) - 1
  BY <1>1, <1>2
<1>5. PICK w : w = q \o t
  OBVIOUS
<1>6. /\ w \in Seq(S) /\ Len(w) = Len(q) + Len(t)
      /\ \A i \in 1..(Len(q) + Len(t)) : w[i] = IF i <= Len(q) THEN q[i] ELSE t[i - Len(q)]
  BY <1>5, ConcatProperties
<1>7. 1 \in 1..(Len(q) + Len(t)) /\ 1 <= Len(q)
  BY <1>1
<1>8. w[1] = q[1] /\ w # <<>>
  <2>1. w[1] = q[1]
    BY <1>6, <1>7
  <2>2. Len(w) # 0
    BY <1>1, <1>6
  <2>. QED BY <2>1, <2>2
<1>9. q[1] \in S
  BY <1>1
<1>10. SubSeq(q, 2, Len(q)) \in Seq(S) /\ Len(SubSeq(q, 2, Len(q))) = Len(q) - 1
  BY <1>3, <1>4
<1>11. SubSeq(q \o t, 2, Len(q \o t)) = SubSeq(q, 2, Len(q)) \o t
  BY <1>4, <1>12, <1>13, Zenon
<1>. QED BY <1>5, <1>6, <1>8, <1>9, <1>10, <1>11, Zenon

LEMMA TwoDropped ==
    ASSUME NEW S, NEW q \in Seq(S), NEW k \in Nat, Len(q) = k + 2
    PROVE  LET b == SubSeq(q, 2, Len(q)) IN SubSeq(b, 2, Len(b)) = SubSeq(q, 3, Len(q))
<1>1. PICK one \in Nat, two \in Nat : one = 1 /\ two = 2
  OBVIOUS
<1>2. PICK b : b = SubSeq(q, one + 1, Len(q))
  OBVIOUS
<1>3. k + 1 \in Nat /\ Len(q) = (k + 1) + one /\ Len(q) = k + two /\ one + 1 = 2 /\ two + 1 = 3
  BY <1>1
<1>4. b \in Seq(S) /\ Len(b) = k + 1 /\ \A i \in 1..(k + 1) : b[i] = q[i + one]
  BY <1>2, <1>3, Dropped
<1>5. PICK x : x = SubSeq(b, one + 1, Len(b))
  OBVIOUS
<1>6. Len(b) = k + one
  BY <1>1, <1>4
<1>7. x \in Seq(S) /\ Len(x) = k /\ \A i \in 1..k : x[i] = b[i + one]
  <2>1. b \in Seq(S) /\ k \in Nat /\ one \in Nat /\ Len(b) = k + one
    BY <1>4, <1>6, Zenon
  <2>2. /\ SubSeq(b, one + 1, Len(b)) \in Seq(S) /\ Len(SubSeq(b, one + 1, Len(b))) = k
        /\ \A i \in 1..k : SubSeq(b, one + 1, Len(b))[i] = b[i + one]
    BY <2>1, Dropped
  <2>. QED BY <1>5, <2>2, Zenon
<1>8. PICK y : y = SubSeq(q, two + 1, Len(q))
  OBVIOUS
<1>9. y \in Seq(S) /\ Len(y) = k /\ \A i \in 1..k : y[i] = q[i + two]
  BY <1>3, <1>8, Dropped
<1>10. ASSUME NEW i \in 1..k PROVE x[i] = y[i]
  <2>1. i + one \in 1..(k + 1) /\ (i + one) + one = i + two
    BY <1>1
  <2>. QED BY <1>4, <1>7, <1>9, <2>1
<1>11. x = y
  <2>1. Len(x) = Len(y) /\ \A i \in 1..Len(x) : x[i] = y[i]
    BY <1>7, <1>9, <1>10
  <2>. QED BY <1>7, <1>9, <2>1, SeqEqual
<1>. QED BY <1>2, <1>3, <1>5, <1>8, <1>11, Zenon

(* Of a unit of two cells the second is passed over. *)
LEMMA UnitMoves ==
    ASSUME NEW p \in Places, p.skip = 0, ~p.dead, NEW c \in Cells, NEW h, Moves(p, c, h)
    PROVE  \E m : /\ Means(p, c, m)
                  /\ c.n = 0 => h = m
                  /\ c.n = 1 => \A o, g : Moves(h, o, g) => m.dead \/ g = m
<1>1. PICK m : Means(p, c, m) /\ h = [m EXCEPT !.skip = c.n]
  BY DEF Moves
<1>2. PICK n : n = c.n
  OBVIOUS
<1>4. h = [m EXCEPT !.skip = n]
  BY <1>1, <1>2
<1>3. m.skip = 0 /\ [m EXCEPT !.skip = 0] = m /\ Skipped(m, h, n)
  BY <1>1, <1>4, MeansSkips
<1>5. h.skip = n /\ h.dead = m.dead /\ [h EXCEPT !.skip = 0] = m
  BY <1>3, Zenon DEF Skipped
<1>6. c.n = 0 => h = m
  BY <1>2, <1>3, <1>4
<1>7. ASSUME c.n = 1, NEW o, NEW g, Moves(h, o, g) PROVE m.dead \/ g = m
  <2>1. h.skip = 1
    BY <1>2, <1>5, <1>7
  <2>. QED BY <1>5, <1>7, <2>1 DEF Moves
<1>. QED BY <1>1, <1>6, <1>7

LEMMA UnitTaken ==
    ASSUME NEW q \in Seq(Cells), NEW t \in Seq(Cells), NEW p \in Places, p.skip = 0, ~p.dead,
           NEW e, Path(q \o t, p, e), q # <<>>, Len(q) > q[1].n
    PROVE  /\ q[1] \in Cells
           /\ \E m : /\ Means(p, q[1], m)
                     /\ m.dead \/ Path(SubSeq(q, q[1].n + 2, Len(q)) \o t, m, e)
<1>1. PICK c \in Cells : c = q[1]
  BY FirstOf
<1>2. PICK b \in Seq(Cells) : b = SubSeq(q, 2, Len(q)) /\ Len(b) = Len(q) - 1
  BY FirstOf
<1>3. PICK w : w = q \o t /\ w # <<>> /\ w[1] = c /\ SubSeq(w, 2, Len(w)) = b \o t
  <2>1. q \o t # <<>> /\ (q \o t)[1] = q[1] /\ SubSeq(q \o t, 2, Len(q
          \o t)) = SubSeq(q, 2, Len(q)) \o t
    BY FirstOf
  <2>. QED BY <1>1, <1>2, <2>1, Zenon
<1>4. PICK h : Moves(p, c, h) /\ Path(b \o t, h, e)
  BY <1>3, PathTaken
<1>5. PICK m : /\ Means(p, c, m)
               /\ c.n = 0 => h = m
               /\ c.n = 1 => \A o, g : Moves(h, o, g) => m.dead \/ g = m
  BY <1>4, UnitMoves
<1>10. c.n = 0 \/ c.n = 1
  BY DEF Cells
<1>11. CASE c.n = 0
  <2>1. c.n + 2 = 2
    BY <1>11
  <2>. QED BY <1>1, <1>2, <1>4, <1>5, <1>11, <2>1
<1>12. CASE c.n = 1
  <2>1. PICK k \in Nat : Len(q) = k + 2
    <3>1. Len(q) \in Nat /\ Len(q) > 1
      BY <1>1, <1>12
    <3>2. Len(q) - 2 \in Nat /\ Len(q) = (Len(q) - 2) + 2
      BY <3>1
    <3>. QED BY <3>2
  <2>2. b # <<>>
    <3>1. Len(b) = k + 1
      BY <1>2, <2>1
    <3>2. Len(b) # 0
      BY <3>1
    <3>. QED BY <3>2
  <2>3. PICK v : v = b \o t /\ v # <<>> /\ SubSeq(v, 2, Len(v)) = SubSeq(b, 2, Len(b)) \o t
    <3>1. b \o t # <<>> /\ SubSeq(b \o t, 2, Len(b \o t)) = SubSeq(b, 2, Len(b)) \o t
      BY <2>2, FirstOf
    <3>. QED BY <3>1, Zenon
  <2>4. PICK g : Moves(h, v[1], g) /\ Path(SubSeq(v, 2, Len(v)), g, e)
    BY <1>4, <2>3, PathTaken
  <2>5. m.dead \/ g = m
    BY <1>5, <1>12, <2>4
  <2>6. SubSeq(b, 2, Len(b)) = SubSeq(q, 3, Len(q))
    BY <1>2, <2>1, TwoDropped
  <2>7. c.n + 2 = 3
    BY <1>12
  <2>. QED BY <1>1, <1>5, <2>3, <2>4, <2>5, <2>6, <2>7
<1>. QED BY <1>10, <1>11, <1>12

-----------------------------------------------------------------------------
(* A step of the parser. *)
Updates == [rects : 0..Many, enc : Known \cup {NoEncoding}, size : 0..Many]
Servers == [left : 0..MaxRects, open : BOOLEAN, requests : Nat, continuous : BOOLEAN,
            offered : BOOLEAN, fresh : [Streams -> BOOLEAN]]
SessTyped == /\ over \in BOOLEAN /\ turn \in BOOLEAN /\ flushing \in BOOLEAN /\ drawing \in BOOLEAN
         /\ updating \in BOOLEAN /\ fbu \in Updates /\ dec \in Decs
            /\ fresh \in [Streams -> BOOLEAN]
         /\ rq \in Seq(Cells) /\ inbox \in Seq(Cells)
         /\ server \in Servers /\ server.requests \in 0..1
Told == (updating /\ ~over => server.continuous) /\ (server.continuous => updating)
Current(a) == Place(fbu.rects, fbu.enc, fbu.size, dec, fresh, updating, a)

(* The state is m, and what is asked for on the way to m is asked for. *)
Carried(m, a) ==
    /\ ~m.dead
    /\ m = Place(fbu'.rects, fbu'.enc, fbu'.size, dec', fresh', updating', m.asks)
    /\ fbu' = [rects |-> fbu'.rects, enc |-> fbu'.enc, size |-> fbu'.size]
    /\ \E n \in {0, 1} : /\ m.asks = a + n
                         /\ server' \in Servers /\ server'.left = server.left
                            /\ server'.open = server.open
                         /\ server'.fresh = server.fresh
                         /\ server'.requests = server.requests + (IF over THEN 0 ELSE n)
Stopped == over' /\ ~turn' /\ UNCHANGED <<fbu, dec, fresh, updating, server>>
Taken == /\ rq' = SubSeq(rq, Head(rq).n + 2, Len(rq))
         /\ garbled' = (garbled \/ (~over /\ ~InStep(Head(rq).k)))
         /\ inbox' = inbox /\ (over => over')
         /\ over' \in BOOLEAN /\ turn' \in BOOLEAN /\ flushing' \in BOOLEAN /\ drawing' \in BOOLEAN
         /\ Told'
Steps(m, a) == Taken /\ (Carried(m, a) \/ (m.dead /\ Stopped))

(* What the current state is, and what is looked for in it. *)
LEMMA CurrentIs ==
    ASSUME NEW a \in Nat, NEW p, p = Current(a)
    PROVE  /\ p.rects = fbu.rects /\ p.enc = fbu.enc /\ p.size = fbu.size /\ p.dec = dec
           /\ p.fresh = fresh /\ p.upd = updating /\ p.asks = a
           /\ p.skip = 0 /\ p.dead = FALSE
BY DEF Current, Place

LEMMA WantsIs ==
    ASSUME NEW a \in Nat, NEW p, p = Current(a)
    PROVE  /\ fbu.rects = 0 => Wants = "message"
           /\ fbu.rects > 0 /\ fbu.enc = NoEncoding => Wants = "rect"
           /\ fbu.rects # 0 /\ fbu.enc # NoEncoding => Wants = DecoderWantsAt(p)
<1>1. p.enc = fbu.enc /\ p.size = fbu.size /\ p.dec = dec
  BY CurrentIs
<1>2. TightWants = TightWantsAt(p)
  BY <1>1, Zenon DEF TightWants, TightWantsAt
<1>3. DecoderWants = DecoderWantsAt(p)
  BY <1>1, <1>2 DEF DecoderWants, DecoderWantsAt
<1>4. fbu.rects = 0 => Wants = "message"
  BY DEF Wants
<1>5. fbu.rects > 0 /\ fbu.enc = NoEncoding => Wants = "rect"
  BY DEF Wants
<1>6. fbu.rects # 0 /\ fbu.enc # NoEncoding => Wants = DecoderWants
  BY DEF Wants
<1>. QED BY <1>3, <1>4, <1>5, <1>6

LEMMA MeansInStep ==
    ASSUME SessTyped, NEW a \in Nat, NEW p, p = Current(a), NEW c \in Cells, NEW m, Means(p, c, m)
    PROVE  /\ InStep(c.k)
           /\ Wants = "message" => MessageMeans(p, c, m)
           /\ Wants = "rect" => RectMeans(p, c, m)
           /\ Wants \notin {"message", "rect"} => DecodeMeans(p, c, m) /\ c.k = Wants
<1>1. p.rects = fbu.rects /\ p.enc = fbu.enc /\ fbu.rects \in Nat
  <2>1. p.rects = fbu.rects /\ p.enc = fbu.enc
    BY CurrentIs
  <2>2. fbu \in Updates
    BY DEF SessTyped
  <2>3. fbu.rects \in Nat
    BY <2>2 DEF Updates, Many
  <2>. QED BY <2>1, <2>3
<1>2. c.k \in Kinds /\ "message" \notin Kinds
  BY DEF Cells, Kinds
<1>3. CASE MessageMeans(p, c, m)
  <2>1. Wants = "message"
    BY <1>1, <1>3, WantsIs DEF MessageMeans
  <2>2. c.k \in MessageKinds
    BY <1>3 DEF MessageMeans, MessageKinds
  <2>. QED BY <1>3, <2>1, <2>2 DEF InStep
<1>4. CASE RectMeans(p, c, m)
  <2>1. Wants = "rect" /\ c.k = "rect"
    BY <1>1, <1>4, WantsIs DEF RectMeans
  <2>. QED BY <1>4, <2>1 DEF InStep
<1>5. CASE DecodeMeans(p, c, m)
  <2>1. Wants = DecoderWantsAt(p) /\ c.k = DecoderWantsAt(p)
    BY <1>1, <1>5, WantsIs DEF DecodeMeans
  <2>2. Wants # "message"
    BY <1>2, <2>1
  <2>3. InStep(c.k)
    BY <2>1, <2>2 DEF InStep
  <2>4. Wants # "rect"
    <3>1. c.k # "rect"
      BY <1>5 DEF DecodeMeans, WholeMeans, CountMeans, BlockMeans, TightMeans, ControlMeans,
        IllegalMeans
    <3>. QED BY <2>1, <3>1
  <2>. QED BY <1>5, <2>1, <2>2, <2>3, <2>4
<1>. QED BY <1>3, <1>4, <1>5 DEF Means

(* The end of a rectangle, and decoding that goes on. *)
LEMMA EndsMoves ==
    ASSUME SessTyped, NEW a \in Nat, NEW left \in 0..Many, NEW d, NEW z,
           NEW m, m = Ends(Current(a), left, d, z),
           RectEnds(left), dec' = d, fresh' = z, updating' = updating
    PROVE  Carried(m, a) /\ turn' \in BOOLEAN /\ (server.continuous = server'.continuous)
<1>1. PICK p : p = Current(a)
  OBVIOUS
<1>2. p.upd = updating /\ p.asks = a
  BY <1>1, CurrentIs
<1>3. m = Place(left, NoEncoding, 0, d, z, updating, Asks(left, updating, a))
  BY <1>1, <1>2 DEF Ends
<1>4. m.asks = Asks(left, updating, a) /\ m.dead = FALSE
  BY <1>3 DEF Place
<1>5. fbu' = [rects |-> left, enc |-> NoEncoding, size |-> 0]
  BY DEF RectEnds, NoUpdate
<1>6. fbu'.rects = left /\ fbu'.enc = NoEncoding /\ fbu'.size = 0
  BY <1>5
<1>7. m = Place(fbu'.rects, fbu'.enc, fbu'.size, dec', fresh', updating', m.asks)
  BY <1>3, <1>4, <1>6
<1>8. server \in Servers /\ over \in BOOLEAN /\ updating \in BOOLEAN
  BY DEF SessTyped
<1>9. CASE left = 0
  <2>1. server' = [server EXCEPT !.requests = @ + (IF updating \/ over THEN 0 ELSE 1)]
    BY <1>9 DEF RectEnds, Asked
  <2>2. PICK k \in {0, 1} : k = IF updating \/ over THEN 0 ELSE 1
    OBVIOUS
  <2>3. server' = [server EXCEPT !.requests = @ + k]
    BY <2>1, <2>2
  <2>4. /\ server' \in Servers /\ server'.left = server.left /\ server'.open = server.open
        /\ server'.fresh = server.fresh /\ server'.continuous = server.continuous
        /\ server'.requests = server.requests + k
    BY <1>8, <2>3 DEF Servers
  <2>5. CASE updating
    <3>1. k = 0 /\ m.asks = a + 0
      BY <1>4, <2>2, <2>5 DEF Asks
    <3>2. 0 \in {0, 1} /\ (IF over THEN 0 ELSE 0) = 0
      OBVIOUS
    <3>3. server'.requests = server.requests + (IF over THEN 0 ELSE 0)
      BY <2>4, <3>1, <3>2
    <3>4. \E n \in {0, 1} : /\ m.asks = a + n
                         /\ server' \in Servers /\ server'.left = server.left
                            /\ server'.open = server.open
                         /\ server'.fresh = server.fresh
                         /\ server'.requests = server.requests + (IF over THEN 0 ELSE n)
      BY <2>4, <3>1, <3>2, <3>3
    <3>5. turn' \in BOOLEAN
      BY <1>9 DEF RectEnds, Turns
    <3>. QED BY <1>4, <1>5, <1>6, <1>7, <2>4, <3>4, <3>5 DEF Carried
  <2>6. CASE ~updating
    <3>1. k = (IF over THEN 0 ELSE 1) /\ m.asks = a + 1
      BY <1>4, <1>9, <2>2, <2>6 DEF Asks
    <3>4. \E n \in {0, 1} : /\ m.asks = a + n
                         /\ server' \in Servers /\ server'.left = server.left
                            /\ server'.open = server.open
                         /\ server'.fresh = server.fresh
                         /\ server'.requests = server.requests + (IF over THEN 0 ELSE n)
      BY <2>4, <3>1
    <3>5. turn' \in BOOLEAN
      BY <1>9 DEF RectEnds, Turns
    <3>. QED BY <1>4, <1>5, <1>6, <1>7, <2>4, <3>4, <3>5 DEF Carried
  <2>. QED BY <2>5, <2>6
<1>10. CASE left # 0
  <2>1. turn' = TRUE /\ server' = server
    <3>1. left > 0
      BY <1>10 DEF Many
    <3>. QED BY <3>1, Zenon DEF RectEnds
  <2>2. m.asks = a + 0
    BY <1>4, <1>10 DEF Asks
  <2>3. server.requests = server.requests + (IF over THEN 0 ELSE 0)
    BY <1>8 DEF Servers
  <2>4. \E n \in {0, 1} : /\ m.asks = a + n
                         /\ server' \in Servers /\ server'.left = server.left
                            /\ server'.open = server.open
                         /\ server'.fresh = server.fresh
                         /\ server'.requests = server.requests + (IF over THEN 0 ELSE n)
    BY <1>8, <2>1, <2>2, <2>3
  <2>. QED BY <1>4, <1>5, <1>6, <1>7, <2>1, <2>4 DEF Carried
<1>. QED BY <1>9, <1>10

LEMMA GoesMoves ==
    ASSUME SessTyped, NEW a \in Nat, NEW m,
           m = Place(fbu'.rects, fbu'.enc, fbu'.size, dec', fresh', updating', a),
           fbu' \in [rects : {fbu'.rects}, enc : {fbu'.enc}, size : {fbu'.size}],
           server' \in Servers, server'.left = server.left, server'.open = server.open,
           server'.fresh = server.fresh, server'.requests = server.requests
    PROVE  Carried(m, a)
<1>1. m.asks = a /\ m.dead = FALSE
  BY DEF Place
<1>2. fbu' = [rects |-> fbu'.rects, enc |-> fbu'.enc, size |-> fbu'.size]
  OBVIOUS
<1>3. m.asks = a + 0 /\ server'.requests = server.requests + (IF over THEN 0 ELSE 0)
  BY <1>1 DEF Servers
<1>4. \E n \in {0, 1} : /\ m.asks = a + n
                        /\ server' \in Servers /\ server'.left = server.left
                           /\ server'.open = server.open
                        /\ server'.fresh = server.fresh
                        /\ server'.requests = server.requests + (IF over THEN 0 ELSE n)
  BY <1>3
<1>5. m = Place(fbu'.rects, fbu'.enc, fbu'.size, dec', fresh', updating', m.asks)
  BY <1>1
<1>. QED BY <1>1, <1>2, <1>4, <1>5 DEF Carried

(* A unit that a decoder takes, by its kind. *)
LEMMA DecodeIs ==
    ASSUME NEW p, NEW c, NEW m, DecodeMeans(p, c, m)
    PROVE  /\ c.k \in {"vmware", "cursor", "name", "led", "screens", "source"} =>
                m = Ends(p, p.rects - 1, p.dec, p.fresh)
           /\ c.k = "line" => LET d == [p.dec EXCEPT !.lines = @ - 1] IN
                m = IF p.dec.lines = 1 THEN Ends(p, p.rects - 1, d, p.fresh) ELSE Goes(p, d,
                  p.fresh)
           /\ c.k = "rre" => LET d == [p.dec EXCEPT !.subrects = c.s] IN
                m = IF c.s = 0 THEN Ends(p, p.rects - 1, d, p.fresh) ELSE Goes(p, d, p.fresh)
           /\ c.k = "subrect" => LET d == [p.dec EXCEPT !.subrects = @ - 1] IN
                m = IF p.dec.subrects = 1 THEN Ends(p, p.rects - 1, d, p.fresh) ELSE Goes(p, d,
                  p.fresh)
           /\ c.k = "tile" /\ c.v # "illegal" => LET d == [p.dec EXCEPT !.tiles = @ - 1] IN
                m = IF p.dec.tiles = 1 THEN Ends(p, p.rects - 1, d, p.fresh) ELSE Goes(p, d,
                  p.fresh)
           /\ c.k = "zlength" => m = Goes(p, [p.dec EXCEPT !.length = TRUE], p.fresh)
           /\ c.k = "zdata" /\ c.v # "illegal"
              => m = Ends(p, p.rects - 1, [p.dec EXCEPT !.length = FALSE], p.fresh)
           /\ c.k = "segment" /\ Blank(c.v) => m = Goes(p, [p.dec EXCEPT !.segments = @ + 1],
              p.fresh)
           /\ c.k = "segment" /\ c.v = "end" => m = Ends(p,
              p.rects - 1, [p.dec EXCEPT !.segments = 0], p.fresh)
<1>1. c.k \in {"vmware", "cursor", "name", "led", "screens", "source"} =>
                m = Ends(p, p.rects - 1, p.dec, p.fresh)
  BY DEF DecodeMeans, WholeMeans, CountMeans, BlockMeans, TightMeans, ControlMeans,
    IllegalMeans, Decoded
<1>2. ASSUME c.k \in {"line", "rre", "subrect", "tile"}, c.k = "tile" => c.v # "illegal"
      PROVE CountMeans(p, c, m)
  BY <1>2 DEF DecodeMeans, WholeMeans, BlockMeans, TightMeans, ControlMeans, IllegalMeans
<1>3. ASSUME c.k \in {"zlength", "zdata", "segment"}, c.v # "illegal" \/ c.k = "zlength"
      PROVE BlockMeans(p, c, m)
  BY <1>3 DEF DecodeMeans, WholeMeans, CountMeans, TightMeans, ControlMeans, IllegalMeans
<1>4. c.k = "line" => LET d == [p.dec EXCEPT !.lines = @ - 1] IN
                m = IF p.dec.lines = 1 THEN Ends(p, p.rects - 1, d, p.fresh) ELSE Goes(p, d,
                  p.fresh)
  BY <1>2 DEF CountMeans, Decoded
<1>5. c.k = "rre" => LET d == [p.dec EXCEPT !.subrects = c.s] IN
                m = IF c.s = 0 THEN Ends(p, p.rects - 1, d, p.fresh) ELSE Goes(p, d, p.fresh)
  BY <1>2 DEF CountMeans, Decoded
<1>6. c.k = "subrect" => LET d == [p.dec EXCEPT !.subrects = @ - 1] IN
                m = IF p.dec.subrects = 1 THEN Ends(p, p.rects - 1, d, p.fresh) ELSE Goes(p, d,
                  p.fresh)
  BY <1>2 DEF CountMeans, Decoded
<1>7. c.k = "tile" /\ c.v # "illegal" => LET d == [p.dec EXCEPT !.tiles = @ - 1] IN
                m = IF p.dec.tiles = 1 THEN Ends(p, p.rects - 1, d, p.fresh) ELSE Goes(p, d,
                  p.fresh)
  BY <1>2 DEF CountMeans, Decoded
<1>8. c.k = "zlength" => m = Goes(p, [p.dec EXCEPT !.length = TRUE], p.fresh)
  BY <1>3 DEF BlockMeans, Decoded
<1>9. c.k = "zdata" /\ c.v # "illegal" => m = Ends(p,
        p.rects - 1, [p.dec EXCEPT !.length = FALSE], p.fresh)
  BY <1>3 DEF BlockMeans, Decoded
<1>10. c.k = "segment" /\ Blank(c.v) => m = Goes(p, [p.dec EXCEPT !.segments = @ + 1], p.fresh)
  BY <1>3 DEF BlockMeans, Decoded, Blank
<1>11. c.k = "segment" /\ c.v = "end" => m = Ends(p, p.rects - 1, [p.dec EXCEPT !.segments = 0],
         p.fresh)
  BY <1>3 DEF BlockMeans, Decoded
<1>. QED BY <1>1, <1>4, <1>5, <1>6, <1>7, <1>8, <1>9, <1>10, <1>11

LEMMA TightIs ==
    ASSUME NEW p, NEW c, NEW m, DecodeMeans(p, c, m)
    PROVE  /\ c.k = "ctl" /\ c.v # "illegal" => ControlMeans(p, c, m)
           /\ c.k = "filter" => m = Goes(p, [p.dec EXCEPT !.filter = c.v], p.fresh)
           /\ c.k = "palette" => m = Goes(p, [p.dec EXCEPT !.colors = TRUE], p.fresh)
           /\ c.k = "length" => m = Goes(p, [p.dec EXCEPT !.len = TRUE], p.fresh)
           /\ c.k \in {"image", "pixel", "pixels"}
              => m = Ends(p, p.rects - 1, TightEmptied(p.dec), p.fresh)
           /\ c.k = "deflated" =>
                /\ (c.v = "first") = p.fresh[p.dec.stream]
                /\ m = Ends(p, p.rects - 1, TightEmptied(p.dec),
                   [p.fresh EXCEPT ![p.dec.stream] = FALSE])
           /\ c.k \in {"tile", "segment", "zdata", "ctl"} /\ c.v = "illegal" => m = Dead(p)
<1>1. ASSUME c.k \in {"ctl", "filter", "palette", "length", "image", "pixel", "pixels", "deflated"},
             c.k = "ctl" => c.v # "illegal"
      PROVE  TightMeans(p, c, m)
  BY <1>1 DEF DecodeMeans, WholeMeans, CountMeans, BlockMeans, IllegalMeans
<1>2. c.k = "ctl" /\ c.v # "illegal" => ControlMeans(p, c, m)
  BY <1>1 DEF TightMeans
<1>3. c.k = "filter" => m = Goes(p, [p.dec EXCEPT !.filter = c.v], p.fresh)
  BY <1>1 DEF TightMeans, ControlMeans, Decoded
<1>4. c.k = "palette" => m = Goes(p, [p.dec EXCEPT !.colors = TRUE], p.fresh)
  BY <1>1 DEF TightMeans, ControlMeans, Decoded
<1>5. c.k = "length" => m = Goes(p, [p.dec EXCEPT !.len = TRUE], p.fresh)
  BY <1>1 DEF TightMeans, ControlMeans, Decoded
<1>6. c.k \in {"image", "pixel", "pixels"} => m = Ends(p, p.rects - 1, TightEmptied(p.dec), p.fresh)
  BY <1>1 DEF TightMeans, ControlMeans, Decoded
<1>7. c.k = "deflated" =>
                /\ (c.v = "first") = p.fresh[p.dec.stream]
                /\ m = Ends(p, p.rects - 1, TightEmptied(p.dec),
                   [p.fresh EXCEPT ![p.dec.stream] = FALSE])
  BY <1>1 DEF TightMeans, ControlMeans, Decoded
<1>8. c.k \in {"tile", "segment", "zdata", "ctl"} /\ c.v = "illegal" => m = Dead(p)
  <2>1. ASSUME c.k \in {"tile", "segment", "zdata", "ctl"}, c.v = "illegal"
        PROVE IllegalMeans(p, c, m)
    BY <2>1 DEF DecodeMeans, WholeMeans, CountMeans, BlockMeans, TightMeans, ControlMeans
  <2>. QED BY <2>1 DEF IllegalMeans
<1>. QED BY <1>2, <1>3, <1>4, <1>5, <1>6, <1>7, <1>8

LEMMA MessageIs ==
    ASSUME NEW p, NEW c, NEW m, MessageMeans(p, c, m)
    PROVE  /\ c.k = "fbu" => m = Place(c.s, NoEncoding, 0, p.dec, p.fresh, p.upd, p.asks)
           /\ c.k = "eocu" => m = Place(0, p.enc, p.size, p.dec, p.fresh, TRUE, p.asks)
           /\ c.k \in MessageKinds \ {"fbu", "eocu"} =>
                m = Place(0, p.enc, p.size, p.dec, p.fresh, p.upd, p.asks)
BY DEF MessageMeans, MessageKinds

LEMMA ToldStill ==
    ASSUME Told, updating' = updating, over => over', server'.continuous = server.continuous
    PROVE  Told'
BY DEF Told

LEMMA DecodeEnds ==
    ASSUME SessTyped, Told, NEW a \in Nat, NEW p, p = Current(a), fbu.rects > 0, NEW d, NEW z,
           NEW m,
           m = Ends(p, p.rects - 1, d, z), Takes, dec' = d, fresh' = z, RectEnds(fbu.rects - 1),
           UNCHANGED <<over, flushing, updating, inbox>>, drawing' \in BOOLEAN
    PROVE  Steps(m, a)
<1>1. p.rects = fbu.rects
  BY CurrentIs
<1>2. fbu.rects - 1 \in 0..Many
  <2>1. fbu \in Updates
    BY DEF SessTyped
  <2>. QED BY <2>1 DEF Updates, Many
<1>3. PICK left \in 0..Many : left = fbu.rects - 1
  BY <1>2
<1>4. RectEnds(left) /\ m = Ends(Current(a), left, d, z) /\ updating' = updating
  BY <1>1, <1>3
<1>5. Carried(m, a) /\ turn' \in BOOLEAN /\ server.continuous = server'.continuous
  BY <1>4, EndsMoves
<1>6. Told'
  BY <1>5, ToldStill
<1>7. over' \in BOOLEAN /\ flushing' \in BOOLEAN /\ inbox' = inbox /\ (over => over')
  BY DEF SessTyped
<1>8. Taken
  BY <1>5, <1>6, <1>7 DEF Taken, Takes
<1>. QED BY <1>5, <1>8 DEF Steps

LEMMA DecodeGoes ==
    ASSUME SessTyped, Told, NEW a \in Nat, NEW p, p = Current(a), NEW d, NEW z, NEW m,
           m = Goes(p, d, z), Takes, dec' = d, fresh' = z, RectGoesOn,
           UNCHANGED <<over, flushing, updating, inbox>>, drawing' \in BOOLEAN
    PROVE  Steps(m, a)
<1>1. /\ p.rects = fbu.rects /\ p.enc = fbu.enc /\ p.size = fbu.size
      /\ p.upd = updating /\ p.asks = a
  BY CurrentIs
<1>2. turn' = TRUE /\ fbu' = fbu /\ server' = server /\ updating' = updating
  BY DEF RectGoesOn
<1>3. fbu \in Updates /\ server \in Servers
  BY DEF SessTyped
<1>4. m = Place(fbu'.rects, fbu'.enc, fbu'.size, dec', fresh', updating', a)
  BY <1>1, <1>2 DEF Goes
<1>5. fbu' \in [rects : {fbu'.rects}, enc : {fbu'.enc}, size : {fbu'.size}]
  BY <1>2, <1>3 DEF Updates
<1>6. Carried(m, a)
  BY <1>2, <1>3, <1>4, <1>5, GoesMoves
<1>7. Told'
  BY <1>2, ToldStill
<1>8. over' \in BOOLEAN /\ flushing' \in BOOLEAN /\ inbox' = inbox /\ (over => over')
  BY DEF SessTyped
<1>9. Taken
  BY <1>2, <1>7, <1>8 DEF Taken, Takes
<1>. QED BY <1>6, <1>9 DEF Steps

(* What is known of a unit before a decoder takes it. *)
Found(p, c, m, a) == /\ SessTyped /\ Told /\ p = Current(a) /\ rq # <<>> /\ c = Head(rq)
                        /\ c \in Cells
                     /\ Means(p, c, m)

LEMMA DecoderFound ==
    ASSUME NEW a \in Nat, NEW p, NEW c, NEW m, Found(p, c, m, a), NEW kinds, Finds(kinds),
           "message" \notin kinds, "rect" \notin kinds
    PROVE  /\ SessTyped /\ Told /\ p = Current(a) /\ fbu.rects > 0
           /\ DecodeMeans(p, c, m) /\ c.k \in kinds
           /\ p.dec = dec /\ p.fresh = fresh /\ Says = c.v /\ Head(rq) = c /\ c \in Cells
           /\ drawing \in BOOLEAN
<1>1. SessTyped /\ Told /\ p = Current(a) /\ c = Head(rq) /\ c \in Cells /\ Means(p, c, m)
  BY DEF Found
<1>2. Wants \in kinds
  BY DEF Finds
<1>3. DecodeMeans(p, c, m) /\ c.k = Wants
  BY <1>1, <1>2, MeansInStep
<1>4. p.dec = dec /\ p.fresh = fresh /\ p.rects = fbu.rects
  BY <1>1, CurrentIs
<1>5. fbu.rects > 0
  BY <1>3, <1>4 DEF DecodeMeans
<1>6. Says = c.v
  BY <1>1 DEF Says
<1>7. drawing \in BOOLEAN
  BY <1>1 DEF SessTyped
<1>. QED BY <1>1, <1>2, <1>3, <1>4, <1>5, <1>6, <1>7

LEMMA WholeSteps ==
    ASSUME NEW a \in Nat, NEW p, NEW c, NEW m, Found(p, c, m, a),
           \/ VMwareCursor \/ Cursor \/ DesktopName \/ LedEvent \/ ExtendedDesktopSize \/ CopyRect
    PROVE  Steps(m, a)
<1>1. PICK kind \in {"vmware", "cursor", "name", "led", "screens", "source"} : WholeRect(kind)
  BY Zenon DEF VMwareCursor, Cursor, DesktopName, LedEvent, ExtendedDesktopSize, CopyRect
<1>2. Finds({kind}) /\ Decodes(dec, TRUE) /\ Drawn
  BY <1>1 DEF WholeRect
<1>3. "message" \notin {kind} /\ "rect" \notin {kind}
  OBVIOUS
<1>4. /\ SessTyped /\ Told /\ p = Current(a) /\ fbu.rects > 0 /\ DecodeMeans(p, c, m)
         /\ c.k \in {kind}
      /\ p.dec = dec /\ p.fresh = fresh /\ drawing \in BOOLEAN
  BY <1>2, <1>3, DecoderFound
<1>5. m = Ends(p, p.rects - 1, dec, fresh)
  BY <1>4, DecodeIs
<1>6. /\ Takes /\ dec' = dec /\ RectEnds(fbu.rects - 1)
         /\ UNCHANGED <<over, flushing, updating, inbox>>
  BY <1>2, Zenon DEF Decodes
<1>7. drawing' \in BOOLEAN /\ fresh' = fresh
  BY <1>2, <1>4 DEF Drawn
<1>. QED BY <1>4, <1>5, <1>6, <1>7, DecodeEnds

LEMMA LineSteps ==
    ASSUME NEW a \in Nat, NEW p, NEW c, NEW m, Found(p, c, m, a), RawLine
    PROVE  Steps(m, a)
<1>1. Finds({"line"}) /\ Drawn
  BY DEF RawLine
<1>2. "message" \notin {"line"} /\ "rect" \notin {"line"}
  OBVIOUS
<1>3. /\ SessTyped /\ Told /\ p = Current(a) /\ fbu.rects > 0 /\ DecodeMeans(p, c, m)
         /\ c.k \in {"line"}
      /\ p.dec = dec /\ p.fresh = fresh /\ drawing \in BOOLEAN
  BY <1>1, <1>2, DecoderFound
<1>4. PICK d : d = [dec EXCEPT !.lines = @ - 1]
  OBVIOUS
<1>5. m = IF dec.lines = 1 THEN Ends(p, p.rects - 1, d, fresh) ELSE Goes(p, d, fresh)
  BY <1>3, <1>4, DecodeIs
<1>6. drawing' \in BOOLEAN /\ fresh' = fresh
  BY <1>1, <1>3 DEF Drawn
<1>7. /\ Takes /\ dec' = d /\ UNCHANGED <<over, flushing, updating, inbox>>
      /\ IF dec.lines = 1 THEN RectEnds(fbu.rects - 1) ELSE RectGoesOn
  BY <1>4, Zenon DEF RawLine, Decodes
<1>8. CASE dec.lines = 1
  BY <1>3, <1>5, <1>6, <1>7, <1>8, DecodeEnds
<1>9. CASE dec.lines # 1
  BY <1>3, <1>5, <1>6, <1>7, <1>9, DecodeGoes
<1>. QED BY <1>8, <1>9

LEMMA RreSteps ==
    ASSUME NEW a \in Nat, NEW p, NEW c, NEW m, Found(p, c, m, a), RreBackground
    PROVE  Steps(m, a)
<1>1. Finds({"rre"}) /\ Drawn
  BY DEF RreBackground
<1>2. "message" \notin {"rre"} /\ "rect" \notin {"rre"}
  OBVIOUS
<1>3. /\ SessTyped /\ Told /\ p = Current(a) /\ fbu.rects > 0 /\ DecodeMeans(p, c, m)
         /\ c.k \in {"rre"}
      /\ p.dec = dec /\ p.fresh = fresh /\ drawing \in BOOLEAN /\ Says = c.v /\ Head(rq) = c
  BY <1>1, <1>2, DecoderFound
<1>4. PICK d : d = [dec EXCEPT !.subrects = c.s]
  OBVIOUS
<1>5. m = IF c.s = 0 THEN Ends(p, p.rects - 1, d, fresh) ELSE Goes(p, d, fresh)
  BY <1>3, <1>4, DecodeIs
<1>6. drawing' \in BOOLEAN /\ fresh' = fresh
  BY <1>1, <1>3 DEF Drawn
<1>7. /\ Takes /\ dec' = d /\ UNCHANGED <<over, flushing, updating, inbox>>
      /\ IF c.s = 0 THEN RectEnds(fbu.rects - 1) ELSE RectGoesOn
  BY <1>3, <1>4, Zenon DEF RreBackground, Decodes
<1>8. CASE c.s = 0
  BY <1>3, <1>5, <1>6, <1>7, <1>8, DecodeEnds
<1>9. CASE ~(c.s = 0)
  BY <1>3, <1>5, <1>6, <1>7, <1>9, DecodeGoes
<1>. QED BY <1>8, <1>9

LEMMA SubrectSteps ==
    ASSUME NEW a \in Nat, NEW p, NEW c, NEW m, Found(p, c, m, a), RreSubrect
    PROVE  Steps(m, a)
<1>1. Finds({"subrect"}) /\ Drawn
  BY DEF RreSubrect
<1>2. "message" \notin {"subrect"} /\ "rect" \notin {"subrect"}
  OBVIOUS
<1>3. /\ SessTyped /\ Told /\ p = Current(a) /\ fbu.rects > 0 /\ DecodeMeans(p, c, m)
         /\ c.k \in {"subrect"}
      /\ p.dec = dec /\ p.fresh = fresh /\ drawing \in BOOLEAN /\ Says = c.v /\ Head(rq) = c
  BY <1>1, <1>2, DecoderFound
<1>4. PICK d : d = [dec EXCEPT !.subrects = @ - 1]
  OBVIOUS
<1>5. m = IF dec.subrects = 1 THEN Ends(p, p.rects - 1, d, fresh) ELSE Goes(p, d, fresh)
  BY <1>3, <1>4, DecodeIs
<1>6. drawing' \in BOOLEAN /\ fresh' = fresh
  BY <1>1, <1>3 DEF Drawn
<1>7. /\ Takes /\ dec' = d /\ UNCHANGED <<over, flushing, updating, inbox>>
      /\ IF dec.subrects = 1 THEN RectEnds(fbu.rects - 1) ELSE RectGoesOn
  BY <1>3, <1>4, Zenon DEF RreSubrect, Decodes
<1>8. CASE dec.subrects = 1
  BY <1>3, <1>5, <1>6, <1>7, <1>8, DecodeEnds
<1>9. CASE ~(dec.subrects = 1)
  BY <1>3, <1>5, <1>6, <1>7, <1>9, DecodeGoes
<1>. QED BY <1>8, <1>9

LEMMA TileSteps ==
    ASSUME NEW a \in Nat, NEW p, NEW c, NEW m, Found(p, c, m, a), HextileTile
    PROVE  Steps(m, a)
<1>1. Finds({"tile"}) /\ Drawn /\ Says # "illegal"
  BY DEF HextileTile
<1>2. "message" \notin {"tile"} /\ "rect" \notin {"tile"}
  OBVIOUS
<1>3. /\ SessTyped /\ Told /\ p = Current(a) /\ fbu.rects > 0 /\ DecodeMeans(p, c, m)
         /\ c.k \in {"tile"}
      /\ p.dec = dec /\ p.fresh = fresh /\ drawing \in BOOLEAN /\ Says = c.v /\ Head(rq) = c
  BY <1>1, <1>2, DecoderFound
<1>4. PICK d : d = [dec EXCEPT !.tiles = @ - 1]
  OBVIOUS
<1>5. m = IF dec.tiles = 1 THEN Ends(p, p.rects - 1, d, fresh) ELSE Goes(p, d, fresh)
  BY <1>1, <1>3, <1>4, DecodeIs
<1>6. drawing' \in BOOLEAN /\ fresh' = fresh
  BY <1>1, <1>3 DEF Drawn
<1>7. /\ Takes /\ dec' = d /\ UNCHANGED <<over, flushing, updating, inbox>>
      /\ IF dec.tiles = 1 THEN RectEnds(fbu.rects - 1) ELSE RectGoesOn
  BY <1>3, <1>4, Zenon DEF HextileTile, Decodes
<1>8. CASE dec.tiles = 1
  BY <1>3, <1>5, <1>6, <1>7, <1>8, DecodeEnds
<1>9. CASE ~(dec.tiles = 1)
  BY <1>3, <1>5, <1>6, <1>7, <1>9, DecodeGoes
<1>. QED BY <1>8, <1>9

LEMMA ZlengthSteps ==
    ASSUME NEW a \in Nat, NEW p, NEW c, NEW m, Found(p, c, m, a), ZrleLength
    PROVE  Steps(m, a)
<1>1. Finds({"zlength"}) /\ Drawn
  BY DEF ZrleLength
<1>2. "message" \notin {"zlength"} /\ "rect" \notin {"zlength"}
  OBVIOUS
<1>3. /\ SessTyped /\ Told /\ p = Current(a) /\ fbu.rects > 0 /\ DecodeMeans(p, c, m)
         /\ c.k \in {"zlength"}
      /\ p.dec = dec /\ p.fresh = fresh /\ drawing \in BOOLEAN /\ Says = c.v
  BY <1>1, <1>2, DecoderFound
<1>4. PICK d : d = [dec EXCEPT !.length = TRUE]
  OBVIOUS
<1>5. m = Goes(p, d, fresh)
  BY <1>3, <1>4, DecodeIs
<1>6. drawing' \in BOOLEAN /\ fresh' = fresh
  BY <1>1, <1>3 DEF Drawn
<1>7. /\ Takes /\ dec' = d /\ RectGoesOn /\ UNCHANGED <<over, flushing, updating, inbox>>
  BY <1>4, Zenon DEF ZrleLength, Decodes
<1>. QED BY <1>3, <1>5, <1>6, <1>7, DecodeGoes

LEMMA ZdataSteps ==
    ASSUME NEW a \in Nat, NEW p, NEW c, NEW m, Found(p, c, m, a), ZrleData
    PROVE  Steps(m, a)
<1>1. Finds({"zdata"}) /\ Drawn /\ Says # "illegal"
  BY DEF ZrleData
<1>2. "message" \notin {"zdata"} /\ "rect" \notin {"zdata"}
  OBVIOUS
<1>3. /\ SessTyped /\ Told /\ p = Current(a) /\ fbu.rects > 0 /\ DecodeMeans(p, c, m)
         /\ c.k \in {"zdata"}
      /\ p.dec = dec /\ p.fresh = fresh /\ drawing \in BOOLEAN /\ Says = c.v
  BY <1>1, <1>2, DecoderFound
<1>4. PICK d : d = [dec EXCEPT !.length = FALSE]
  OBVIOUS
<1>5. m = Ends(p, p.rects - 1, d, fresh)
  BY <1>1, <1>3, <1>4, DecodeIs
<1>6. drawing' \in BOOLEAN /\ fresh' = fresh
  BY <1>1, <1>3 DEF Drawn
<1>7. /\ Takes /\ dec' = d /\ RectEnds(fbu.rects - 1)
         /\ UNCHANGED <<over, flushing, updating, inbox>>
  BY <1>4, Zenon DEF ZrleData, Decodes
<1>. QED BY <1>3, <1>5, <1>6, <1>7, DecodeEnds

LEMMA FilterSteps ==
    ASSUME NEW a \in Nat, NEW p, NEW c, NEW m, Found(p, c, m, a), TightFilter
    PROVE  Steps(m, a)
<1>1. Finds({"filter"}) /\ Drawn
  BY DEF TightFilter
<1>2. "message" \notin {"filter"} /\ "rect" \notin {"filter"}
  OBVIOUS
<1>3. /\ SessTyped /\ Told /\ p = Current(a) /\ fbu.rects > 0 /\ DecodeMeans(p, c, m)
         /\ c.k \in {"filter"}
      /\ p.dec = dec /\ p.fresh = fresh /\ drawing \in BOOLEAN /\ Says = c.v
  BY <1>1, <1>2, DecoderFound
<1>4. PICK d : d = [dec EXCEPT !.filter = Says]
  OBVIOUS
<1>5. m = Goes(p, d, fresh)
  BY <1>3, <1>4, TightIs
<1>6. drawing' \in BOOLEAN /\ fresh' = fresh
  BY <1>1, <1>3 DEF Drawn
<1>7. /\ Takes /\ dec' = d /\ RectGoesOn /\ UNCHANGED <<over, flushing, updating, inbox>>
  BY <1>4, Zenon DEF TightFilter, Decodes
<1>. QED BY <1>3, <1>5, <1>6, <1>7, DecodeGoes

LEMMA PaletteSteps ==
    ASSUME NEW a \in Nat, NEW p, NEW c, NEW m, Found(p, c, m, a), TightPalette
    PROVE  Steps(m, a)
<1>1. Finds({"palette"}) /\ Drawn
  BY DEF TightPalette
<1>2. "message" \notin {"palette"} /\ "rect" \notin {"palette"}
  OBVIOUS
<1>3. /\ SessTyped /\ Told /\ p = Current(a) /\ fbu.rects > 0 /\ DecodeMeans(p, c, m)
         /\ c.k \in {"palette"}
      /\ p.dec = dec /\ p.fresh = fresh /\ drawing \in BOOLEAN /\ Says = c.v
  BY <1>1, <1>2, DecoderFound
<1>4. PICK d : d = [dec EXCEPT !.colors = TRUE]
  OBVIOUS
<1>5. m = Goes(p, d, fresh)
  BY <1>3, <1>4, TightIs
<1>6. drawing' \in BOOLEAN /\ fresh' = fresh
  BY <1>1, <1>3 DEF Drawn
<1>7. /\ Takes /\ dec' = d /\ RectGoesOn /\ UNCHANGED <<over, flushing, updating, inbox>>
  BY <1>4, Zenon DEF TightPalette, Decodes
<1>. QED BY <1>3, <1>5, <1>6, <1>7, DecodeGoes

LEMMA LengthSteps ==
    ASSUME NEW a \in Nat, NEW p, NEW c, NEW m, Found(p, c, m, a), TightLength
    PROVE  Steps(m, a)
<1>1. Finds({"length"}) /\ Drawn
  BY DEF TightLength
<1>2. "message" \notin {"length"} /\ "rect" \notin {"length"}
  OBVIOUS
<1>3. /\ SessTyped /\ Told /\ p = Current(a) /\ fbu.rects > 0 /\ DecodeMeans(p, c, m)
         /\ c.k \in {"length"}
      /\ p.dec = dec /\ p.fresh = fresh /\ drawing \in BOOLEAN /\ Says = c.v
  BY <1>1, <1>2, DecoderFound
<1>4. PICK d : d = [dec EXCEPT !.len = TRUE]
  OBVIOUS
<1>5. m = Goes(p, d, fresh)
  BY <1>3, <1>4, TightIs
<1>6. drawing' \in BOOLEAN /\ fresh' = fresh
  BY <1>1, <1>3 DEF Drawn
<1>7. /\ Takes /\ dec' = d /\ RectGoesOn /\ UNCHANGED <<over, flushing, updating, inbox>>
  BY <1>4, Zenon DEF TightLength, Decodes
<1>. QED BY <1>3, <1>5, <1>6, <1>7, DecodeGoes

LEMMA ImageSteps ==
    ASSUME NEW a \in Nat, NEW p, NEW c, NEW m, Found(p, c, m, a), TightImage
    PROVE  Steps(m, a)
<1>1. Finds({"image"}) /\ WithImage
  BY DEF TightImage
<1>2. "message" \notin {"image"} /\ "rect" \notin {"image"}
  OBVIOUS
<1>3. /\ SessTyped /\ Told /\ p = Current(a) /\ fbu.rects > 0 /\ DecodeMeans(p, c, m)
         /\ c.k \in {"image"}
      /\ p.dec = dec /\ p.fresh = fresh /\ drawing \in BOOLEAN /\ Says = c.v
  BY <1>1, <1>2, DecoderFound
<1>4. PICK d : d = TightDone
  OBVIOUS
<1>5. m = Ends(p, p.rects - 1, d, fresh)
  BY <1>3, <1>4, TightIs DEF TightEmptied, TightDone
<1>6. drawing' \in BOOLEAN /\ fresh' = fresh
  BY <1>1, <1>3 DEF WithImage
<1>7. /\ Takes /\ dec' = d /\ RectEnds(fbu.rects - 1)
         /\ UNCHANGED <<over, flushing, updating, inbox>>
  BY <1>4, Zenon DEF TightImage, Decodes
<1>. QED BY <1>3, <1>5, <1>6, <1>7, DecodeEnds

LEMMA PixelsSteps ==
    ASSUME NEW a \in Nat, NEW p, NEW c, NEW m, Found(p, c, m, a), TightPixels
    PROVE  Steps(m, a)
<1>1. Finds({"pixel", "pixels"}) /\ Drawn
  BY DEF TightPixels
<1>2. "message" \notin {"pixel", "pixels"} /\ "rect" \notin {"pixel", "pixels"}
  OBVIOUS
<1>3. /\ SessTyped /\ Told /\ p = Current(a) /\ fbu.rects > 0 /\ DecodeMeans(p, c, m)
         /\ c.k \in {"pixel", "pixels"}
      /\ p.dec = dec /\ p.fresh = fresh /\ drawing \in BOOLEAN /\ Says = c.v
  BY <1>1, <1>2, DecoderFound
<1>4. PICK d : d = TightDone
  OBVIOUS
<1>5. m = Ends(p, p.rects - 1, d, fresh)
  BY <1>3, <1>4, TightIs DEF TightEmptied, TightDone
<1>6. drawing' \in BOOLEAN /\ fresh' = fresh
  BY <1>1, <1>3 DEF Drawn
<1>7. /\ Takes /\ dec' = d /\ RectEnds(fbu.rects - 1)
         /\ UNCHANGED <<over, flushing, updating, inbox>>
  BY <1>4, Zenon DEF TightPixels, Decodes
<1>. QED BY <1>3, <1>5, <1>6, <1>7, DecodeEnds

LEMMA SegmentSteps ==
    ASSUME NEW a \in Nat, NEW p, NEW c, NEW m, Found(p, c, m, a), JpegSegment
    PROVE  Steps(m, a)
<1>1. Finds({"segment"})
  BY DEF JpegSegment
<1>2. "message" \notin {"segment"} /\ "rect" \notin {"segment"}
  OBVIOUS
<1>3. /\ SessTyped /\ Told /\ p = Current(a) /\ fbu.rects > 0 /\ DecodeMeans(p, c, m)
         /\ c.k \in {"segment"}
      /\ p.dec = dec /\ p.fresh = fresh /\ drawing \in BOOLEAN /\ Says = c.v
  BY <1>1, <1>2, DecoderFound
<1>4. PICK more, none : more = [dec EXCEPT !.segments = @ + 1] /\ none = [dec EXCEPT !.segments = 0]
  OBVIOUS
<1>5. Blank(Says) => m = Goes(p, more, fresh)
  BY <1>3, <1>4, DecodeIs
<1>6. Says = "end" => m = Ends(p, p.rects - 1, none, fresh)
  BY <1>3, <1>4, DecodeIs
<1>7. \/ /\ Blank(Says) /\ Drawn /\ Takes /\ dec' = more /\ RectGoesOn
         /\ UNCHANGED <<over, flushing, updating, inbox>>
      \/ /\ Says = "end" /\ WithImage /\ Takes /\ dec' = none /\ RectEnds(fbu.rects - 1)
         /\ UNCHANGED <<over, flushing, updating, inbox>>
  BY <1>4, Zenon DEF JpegSegment, Decodes, Blank
<1>8. CASE /\ Blank(Says) /\ Drawn /\ Takes /\ dec' = more /\ RectGoesOn
           /\ UNCHANGED <<over, flushing, updating, inbox>>
  <2>1. drawing' \in BOOLEAN /\ fresh' = fresh
    BY <1>3, <1>8 DEF Drawn
  <2>2. m = Goes(p, more, fresh)
    BY <1>5, <1>8
  <2>. QED BY <1>3, <1>8, <2>1, <2>2, DecodeGoes
<1>9. CASE /\ Says = "end" /\ WithImage /\ Takes /\ dec' = none /\ RectEnds(fbu.rects - 1)
           /\ UNCHANGED <<over, flushing, updating, inbox>>
  <2>1. drawing' \in BOOLEAN /\ fresh' = fresh
    BY <1>9 DEF WithImage
  <2>2. m = Ends(p, p.rects - 1, none, fresh)
    BY <1>6, <1>9
  <2>. QED BY <1>3, <1>9, <2>1, <2>2, DecodeEnds
<1>. QED BY <1>7, <1>8, <1>9

LEMMA ControlSteps ==
    ASSUME NEW a \in Nat, NEW p, NEW c, NEW m, Found(p, c, m, a), TightControl
    PROVE  Steps(m, a)
<1>1. Finds({"ctl"}) /\ Says # "illegal"
  BY DEF TightControl
<1>2. "message" \notin {"ctl"} /\ "rect" \notin {"ctl"}
  OBVIOUS
<1>3. /\ SessTyped /\ Told /\ p = Current(a) /\ fbu.rects > 0 /\ DecodeMeans(p, c, m)
         /\ c.k \in {"ctl"}
      /\ p.dec = dec /\ p.fresh = fresh /\ drawing \in BOOLEAN /\ Says = c.v /\ Head(rq) = c
  BY <1>1, <1>2, DecoderFound
<1>4. PICK d : d = [dec EXCEPT !.ctl = c.v, !.stream = c.s,
           !.filter = IF c.v = "copy" THEN "copy" ELSE ""]
  OBVIOUS
<1>5. PICK z : z = AfterReset(fresh, c.z)
  OBVIOUS
<1>6. ControlMeans(p, c, m)
  BY <1>1, <1>3, TightIs
<1>7. m = Goes(p, d, z)
  BY <1>3, <1>4, <1>5, <1>6 DEF ControlMeans, Decoded
<1>8. drawing' \in BOOLEAN /\ fresh' = z
  BY <1>3, <1>5, Zenon DEF TightControl
<1>9. /\ Takes /\ dec' = d /\ RectGoesOn /\ UNCHANGED <<over, flushing, updating, inbox>>
  BY <1>3, <1>4, Zenon DEF TightControl, Decodes
<1>. QED BY <1>3, <1>7, <1>8, <1>9, DecodeGoes

LEMMA DeflatedSteps ==
    ASSUME NEW a \in Nat, NEW p, NEW c, NEW m, Found(p, c, m, a), TightDeflated
    PROVE  Steps(m, a)
<1>1. Finds({"deflated"})
  BY DEF TightDeflated
<1>2. "message" \notin {"deflated"} /\ "rect" \notin {"deflated"}
  OBVIOUS
<1>3. /\ SessTyped /\ Told /\ p = Current(a) /\ fbu.rects > 0 /\ DecodeMeans(p, c, m)
         /\ c.k \in {"deflated"}
      /\ p.dec = dec /\ p.fresh = fresh /\ drawing \in BOOLEAN /\ Says = c.v
  BY <1>1, <1>2, DecoderFound
<1>4. PICK d : d = TightDone
  OBVIOUS
<1>5. PICK z : z = [fresh EXCEPT ![dec.stream] = FALSE]
  OBVIOUS
<1>6. Inflates
  <2>1. (c.v = "first") = p.fresh[p.dec.stream]
    BY <1>3, TightIs
  <2>. QED BY <1>3, <2>1 DEF Inflates
<1>7. m = Ends(p, p.rects - 1, d, z)
  BY <1>3, <1>4, <1>5, TightIs DEF TightEmptied, TightDone
<1>8. drawing' \in BOOLEAN /\ fresh' = z
  BY <1>3, <1>5 DEF TightDeflated, paceVars
<1>9. /\ Takes /\ dec' = d /\ RectEnds(fbu.rects - 1)
         /\ UNCHANGED <<over, flushing, updating, inbox>>
  BY <1>4, <1>6 DEF TightDeflated, paceVars
<1>. QED BY <1>3, <1>7, <1>8, <1>9, DecodeEnds

(* A unit at which the connection fails. *)
LEMMA FailSteps ==
    ASSUME NEW a \in Nat, SessTyped, Told, NEW m, m.dead, Takes, over' = TRUE, turn' = FALSE,
           UNCHANGED <<fbu, dec, fresh, flushing, drawing, updating, inbox, server>>
    PROVE  Steps(m, a)
<1>1. Stopped
  BY DEF Stopped
<1>2. Told'
  BY ToldStill
<1>3. flushing' \in BOOLEAN /\ drawing' \in BOOLEAN
  BY DEF SessTyped
<1>4. Taken
  BY <1>2, <1>3 DEF Taken, Takes
<1>. QED BY <1>1, <1>4 DEF Steps

LEMMA DeadIs ==
    ASSUME NEW a \in Nat, NEW p, p = Current(a), SessTyped
    PROVE  Dead(p).dead
<1>1. p \in [rects : {p.rects}, enc : {p.enc}, size : {p.size}, dec : {p.dec}, fresh : {p.fresh},
             upd : {p.upd}, asks : {p.asks}, skip : {p.skip}, dead : {p.dead}]
  BY DEF Current, Place
<1>. QED BY <1>1 DEF Dead

LEMMA ThrowSteps ==
    ASSUME NEW a \in Nat, NEW p, NEW c, NEW m, Found(p, c, m, a), Throws
    PROVE  Steps(m, a)
<1>0. PICK kinds : kinds = {"tile", "segment", "zdata", "ctl"}
  OBVIOUS
<1>1. Finds(kinds) /\ Says = "illegal"
  BY <1>0 DEF Throws
<1>2. "message" \notin kinds /\ "rect" \notin kinds
  BY <1>0
<1>3. /\ SessTyped /\ Told /\ p = Current(a) /\ DecodeMeans(p, c, m) /\ c.k \in kinds /\ Says = c.v
  BY <1>1, <1>2, DecoderFound
<1>4. m = Dead(p)
  BY <1>0, <1>1, <1>3, TightIs
<1>5. m.dead
  BY <1>3, <1>4, DeadIs
<1>6. /\ Takes /\ over' = TRUE /\ turn' = FALSE
      /\ UNCHANGED <<fbu, dec, fresh, flushing, drawing, updating, inbox, server>>
  BY DEF Throws, Fails, paceVars, netVars
<1>. QED BY <1>3, <1>5, <1>6, FailSteps

(* The head of a rectangle. *)
LEMMA HeaderEnds ==
    ASSUME SessTyped, Told, NEW a \in Nat, NEW p, p = Current(a), NEW left \in 0..Many, NEW m,
           m = Ends(p, left, dec, fresh), Takes, RectEnds(left),
           UNCHANGED <<over, dec, fresh, flushing, drawing, updating, inbox>>
    PROVE  Steps(m, a)
<1>1. m = Ends(Current(a), left, dec, fresh) /\ dec' = dec /\ fresh' = fresh /\ updating' = updating
  OBVIOUS
<1>2. Carried(m, a) /\ turn' \in BOOLEAN /\ server.continuous = server'.continuous
  BY <1>1, EndsMoves
<1>3. Told'
  BY <1>2, ToldStill
<1>4. over' \in BOOLEAN /\ flushing' \in BOOLEAN /\ drawing' \in BOOLEAN /\ inbox' = inbox
        /\ (over => over')
  BY DEF SessTyped
<1>5. Taken
  BY <1>2, <1>3, <1>4 DEF Taken, Takes
<1>. QED BY <1>2, <1>5 DEF Steps

LEMMA HeaderGoes ==
    ASSUME SessTyped, Told, NEW a \in Nat, NEW p, p = Current(a), NEW e, NEW sz, NEW d, NEW m,
           m = Place(p.rects, e, sz, d, p.fresh, p.upd, p.asks), Takes,
           fbu' = [fbu EXCEPT !.enc = e, !.size = sz], dec' = d, turn' = TRUE,
           UNCHANGED <<over, fresh, flushing, drawing, updating, inbox, server>>
    PROVE  Steps(m, a)
<1>1. p.rects = fbu.rects /\ p.fresh = fresh /\ p.upd = updating /\ p.asks = a
  BY CurrentIs
<1>2. fbu \in Updates /\ server \in Servers
  BY DEF SessTyped
<1>3. fbu' = [rects |-> fbu.rects, enc |-> e, size |-> sz]
  BY <1>2 DEF Updates
<1>4. fbu'.rects = fbu.rects /\ fbu'.enc = e /\ fbu'.size = sz
  BY <1>3
<1>5. fbu' \in [rects : {fbu'.rects}, enc : {fbu'.enc}, size : {fbu'.size}]
  BY <1>3, <1>4
<1>6. m = Place(fbu'.rects, fbu'.enc, fbu'.size, dec', fresh', updating', a)
  BY <1>1, <1>4
<1>7. server' = server
  OBVIOUS
<1>8. Carried(m, a)
  BY <1>2, <1>5, <1>6, <1>7, GoesMoves
<1>9. Told'
  BY <1>7, ToldStill
<1>10. over' \in BOOLEAN /\ flushing' \in BOOLEAN /\ drawing' \in BOOLEAN /\ inbox' = inbox
         /\ (over => over')
  BY DEF SessTyped
<1>11. Taken
  BY <1>9, <1>10 DEF Taken, Takes
<1>. QED BY <1>8, <1>11 DEF Steps

LEMMA HeaderSteps ==
    ASSUME NEW a \in Nat, NEW p, NEW c, NEW m, Found(p, c, m, a), RectHeader
    PROVE  Steps(m, a)
<1>1. SessTyped /\ Told /\ p = Current(a) /\ c = Head(rq) /\ c \in Cells /\ Means(p, c, m)
  BY DEF Found
<1>2. Wants = "rect"
  BY DEF RectHeader, Finds
<1>3. RectMeans(p, c, m)
  BY <1>1, <1>2, MeansInStep
<1>4. p.dec = dec /\ p.fresh = fresh /\ p.rects = fbu.rects
  BY <1>1, CurrentIs
<1>5. Says = c.v
  BY <1>1 DEF Says
<1>6. Takes /\ UNCHANGED <<fresh, flushing, drawing, updating, inbox>>
  BY DEF RectHeader, paceVars
<1>7. fbu.rects - 1 \in 0..Many
  <2>1. fbu \in Updates /\ fbu.rects > 0
    BY <1>1, <1>3, <1>4 DEF SessTyped, RectMeans
  <2>. QED BY <2>1 DEF Updates, Many
<1>8. CASE c.v \notin Known
  <2>1. m = Dead(p)
    BY <1>3, <1>8 DEF RectMeans, Known, DataEncodings, PseudoEncodings
  <2>2. m.dead
    BY <1>1, <2>1, DeadIs
  <2>3. over' = TRUE /\ turn' = FALSE /\ UNCHANGED <<fbu, dec, server>>
    BY <1>5, <1>8 DEF RectHeader, Fails, Known, DataEncodings, PseudoEncodings
  <2>. QED BY <1>1, <1>6, <2>2, <2>3, FailSteps
<1>9. CASE c.v = "last"
  <2>1. "last" \in Known /\ 0 \in 0..Many
    BY DEF Known, Many
  <2>2. m = Ends(p, 0, dec, fresh)
    BY <1>3, <1>4, <1>9, <2>1 DEF RectMeans
  <2>3. RectEnds(0) /\ UNCHANGED <<over, dec>>
    BY <1>1, <1>5, <1>9, <2>1 DEF RectHeader
  <2>. QED BY <1>1, <1>6, <2>1, <2>2, <2>3, HeaderEnds
<1>10. CASE c.v \in {"size", "qemu"} \/ (c.v \in {"raw", "hextile"} /\ c.s = 0)
  <2>1. c.v \in Known /\ c.v # "last"
    BY <1>10 DEF Known, DataEncodings, PseudoEncodings
  <2>2. m = Ends(p, fbu.rects - 1, dec, fresh)
    BY <1>3, <1>4, <1>10, <2>1 DEF RectMeans
  <2>3. RectEnds(fbu.rects - 1) /\ UNCHANGED <<over, dec>>
    BY <1>1, <1>5, <1>10, <2>1 DEF RectHeader
  <2>. QED BY <1>1, <1>6, <1>7, <2>2, <2>3, HeaderEnds
<1>11. CASE /\ c.v \in Known \ {"last", "size", "qemu"} /\ (c.v \in {"raw", "hextile"} => c.s # 0)
  <2>1. PICK d : d = CASE c.v = "raw" -> [dec EXCEPT !.lines = c.s]
                       [] c.v = "hextile" -> [dec EXCEPT !.tiles = c.s]
                       [] OTHER -> dec
    OBVIOUS
  <2>2. m = Place(p.rects, c.v, c.s, d, p.fresh, p.upd, p.asks)
    BY <1>3, <1>4, <1>11, <2>1 DEF RectMeans
  <2>3. fbu' = [fbu EXCEPT !.enc = c.v, !.size = c.s] /\ dec' = d /\ turn' = TRUE
          /\ UNCHANGED <<over, server>>
    BY <1>1, <1>5, <1>11, <2>1 DEF RectHeader
  <2>. QED BY <1>1, <1>6, <2>2, <2>3, HeaderGoes
<1>. QED BY <1>8, <1>9, <1>10, <1>11

(* A message. *)
LEMMA MessageFound ==
    ASSUME NEW a \in Nat, NEW p, NEW c, NEW m, Found(p, c, m, a), Finds({"message"})
    PROVE  /\ SessTyped /\ Told /\ p = Current(a) /\ c = Head(rq) /\ c \in Cells
           /\ MessageMeans(p, c, m) /\ fbu.rects = 0
           /\ p.enc = fbu.enc /\ p.size = fbu.size /\ p.dec = dec /\ p.fresh = fresh
           /\ p.upd = updating /\ p.asks = a
<1>1. SessTyped /\ Told /\ p = Current(a) /\ c = Head(rq) /\ c \in Cells /\ Means(p, c, m)
  BY DEF Found
<1>2. Wants = "message"
  BY DEF Finds
<1>3. MessageMeans(p, c, m)
  BY <1>1, <1>2, MeansInStep
<1>4. /\ p.rects = fbu.rects /\ p.enc = fbu.enc /\ p.size = fbu.size /\ p.dec = dec
         /\ p.fresh = fresh
      /\ p.upd = updating /\ p.asks = a
  <2>1. p = Current(a)
    BY <1>1
  <2>. QED BY <2>1, CurrentIs, Zenon
<1>5. fbu.rects = 0
  BY <1>3, <1>4 DEF MessageMeans
<1>. QED BY <1>1, <1>3, <1>4, <1>5

LEMMA UpdateSteps ==
    ASSUME NEW a \in Nat, NEW p, NEW c, NEW m, Found(p, c, m, a), FramebufferUpdate
    PROVE  Steps(m, a)
<1>1. Finds({"message"}) /\ Takes /\ Head(rq).k = "fbu"
  BY DEF FramebufferUpdate
<1>2. /\ SessTyped /\ Told /\ p = Current(a) /\ c = Head(rq) /\ c \in Cells
      /\ MessageMeans(p, c, m)
      /\ p.dec = dec /\ p.fresh = fresh /\ p.upd = updating /\ p.asks = a
  BY <1>1, MessageFound
<1>3. m = Place(c.s, NoEncoding, 0, dec, fresh, updating, a)
  BY <1>1, <1>2, MessageIs
<1>4. fbu' = [rects |-> c.s, enc |-> NoEncoding, size |-> 0]
  BY <1>2 DEF FramebufferUpdate, NoUpdate
<1>5. fbu'.rects = c.s /\ fbu'.enc = NoEncoding /\ fbu'.size = 0
  BY <1>4
<1>6. fbu' \in [rects : {fbu'.rects}, enc : {fbu'.enc}, size : {fbu'.size}]
  BY <1>4, <1>5
<1>7. over' = over /\ dec' = dec /\ fresh' = fresh /\ drawing' = drawing /\ updating' = updating
      /\ inbox' = inbox /\ server' = server /\ flushing' = drawing /\ turn' = ~drawing
  BY DEF FramebufferUpdate, netVars
<1>8. m = Place(fbu'.rects, fbu'.enc, fbu'.size, dec', fresh', updating', a)
  BY <1>3, <1>5, <1>7
<1>9. server \in Servers
  BY <1>2 DEF SessTyped
<1>10. Carried(m, a)
  BY <1>2, <1>6, <1>7, <1>8, <1>9, GoesMoves
<1>11. Told'
  BY <1>2, <1>7, ToldStill
<1>12. /\ over' \in BOOLEAN /\ flushing' \in BOOLEAN /\ drawing' \in BOOLEAN /\ turn' \in BOOLEAN
       /\ (over => over')
  BY <1>2, <1>7 DEF SessTyped
<1>13. Taken
  BY <1>1, <1>7, <1>11, <1>12 DEF Taken, Takes
<1>. QED BY <1>10, <1>13 DEF Steps

LEMMA OfferSteps ==
    ASSUME NEW a \in Nat, NEW p, NEW c, NEW m, Found(p, c, m, a), EndOfContinuousUpdates
    PROVE  Steps(m, a)
<1>1. Finds({"message"}) /\ Takes /\ Head(rq).k = "eocu"
  BY DEF EndOfContinuousUpdates
<1>2. /\ SessTyped /\ Told /\ p = Current(a) /\ c = Head(rq) /\ c \in Cells
      /\ MessageMeans(p, c, m) /\ fbu.rects = 0
      /\ p.enc = fbu.enc /\ p.size = fbu.size
      /\ p.dec = dec /\ p.fresh = fresh /\ p.asks = a
  BY <1>1, MessageFound
<1>3. PICK t \in BOOLEAN : t = TRUE
  OBVIOUS
<1>4. m = Place(0, fbu.enc, fbu.size, dec, fresh, t, a)
  BY <1>1, <1>2, <1>3, MessageIs
<1>5. /\ over' = over /\ fbu' = fbu /\ dec' = dec /\ fresh' = fresh /\ drawing' = drawing
         /\ updating' = t
      /\ flushing' = flushing /\ inbox' = inbox /\ turn' = (rq' # <<>>)
  BY <1>3 DEF EndOfContinuousUpdates, paceVars, Turns
<1>6. fbu \in Updates /\ server \in Servers /\ over \in BOOLEAN
  BY <1>2 DEF SessTyped
<1>7. m = Place(fbu'.rects, fbu'.enc, fbu'.size, dec', fresh', updating', a)
  BY <1>2, <1>4, <1>5
<1>8. fbu' \in [rects : {fbu'.rects}, enc : {fbu'.enc}, size : {fbu'.size}]
  BY <1>5, <1>6 DEF Updates
<1>9. server' = IF over THEN server ELSE [server EXCEPT !.continuous = TRUE]
  BY Zenon DEF EndOfContinuousUpdates
<1>10. /\ server' \in Servers /\ server'.left = server.left /\ server'.open = server.open
       /\ server'.fresh = server.fresh /\ server'.requests = server.requests
       /\ (~over => server'.continuous = TRUE)
  BY <1>6, <1>9 DEF Servers
<1>11. Carried(m, a)
  BY <1>2, <1>7, <1>8, <1>10, GoesMoves
<1>12. Told'
  BY <1>3, <1>5, <1>10 DEF Told
<1>13. /\ over' \in BOOLEAN /\ flushing' \in BOOLEAN /\ drawing' \in BOOLEAN /\ turn' \in BOOLEAN
       /\ (over => over')
  BY <1>2, <1>5 DEF SessTyped
<1>14. Taken
  BY <1>1, <1>5, <1>12, <1>13 DEF Taken, Takes
<1>. QED BY <1>11, <1>14 DEF Steps

LEMMA OtherSteps ==
    ASSUME NEW a \in Nat, NEW p, NEW c, NEW m, Found(p, c, m, a),
           NEW kind \in MessageKinds \ {"fbu", "eocu"}, NEW fails \in BOOLEAN,
             NEW goesOn \in BOOLEAN,
           Message(kind, fails, goesOn)
    PROVE  Steps(m, a)
<1>1. Finds({"message"}) /\ Takes /\ Head(rq).k = kind
  BY DEF Message
<1>2. /\ SessTyped /\ Told /\ p = Current(a) /\ c = Head(rq) /\ c \in Cells
      /\ MessageMeans(p, c, m) /\ fbu.rects = 0
      /\ p.enc = fbu.enc /\ p.size = fbu.size
      /\ p.dec = dec /\ p.fresh = fresh /\ p.upd = updating /\ p.asks = a
  BY <1>1, MessageFound
<1>4. m = Place(0, fbu.enc, fbu.size, dec, fresh, updating, a)
  BY <1>1, <1>2, MessageIs
<1>5. /\ fbu' = fbu /\ dec' = dec /\ fresh' = fresh /\ drawing' = drawing /\ updating' = updating
      /\ flushing' = flushing /\ inbox' = inbox /\ server' = server /\ turn' = (goesOn
         /\ rq' # <<>>)
  BY DEF Message, paceVars, netVars, Turns
<1>6. fbu \in Updates /\ server \in Servers /\ over \in BOOLEAN
  BY <1>2 DEF SessTyped
<1>7. m = Place(fbu'.rects, fbu'.enc, fbu'.size, dec', fresh', updating', a)
  BY <1>2, <1>4, <1>5
<1>8. fbu' \in [rects : {fbu'.rects}, enc : {fbu'.enc}, size : {fbu'.size}]
  BY <1>5, <1>6 DEF Updates
<1>9. IF fails THEN over' = TRUE ELSE over' = over
  BY Zenon DEF Message, Fails
<1>10. server' = server
  BY <1>5
<1>11. Carried(m, a)
  BY <1>2, <1>6, <1>7, <1>8, <1>10, GoesMoves
<1>12. over' \in BOOLEAN /\ (over => over')
  BY <1>6, <1>9
<1>13. Told'
  BY <1>2, <1>5, <1>12, ToldStill
<1>14. flushing' \in BOOLEAN /\ drawing' \in BOOLEAN /\ turn' \in BOOLEAN
  BY <1>2, <1>5 DEF SessTyped
<1>15. Taken
  BY <1>1, <1>5, <1>12, <1>13, <1>14 DEF Taken, Takes
<1>. QED BY <1>11, <1>15 DEF Steps

(* So the parser moves as the unit means it to. *)
LEMMA ParseSteps ==
    ASSUME NEW a \in Nat, NEW p, NEW c, NEW m, Found(p, c, m, a), Parse, ~Waits
    PROVE  Steps(m, a)
<1>1. CASE FramebufferUpdate \/ EndOfContinuousUpdates \/ RectHeader
  BY <1>1, UpdateSteps, OfferSteps, HeaderSteps
<1>2. CASE DecodeRect
  BY <1>2, WholeSteps, LineSteps, RreSteps, SubrectSteps, TileSteps, ZlengthSteps, ZdataSteps,
     SegmentSteps, ControlSteps, FilterSteps, PaletteSteps, LengthSteps, ImageSteps, PixelsSteps,
     DeflatedSteps, ThrowSteps, Zenon DEF DecodeRect
<1>3. CASE SetColourMap \/ Bell \/ ServerCutText \/ ServerFence \/ Xvp \/ UnexpectedMessage
  <2>1. PICK bad \in BOOLEAN : bad = (Says = "bad")
    OBVIOUS
  <2>2. PICK good \in BOOLEAN : good = (Says # "bad")
    OBVIOUS
  <2>3. {"colours", "bell", "cut", "fence", "xvp", "unknown"} \subseteq MessageKinds \ {"fbu",
          "eocu"}
    BY DEF MessageKinds
  <2>4. PICK kind \in {"colours", "bell", "cut", "fence", "xvp", "unknown"}, fails \in BOOLEAN,
             goesOn \in BOOLEAN :
            Message(kind, fails, goesOn)
    <3>1. CASE SetColourMap
      BY <3>1, Zenon DEF SetColourMap
    <3>2. CASE Bell
      BY <3>2, Zenon DEF Bell
    <3>3. CASE ServerCutText
      BY <2>1, <2>2, <3>3, Zenon DEF ServerCutText
    <3>4. CASE ServerFence
      BY <3>4, Zenon DEF ServerFence
    <3>5. CASE Xvp
      BY <2>1, <3>5, Zenon DEF Xvp
    <3>6. CASE UnexpectedMessage
      BY <3>6, Zenon DEF UnexpectedMessage
    <3>. QED BY <1>3, <3>1, <3>2, <3>3, <3>4, <3>5, <3>6
  <2>. QED BY <2>3, <2>4, OtherSteps
<1>. QED BY <1>1, <1>2, <1>3 DEF Parse

(* The invariant. *)
Idle == IF server.left > 0 \/ server.open THEN 0 ELSE 1
Sent(e, a, r, b, u) ==
    /\ e = Between(r, server.fresh, u, b)
    /\ IF server.open THEN r > server.left ELSE r = server.left
    /\ ~over /\ ~u => server.requests + b >= a + Idle
    /\ ~u => server.requests + b <= a + Idle
AtServer(e, a) ==
    /\ server.requests + e.asks <= a + 1
    /\ e.dead \/ \E r \in 0..Many, b \in Nat, u \in BOOLEAN : Sent(e, a, r, b, u)
Sound == \E a \in Nat : \E e : Path(rq \o inbox, Current(a), e) /\ AtServer(e, a)
SessInv == SessTyped /\ Told /\ ~garbled /\ ((over /\ ~turn) \/ Sound)

(* What the parser asks for the server was to be asked for. *)
LEMMA ServerStill ==
    ASSUME SessTyped, NEW a \in Nat, NEW n \in {0, 1},
           NEW e \in Places, AtServer(e, a), over => over',
           server' \in Servers, server'.left = server.left, server'.open = server.open,
             server'.fresh = server.fresh,
           server'.requests = server.requests + (IF over THEN 0 ELSE n)
    PROVE  AtServer(e, a + n)'
<1>1. server \in Servers /\ over \in BOOLEAN
  BY DEF SessTyped
<1>2. server.requests \in Nat /\ server'.requests \in Nat /\ e.asks \in Nat
  BY <1>1 DEF Servers, Places
<1>3. Idle' = Idle /\ Idle \in {0, 1}
  BY DEF Idle
<1>4. server'.requests + e.asks <= (a + n) + 1
  BY <1>1, <1>2 DEF AtServer
<1>5. ASSUME NEW r \in 0..Many, NEW b \in Nat, NEW u \in BOOLEAN, Sent(e, a, r, b, u)
      PROVE  Sent(e, a + n, r, b, u)'
  <2>1. e = Between(r, server'.fresh, u, b)
    BY <1>5, Zenon DEF Sent
  <2>2. IF server'.open THEN r > server'.left ELSE r = server'.left
    BY <1>5, Zenon DEF Sent
  <2>3. ~over' /\ ~u => server'.requests + b >= (a + n) + Idle'
    BY <1>1, <1>2, <1>3, <1>5 DEF Sent
  <2>4. ~u => server'.requests + b <= (a + n) + Idle'
    BY <1>1, <1>2, <1>3, <1>5 DEF Sent
  <2>. QED BY <2>1, <2>2, <2>3, <2>4 DEF Sent
<1>. QED BY <1>4, <1>5 DEF AtServer

LEMMA MovedTyped ==
    ASSUME SessTyped, Taken, NEW a \in Nat, NEW m \in Places, Carried(m, a),
           NEW e \in Places, AtServer(e, a), m.asks <= e.asks,
           rq' \in Seq(Cells)
    PROVE  /\ m.asks \in Nat /\ m = Current(m.asks)' /\ AtServer(e, m.asks)' /\ SessTyped'
<1>1. m = Place(fbu'.rects, fbu'.enc, fbu'.size, dec', fresh', updating', m.asks)
  BY DEF Carried
<1>2. fbu' = [rects |-> fbu'.rects, enc |-> fbu'.enc, size |-> fbu'.size]
  BY DEF Carried
<1>3. PICK n \in {0, 1} :
         /\ m.asks = a + n
         /\ server' \in Servers /\ server'.left = server.left /\ server'.open = server.open
         /\ server'.fresh = server.fresh
         /\ server'.requests = server.requests + (IF over THEN 0 ELSE n)
  BY Zenon DEF Carried
<1>4. over => over'
  BY DEF Taken
<1>5. AtServer(e, a + n)'
  BY <1>3, <1>4, ServerStill
<1>6. m.rects = fbu'.rects /\ m.enc = fbu'.enc /\ m.size = fbu'.size /\ m.dec = dec'
        /\ m.fresh = fresh' /\ m.upd = updating'
  BY <1>1 DEF Place
<1>7. m.rects \in 0..Many /\ m.enc \in Known \cup {NoEncoding} /\ m.size \in 0..Many
        /\ m.dec \in Decs
      /\ m.fresh \in [Streams -> BOOLEAN] /\ m.upd \in BOOLEAN
  BY DEF Places
<1>8. fbu' \in Updates
  BY <1>2, <1>6, <1>7 DEF Updates
<1>9. server'.requests \in 0..1
  <2>1. server'.requests + e.asks <= m.asks + 1
    BY <1>3, <1>5 DEF AtServer
  <2>2. server'.requests \in Nat /\ e.asks \in Nat /\ m.asks \in Nat
    BY <1>3 DEF Servers, Places
  <2>. QED BY <2>1, <2>2
<1>10. inbox' \in Seq(Cells)
  BY DEF Taken, SessTyped
<1>11. SessTyped'
  BY <1>3, <1>6, <1>7, <1>8, <1>9, <1>10 DEF SessTyped, Taken
<1>12. m = Current(m.asks)'
  BY <1>1 DEF Current
<1>13. m.asks \in Nat
  BY DEF Places
<1>. QED BY <1>3, <1>5, <1>11, <1>12, <1>13

LEMMA StoppedTyped ==
    ASSUME SessTyped, Taken, Stopped, rq' \in Seq(Cells)
    PROVE  SessTyped' /\ (over /\ ~turn)'
BY DEF SessTyped, Taken, Stopped

LEMMA HeadFound ==
    ASSUME SessInv, turn, Whole
    PROVE  \E a \in Nat : \E e, m :
              /\ e \in Places /\ AtServer(e, a)
              /\ Found(Current(a), Head(rq), m, a)
              /\ Before(Current(a), e)
              /\ SubSeq(rq, Head(rq).n + 2, Len(rq)) \in Seq(Cells)
              /\ m.dead \/ Path(SubSeq(rq, Head(rq).n + 2, Len(rq)) \o inbox, m, e)
<1>1. SessTyped /\ Told /\ Sound
  BY DEF SessInv
<1>14. PICK a \in Nat : \E e : Path(rq \o inbox, Current(a), e) /\ AtServer(e, a)
  BY <1>1 DEF Sound
<1>2. PICK e : Path(rq \o inbox, Current(a), e) /\ AtServer(e, a)
  BY <1>14
<1>3. rq \in Seq(Cells) /\ inbox \in Seq(Cells)
  BY <1>1 DEF SessTyped
<1>4. PICK p : p = Current(a)
  OBVIOUS
<1>5. p.skip = 0 /\ ~p.dead
  BY <1>4, CurrentIs
<1>6. Before(p, e) /\ Before(e, e)
  BY <1>2, <1>4, PathEnd
<1>7. p \in Places /\ e \in Places
  BY <1>6 DEF Before
<1>8. rq # <<>> /\ Head(rq) = rq[1] /\ Len(rq) > rq[1].n
  BY <1>3 DEF Whole
<1>9. Path(rq \o inbox, p, e)
  BY <1>2, <1>4
<1>10. /\ rq[1] \in Cells
       /\ \E m : /\ Means(p, rq[1], m)
                 /\ m.dead \/ Path(SubSeq(rq, rq[1].n + 2, Len(rq)) \o inbox, m, e)
  BY <1>3, <1>5, <1>7, <1>8, <1>9, UnitTaken
<1>11. PICK m : /\ Means(p, rq[1], m)
                /\ m.dead \/ Path(SubSeq(rq, rq[1].n + 2, Len(rq)) \o inbox, m, e)
  BY <1>10
<1>12. Found(p, Head(rq), m, a)
  BY <1>1, <1>4, <1>8, <1>10, <1>11 DEF Found
<1>13. SubSeq(rq, rq[1].n + 2, Len(rq)) \in Seq(Cells)
  <2>1. PICK n \in Nat : n = rq[1].n + 1
    BY <1>10 DEF Cells
  <2>2. Len(rq) \in Nat /\ rq[1].n \in Nat
    BY <1>3, <1>10 DEF Cells
  <2>3. PICK j \in Nat : Len(rq) = j + n
    <3>1. Len(rq) - n \in Nat /\ Len(rq) = (Len(rq) - n) + n
      BY <1>8, <2>1, <2>2
    <3>. QED BY <3>1
  <2>4. rq[1].n + 2 = n + 1
    BY <2>1, <2>2
  <2>. QED BY <1>3, <2>3, <2>4, Dropped
<1>. QED BY <1>2, <1>4, <1>6, <1>7, <1>8, <1>11, <1>12, <1>13

LEMMA ParseKeeps ==
    ASSUME SessInv, Parse
    PROVE  SessInv'
<1>1. SessTyped /\ Told /\ ~garbled
  BY DEF SessInv
<1>2. CASE Waits
  <2>1. turn /\ turn' = FALSE /\ UNCHANGED <<over, rq, fbu, dec, fresh, garbled, flushing,
          drawing, updating, inbox, server>>
    BY <1>2 DEF Waits, paceVars, netVars
  <2>2. SessTyped'
    BY <1>1, <2>1 DEF SessTyped
  <2>3. Told'
    BY <1>1, <2>1 DEF Told
  <2>4. Sound
    BY <2>1 DEF SessInv
  <2>5. Sound'
    BY <2>1, <2>4 DEF Sound, Current, AtServer, Sent, Idle
  <2>. QED BY <1>1, <2>1, <2>2, <2>3, <2>5 DEF SessInv
<1>3. CASE ~Waits
  <2>1. turn /\ Whole
    BY <1>3 DEF Parse, Finds, FramebufferUpdate, SetColourMap, Bell, ServerCutText, ServerFence,
      Xvp,
        UnexpectedMessage, Message, EndOfContinuousUpdates, RectHeader, DecodeRect,
          VMwareCursor, Cursor,
        DesktopName, LedEvent, ExtendedDesktopSize, CopyRect, WholeRect, RawLine, RreBackground,
          RreSubrect,
        HextileTile, ZrleLength, ZrleData, JpegSegment, TightControl, TightFilter, TightPalette,
          TightLength,
        TightImage, TightPixels, TightDeflated, Throws
  <2>2. PICK a \in Nat : \E e, m :
              /\ e \in Places /\ AtServer(e, a)
              /\ Found(Current(a), Head(rq), m, a)
              /\ Before(Current(a), e)
              /\ SubSeq(rq, Head(rq).n + 2, Len(rq)) \in Seq(Cells)
              /\ m.dead \/ Path(SubSeq(rq, Head(rq).n + 2, Len(rq)) \o inbox, m, e)
    BY <2>1, HeadFound
  <2>3. PICK e, m :
              /\ e \in Places /\ AtServer(e, a)
              /\ Found(Current(a), Head(rq), m, a)
              /\ Before(Current(a), e)
              /\ SubSeq(rq, Head(rq).n + 2, Len(rq)) \in Seq(Cells)
              /\ m.dead \/ Path(SubSeq(rq, Head(rq).n + 2, Len(rq)) \o inbox, m, e)
    BY <2>2
  <2>4. Steps(m, a)
    BY <1>3, <2>3, ParseSteps
  <2>5. Taken /\ (Carried(m, a) \/ (m.dead /\ Stopped))
    BY <2>4 DEF Steps
  <2>6. InStep(Head(rq).k)
    BY <2>3, MeansInStep DEF Found
  <2>7. garbled' = FALSE /\ Told' /\ rq' = SubSeq(rq, Head(rq).n + 2, Len(rq)) /\ inbox' = inbox
    BY <1>1, <2>5, <2>6 DEF Taken
  <2>8. rq' \in Seq(Cells)
    BY <2>3, <2>7
  <2>9. CASE m.dead
    <3>1. Stopped
      BY <2>5, <2>9 DEF Carried
    <3>2. SessTyped' /\ (over /\ ~turn)'
      BY <1>1, <2>5, <2>8, <3>1, StoppedTyped
    <3>. QED BY <2>7, <3>2 DEF SessInv
  <2>10. CASE ~m.dead
    <3>1. Carried(m, a) /\ Path(SubSeq(rq, Head(rq).n + 2, Len(rq)) \o inbox, m, e)
      BY <2>3, <2>5, <2>10
    <3>2. Before(m, e)
      BY <3>1, PathEnd
    <3>3. m \in Places /\ m.asks <= e.asks
      BY <3>2 DEF Before
    <3>4. m.asks \in Nat /\ m = Current(m.asks)' /\ AtServer(e, m.asks)' /\ SessTyped'
      BY <1>1, <2>3, <2>5, <2>8, <3>1, <3>3, MovedTyped
    <3>5. Path(rq' \o inbox', Current(m.asks)', e)
      BY <2>7, <3>1, <3>4
    <3>6. Sound'
      BY <3>4, <3>5, Zenon DEF Sound
    <3>. QED BY <2>7, <3>4, <3>6 DEF SessInv
  <2>. QED BY <2>9, <2>10
<1>. QED BY <1>2, <1>3

(* The server sends more. *)
Sending(e, a) == SessTyped /\ Told /\ ~over /\ Before(Current(a), e) /\ Before(e, e)
   /\ AtServer(e, a)
Sends(e, a) == /\ \E cells, q : Emit(cells) /\ Path(cells, e, q) /\ AtServer(q, a)'
               /\ server' \in Servers /\ server'.requests \in 0..1
               /\ server'.continuous = server.continuous

(* After the parser has thrown nothing is read. *)
LEMMA DeadSends ==
    ASSUME NEW a \in Nat, NEW e, Sending(e, a), e.dead, NEW cells \in Seq(Cells), Emit(cells),
           server' \in Servers, server'.requests <= server.requests,
             server'.continuous = server.continuous
    PROVE  Sends(e, a)
<1>1. Path(cells, e, e)
  BY PathDead DEF Sending
<1>2. server \in Servers /\ server.requests \in 0..1 /\ server.requests + e.asks <= a + 1
        /\ e.asks \in Nat
  BY DEF Sending, SessTyped, AtServer, Before, Places
<1>3. server'.requests \in 0..1 /\ server'.requests + e.asks <= a + 1
  BY <1>2 DEF Servers
<1>4. AtServer(e, a)'
  BY <1>3 DEF AtServer
<1>. QED BY <1>1, <1>3, <1>4, Zenon DEF Sends

LEMMA AliveSends ==
    ASSUME NEW a \in Nat, NEW e, Sending(e, a), ~e.dead
    PROVE  \E r \in 0..Many, b \in Nat, u \in BOOLEAN :
              /\ Sent(e, a, r, b, u) /\ e = Between(r, server.fresh, u, b) /\ a <= b
              /\ (updating => u) /\ server.requests + b <= a + 1
              /\ server \in Servers /\ server.requests \in 0..1
<1>1. PICK r \in 0..Many, b \in Nat, u \in BOOLEAN : Sent(e, a, r, b, u)
  BY DEF Sending, AtServer
<1>2. e = Between(r, server.fresh, u, b)
  BY <1>1 DEF Sent
<1>3. e.asks = b /\ e.upd = u
  BY <1>2 DEF Between, Place
<1>4. PICK p : p = Current(a)
  OBVIOUS
<1>5. p.asks = a /\ p.upd = updating
  BY <1>4, CurrentIs
<1>6. Before(p, e)
  BY <1>4 DEF Sending
<1>7. a <= b /\ (updating => u)
  BY <1>3, <1>5, <1>6 DEF Before
<1>8. server.requests + b <= a + 1
  BY <1>3 DEF Sending, AtServer
<1>9. server \in Servers /\ server.requests \in 0..1
  BY DEF Sending, SessTyped
<1>. QED BY <1>1, <1>2, <1>7, <1>8, <1>9

LEMMA SentAt ==
    ASSUME NEW a \in Nat, NEW r \in 0..Many, NEW b \in Nat, NEW u \in BOOLEAN, NEW q,
           server' \in Servers, server'.requests + b <= a + 1,
           q = Between(r, server'.fresh, u, b),
           IF server'.open THEN r > server'.left ELSE r = server'.left,
           ~over' /\ ~u => server'.requests + b >= a + Idle',
           ~u => server'.requests + b <= a + Idle'
    PROVE  AtServer(q, a)'
<1>1. q.asks = b
  BY DEF Between, Place
<1>2. Sent(q, a, r, b, u)'
  BY Zenon DEF Sent
<1>3. server'.requests + q.asks <= a + 1
  BY <1>1
<1>. QED BY <1>2, <1>3 DEF AtServer

LEMMA UpdateSends ==
    ASSUME NEW a \in Nat, NEW e, Sending(e, a), ServerUpdate
    PROVE  Sends(e, a)
<1>1. /\ server.left = 0 /\ ~server.open /\ (server.requests > 0 \/ server.continuous)
      /\ over' = over
  BY DEF ServerUpdate, Serves
<1>2. PICK n \in 1..MaxRects, open \in BOOLEAN :
        /\ Emit(<<Cell("fbu", "", IF open THEN Many ELSE n, {}, 1), Cell("rest", "", 0, {}, 0)>>)
        /\ Serves([server EXCEPT !.left = n, !.open = open,
                                 !.requests = IF @ > 0 THEN @ - 1 ELSE 0])
  BY Zenon DEF ServerUpdate
<1>3. server \in Servers /\ server.requests \in 0..1 /\ updating \in BOOLEAN
  BY DEF Sending, SessTyped
<1>4. server' = [server EXCEPT !.left = n, !.open = open, !.requests = IF @ > 0 THEN @ - 1 ELSE 0]
  BY <1>2, Zenon DEF Serves
<1>5. n \in 0..MaxRects /\ MaxRects \in Nat /\ MaxRects < Many
  BY SessAssumption
<1>6. /\ server'.left = n /\ server'.open = open /\ server'.fresh = server.fresh
      /\ server'.requests = (IF server.requests > 0 THEN server.requests - 1 ELSE 0)
      /\ server'.continuous = server.continuous /\ server'.requests \in 0..1 /\ server' \in Servers
  <2>1. (IF server.requests > 0 THEN server.requests - 1 ELSE 0) \in Nat
    BY <1>3
  <2>2. server' \in Servers
    BY <1>3, <1>4, <1>5, <2>1 DEF Servers
  <2>. QED BY <1>3, <1>4, <2>2 DEF Servers
<1>7. PICK many \in 0..Many : many = IF open THEN Many ELSE n
  BY <1>5 DEF Many
<1>8. PICK cells : cells = <<Cell("fbu", "", many, {}, 1), Cell("rest", "", 0, {}, 0)>>
  OBVIOUS
<1>9. Emit(cells)
  BY <1>2, <1>7, <1>8, Zenon
<1>10. CASE e.dead
  <2>1. server.fresh \in [Streams -> BOOLEAN]
    BY <1>3 DEF Servers
  <2>2. PICK z \in [Streams -> BOOLEAN], u \in BOOLEAN, b \in Nat : z = server.fresh
    BY <1>3, <2>1
  <2>3. Path(cells, Between(0, z, u, b), Between(many, z, u, b))
    BY <1>8, UpdateArrives
  <2>4. cells \in Seq(Cells)
    BY <2>3 DEF Path
  <2>5. server'.requests <= server.requests
    BY <1>3, <1>6
  <2>. QED BY <1>6, <1>9, <1>10, <2>4, <2>5, DeadSends
<1>11. CASE ~e.dead
  <2>1. PICK r \in 0..Many, b \in Nat, u \in BOOLEAN :
              /\ Sent(e, a, r, b, u) /\ e = Between(r, server.fresh, u, b) /\ a <= b
              /\ (updating => u) /\ server.requests + b <= a + 1
    BY <1>11, AliveSends
  <2>2. server.fresh \in [Streams -> BOOLEAN]
    BY <1>3 DEF Servers
  <2>3. r = 0
    BY <1>1, <2>1 DEF Sent
  <2>4. PICK q : q = Between(many, server.fresh, u, b)
    OBVIOUS
  <2>5. Path(cells, e, q)
    BY <1>8, <2>1, <2>2, <2>3, <2>4, UpdateArrives
  <2>6. Idle = 1 /\ Idle' = 0
    BY <1>1, <1>6 DEF Idle
  <2>7. ~u => server.requests > 0
    BY <1>1, <2>1 DEF Sending, Told
  <2>8. ~over /\ ~u => server.requests + b >= a + 1
    BY <2>1, <2>6 DEF Sent
  <2>9. ~over' /\ ~u => server'.requests + b >= a + Idle'
    BY <1>1, <1>3, <1>6, <2>6, <2>7, <2>8
  <2>10. ~u => server'.requests + b <= a + Idle'
    BY <1>3, <1>6, <2>1, <2>6, <2>7
  <2>11. server'.requests + b <= a + 1
    BY <1>3, <1>6, <2>1
  <2>12. IF server'.open THEN many > server'.left ELSE many = server'.left
    BY <1>5, <1>6, <1>7 DEF Many
  <2>13. q = Between(many, server'.fresh, u, b)
    BY <1>6, <2>4
  <2>14. AtServer(q, a)'
    BY <1>6, <2>9, <2>10, <2>11, <2>12, <2>13, SentAt
  <2>. QED BY <1>6, <1>9, <2>5, <2>14, Zenon DEF Sends
<1>. QED BY <1>10, <1>11

(* A rectangle. *)
LEMMA ArrivalSends ==
    ASSUME NEW a \in Nat, NEW e, Sending(e, a), NEW cells, NEW y \in [Streams -> BOOLEAN],
           server.left > 0, Emit(cells), Serves([server EXCEPT !.left = @ - 1, !.fresh = y]),
           \A r \in 1..Many, u \in BOOLEAN, b \in Nat : Arrives(cells, r, server.fresh, y, u, b)
    PROVE  Sends(e, a)
<1>1. over' = over /\ server' = [server EXCEPT !.left = @ - 1, !.fresh = y]
  BY DEF Serves
<1>2. server \in Servers /\ server.requests \in 0..1
  BY DEF Sending, SessTyped
<1>3. MaxRects \in Nat
  BY SessAssumption
<1>4. /\ server'.left = server.left - 1 /\ server'.open = server.open /\ server'.fresh = y
      /\ server'.requests = server.requests
      /\ server'.continuous = server.continuous /\ server' \in Servers
  <2>1. server.left - 1 \in 0..MaxRects
    BY <1>2, <1>3 DEF Servers
  <2>. QED BY <1>1, <1>2, <2>1 DEF Servers
<1>10. CASE e.dead
  <2>1. PICK r \in 1..Many, u \in BOOLEAN, b \in Nat : r = 1 /\ u = TRUE /\ b = 0
    <3>1. 1 \in 1..Many /\ TRUE \in BOOLEAN /\ 0 \in Nat
      BY DEF Many
    <3>. QED BY <3>1
  <2>3. Arrives(cells, r, server.fresh, y, u, b)
    OBVIOUS
  <2>4. cells \in Seq(Cells)
    BY <2>3 DEF Arrives, Path
  <2>5. server'.requests <= server.requests
    BY <1>2, <1>4
  <2>. QED BY <1>4, <1>10, <2>4, <2>5, DeadSends
<1>11. CASE ~e.dead
  <2>1. PICK r \in 0..Many, b \in Nat, u \in BOOLEAN :
              /\ Sent(e, a, r, b, u) /\ e = Between(r, server.fresh, u, b) /\ a <= b
              /\ (updating => u) /\ server.requests + b <= a + 1
    BY <1>11, AliveSends
  <2>2. server.left \in Nat /\ server.open \in BOOLEAN
    BY <1>2, <1>3 DEF Servers
  <2>3. IF server.open THEN r > server.left ELSE r = server.left
    BY <2>1, Zenon DEF Sent
  <2>4. r \in 1..Many
    BY <2>2, <2>3 DEF Many
  <2>5. PICK q : /\ Path(cells, e, q)
                 /\ q = Between(r - 1, y, u, Asks(r - 1, u, b)) \/ (q.dead /\ q.asks = b)
    <3>1. Arrives(cells, r, server.fresh, y, u, b)
      BY <2>4
    <3>. QED BY <2>1, <3>1, Zenon DEF Arrives
  <2>6. Idle = 0
    BY DEF Idle
  <2>7. CASE q = Between(r - 1, y, u, Asks(r - 1, u, b))
    <3>1. PICK c \in Nat : c = Asks(r - 1, u, b)
      BY DEF Asks
    <3>2. q = Between(r - 1, server'.fresh, u, c)
      BY <1>4, <2>7, <3>1
    <3>3. r - 1 \in 0..Many
      BY <2>4 DEF Many
    <3>4. IF server'.open THEN r - 1 > server'.left ELSE r - 1 = server'.left
      BY <1>4, <2>2, <2>3, <2>4
    <3>5. c = b + (IF u THEN 0 ELSE Idle')
      BY <1>4, <2>2, <2>3, <2>4, <3>1 DEF Idle, Asks
    <3>6. Idle' \in {0, 1}
      BY DEF Idle
    <3>7. ~over' /\ ~u => server'.requests + c >= a + Idle'
      BY <1>1, <1>2, <1>4, <2>1, <2>6, <3>5, <3>6 DEF Sent
    <3>8. ~u => server'.requests + c <= a + Idle'
      BY <1>2, <1>4, <2>1, <2>6, <3>5, <3>6 DEF Sent
    <3>9. server'.requests + c <= a + 1
      BY <1>2, <1>4, <2>1, <3>5, <3>6, <3>8
    <3>10. AtServer(q, a)'
      BY <1>4, <3>2, <3>3, <3>4, <3>7, <3>8, <3>9, SentAt
    <3>. QED BY <1>2, <1>4, <2>5, <3>10, Zenon DEF Sends
  <2>8. CASE q.dead /\ q.asks = b
    <3>1. AtServer(q, a)'
      BY <1>4, <2>1, <2>8 DEF AtServer
    <3>. QED BY <1>2, <1>4, <2>5, <3>1, Zenon DEF Sends
  <2>. QED BY <2>5, <2>7, <2>8
<1>. QED BY <1>10, <1>11

LEMMA RectSends ==
    ASSUME NEW a \in Nat, NEW e, Sending(e, a), ServerRect
    PROVE  Sends(e, a)
<1>1. server.left > 0
  BY DEF ServerRect
<1>2. server \in Servers
  BY DEF Sending, SessTyped
<1>3. server.fresh \in [Streams -> BOOLEAN]
      /\ [server EXCEPT !.left = @ - 1] = [server EXCEPT !.left = @ - 1, !.fresh = server.fresh]
  BY <1>2 DEF Servers
<1>4. CASE \E enc \in Encodings \ {"tight", "tightpng"} : \E r \in Rects(enc) :
            /\ Emit(r)
            /\ Serves([server EXCEPT !.left = @ - 1])
  <2>3. PICK enc \in Encodings \ {"tight", "tightpng"} : \E cells \in Rects(enc) :
            Emit(cells) /\ Serves([server EXCEPT !.left = @ - 1, !.fresh = server.fresh])
    BY <1>3, <1>4, Zenon
  <2>1. PICK cells \in Rects(enc) :
            Emit(cells) /\ Serves([server EXCEPT !.left = @ - 1, !.fresh = server.fresh])
    BY <2>3, Zenon
  <2>2. \A r \in 1..Many, u \in BOOLEAN, b \in Nat :
          Arrives(cells, r, server.fresh, server.fresh, u, b)
    BY <1>3, RectArrives
  <2>. QED BY <1>1, <1>3, <2>1, <2>2, ArrivalSends
<1>5. CASE \E enc \in Encodings \cap Illegal : \E r \in IllegalRect(enc) :
            /\ Emit(r)
            /\ Serves([server EXCEPT !.left = @ - 1])
  <2>3. PICK enc \in Encodings \cap Illegal : \E cells \in IllegalRect(enc) :
            Emit(cells) /\ Serves([server EXCEPT !.left = @ - 1, !.fresh = server.fresh])
    BY <1>3, <1>5, Zenon
  <2>1. PICK cells \in IllegalRect(enc) :
            Emit(cells) /\ Serves([server EXCEPT !.left = @ - 1, !.fresh = server.fresh])
    BY <2>3, Zenon
  <2>2. \A r \in 1..Many, u \in BOOLEAN, b \in Nat :
          Arrives(cells, r, server.fresh, server.fresh, u, b)
    BY <1>3, IllegalArrives
  <2>. QED BY <1>1, <1>3, <2>1, <2>2, ArrivalSends
<1>6. CASE \E enc \in Encodings \cap {"tight", "tightpng"}, s \in Streams,
           resets \in SUBSET Streams :
            \E sz \in {AfterReset(server.fresh, resets)} : \E r \in TightRects(enc, s, resets, sz) :
                /\ Emit(r)
                /\ Serves([server EXCEPT !.left = @ - 1,
                             !.fresh = [sz EXCEPT ![s] = @ /\ r[Len(r) - 1].k # "deflated"]])
  <2>1. PICK enc \in Encodings \cap {"tight", "tightpng"}, s \in Streams,
             resets \in SUBSET Streams :
            \E sz \in {AfterReset(server.fresh, resets)} : \E r \in TightRects(enc, s, resets, sz) :
                /\ Emit(r)
                /\ Serves([server EXCEPT !.left = @ - 1,
                             !.fresh = [sz EXCEPT ![s] = @ /\ r[Len(r) - 1].k # "deflated"]])
    BY <1>6, Zenon
  <2>2. PICK y : /\ y = AfterReset(server.fresh, resets)
                 /\ \E r \in TightRects(enc, s, resets, y) :
                      /\ Emit(r)
                      /\ Serves([server EXCEPT !.left = @ - 1,
                             !.fresh = [y EXCEPT ![s] = @ /\ r[Len(r) - 1].k # "deflated"]])
    BY <2>1, Zenon
  <2>3. PICK cells \in TightRects(enc, s, resets, y) :
          /\ Emit(cells)
          /\ Serves([server EXCEPT !.left = @ - 1, !.fresh = TightFresh(cells, s, y)])
    BY <2>2, Zenon DEF TightFresh, LastKind
  <2>4. y \in [Streams -> BOOLEAN]
    BY <1>3, <2>2 DEF AfterReset
  <2>5. TightFresh(cells, s, y) \in [Streams -> BOOLEAN]
    <3>1. [y EXCEPT ![s] = FALSE] \in [Streams -> BOOLEAN]
      BY <2>4
    <3>. QED BY <2>4, <3>1, TightFreshIs
  <2>6. \A r \in 1..Many, u \in BOOLEAN, b \in Nat :
          Arrives(cells, r, server.fresh, TightFresh(cells, s, y), u, b)
    BY <1>3, <2>2, TightArrives
  <2>. QED BY <1>1, <2>3, <2>5, <2>6, ArrivalSends
<1>. QED BY <1>4, <1>5, <1>6, Zenon DEF ServerRect

LEMMA LastSends ==
    ASSUME NEW a \in Nat, NEW e, Sending(e, a), ServerLastRect
    PROVE  Sends(e, a)
<1>1. PICK cells \in Rect("last", <<>>) : Emit(cells)
  BY Zenon DEF ServerLastRect
<1>2. server.left = 0 /\ server.open /\ over' = over /\ server' = [server EXCEPT !.open = FALSE]
  BY DEF ServerLastRect, Serves
<1>3. server \in Servers /\ server.requests \in 0..1
  BY DEF Sending, SessTyped
<1>4. /\ server'.left = 0 /\ server'.open = FALSE /\ server'.fresh = server.fresh
      /\ server'.requests = server.requests
      /\ server'.continuous = server.continuous /\ server' \in Servers
  BY <1>2, <1>3 DEF Servers
<1>5. server.fresh \in [Streams -> BOOLEAN]
  BY <1>3 DEF Servers
<1>6. \A r \in 1..Many, u \in BOOLEAN, b \in Nat :
        Path(cells, Between(r, server.fresh, u, b), Between(0, server.fresh, u, Asks(0, u, b)))
  BY <1>5, LastArrives
<1>10. CASE e.dead
  <2>1. PICK r \in 1..Many, u \in BOOLEAN, b \in Nat : r = 1 /\ u = TRUE /\ b = 0
    <3>1. 1 \in 1..Many /\ TRUE \in BOOLEAN /\ 0 \in Nat
      BY DEF Many
    <3>. QED BY <3>1
  <2>4. cells \in Seq(Cells)
    BY <1>6, <2>1 DEF Path
  <2>5. server'.requests <= server.requests
    BY <1>3, <1>4
  <2>. QED BY <1>1, <1>4, <1>10, <2>4, <2>5, DeadSends
<1>11. CASE ~e.dead
  <2>1. PICK r \in 0..Many, b \in Nat, u \in BOOLEAN :
              /\ Sent(e, a, r, b, u) /\ e = Between(r, server.fresh, u, b) /\ a <= b
              /\ (updating => u) /\ server.requests + b <= a + 1
    BY <1>11, AliveSends
  <2>2. r > server.left
    BY <1>2, <2>1 DEF Sent
  <2>3. r \in 1..Many
    BY <1>2, <2>2 DEF Many
  <2>4. PICK c \in Nat : c = Asks(0, u, b)
    BY DEF Asks
  <2>5. PICK q : q = Between(0, server.fresh, u, c)
    OBVIOUS
  <2>6. Path(cells, e, q)
    BY <1>6, <2>1, <2>3, <2>4, <2>5
  <2>7. Idle = 0 /\ Idle' = 1
    BY <1>2, <1>4 DEF Idle
  <2>8. c = b + (IF u THEN 0 ELSE 1)
    BY <2>4 DEF Asks
  <2>9. ~over' /\ ~u => server'.requests + c >= a + Idle'
    BY <1>2, <1>3, <1>4, <2>1, <2>7, <2>8 DEF Sent
  <2>10. ~u => server'.requests + c <= a + Idle'
    BY <1>3, <1>4, <2>1, <2>7, <2>8 DEF Sent
  <2>11. server'.requests + c <= a + 1
    BY <1>3, <1>4, <2>1, <2>7, <2>8, <2>10
  <2>12. IF server'.open THEN 0 > server'.left ELSE 0 = server'.left
    BY <1>4
  <2>13. q = Between(0, server'.fresh, u, c) /\ 0 \in 0..Many
    BY <1>4, <2>5 DEF Many
  <2>14. AtServer(q, a)'
    BY <1>4, <2>9, <2>10, <2>11, <2>12, <2>13, SentAt
  <2>. QED BY <1>1, <1>3, <1>4, <2>6, <2>14, Zenon DEF Sends
<1>. QED BY <1>10, <1>11

LEMMA MessageSends ==
    ASSUME NEW a \in Nat, NEW e, Sending(e, a), ServerMessage
    PROVE  Sends(e, a)
<1>1. server.left = 0 /\ ~server.open /\ over' = over
  BY DEF ServerMessage, Serves
<1>2. server \in Servers /\ server.requests \in 0..1
  BY DEF Sending, SessTyped
<1>3. server.fresh \in [Streams -> BOOLEAN]
  BY <1>2 DEF Servers
<1>7. \E more \in BOOLEAN : \E cells :
        /\ Emit(cells)
        /\ IF more THEN cells = Plain("eocu", 0) ELSE cells \in Messages
        /\ server' = server \/ server' = [server EXCEPT !.offered = TRUE]
  <2>1. CASE \E m \in Messages : Emit(m) /\ Serves(server)
    <3>1. PICK m \in Messages : Emit(m) /\ server' = server
      BY <2>1, Zenon DEF Serves
    <3>2. PICK more \in BOOLEAN : ~more
      OBVIOUS
    <3>. QED BY <3>1, <3>2, Zenon
  <2>2. CASE Emit(Plain("eocu", 0)) /\ Serves([server EXCEPT !.offered = TRUE])
    <3>1. Emit(Plain("eocu", 0)) /\ server' = [server EXCEPT !.offered = TRUE]
      BY <2>2, Zenon DEF Serves
    <3>2. PICK more \in BOOLEAN : more
      OBVIOUS
    <3>. QED BY <3>1, <3>2, Zenon
  <2>. QED BY <2>1, <2>2, Zenon DEF ServerMessage
<1>8. PICK more \in BOOLEAN : \E cells :
        /\ Emit(cells)
        /\ IF more THEN cells = Plain("eocu", 0) ELSE cells \in Messages
        /\ server' = server \/ server' = [server EXCEPT !.offered = TRUE]
  BY <1>7, Zenon
<1>4. PICK cells :
        /\ Emit(cells)
        /\ IF more THEN cells = Plain("eocu", 0) ELSE cells \in Messages
        /\ server' = server \/ server' = [server EXCEPT !.offered = TRUE]
  BY <1>8, Zenon
<1>5. /\ server'.left = server.left /\ server'.open = server.open /\ server'.fresh = server.fresh
      /\ server'.requests = server.requests
      /\ server'.continuous = server.continuous /\ server' \in Servers
  BY <1>2, <1>4 DEF Servers
<1>6. \A u \in BOOLEAN, b \in Nat :
        \E v \in BOOLEAN : (u => v) /\ (~more => v = u) /\ (more => v)
                           /\ Path(cells, Between(0, server.fresh, u, b), Between(0,
                              server.fresh, v, b))
  <2>1. ASSUME NEW u \in BOOLEAN, NEW b \in Nat
        PROVE  \E v \in BOOLEAN : (u => v) /\ (~more => v = u) /\ (more => v)
                           /\ Path(cells, Between(0, server.fresh, u, b), Between(0,
                              server.fresh, v, b))
    <3>1. CASE more
      <4>1. Path(cells, Between(0, server.fresh, u, b), Between(0, server.fresh, TRUE, b))
        BY <1>3, <1>4, <3>1, OfferArrives
      <4>. QED BY <3>1, <4>1, Zenon
    <3>2. CASE ~more
      <4>1. Path(cells, Between(0, server.fresh, u, b), Between(0, server.fresh, u, b))
        BY <1>3, <1>4, <3>2, MessagesArrive
      <4>. QED BY <3>2, <4>1, Zenon
    <3>. QED BY <3>1, <3>2
  <2>. QED BY <2>1, Zenon
<1>10. CASE e.dead
  <2>1. PICK u \in BOOLEAN, b \in Nat : u = TRUE /\ b = 0
    <3>1. TRUE \in BOOLEAN /\ 0 \in Nat
      OBVIOUS
    <3>. QED BY <3>1
  <2>4. cells \in Seq(Cells)
    BY <1>6, <2>1 DEF Path
  <2>5. server'.requests <= server.requests
    BY <1>2, <1>5
  <2>. QED BY <1>4, <1>5, <1>10, <2>4, <2>5, DeadSends
<1>11. CASE ~e.dead
  <2>1. PICK r \in 0..Many, b \in Nat, u \in BOOLEAN :
              /\ Sent(e, a, r, b, u) /\ e = Between(r, server.fresh, u, b) /\ a <= b
              /\ (updating => u) /\ server.requests + b <= a + 1
    BY <1>11, AliveSends
  <2>2. r = 0
    BY <1>1, <2>1 DEF Sent
  <2>3. PICK v \in BOOLEAN : (u => v) /\ (~more => v = u) /\ (more => v)
                           /\ Path(cells, Between(0, server.fresh, u, b), Between(0,
                              server.fresh, v, b))
    BY <1>6
  <2>4. PICK q : q = Between(0, server.fresh, v, b)
    OBVIOUS
  <2>5. Path(cells, e, q)
    BY <2>1, <2>2, <2>3, <2>4
  <2>6. Idle = Idle'
    BY <1>5 DEF Idle
  <2>9. ~over' /\ ~v => server'.requests + b >= a + Idle'
    BY <1>1, <1>5, <2>1, <2>3, <2>6 DEF Sent
  <2>10. ~v => server'.requests + b <= a + Idle'
    BY <1>5, <2>1, <2>3, <2>6 DEF Sent
  <2>11. server'.requests + b <= a + 1
    BY <1>5, <2>1
  <2>12. IF server'.open THEN 0 > server'.left ELSE 0 = server'.left
    BY <1>1, <1>5
  <2>13. q = Between(0, server'.fresh, v, b) /\ 0 \in 0..Many
    BY <1>5, <2>4 DEF Many
  <2>14. AtServer(q, a)'
    BY <1>5, <2>9, <2>10, <2>11, <2>12, <2>13, SentAt
  <2>. QED BY <1>2, <1>4, <1>5, <2>5, <2>14, Zenon DEF Sends
<1>. QED BY <1>10, <1>11

(* Every other step keeps the invariant. *)
LEMMA SoundUntouched ==
    ASSUME SessInv, ~turn, UNCHANGED <<over, fbu, dec, fresh, updating, server, garbled>>,
           turn' \in BOOLEAN, flushing' \in BOOLEAN, drawing' \in BOOLEAN,
           rq' \in Seq(Cells), inbox' \in Seq(Cells), rq' \o inbox' = rq \o inbox, over => ~turn'
    PROVE  SessInv'
<1>1. SessTyped'
  BY DEF SessInv, SessTyped
<1>2. Told'
  BY DEF SessInv, Told
<1>3. ~garbled'
  BY DEF SessInv
<1>4. CASE over
  BY <1>1, <1>2, <1>3, <1>4 DEF SessInv
<1>5. CASE ~over
  <2>1. Sound
    BY <1>5 DEF SessInv
  <2>2. Sound'
    BY <2>1 DEF Sound, Current, AtServer, Sent, Idle
  <2>. QED BY <1>1, <1>2, <1>3, <2>2 DEF SessInv
<1>. QED BY <1>4, <1>5

LEMMA Regrouped ==
    ASSUME NEW a \in Seq(Cells), NEW b \in Seq(Cells), NEW c \in Seq(Cells)
    PROVE  (a \o b) \o c = a \o (b \o c)
BY ConcatAssociative

LEMMA DeliverKeeps ==
    ASSUME SessInv, Deliver
    PROVE  SessInv'
<1>1. /\ ~turn /\ ~over /\ turn' = ~flushing /\ UNCHANGED <<over, fbu, dec, fresh, garbled,
         flushing, drawing, updating, server>>
  BY DEF Deliver, paceVars
<1>2. PICK n \in 1..Len(inbox) : /\ rq' = rq \o SubSeq(inbox, 1, n)
                                 /\ inbox' = SubSeq(inbox, n + 1, Len(inbox))
  BY DEF Deliver
<1>3. SessTyped
  BY DEF SessInv
<1>4. rq \in Seq(Cells) /\ inbox \in Seq(Cells)
  BY <1>3 DEF SessTyped
<1>5. PICK s : s = inbox
  OBVIOUS
<1>6. Len(s) \in Nat /\ s \in Seq(Cells) /\ n \in 1..Len(s)
  BY <1>2, <1>4, <1>5
<1>7. \A i \in 1..Len(s) : s[i] \in Cells
  BY <1>6
<1>8. PICK b, t : b = SubSeq(s, 1, n) /\ t = SubSeq(s, n + 1, Len(s))
  OBVIOUS
<1>9. b \in Seq(Cells) /\ t \in Seq(Cells)
  BY <1>6, <1>7, <1>8, SubSeqProperties
<1>10. b \o t = s
  <2>1. SubSeq(s, 1, n) \o SubSeq(s, n + 1, Len(s)) = SubSeq(s, 1, Len(s))
    <3>1. /\ 1 \in 1..(Len(s) + 1) /\ n \in (1 - 1)..Len(s) /\ Len(s) \in n..Len(s)
      BY <1>6
    <3>. QED BY <1>6, <3>1, ConcatAdjacentSubSeq
  <2>2. SubSeq(s, 1, Len(s)) = s
    BY <1>6, SubSeqFull
  <2>. QED BY <1>8, <2>1, <2>2
<1>11. rq' = rq \o b /\ inbox' = t
  BY <1>2, <1>5, <1>8
<1>12. (rq \o b) \o t = rq \o (b \o t)
  BY <1>4, <1>9, Regrouped, Zenon
<1>13. rq' \o inbox' = rq \o inbox
  BY <1>5, <1>10, <1>11, <1>12
<1>14. rq' \in Seq(Cells) /\ inbox' \in Seq(Cells)
  BY <1>4, <1>9, <1>11
<1>15. turn' \in BOOLEAN /\ flushing' \in BOOLEAN /\ drawing' \in BOOLEAN
  BY <1>1, <1>3 DEF SessTyped
<1>. QED BY <1>1, <1>13, <1>14, <1>15, SoundUntouched

LEMMA DisplayKeeps ==
    ASSUME SessInv, Load \/ Flushed
    PROVE  SessInv'
<1>1. SessTyped
  BY DEF SessInv
<1>2. /\ ~turn /\ UNCHANGED <<over, rq, fbu, dec, fresh, garbled, updating, inbox, server>>
      /\ turn' \in BOOLEAN /\ flushing' \in BOOLEAN /\ drawing' \in BOOLEAN /\ (over => ~turn')
  <2>1. over \in BOOLEAN /\ turn \in BOOLEAN /\ flushing \in BOOLEAN /\ drawing \in BOOLEAN
    BY <1>1 DEF SessTyped
  <2>2. CASE Load
    <3>1. /\ ~turn /\ drawing' = FALSE /\ flushing' = flushing /\ turn' = turn
          /\ UNCHANGED <<over, rq, fbu, dec, fresh, garbled, updating, inbox, server>>
      BY <2>2 DEF Load, readVars, netVars
    <3>. QED BY <2>1, <3>1
  <2>3. CASE Flushed
    <3>1. /\ ~turn /\ flushing' = FALSE /\ drawing' = drawing /\ turn' = (rq # <<>> /\ ~over)
          /\ UNCHANGED <<over, rq, fbu, dec, fresh, garbled, updating, inbox, server>>
      BY <2>3 DEF Flushed, netVars
    <3>. QED BY <2>1, <3>1
  <2>. QED BY <2>2, <2>3
<1>3. rq' \in Seq(Cells) /\ inbox' \in Seq(Cells) /\ rq' \o inbox' = rq \o inbox
  BY <1>1, <1>2 DEF SessTyped
<1>. QED BY <1>2, <1>3, SoundUntouched

LEMMA ServeKeeps ==
    ASSUME SessInv, Serve
    PROVE  SessInv'
<1>1. /\ ~turn /\ ~over
      /\ UNCHANGED <<over, rq, turn, fbu, dec, fresh, garbled, flushing, drawing, updating>>
  <2>1. ASSUME NEW to, Serves(to)
        PROVE  UNCHANGED <<over, rq, turn, fbu, dec, fresh, garbled, flushing, drawing, updating>>
    BY <2>1 DEF Serves, readVars, paceVars
  <2>2. \E to : Serves(to)
    BY Zenon DEF Serve, ServerUpdate, ServerRect, ServerLastRect, ServerMessage
  <2>. QED BY <2>1, <2>2 DEF Serve
<1>2. SessTyped /\ Told /\ ~garbled /\ Sound
  BY <1>1 DEF SessInv
<1>13. PICK a \in Nat : \E e : Path(rq \o inbox, Current(a), e) /\ AtServer(e, a)
  BY <1>2 DEF Sound
<1>3. PICK e : Path(rq \o inbox, Current(a), e) /\ AtServer(e, a)
  BY <1>13
<1>4. Sending(e, a)
  <2>1. Before(Current(a), e) /\ Before(e, e)
    BY <1>3, PathEnd
  <2>. QED BY <1>1, <1>2, <1>3, <2>1 DEF Sending
<1>5. Sends(e, a)
  BY <1>4, UpdateSends, RectSends, LastSends, MessageSends DEF Serve
<1>6. PICK cells, q : Emit(cells) /\ Path(cells, e, q) /\ AtServer(q, a)'
  BY <1>5, Zenon DEF Sends
<1>7. rq \in Seq(Cells) /\ inbox \in Seq(Cells) /\ cells \in Seq(Cells)
  BY <1>2, <1>6 DEF SessTyped, Path
<1>8. Path((rq \o inbox) \o cells, Current(a), q)
  BY <1>3, <1>6, PathJoined
<1>9. inbox' = inbox \o cells /\ (rq \o inbox) \o cells = rq \o (inbox \o cells)
  <2>1. inbox' = inbox \o cells
    BY <1>6, Zenon DEF Emit
  <2>2. (rq \o inbox) \o cells = rq \o (inbox \o cells)
    BY <1>7, ConcatAssociative
  <2>. QED BY <2>1, <2>2
<1>10. Current(a)' = Current(a)
  BY <1>1 DEF Current
<1>11. Sound'
  <2>1. Path(rq' \o inbox', Current(a)', q)
    BY <1>1, <1>8, <1>9, <1>10
  <2>. QED BY <1>6, <2>1, Zenon DEF Sound
<1>12. SessTyped'
  <2>1. inbox' \in Seq(Cells) /\ server' \in Servers /\ server'.requests \in 0..1
    BY <1>5, <1>7, <1>9 DEF Sends
  <2>. QED BY <1>1, <1>2, <2>1 DEF SessTyped
<1>14. Told'
  BY <1>1, <1>2, <1>5 DEF Told, Sends
<1>. QED BY <1>1, <1>2, <1>11, <1>12, <1>14 DEF SessInv

LEMMA SessInvInit ==
    ASSUME SessInit
    PROVE  SessInv
<1>1. /\ over = FALSE /\ rq = <<>> /\ turn = FALSE /\ garbled = FALSE
      /\ fbu = NoUpdate /\ dec = AtRest /\ fresh = [s \in Streams |-> TRUE]
      /\ flushing = FALSE /\ drawing = FALSE /\ updating = FALSE
      /\ inbox = <<>>
      /\ server = [left |-> 0, open |-> FALSE, requests |-> 1, continuous |-> FALSE,
                   offered |-> FALSE, fresh |-> [s \in Streams |-> TRUE]]
  BY DEF SessInit
<1>2. PICK z \in [Streams -> BOOLEAN] : z = [s \in Streams |-> TRUE]
  OBVIOUS
<1>3. PICK o : o = AtRest /\ o \in Decs
  BY AtRestIs
<1>4. PICK no \in BOOLEAN : ~no
  OBVIOUS
<1>5. /\ fbu.rects = 0 /\ fbu.enc = NoEncoding /\ fbu.size = 0 /\ dec = o /\ fresh = z
         /\ updating = no
      /\ fbu \in Updates
  <2>1. 0 \in 0..Many /\ NoEncoding \in Known \cup {NoEncoding}
    BY DEF Many
  <2>2. fbu = [rects |-> 0, enc |-> NoEncoding, size |-> 0]
    BY <1>1 DEF NoUpdate
  <2>3. fbu \in Updates
    BY <2>1, <2>2 DEF Updates
  <2>4. updating = no
    BY <1>1, <1>4
  <2>. QED BY <1>1, <1>2, <1>3, <2>2, <2>3, <2>4
<1>6. /\ server.left = 0 /\ ~server.open /\ server.requests = 1 /\ ~server.continuous
         /\ server.fresh = z
      /\ server \in Servers
  <2>1. MaxRects \in Nat
    BY SessAssumption
  <2>. QED BY <1>1, <1>2, <2>1 DEF Servers
<1>7. SessTyped
  <2>1. over \in BOOLEAN /\ turn \in BOOLEAN /\ flushing \in BOOLEAN /\ drawing \in BOOLEAN
          /\ updating \in BOOLEAN
    BY <1>1
  <2>2. dec \in Decs /\ fresh \in [Streams -> BOOLEAN] /\ rq \in Seq(Cells) /\ inbox \in Seq(Cells)
    BY <1>1, <1>3, <1>5
  <2>3. server \in Servers /\ server.requests \in 0..1 /\ fbu \in Updates
    BY <1>5, <1>6
  <2>. QED BY <2>1, <2>2, <2>3 DEF SessTyped
<1>8. Told
  BY <1>1, <1>6 DEF Told
<1>9. PICK p : p = Between(0, z, no, 0)
  OBVIOUS
<1>10. Current(0) = p
  BY <1>3, <1>5, <1>9 DEF Current, Between
<1>11. p \in Places /\ Tidy(p) /\ p.asks = 0
  <2>1. 0 \in 0..Many /\ NoEncoding \in Known \cup {NoEncoding}
    BY DEF Many
  <2>2. p.asks = 0
    BY <1>9 DEF Between, Place
  <2>. QED BY <1>9, <2>1, <2>2, AtIs, AtRestIs DEF Between
<1>12. Before(p, p)
  BY <1>11 DEF Before
<1>13. Path(<<>>, p, p)
  BY <1>12, PathNone
<1>14. rq \o inbox = <<>>
  <2>1. <<>> \in Seq(Cells)
    OBVIOUS
  <2>. QED BY <1>1, <2>1, ConcatEmptySeq
<1>15. AtServer(p, 0)
  <2>1. Idle = 1
    BY <1>6 DEF Idle
  <2>2. p = Between(0, server.fresh, no, 0)
    BY <1>6, <1>9
  <2>3. Sent(p, 0, 0, 0, no)
    BY <1>6, <2>1, <2>2 DEF Sent
  <2>4. 0 \in 0..Many /\ 0 \in Nat
    BY DEF Many
  <2>5. server.requests + p.asks <= 0 + 1
    BY <1>6, <1>11
  <2>. QED BY <2>3, <2>4, <2>5 DEF AtServer
<1>16. Path(rq \o inbox, Current(0), p)
  BY <1>10, <1>13, <1>14
<1>17. Sound
  <2>1. 0 \in Nat
    OBVIOUS
  <2>. QED BY <1>15, <1>16, <2>1, Zenon DEF Sound
<1>. QED BY <1>1, <1>7, <1>8, <1>17 DEF SessInv

LEMMA SessInvStays ==
    ASSUME SessInv, UNCHANGED sessVars
    PROVE  SessInv'
BY DEF SessInv, sessVars, readVars, paceVars, netVars, SessTyped, Told, Sound, Current,
   AtServer, Sent, Idle

(* The inductive invariant: wherever the stream is cut, what is read and   *)
(* not taken and what is on its way lead the parser, unit by unit, to the  *)
(* state the server has in mind (rfb.js:962-984, 2437-2541, decoders/).    *)
THEOREM SessInvariant == SessSpec => []SessInv
<1>1. SessInit => SessInv
  BY SessInvInit
<1>2. SessInv /\ [SessNext]_sessVars => SessInv'
  BY ParseKeeps, DeliverKeeps, DisplayKeeps, ServeKeeps, SessInvStays DEF SessNext
<1>. QED BY <1>1, <1>2, PTL DEF SessSpec

(* Every variable keeps its type: counts of rectangles, of lines, tiles,   *)
(* subrectangles and segments still to come stay within what the protocol  *)
(* sends, whatever was cut (rfb.js:2495-2541).                             *)
THEOREM SessTypes == SessSpec => []SessTypeOK
<1>1. SessInv => SessTypeOK
  <2>1. ASSUME SessTyped PROVE SessTypeOK
    <3>1. fbu.rects \in 0..Many /\ fbu.enc \in Known \cup {NoEncoding}
      BY <2>1 DEF SessTyped, Updates
    <3>2. dec.lines \in 0..2 /\ dec.subrects \in 0..2 /\ dec.tiles \in 0..2 /\ dec.segments \in 0..2
      BY <2>1 DEF SessTyped, Decs
    <3>. QED BY <2>1, <3>1, <3>2 DEF SessTyped, SessTypeOK
  <2>. QED BY <2>1 DEF SessInv
<1>. QED BY <1>1, SessInvariant, PTL

LEMMA KeepsStepHolds ==
    ASSUME SessInv
    PROVE  KeepsStep
<1>1. ~garbled
  BY DEF SessInv
<1>2. fbu.enc = NoEncoding /\ ~over => dec = AtRest
  <2>1. ASSUME fbu.enc = NoEncoding, ~over PROVE dec = AtRest
    <3>1. Sound
      BY <2>1 DEF SessInv
    <3>2. PICK a \in Nat : \E e : Path(rq \o inbox, Current(a), e)
      BY <3>1 DEF Sound
    <3>3. PICK e, p : p = Current(a) /\ Path(rq \o inbox, p, e)
      BY <3>2
    <3>4. Tidy(p)
      BY <3>3, PathEnd DEF Before
    <3>5. p.enc = fbu.enc /\ p.dec = dec /\ ~p.dead
      BY <3>3, CurrentIs
    <3>. QED BY <2>1, <3>4, <3>5 DEF Tidy
  <2>. QED BY <2>1
<1>3. turn /\ Whole /\ Wants = "deflated" => Inflates
  <2>1. ASSUME turn, Whole, Wants = "deflated" PROVE Inflates
    <3>1. PICK a \in Nat : \E e, m : Found(Current(a), Head(rq), m, a)
      BY <2>1, HeadFound
    <3>2. PICK p, c, m : p = Current(a) /\ c = Head(rq) /\ Found(p, c, m, a)
      BY <3>1
    <3>3. SessTyped /\ c \in Cells /\ Means(p, c, m)
      BY <3>2 DEF Found
    <3>4. DecodeMeans(p, c, m) /\ c.k = "deflated"
      BY <2>1, <3>2, <3>3, MeansInStep
    <3>5. (c.v = "first") = p.fresh[p.dec.stream]
      BY <3>4, TightIs
    <3>6. p.fresh = fresh /\ p.dec = dec
      BY <3>2, CurrentIs
    <3>. QED BY <3>2, <3>5, <3>6 DEF Inflates, Says
  <2>. QED BY <2>1
<1>. QED BY <1>1, <1>2, <1>3 DEF KeepsStep

(* Nothing is read that is not what the server sent there, for any cut of  *)
(* any stream: no unit is taken for another, between two rectangles no     *)
(* decoder holds on to anything, and a zlib stream of Tight goes on from   *)
(* where the server left it (rfb.js:2437-2541, tight.js:28-136).           *)
THEOREM InStepAlways == SessSpec => []KeepsStep
BY SessInvariant, KeepsStepHolds, PTL

LEMMA NeverStarvesHolds ==
    ASSUME SessInv
    PROVE  NeverStarves
<1>1. ASSUME ~turn, ~over, inbox = <<>>, rq = <<>>, fbu.rects = 0, server.left = 0, ~server.open
      PROVE  server.requests > 0 \/ server.continuous
  <2>1. Sound /\ SessTyped /\ Told
    BY <1>1 DEF SessInv
  <2>2. PICK a \in Nat : \E e : Path(rq \o inbox, Current(a), e) /\ AtServer(e, a)
    BY <2>1 DEF Sound
  <2>3. PICK p, e : p = Current(a) /\ Path(rq \o inbox, p, e) /\ AtServer(e, a)
    BY <2>2
  <2>4. rq \o inbox = <<>>
    <3>1. <<>> \in Seq(Cells)
      OBVIOUS
    <3>. QED BY <1>1, <3>1, ConcatEmptySeq
  <2>5. Path(<<>>, p, e)
    BY <2>3, <2>4
  <2>6. PICK f : Leads(<<>>, p, e, f)
    BY <2>5 DEF Path
  <2>7. Len(<<>>) = 0
    OBVIOUS
  <2>8. e = p
    BY <2>6, <2>7 DEF Leads
  <2>9. p.upd = updating /\ p.asks = a /\ ~p.dead
    BY <2>3, CurrentIs
  <2>10. PICK r \in 0..Many, b \in Nat, u \in BOOLEAN : Sent(e, a, r, b, u)
    BY <2>3, <2>8, <2>9 DEF AtServer
  <2>11. e.asks = b /\ e.upd = u
    BY <2>10 DEF Sent, Between, Place
  <2>12. b = a /\ u = updating
    BY <2>8, <2>9, <2>11
  <2>13. Idle = 1
    BY <1>1 DEF Idle
  <2>14. CASE u
    BY <1>1, <2>1, <2>12, <2>14 DEF Told
  <2>15. CASE ~u
    <3>1. server.requests + b >= a + 1
      BY <1>1, <2>10, <2>13, <2>15 DEF Sent
    <3>2. server.requests \in 0..1
      BY <2>1 DEF SessTyped
    <3>. QED BY <2>12, <3>1, <3>2
  <2>. QED BY <2>14, <2>15
<1>. QED BY <1>1 DEF NeverStarves

(* When everything sent has been read and the server has no update to go   *)
(* on with, it has a request to answer or sends without being asked: the   *)
(* client never forgets to ask for the next update, whether it stopped for *)
(* bytes or for its display (rfb.js:2503-2541).                            *)
THEOREM AsksOn == SessSpec => []NeverStarves
BY SessInvariant, NeverStarvesHolds, PTL

(* What ends the loop. *)
Settled == turn \/ over \/ flushing \/ rq = <<>>

LEMMA DecodesTurns ==
    ASSUME NEW to, NEW done, Decodes(to, done)
    PROVE  turn' \/ rq' = <<>>
<1>1. CASE done
  <2>1. RectEnds(fbu.rects - 1)
    BY <1>1 DEF Decodes
  <2>. QED BY <2>1 DEF RectEnds, Turns
<1>2. CASE ~done
  BY <1>2 DEF Decodes, RectGoesOn
<1>. QED BY <1>1, <1>2

LEMMA ParseSettles ==
    ASSUME Parse, ~Waits, drawing \in BOOLEAN
    PROVE  Settled'
<1>1. CASE FramebufferUpdate
  BY <1>1 DEF FramebufferUpdate, Settled
<1>2. CASE EndOfContinuousUpdates
  BY <1>2 DEF EndOfContinuousUpdates, Turns, Settled
<1>3. CASE RectHeader
  <2>1. CASE Says \notin Known
    BY <1>3, <2>1 DEF RectHeader, Fails, Settled, Known, DataEncodings, PseudoEncodings
  <2>2. CASE Says \in Known
    <3>1. turn' = TRUE \/ \E left : RectEnds(left)
      BY <1>3, <2>2 DEF RectHeader
    <3>2. CASE \E left : RectEnds(left)
      BY <3>2 DEF RectEnds, Turns, Settled
    <3>. QED BY <3>1, <3>2 DEF Settled
  <2>. QED BY <2>1, <2>2
<1>4. CASE DecodeRect
  <2>1. CASE TightDeflated
    <3>1. (over' /\ ~turn') \/ RectEnds(fbu.rects - 1)
      BY <2>1 DEF TightDeflated, Fails
    <3>. QED BY <3>1 DEF RectEnds, Turns, Settled
  <2>2. CASE Throws
    BY <2>2 DEF Throws, Fails, Settled
  <2>3. CASE ~TightDeflated /\ ~Throws
    <3>1. \E to, done : Decodes(to, done)
      BY <1>4, <2>3, Zenon DEF DecodeRect, VMwareCursor, Cursor, DesktopName, LedEvent,
         ExtendedDesktopSize, CopyRect, WholeRect, RawLine, RreBackground, RreSubrect, HextileTile,
         ZrleLength, ZrleData, JpegSegment, TightControl, TightFilter, TightPalette, TightLength,
         TightImage, TightPixels
    <3>. QED BY <3>1, DecodesTurns DEF Settled
  <2>. QED BY <2>1, <2>2, <2>3
<1>5. CASE SetColourMap \/ Bell \/ ServerFence \/ Xvp \/ UnexpectedMessage
  <2>1. CASE SetColourMap
    BY <2>1 DEF SetColourMap, Message, Fails, Settled
  <2>2. CASE Bell
    BY <2>2 DEF Bell, Message, Turns, Settled
  <2>3. CASE ServerFence
    BY <2>3 DEF ServerFence, Message, Turns, Settled
  <2>4. CASE Xvp
    BY <2>4 DEF Xvp, Message, Turns, Settled
  <2>5. CASE UnexpectedMessage
    BY <2>5 DEF UnexpectedMessage, Message, Turns, Settled
  <2>. QED BY <1>5, <2>1, <2>2, <2>3, <2>4, <2>5
<1>6. CASE ServerCutText
  <2>1. CASE Says = "bad"
    BY <1>6, <2>1 DEF ServerCutText, Message, Fails, Settled
  <2>2. CASE Says # "bad"
    BY <1>6, <2>2 DEF ServerCutText, Message, Turns, Settled
  <2>. QED BY <2>1, <2>2
<1>. QED BY <1>1, <1>2, <1>3, <1>4, <1>5, <1>6 DEF Parse

LEMMA NothingLeftKept ==
    ASSUME SessInv, NothingLeft, [SessNext]_sessVars
    PROVE  NothingLeft'
<1>1. /\ turn \in BOOLEAN /\ over \in BOOLEAN /\ flushing \in BOOLEAN /\ drawing \in BOOLEAN
  BY DEF SessInv, SessTyped
<1>2. Settled' => NothingLeft'
  BY DEF Settled, NothingLeft, Whole
<1>3. CASE Waits
  <2>1. ~Whole'
    BY <1>3 DEF Waits, Whole
  <2>. QED BY <2>1 DEF NothingLeft
<1>4. CASE Parse /\ ~Waits
  BY <1>1, <1>2, <1>4, ParseSettles
<1>5. CASE Deliver
  <2>1. turn' = ~flushing /\ flushing' = flushing
    BY <1>5 DEF Deliver, paceVars
  <2>. QED BY <1>1, <2>1 DEF NothingLeft
<1>6. CASE Load
  <2>1. UNCHANGED <<turn, flushing, over, rq>>
    BY <1>6 DEF Load, readVars
  <2>. QED BY <2>1 DEF NothingLeft, Whole
<1>7. CASE Flushed
  <2>1. turn' = (rq # <<>> /\ ~over) /\ rq' = rq /\ over' = over
    BY <1>7 DEF Flushed
  <2>. QED BY <1>1, <1>2, <2>1 DEF Settled
<1>8. CASE Serve
  <2>1. ASSUME NEW to, Serves(to) PROVE UNCHANGED <<turn, flushing, over, rq>>
    BY <2>1 DEF Serves, readVars, paceVars
  <2>2. \E to : Serves(to)
    BY <1>8, Zenon DEF Serve, ServerUpdate, ServerRect, ServerLastRect, ServerMessage
  <2>. QED BY <2>1, <2>2 DEF NothingLeft, Whole
<1>9. CASE UNCHANGED sessVars
  BY <1>9 DEF sessVars, readVars, paceVars, NothingLeft, Whole
<1>. QED BY <1>3, <1>4, <1>5, <1>6, <1>7, <1>8, <1>9 DEF SessNext, Parse

(* The client does not sit on a unit that is there as a whole unless it    *)
(* waits for its display, whose promise wakes it again (rfb.js:962-984,    *)
(* 2503-2515).                                                             *)
THEOREM ReadsAll == SessSpec => []NothingLeft
<1>1. SessInit => NothingLeft
  BY DEF SessInit, NothingLeft, Whole
<1>2. SessInv /\ NothingLeft /\ [SessNext]_sessVars => NothingLeft'
  BY NothingLeftKept
<1>. QED BY <1>1, <1>2, SessInvariant, PTL DEF SessSpec
=============================================================================
