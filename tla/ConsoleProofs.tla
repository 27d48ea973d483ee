--------------------------- MODULE ConsoleProofs ---------------------------
(***************************************************************************)
(* The keyboard and the display of the console, which share nothing,       *)
(* proved one after the other.                                             *)
(*                                                                         *)
(* Keyboard, for any keys of the three platforms, any number of them held  *)
(* and any number of LED messages on their way.  The inductive invariant   *)
(* says which symbols a key can have gone down with, which keys may be     *)
(* down while the window is away or waiting for AltGr, and what the        *)
(* messages on their way say of the lock.                                  *)
(*                                                                         *)
(* Display, for any rectangles, sizes and moves, and a queue of any        *)
(* length.  The inductive invariant speaks of one state [view, back,       *)
(* target, damage, q], as the model's operators map such states.           *)
(***************************************************************************)
EXTENDS Keyboard, Display, FiniteSetTheorems, SequenceTheorems, WellFoundedInduction, TLAPS

Codes == {"KeyA", "ControlLeft", "AltRight", "ShiftLeft", "ShiftRight",
          "MetaLeft", "CapsLock", Japanese, Unidentified}

(* The symbols a key may go down with. *)
Own(code) == Symbols(code) \cup CASE code = "MetaLeft" -> {"Alt_L"} [] OTHER -> {}

Led == [lock : Locks, fix : BOOLEAN]

(* A keyboard [list, remote, server, leds] as the program makes them: the  *)
(* server takes for pressed the symbols of the keys that are down.         *)
Made(l, r, d, c, q) ==
    [list |-> l, remote |-> r, server |-> [down |-> d, caps |-> c], leds |-> q]

Shaped(k) ==
    /\ k = Made(k.list, k.remote, k.server.down, k.server.caps, k.leds)
    /\ k.remote \in Locks \cup {Unknown} /\ k.server.caps \in Locks
    /\ k.leds \in Seq(Led)

Owned(list_) ==
    /\ list_ = [c \in DOMAIN list_ |-> list_[c]]
    /\ DOMAIN list_ \subseteq Codes
    /\ \A c \in DOMAIN list_ : list_[c] \in Own(c)

Pressed(k) == k.server.down \ {"CapsLock"} = Range(k.list) \ {"CapsLock"}

Good(k) == Shaped(k) /\ Owned(k.list) /\ Pressed(k)
-----------------------------------------------------------------------------
(* The symbols of two keys are different. *)
LEMMA OwnIs ==
    /\ Own("KeyA") = {"a", "A"} /\ Own("ControlLeft") = {"ControlLeft"}
    /\ Own("AltRight") = {"Alt_R", "Level3"} /\ Own("ShiftLeft") = {"ShiftLeft"}
    /\ Own("ShiftRight") = {"ShiftRight"} /\ Own("MetaLeft") = {"Super_L", "Alt_L"}
    /\ Own("CapsLock") = {"CapsLock"} /\ Own(Japanese) = {"Zenkaku"}
    /\ Own(Unidentified) = {"virtual"}
BY DEF Own, Symbols, Japanese, Unidentified

LEMMA OwnDisjoint ==
    ASSUME NEW c \in Codes, NEW d \in Codes, c # d
    PROVE  Own(c) \cap Own(d) = {}
BY OwnIs DEF Codes, Japanese, Unidentified

LEMMA OwnCaps ==
    ASSUME NEW c \in Codes
    PROVE  "CapsLock" \in Own(c) <=> c = "CapsLock"
BY OwnIs DEF Codes, Japanese, Unidentified

LEMMA MadeIs ==
    ASSUME NEW l, NEW r, NEW d, NEW c, NEW q
    PROVE  /\ Made(l, r, d, c, q).list = l /\ Made(l, r, d, c, q).remote = r
           /\ Made(l, r, d, c, q).server.down = d /\ Made(l, r, d, c, q).server.caps = c
           /\ Made(l, r, d, c, q).leds = q
BY DEF Made

LEMMA MadeShaped ==
    ASSUME NEW l, NEW r \in Locks \cup {Unknown}, NEW d, NEW c \in Locks, NEW q \in Seq(Led)
    PROVE  Shaped(Made(l, r, d, c, q))
BY MadeIs DEF Shaped

LEMMA ShapeIs ==
    ASSUME NEW k, Shaped(k)
    PROVE  /\ k.remote \in Locks \cup {Unknown} /\ k.server.caps \in Locks
           /\ k.leds \in Seq(Led)
BY DEF Shaped

(* The truth values as arguments; the lemmas below leave them folded.      *)
Yes == TRUE
No  == FALSE

LEMMA YesAndNo == Yes \in BOOLEAN /\ No \in BOOLEAN
BY DEF Yes, No

(* What the server makes of a press and of a release. *)
Turns(k, symbol) == symbol = "CapsLock" /\ symbol \notin k.server.down

Replace(k, d, c, q) == [k EXCEPT !.server = [down |-> d, caps |-> c], !.leds = q]

LEMMA Replaced ==
    ASSUME NEW k, Shaped(k), NEW d, NEW c, NEW q
    PROVE  Replace(k, d, c, q) = Made(k.list, k.remote, d, c, q)
<1> DEFINE x   == [down |-> d, caps |-> c]
           one == [k EXCEPT !.server = x]
           two == [one EXCEPT !.leds = q]
<1>1. PICK l, r, s, o : k = [list |-> l, remote |-> r, server |-> s, leds |-> o]
  BY DEF Shaped, Made
<1>. HIDE DEF x
<1>2. one = [list |-> l, remote |-> r, server |-> x, leds |-> o] /\ k.list = l /\ k.remote = r
  BY <1>1
<1>. HIDE DEF one
<1>3. two = [list |-> k.list, remote |-> k.remote, server |-> x, leds |-> q]
  BY <1>2
<1>. QED BY <1>3 DEF one, two, x, Made, Replace

LEMMA ServeDown ==
    ASSUME NEW k, NEW symbol, NEW fix, Shaped(k)
    PROVE  Serve(k, symbol, Yes, fix) =
              Made( k.list, k.remote, k.server.down \cup {symbol},
                    IF Turns(k, symbol) THEN Turned(k.server.caps) ELSE k.server.caps,
                    IF Turns(k, symbol)
                    THEN Append(k.leds, [lock |-> Turned(k.server.caps), fix |-> fix])
                    ELSE k.leds )
<1> DEFINE d == k.server.down \cup {symbol}
           c == IF Turns(k, symbol) THEN Turned(k.server.caps) ELSE k.server.caps
           q == IF Turns(k, symbol)
                THEN Append(k.leds, [lock |-> Turned(k.server.caps), fix |-> fix])
                ELSE k.leds
<1>1. Serve(k, symbol, Yes, fix) = Replace(k, d, c, q)
  BY DEF Serve, Turns, Replace, Yes
<1>. HIDE DEF d, c, q
<1>2. Serve(k, symbol, Yes, fix) = Made(k.list, k.remote, d, c, q)
  BY <1>1, Replaced
<1>. QED BY <1>2 DEF d, c, q

LEMMA ServeUp ==
    ASSUME NEW k, NEW symbol, NEW fix, Shaped(k)
    PROVE  Serve(k, symbol, No, fix) =
              Made(k.list, k.remote, k.server.down \ {symbol}, k.server.caps, k.leds)
<1> DEFINE d == k.server.down \ {symbol}
           c == k.server.caps
           q == k.leds
<1>1. Serve(k, symbol, No, fix) = Replace(k, d, c, q)
  BY DEF Serve, Replace, No
<1>. HIDE DEF d, c, q
<1>2. Serve(k, symbol, No, fix) = Made(k.list, k.remote, d, c, q)
  BY <1>1, Replaced
<1>. QED BY <1>2 DEF d, c, q

(* What is on its way from the server after a step: nothing new, or the    *)
(* lock turned over once.                                                  *)
Quiet(k, p) == p.leds = k.leds /\ p.server.caps = k.server.caps
Told1(k, p, fix) ==
    /\ p.leds = Append(k.leds, [lock |-> Turned(k.server.caps), fix |-> fix])
    /\ p.server.caps = Turned(k.server.caps)

LEMMA ServedDown ==
    ASSUME NEW k, NEW symbol, NEW fix \in BOOLEAN, NEW p,
           Shaped(k), p = Serve(k, symbol, Yes, fix)
    PROVE  /\ Shaped(p) /\ p.list = k.list /\ p.remote = k.remote
           /\ p.server.down = k.server.down \cup {symbol}
           /\ IF Turns(k, symbol) THEN Told1(k, p, fix) ELSE Quiet(k, p)
<1> DEFINE caps == Turned(k.server.caps)
           led  == [lock |-> caps, fix |-> fix]
           q    == Append(k.leds, led)
           d    == k.server.down \cup {symbol}
<1>1. /\ caps \in Locks /\ led \in Led /\ q \in Seq(Led)
      /\ k.remote \in Locks \cup {Unknown} /\ k.server.caps \in Locks /\ k.leds \in Seq(Led)
  BY ShapeIs DEF Turned, Locks, Led
<1>2. CASE Turns(k, symbol)
  <2>1. p = Made(k.list, k.remote, d, caps, q)
    BY <1>2, ServeDown
  <2>. HIDE DEF led, caps, q, d
  <2>2. Shaped(p) /\ p.list = k.list /\ p.remote = k.remote
        /\ p.server.down = d /\ p.leds = q /\ p.server.caps = caps
    <3>1. Shaped(p)
      BY <1>1, <2>1, MadeShaped
    <3>. QED BY <2>1, <3>1, MadeIs
  <2>. QED BY <1>2, <2>2 DEF Told1, led, caps, q, d
<1>3. CASE ~Turns(k, symbol)
  <2>1. p = Made(k.list, k.remote, d, k.server.caps, k.leds)
    BY <1>3, ServeDown
  <2>. HIDE DEF led, caps, q, d
  <2>2. Shaped(p) /\ p.list = k.list /\ p.remote = k.remote
        /\ p.server.down = d /\ p.leds = k.leds /\ p.server.caps = k.server.caps
    <3>1. Shaped(p)
      BY <1>1, <2>1, MadeShaped
    <3>. QED BY <2>1, <3>1, MadeIs
  <2>. QED BY <1>3, <2>2 DEF Quiet, d
<1>. QED BY <1>2, <1>3

LEMMA ServedUp ==
    ASSUME NEW k, NEW symbol, NEW fix, NEW p, Shaped(k), p = Serve(k, symbol, No, fix)
    PROVE  /\ Shaped(p) /\ p.list = k.list /\ p.remote = k.remote
           /\ p.server.down = k.server.down \ {symbol}
           /\ Quiet(k, p)
<1>1. p = Made(k.list, k.remote, k.server.down \ {symbol}, k.server.caps, k.leds)
  BY ServeUp
<1>2. Shaped(p)
  <2>1. k.remote \in Locks \cup {Unknown} /\ k.server.caps \in Locks /\ k.leds \in Seq(Led)
    BY ShapeIs
  <2>. QED BY <1>1, <2>1, MadeShaped
<1>. QED BY <1>1, <1>2, MadeIs DEF Quiet

LEMMA TurnedOver ==
    ASSUME NEW k, NEW t, Shaped(k), t = TurnOver(k)
    PROVE  /\ Shaped(t) /\ t.list = k.list /\ t.remote = k.remote
           /\ t.server.down \ {"CapsLock"} = k.server.down \ {"CapsLock"}
           /\ (Told1(k, t, Yes) \/ Quiet(k, t))
<1>1. PICK p : p = Serve(k, "CapsLock", Yes, Yes)
  OBVIOUS
<1>2. /\ Shaped(p) /\ p.list = k.list /\ p.remote = k.remote
      /\ p.server.down = k.server.down \cup {"CapsLock"}
      /\ (Told1(k, p, Yes) \/ Quiet(k, p))
  BY <1>1, YesAndNo, ServedDown
<1>3. t = Serve(p, "CapsLock", No, Yes)
  BY <1>1 DEF TurnOver, Yes, No
<1>4. /\ Shaped(t) /\ t.list = p.list /\ t.remote = p.remote
      /\ t.server.down = p.server.down \ {"CapsLock"} /\ Quiet(p, t)
  BY <1>2, <1>3, ServedUp
<1>. QED BY <1>2, <1>4 DEF Quiet, Told1

(* The lock is turned over for this key. *)
Fixes(k, code, caps) ==
    code # "CapsLock" /\ k.remote # Unknown /\ caps # Unknown /\ k.remote # caps

LEMMA Remembers ==
    ASSUME NEW k, NEW r \in Locks \cup {Unknown}, NEW p, Shaped(k), p = [k EXCEPT !.remote = r]
    PROVE  /\ Shaped(p) /\ p.list = k.list /\ p.remote = r
           /\ p.server.down = k.server.down /\ Quiet(k, p)
<1>1. p = Made(k.list, r, k.server.down, k.server.caps, k.leds)
  <2>1. PICK l, o, d, c, q : k = Made(l, o, d, c, q)
    BY DEF Shaped
  <2>2. p = Made(l, r, d, c, q)
    BY <2>1 DEF Made
  <2>. QED BY <2>1, <2>2, MadeIs
<1>2. Shaped(p)
  BY <1>1, ShapeIs, MadeShaped
<1>. QED BY <1>1, <1>2, MadeIs DEF Quiet

LEMMA KeyGoesDown ==
    ASSUME NEW k, NEW code, NEW symbol, NEW caps \in Locks \cup {Unknown}, NEW p, Shaped(k),
           symbol = "CapsLock" <=> code = "CapsLock",
           p = HandleKeyEvent(k, symbol, code, Yes, caps)
    PROVE  /\ Shaped(p) /\ p.list = k.list
           /\ p.server.down \ {"CapsLock"} = (k.server.down \cup {symbol}) \ {"CapsLock"}
           /\ Fixes(k, code, caps) => p.remote = Unknown /\ (Told1(k, p, Yes) \/ Quiet(k, p))
           /\ code = "CapsLock" => p.remote = Unknown /\ (Told1(k, p, No) \/ Quiet(k, p))
           /\ ~Fixes(k, code, caps) /\ code # "CapsLock" => p.remote = k.remote /\ Quiet(k, p)
<1>1. Unknown \in Locks \cup {Unknown} /\ k.remote \in Locks \cup {Unknown}
  BY ShapeIs
<1>2. CASE Fixes(k, code, caps)
  <2>1. PICK t : t = TurnOver(k)
    OBVIOUS
  <2>2. /\ Shaped(t) /\ t.list = k.list /\ (Told1(k, t, Yes) \/ Quiet(k, t))
        /\ t.server.down \ {"CapsLock"} = k.server.down \ {"CapsLock"}
    BY <2>1, TurnedOver
  <2>3. PICK u : u = [t EXCEPT !.remote = Unknown]
    OBVIOUS
  <2>4. /\ Shaped(u) /\ u.list = t.list /\ u.remote = Unknown
        /\ u.server.down = t.server.down /\ Quiet(t, u)
    BY <1>1, <2>2, <2>3, Remembers
  <2>5. p = Serve(u, symbol, Yes, No)
    BY <1>2, <2>1, <2>3 DEF HandleKeyEvent, Fixes, Yes, No
  <2>6. /\ Shaped(p) /\ p.list = u.list /\ p.remote = u.remote
        /\ p.server.down = u.server.down \cup {symbol} /\ Quiet(u, p)
    BY <1>2, <2>4, <2>5, YesAndNo, ServedDown DEF Fixes, Turns
  <2>. QED BY <1>2, <2>2, <2>4, <2>6 DEF Quiet, Told1, Fixes
<1>3. CASE ~Fixes(k, code, caps)
  <2>1. PICK r : r = IF code = "CapsLock" THEN Unknown ELSE k.remote
    OBVIOUS
  <2>2. PICK u : u = [k EXCEPT !.remote = r]
    OBVIOUS
  <2>3. /\ Shaped(u) /\ u.list = k.list /\ u.remote = r
        /\ u.server.down = k.server.down /\ Quiet(k, u)
    BY <1>1, <2>1, <2>2, Remembers
  <2>4. p = Serve(u, symbol, Yes, No)
    BY <1>3, <2>1, <2>2 DEF HandleKeyEvent, Fixes, Yes, No
  <2>5. /\ Shaped(p) /\ p.list = u.list /\ p.remote = u.remote
        /\ p.server.down = u.server.down \cup {symbol}
        /\ IF Turns(u, symbol) THEN Told1(u, p, No) ELSE Quiet(u, p)
    BY <2>3, <2>4, YesAndNo, ServedDown
  <2>6. CASE code = "CapsLock"
    BY <2>1, <2>3, <2>5, <2>6 DEF Quiet, Told1, Fixes
  <2>7. CASE code # "CapsLock"
    <3>1. Quiet(u, p)
      BY <2>5, <2>7 DEF Turns
    <3>. QED BY <1>3, <2>1, <2>3, <2>5, <2>7, <3>1 DEF Quiet
  <2>. QED BY <2>6, <2>7
<1>. QED BY <1>2, <1>3

LEMMA KeyGoesUp ==
    ASSUME NEW k, NEW code, NEW symbol, NEW p, Shaped(k),
           p = HandleKeyEvent(k, symbol, code, No, Unknown)
    PROVE  /\ Shaped(p) /\ p.list = k.list /\ p.remote = k.remote
           /\ p.server.down = k.server.down \ {symbol} /\ Quiet(k, p)
<1>1. PICK u : u = [k EXCEPT !.remote = k.remote]
  OBVIOUS
<1>2. /\ Shaped(u) /\ u.list = k.list /\ u.remote = k.remote
      /\ u.server.down = k.server.down /\ Quiet(k, u)
  <2>1. k.remote \in Locks \cup {Unknown}
    BY ShapeIs
  <2>. QED BY <1>1, <2>1, Remembers
<1>3. p = Serve(u, symbol, No, No)
  BY <1>1 DEF HandleKeyEvent, Yes, No
<1>4. /\ Shaped(p) /\ p.list = u.list /\ p.remote = u.remote
      /\ p.server.down = u.server.down \ {symbol} /\ Quiet(u, p)
  BY <1>2, <1>3, ServedUp
<1>. QED BY <1>2, <1>4 DEF Quiet
-----------------------------------------------------------------------------
(* Presses and releases of keys. *)

LEMMA Relisted ==
    ASSUME NEW k, NEW l, NEW u, Shaped(k), u = [k EXCEPT !.list = l]
    PROVE  /\ Shaped(u) /\ u.list = l /\ u.remote = k.remote
           /\ u.server.down = k.server.down /\ Quiet(k, u)
<1>1. u = Made(l, k.remote, k.server.down, k.server.caps, k.leds)
  <2>1. PICK o, r, d, c, q : k = Made(o, r, d, c, q)
    BY DEF Shaped
  <2>2. u = Made(l, r, d, c, q)
    BY <2>1 DEF Made
  <2>. QED BY <2>1, <2>2, MadeIs
<1>2. Shaped(u)
  <2>1. k.remote \in Locks \cup {Unknown} /\ k.server.caps \in Locks /\ k.leds \in Seq(Led)
    BY ShapeIs
  <2>. QED BY <1>1, <2>1, MadeShaped
<1>. QED BY <1>1, <1>2, MadeIs DEF Quiet

LEMMA SameCaps ==
    ASSUME NEW code \in Codes, NEW symbol \in Own(code)
    PROVE  symbol = "CapsLock" <=> code = "CapsLock"
BY OwnIs DEF Codes, Japanese, Unidentified

(* What is on its way after a key went down. *)
Pushes(k, p, code, caps) ==
    /\ Fixes(k, code, caps) => p.remote = Unknown /\ (Told1(k, p, Yes) \/ Quiet(k, p))
    /\ code = "CapsLock" => p.remote = Unknown /\ (Told1(k, p, No) \/ Quiet(k, p))
    /\ ~Fixes(k, code, caps) /\ code # "CapsLock" => p.remote = k.remote /\ Quiet(k, p)

LEMMA PressIs ==
    ASSUME NEW k, NEW code \in Codes, NEW symbol \in Own(code), NEW caps \in Locks \cup {Unknown},
           NEW p, Good(k), code \in DOMAIN k.list => k.list[code] = symbol,
           p = Press(k, symbol, code, caps)
    PROVE  /\ Good(p) /\ DOMAIN p.list = DOMAIN k.list \cup {code}
           /\ Pushes(k, p, code, caps)
<1> DEFINE l == Noted(k.list, code, symbol)
<1>1. l = [c \in DOMAIN k.list \cup {code} |-> IF c = code THEN symbol ELSE k.list[c]]
  BY DEF Noted
<1>. HIDE DEF l
<1>2. PICK u : u = [k EXCEPT !.list = l]
  OBVIOUS
<1>3. /\ Shaped(u) /\ u.list = l /\ u.remote = k.remote
      /\ u.server.down = k.server.down /\ Quiet(k, u)
  BY <1>2, Relisted DEF Good
<1>4. p = HandleKeyEvent(u, symbol, code, Yes, caps)
  BY <1>2 DEF Press, Yes, l
<1>5. symbol = "CapsLock" <=> code = "CapsLock"
  BY SameCaps
<1>6. /\ Shaped(p) /\ p.list = u.list
      /\ p.server.down \ {"CapsLock"} = (u.server.down \cup {symbol}) \ {"CapsLock"}
      /\ Fixes(u, code, caps) => p.remote = Unknown /\ (Told1(u, p, Yes) \/ Quiet(u, p))
      /\ code = "CapsLock" => p.remote = Unknown /\ (Told1(u, p, No) \/ Quiet(u, p))
      /\ ~Fixes(u, code, caps) /\ code # "CapsLock" => p.remote = u.remote /\ Quiet(u, p)
  BY <1>3, <1>4, <1>5, KeyGoesDown
<1>7. Pushes(k, p, code, caps)
  BY <1>3, <1>6 DEF Pushes, Fixes, Quiet, Told1
<1>8. Owned(p.list) /\ DOMAIN p.list = DOMAIN k.list \cup {code}
  BY <1>1, <1>3, <1>6 DEF Good, Owned
<1>9. Range(p.list) = Range(k.list) \cup {symbol}
  <2>1. \A c \in DOMAIN k.list : c \in DOMAIN p.list /\ p.list[c] = k.list[c]
    BY <1>1, <1>3, <1>6
  <2>2. code \in DOMAIN p.list /\ p.list[code] = symbol
    BY <1>1, <1>3, <1>6
  <2>3. \A c \in DOMAIN p.list : c # code => c \in DOMAIN k.list
    BY <1>8
  <2>. QED BY <2>1, <2>2, <2>3 DEF Range
<1>10. Pressed(p)
  BY <1>3, <1>6, <1>9 DEF Good, Pressed
<1>. QED BY <1>6, <1>7, <1>8, <1>10 DEF Good

(* What a release leaves of a keyboard. *)
Lighter(k, p, codes) ==
    /\ DOMAIN p.list = DOMAIN k.list \ codes
    /\ p.remote = k.remote /\ Quiet(k, p)

LEMMA ReleaseIs ==
    ASSUME NEW k, NEW code, NEW p, Good(k), p = Release(k, code)
    PROVE  Good(p) /\ Lighter(k, p, {code})
<1>1. CASE code \notin DOMAIN k.list
  BY <1>1 DEF Release, Lighter, Quiet
<1>2. CASE code \in DOMAIN k.list
  <2> DEFINE l == Restrict(k.list, DOMAIN k.list \ {code})
             symbol == k.list[code]
  <2>1. l = [c \in DOMAIN k.list \ {code} |-> k.list[c]]
    BY DEF Restrict
  <2>. HIDE DEF l
  <2>2. PICK u : u = [k EXCEPT !.list = l]
    OBVIOUS
  <2>3. /\ Shaped(u) /\ u.list = l /\ u.remote = k.remote
        /\ u.server.down = k.server.down /\ Quiet(k, u)
    BY <2>2, Relisted DEF Good
  <2>4. p = HandleKeyEvent(u, symbol, code, No, Unknown)
    BY <1>2, <2>2 DEF Release, No, l
  <2>5. /\ Shaped(p) /\ p.list = u.list /\ p.remote = u.remote
        /\ p.server.down = u.server.down \ {symbol} /\ Quiet(u, p)
    BY <2>3, <2>4, KeyGoesUp
  <2>6. Lighter(k, p, {code})
    BY <2>1, <2>3, <2>5 DEF Lighter, Quiet
  <2>7. Owned(p.list)
    BY <2>1, <2>3, <2>5 DEF Good, Owned
  <2>8. Range(p.list) = Range(k.list) \ {symbol}
    <3>1. \A c \in DOMAIN p.list : c \in DOMAIN k.list /\ c # code /\ p.list[c] = k.list[c]
      BY <2>1, <2>3, <2>5
    <3>2. \A c \in DOMAIN k.list : c # code => c \in DOMAIN p.list /\ p.list[c] = k.list[c]
      BY <2>1, <2>3, <2>5
    <3>3. \A c \in DOMAIN k.list : c # code => k.list[c] # symbol
      BY <1>2, OwnDisjoint DEF Good, Owned
    <3>. QED BY <1>2, <3>1, <3>2, <3>3 DEF Range
  <2>9. Pressed(p)
    BY <2>3, <2>5, <2>8 DEF Good, Pressed
  <2>. QED BY <2>5, <2>6, <2>7, <2>9 DEF Good
<1>. QED BY <1>1, <1>2

(* A key that is pressed and let go at once. *)
LEMMA TapIs ==
    ASSUME NEW k, NEW code \in Codes, NEW symbol \in Own(code), NEW caps \in Locks \cup {Unknown},
           NEW p, Good(k), code \in DOMAIN k.list => k.list[code] = symbol,
           p = Tap(k, symbol, code, caps)
    PROVE  /\ Good(p) /\ DOMAIN p.list = DOMAIN k.list \ {code}
           /\ Pushes(k, p, code, caps)
<1>1. PICK u : u = Press(k, symbol, code, caps)
  OBVIOUS
<1>2. /\ Good(u) /\ DOMAIN u.list = DOMAIN k.list \cup {code}
      /\ Pushes(k, u, code, caps)
  BY <1>1, PressIs
<1>3. p = Release(u, code)
  BY <1>1 DEF Tap
<1>4. Good(p) /\ Lighter(u, p, {code})
  BY <1>2, <1>3, ReleaseIs
<1>. QED BY <1>2, <1>4 DEF Lighter, Pushes, Told1, Quiet

LEMMA ReleaseShiftsIs ==
    ASSUME NEW k, NEW p, Good(k), p = ReleaseShifts(k)
    PROVE  Good(p) /\ Lighter(k, p, Shifts)
<1>1. PICK u : u = Release(k, "ShiftRight")
  OBVIOUS
<1>2. Good(u) /\ Lighter(k, u, {"ShiftRight"})
  BY <1>1, ReleaseIs
<1>3. p = Release(u, "ShiftLeft")
  BY <1>1 DEF ReleaseShifts
<1>4. Good(p) /\ Lighter(u, p, {"ShiftLeft"})
  BY <1>2, <1>3, ReleaseIs
<1>. QED BY <1>2, <1>4 DEF Lighter, Quiet, Shifts
-----------------------------------------------------------------------------
(* All keys let go.  The fold of AllKeysUp is the function `iter' that the *)
(* definition chooses; that one exists is shown by its closed form, and    *)
(* what it does by taking the least set of keys for which it would not.    *)

NextFold(iter, base, D) ==
    [s \in SUBSET D |-> IF s = {} THEN base
                        ELSE LET x == CHOOSE x \in s : TRUE IN Release(iter[s \ {x}], x)]

Folded(base, D) == CHOOSE iter : iter = NextFold(iter, base, D)

LEMMA FoldIs ==
    ASSUME NEW base, NEW D
    PROVE  FoldSet(LAMBDA code, k : Release(k, code), base, D) = Folded(base, D)[D]
BY DEF FoldSet, MapThenFoldSet, NextFold, Folded

ListWithout(l, codes) == [c \in DOMAIN l \ codes |-> l[c]]
DownWithout(l, down, codes) == down \ {l[c] : c \in codes}

LEMMA ReleaseMade ==
    ASSUME NEW k, NEW code \in DOMAIN k.list, Shaped(k)
    PROVE  Release(k, code) =
              Made( ListWithout(k.list, {code}), k.remote,
                    k.server.down \ {k.list[code]}, k.server.caps, k.leds )
<1> DEFINE l == Restrict(k.list, DOMAIN k.list \ {code})
           symbol == k.list[code]
<1>1. l = ListWithout(k.list, {code})
  BY DEF Restrict, ListWithout
<1>. HIDE DEF l
<1>2. PICK u : u = [k EXCEPT !.list = l]
  OBVIOUS
<1>3. /\ Shaped(u) /\ u.list = l /\ u.remote = k.remote
      /\ u.server.down = k.server.down /\ Quiet(k, u)
  BY <1>2, Relisted
<1>4. PICK p : p = HandleKeyEvent(u, symbol, code, No, Unknown)
  OBVIOUS
<1>5. Release(k, code) = p
  BY <1>2, <1>4 DEF Release, No, l
<1>6. /\ Shaped(p) /\ p.list = u.list /\ p.remote = u.remote
      /\ p.server.down = u.server.down \ {symbol} /\ Quiet(u, p)
  BY <1>3, <1>4, KeyGoesUp
<1>7. p = Made(p.list, p.remote, p.server.down, p.server.caps, p.leds)
  BY <1>6 DEF Shaped
<1>8. /\ p.list = ListWithout(k.list, {code}) /\ p.remote = k.remote
      /\ p.server.down = k.server.down \ {symbol}
      /\ p.server.caps = k.server.caps /\ p.leds = k.leds
  BY <1>1, <1>3, <1>6 DEF Quiet
<1>. QED BY <1>5, <1>7, <1>8

Closed(k, s) ==
    Made( ListWithout(k.list, s), k.remote, DownWithout(k.list, k.server.down, s),
          k.server.caps, k.leds )

LEMMA ClosedNext ==
    ASSUME NEW k, Shaped(k), NEW s \in SUBSET DOMAIN k.list, NEW x \in s
    PROVE  Release(Closed(k, s \ {x}), x) = Closed(k, s)
<1> DEFINE t == s \ {x}
           l == ListWithout(k.list, t)
           d == DownWithout(k.list, k.server.down, t)
<1>1. PICK g : g = Closed(k, t)
  OBVIOUS
<1>2. /\ g.list = l /\ g.remote = k.remote /\ g.server.down = d
      /\ g.server.caps = k.server.caps /\ g.leds = k.leds
  BY <1>1, MadeIs DEF Closed
<1>3. Shaped(g)
  <2>1. k.remote \in Locks \cup {Unknown} /\ k.server.caps \in Locks /\ k.leds \in Seq(Led)
    BY ShapeIs
  <2>. QED BY <1>1, <2>1, MadeShaped DEF Closed
<1>4. x \in DOMAIN l /\ l[x] = k.list[x] /\ ListWithout(l, {x}) = ListWithout(k.list, s)
  BY DEF ListWithout
<1>5. d \ {k.list[x]} = DownWithout(k.list, k.server.down, s)
  BY DEF DownWithout
<1>. HIDE DEF l, d, t
<1>6. Release(g, x) = Made( ListWithout(g.list, {x}), g.remote, g.server.down \ {g.list[x]},
                            g.server.caps, g.leds )
  <2>1. x \in DOMAIN g.list
    BY <1>2, <1>4
  <2>. QED BY <1>3, <2>1, ReleaseMade
<1>7. Release(g, x) = Closed(k, s)
  BY <1>2, <1>4, <1>5, <1>6 DEF Closed
<1>. QED BY <1>1, <1>7 DEF t

LEMMA FoldExists ==
    ASSUME NEW k, Good(k), NEW D, D = DOMAIN k.list
    PROVE  \E iter : iter = NextFold(iter, k, D)
<1> DEFINE g == [s \in SUBSET D |-> Closed(k, s)]
<1>1. Closed(k, {}) = k
  <2>1. k = Made(k.list, k.remote, k.server.down, k.server.caps, k.leds)
    BY DEF Good, Shaped
  <2>2. ListWithout(k.list, {}) = k.list
    BY DEF ListWithout, Good, Owned
  <2>3. DownWithout(k.list, k.server.down, {}) = k.server.down
    BY DEF DownWithout
  <2>. QED BY <2>1, <2>2, <2>3 DEF Closed
<1>2. ASSUME NEW s \in SUBSET D, s # {}
      PROVE  Closed(k, s) = LET x == CHOOSE x \in s : TRUE IN Release(g[s \ {x}], x)
  <2>1. PICK x : x = CHOOSE y \in s : TRUE
    OBVIOUS
  <2>2. x \in s
    BY <1>2, <2>1
  <2>3. s \ {x} \in SUBSET D
    OBVIOUS
  <2>4. g[s \ {x}] = Closed(k, s \ {x})
    BY <2>3
  <2>5. Release(Closed(k, s \ {x}), x) = Closed(k, s)
    BY <2>2, ClosedNext DEF Good
  <2>. QED BY <2>1, <2>4, <2>5
<1>3. g = NextFold(g, k, D)
  BY <1>1, <1>2 DEF NextFold
<1>. QED BY <1>3

LEMMA CodesFinite == IsFiniteSet(Codes)
<1>1. PICK s : s = {"KeyA", "ControlLeft", "AltRight"}
  OBVIOUS
<1>2. PICK t : t = {"ShiftLeft", "ShiftRight", "MetaLeft"}
  OBVIOUS
<1>3. PICK u : u = {"CapsLock", Japanese, Unidentified}
  OBVIOUS
<1>4. IsFiniteSet(s)
  <2>1. IsFiniteSet({"KeyA"} \cup {"ControlLeft"})
    BY FS_Singleton, FS_AddElement
  <2>2. IsFiniteSet(({"KeyA"} \cup {"ControlLeft"}) \cup {"AltRight"})
    BY <2>1, FS_AddElement
  <2>3. s = ({"KeyA"} \cup {"ControlLeft"}) \cup {"AltRight"}
    BY <1>1
  <2>. QED BY <2>2, <2>3
<1>5. IsFiniteSet(t)
  <2>1. IsFiniteSet({"ShiftLeft"} \cup {"ShiftRight"})
    BY FS_Singleton, FS_AddElement
  <2>2. IsFiniteSet(({"ShiftLeft"} \cup {"ShiftRight"}) \cup {"MetaLeft"})
    BY <2>1, FS_AddElement
  <2>3. t = ({"ShiftLeft"} \cup {"ShiftRight"}) \cup {"MetaLeft"}
    BY <1>2
  <2>. QED BY <2>2, <2>3
<1>6. IsFiniteSet(u)
  <2>1. IsFiniteSet({"CapsLock"} \cup {Japanese})
    BY FS_Singleton, FS_AddElement
  <2>2. IsFiniteSet(({"CapsLock"} \cup {Japanese}) \cup {Unidentified})
    BY <2>1, FS_AddElement
  <2>3. u = ({"CapsLock"} \cup {Japanese}) \cup {Unidentified}
    BY <1>3
  <2>. QED BY <2>2, <2>3
<1>7. IsFiniteSet(s \cup t)
  BY <1>4, <1>5, FS_Union
<1>8. IsFiniteSet((s \cup t) \cup u)
  BY <1>6, <1>7, FS_Union
<1>9. Codes = (s \cup t) \cup u
  BY <1>1, <1>2, <1>3 DEF Codes
<1>. QED BY <1>8, <1>9

(* Nothing is down then, and nothing else has changed. *)
LEMMA AllReleased ==
    ASSUME NEW k, Good(k), NEW p, NEW D, D = DOMAIN k.list,
           p = FoldSet(LAMBDA code, q : Release(q, code), k, D)
    PROVE  Good(p) /\ Lighter(k, p, D)
<1>1. PICK iter : iter = Folded(k, D)
  OBVIOUS
<1>2. iter = NextFold(iter, k, D)
  BY <1>1, FoldExists DEF Folded
<1>3. p = iter[D]
  BY <1>1, FoldIs
<1>4. iter[{}] = k
  BY <1>2 DEF NextFold
<1>5. ASSUME NEW s \in SUBSET D, s # {}
      PROVE  \E x \in s : iter[s] = Release(iter[s \ {x}], x)
  <2>1. PICK x : x = CHOOSE y \in s : TRUE
    OBVIOUS
  <2>2. x \in s
    BY <1>5, <2>1
  <2>3. iter[s] = Release(iter[s \ {x}], x)
    BY <1>2, <1>5, <2>1 DEF NextFold
  <2>. QED BY <2>2, <2>3
<1> DEFINE Fine(s) == Good(iter[s]) /\ Lighter(k, iter[s], s)
           Wrong == {s \in SUBSET D : ~Fine(s)}
<1>6. Wrong = {}
  <2>. SUFFICES ASSUME Wrong # {} PROVE FALSE
    OBVIOUS
  <2>1. IsFiniteSet(D)
    BY CodesFinite, FS_Subset DEF Good, Owned
  <2>2. IsWellFoundedOn(StrictSubsetOrdering(D), SUBSET D)
    BY <2>1, FS_StrictSubsetOrderingWellFounded, FS_FiniteSubsetsOfFinite
  <2>3. Wrong \subseteq SUBSET D
    OBVIOUS
  <2>. HIDE DEF Wrong
  <2>4. PICK s \in Wrong : \A t \in Wrong : ~(<<t, s>> \in StrictSubsetOrdering(D))
    BY <2>2, <2>3, WFMin
  <2>. USE DEF Wrong
  <2>5. s \in SUBSET D /\ ~Fine(s)
    BY <2>4
  <2>6. s # {}
    <3>1. Fine({})
      BY <1>4 DEF Lighter, Quiet
    <3>. QED BY <2>5, <3>1
  <2>7. PICK x \in s : iter[s] = Release(iter[s \ {x}], x)
    BY <1>5, <2>5, <2>6
  <2>8. PICK t : t = s \ {x}
    OBVIOUS
  <2>9. t \in SUBSET D /\ t # s /\ t \subseteq s
    BY <2>5, <2>8
  <2>10. Fine(t)
    BY <2>4, <2>5, <2>9 DEF StrictSubsetOrdering
  <2>11. PICK q : q = iter[t]
    OBVIOUS
  <2>12. Good(q) /\ Lighter(k, q, t)
    BY <2>10, <2>11
  <2>13. PICK r : r = iter[s]
    OBVIOUS
  <2>14. r = Release(q, x)
    BY <2>7, <2>8, <2>11, <2>13
  <2>15. Good(r) /\ Lighter(q, r, {x})
    BY <2>12, <2>14, ReleaseIs
  <2>16. Lighter(k, r, s)
    BY <2>8, <2>12, <2>15 DEF Lighter, Quiet
  <2>. QED BY <2>5, <2>13, <2>15, <2>16
<1>7. D \in SUBSET D
  OBVIOUS
<1>8. Fine(D)
  BY <1>6, <1>7
<1>. QED BY <1>3, <1>8
-----------------------------------------------------------------------------
(* What is known of the lock.  The last message on its way says what the   *)
(* server's lock is; when there is none, what the program remembers is     *)
(* right.                                                                  *)
Synced(k) ==
    IF k.leds = <<>> THEN k.remote # Unknown => k.remote = k.server.caps
    ELSE k.leds[Len(k.leds)].lock = k.server.caps

(* The messages on their way while only the user has turned the lock, and  *)
(* no faster than they come: none; one, with nothing known; the one that   *)
(* puts a difference right and the one of the key; the latter alone.       *)
Alone(k, l) ==
    \/ k.leds = <<>>
    \/ Len(k.leds) = 1 /\ k.remote = Unknown
    \/ Len(k.leds) = 2 /\ k.remote = Unknown /\ k.leds[1].lock = l /\ ~k.leds[2].fix
    \/ Len(k.leds) = 1 /\ k.remote = l /\ ~k.leds[1].fix

Locked(k, l, m) == Synced(k) /\ (m \/ Alone(k, l))

(* Before the key of the lock itself. *)
Early(k, l) == k.leds = <<>> \/ (Len(k.leds) = 1 /\ k.remote = Unknown /\ k.leds[1].lock = l)

LEMMA Appended ==
    ASSUME NEW k, NEW p, NEW fix \in BOOLEAN, Shaped(k), Told1(k, p, fix)
    PROVE  /\ p.leds # <<>> /\ Len(p.leds) = Len(k.leds) + 1
           /\ p.leds[Len(p.leds)].lock = Turned(k.server.caps)
           /\ p.leds[Len(p.leds)].fix = fix
           /\ \A i \in 1 .. Len(k.leds) : p.leds[i] = k.leds[i]
           /\ Len(k.leds) \in Nat /\ (k.leds = <<>> <=> Len(k.leds) = 0)
<1> DEFINE led == [lock |-> Turned(k.server.caps), fix |-> fix]
<1>1. k.leds \in Seq(Led) /\ led \in Led
  BY ShapeIs DEF Led, Turned, Locks
<1>2. led.lock = Turned(k.server.caps) /\ led.fix = fix
  OBVIOUS
<1>3. p.leds = Append(k.leds, led)
  BY DEF Told1
<1>. HIDE DEF led
<1>4. PICK q : q = k.leds
  OBVIOUS
<1>5. q \in Seq(Led) /\ p.leds = Append(q, led)
  BY <1>1, <1>3, <1>4
<1>6. Len(q) \in Nat /\ (q = <<>> <=> Len(q) = 0)
  BY <1>5
<1>7. /\ Len(p.leds) = Len(q) + 1 /\ p.leds[Len(q) + 1] = led
      /\ \A i \in 1 .. Len(q) : p.leds[i] = q[i]
  BY <1>1, <1>5
<1>8. p.leds # <<>>
  BY <1>6, <1>7
<1>. QED BY <1>2, <1>4, <1>6, <1>7, <1>8

LEMMA StaysSynced ==
    ASSUME NEW k, NEW p, NEW code, NEW caps, Shaped(k), Synced(k), Pushes(k, p, code, caps)
    PROVE  Synced(p)
<1>1. CASE Quiet(k, p)
  <2>1. p.remote = Unknown \/ p.remote = k.remote
    BY DEF Pushes
  <2>. QED BY <1>1, <2>1 DEF Synced, Quiet
<1>2. CASE \E fix \in BOOLEAN : Told1(k, p, fix)
  <2>1. PICK fix \in BOOLEAN : Told1(k, p, fix)
    BY <1>2
  <2>2. p.leds # <<>> /\ p.leds[Len(p.leds)].lock = Turned(k.server.caps)
    BY <2>1, Appended
  <2>. QED BY <2>1, <2>2 DEF Synced, Told1
<1>. QED BY <1>1, <1>2, YesAndNo DEF Pushes

(* A key that is not the lock's. *)
LEMMA StaysLocked ==
    ASSUME NEW k, NEW p, NEW code, NEW caps, NEW l \in Locks, NEW m, Shaped(k),
           Locked(k, l, m), Pushes(k, p, code, caps), code # "CapsLock", caps \in {l, Unknown}
    PROVE  /\ Locked(p, l, m) /\ (k.leds = <<>> => Early(p, l))
<1>1. Synced(p)
  BY StaysSynced DEF Locked
<1>2. CASE ~Fixes(k, code, caps)
  BY <1>1, <1>2 DEF Pushes, Quiet, Locked, Alone, Early
<1>3. CASE Fixes(k, code, caps)
  <2>1. p.remote = Unknown /\ (Told1(k, p, Yes) \/ Quiet(k, p))
    BY <1>3 DEF Pushes
  <2>2. k.remote # Unknown /\ k.remote # l /\ k.remote \in Locks
    BY <1>3, ShapeIs DEF Fixes
  <2>3. CASE Quiet(k, p)
    BY <1>1, <2>1, <2>2, <2>3 DEF Quiet, Locked, Alone, Early
  <2>4. CASE Told1(k, p, Yes)
    <3>1. /\ Len(p.leds) = Len(k.leds) + 1
          /\ p.leds[Len(p.leds)].lock = Turned(k.server.caps)
          /\ (k.leds = <<>> <=> Len(k.leds) = 0)
      BY <2>4, YesAndNo, Appended
    <3>2. CASE k.leds = <<>>
      <4>1. k.server.caps = k.remote
        BY <2>2, <3>2 DEF Locked, Synced
      <4>2. Turned(k.server.caps) = l
        BY <2>2, <4>1 DEF Turned, Locks
      <4>3. Len(p.leds) = 1 /\ p.leds[1].lock = l
        BY <3>1, <3>2, <4>2
      <4>. QED BY <1>1, <2>1, <4>3 DEF Locked, Alone, Early
    <3>3. CASE k.leds # <<>>
      BY <1>1, <2>2, <3>3 DEF Locked, Alone
    <3>. QED BY <3>2, <3>3
  <2>. QED BY <2>1, <2>3, <2>4
<1>. QED BY <1>2, <1>3

(* The lock's key. *)
LEMMA LockLocked ==
    ASSUME NEW k, NEW p, NEW caps, NEW l \in Locks, NEW m, Shaped(k),
           Synced(k), m \/ Early(k, l), Pushes(k, p, "CapsLock", caps)
    PROVE  Locked(p, l, m)
<1>1. Synced(p)
  BY StaysSynced
<1>2. CASE m
  BY <1>1, <1>2 DEF Locked
<1>3. CASE Early(k, l)
  <2>1. p.remote = Unknown /\ (Told1(k, p, No) \/ Quiet(k, p))
    BY DEF Pushes
  <2>2. CASE Quiet(k, p)
    BY <1>1, <1>3, <2>1, <2>2 DEF Quiet, Locked, Alone, Early
  <2>3. CASE Told1(k, p, No)
    <3>1. /\ Len(p.leds) = Len(k.leds) + 1
          /\ p.leds[Len(p.leds)].fix = No
          /\ \A i \in 1 .. Len(k.leds) : p.leds[i] = k.leds[i]
          /\ (k.leds = <<>> <=> Len(k.leds) = 0)
      BY <2>3, YesAndNo, Appended
    <3>2. CASE k.leds = <<>>
      <4>1. Len(p.leds) = 1
        BY <3>1, <3>2
      <4>. QED BY <1>1, <2>1, <4>1 DEF Locked, Alone
    <3>3. CASE Len(k.leds) = 1 /\ k.leds[1].lock = l
      <4>1. Len(p.leds) = 2 /\ p.leds[1] = k.leds[1]
        BY <3>1, <3>3
      <4>2. ~p.leds[2].fix
        BY <3>1, <4>1 DEF No
      <4>. QED BY <1>1, <2>1, <3>3, <4>1, <4>2 DEF Locked, Alone
    <3>. QED BY <1>3, <3>2, <3>3 DEF Early
  <2>. QED BY <2>1, <2>2, <2>3
<1>. QED BY <1>2, <1>3

LEMMA LighterLocked ==
    ASSUME NEW k, NEW p, NEW codes, NEW l, NEW m, Lighter(k, p, codes)
    PROVE  Locked(k, l, m) => Locked(p, l, m)
BY DEF Lighter, Quiet, Locked, Synced, Alone

LEMMA EarlyLocked ==
    ASSUME NEW k, NEW l, NEW m, Synced(k), Early(k, l)
    PROVE  Locked(k, l, m)
BY DEF Early, Locked, Alone
-----------------------------------------------------------------------------
(* The inductive invariant. *)
Typed ==
    /\ platform \in {"windows", "mac", "other"}
    /\ held \subseteq Codes /\ muted \subseteq Codes
    /\ focused \in BOOLEAN /\ armed \in BOOLEAN /\ lapsed \in BOOLEAN /\ mixed \in BOOLEAN
    /\ local \in Locks

(* Only a Control key of Windows waits, which is held or was when the      *)
(* window lost the focus.                                                  *)
Waiting == armed => Windows /\ ((focused /\ "ControlLeft" \in held) \/ lapsed)

(* While the window is away no key is down but a Control key of which the  *)
(* timer told.                                                             *)
Away == ~focused => \A code \in DOMAIN list : code = "ControlLeft" /\ lapsed

(* A key of which macOS will not tell the release is not down.             *)
Unheard ==
    Mac => \A code \in DOMAIN list : code # "CapsLock" /\ code \notin muted \ {"MetaLeft"}

(* The keys are those of the platform. *)
Ours == /\ DOMAIN list \subseteq Keys /\ held \subseteq Keys /\ muted \subseteq Keys
        /\ (armed => "ControlLeft" \in Keys)

Downs == Waiting /\ NoneStuck /\ Away /\ Unheard /\ Ours

KeyInv == Typed /\ Good(keyboard) /\ Locked(keyboard, local, mixed) /\ Downs

LEMMA KeyboardIs ==
    /\ keyboard.list = list /\ keyboard.remote = remote
    /\ keyboard.server = server /\ keyboard.leds = leds
BY DEF keyboard

LEMMA BecomesIs ==
    ASSUME NEW p, Shaped(p), Becomes(p)
    PROVE  keyboard' = p /\ list' = p.list
<1>1. PICK l, r, d, c, q : p = Made(l, r, d, c, q)
  BY DEF Shaped
<1>2. PICK s : s = [down |-> d, caps |-> c]
  OBVIOUS
<1>3. p = [list |-> l, remote |-> r, server |-> s, leds |-> q]
  BY <1>1, <1>2 DEF Made
<1>4. list' = l /\ remote' = r /\ server' = s /\ leds' = q
  BY <1>3 DEF Becomes
<1>5. keyboard' = [list |-> list', remote |-> remote', server |-> server', leds |-> leds']
  BY DEF keyboard
<1>. QED BY <1>3, <1>4, <1>5

LEMMA KeysAreCodes == Keys \subseteq Codes
BY KeyAssumption DEF Keys, Codes

LEMMA KeepsIs ==
    ASSUME NEW k, NEW code \in Codes, NEW symbol, Good(k), NEW altGr \in BOOLEAN, NEW s,
           symbol \in Symbols(code), altGr => code = "AltRight",
           s = KeepsSymbol(k, code, IF altGr THEN "Level3" ELSE symbol)
    PROVE  s \in Own(code) /\ (code \in DOMAIN k.list => k.list[code] = s)
<1>1. CASE code \in DOMAIN k.list
  BY <1>1 DEF KeepsSymbol, Good, Owned
<1>2. CASE code \notin DOMAIN k.list
  <2>1. PICK x : x = IF altGr THEN "Level3" ELSE symbol
    OBVIOUS
  <2>2. x \in Symbols(code)
    <3>1. Symbols("AltRight") = {"Alt_R", "Level3"}
      BY DEF Symbols, Unidentified
    <3>2. CASE altGr
      BY <2>1, <3>1, <3>2
    <3>3. CASE ~altGr
      BY <2>1, <3>3
    <3>. QED BY <3>2, <3>3
  <2>3. s = x \/ s = MacSymbol(x)
    BY <1>2, <2>1 DEF KeepsSymbol
  <2>4. x \in Own(code)
    BY <2>2 DEF Own
  <2>5. MacSymbol(x) \in Own(code)
    <3>1. CASE code = "MetaLeft"
      BY <2>2, <3>1, OwnIs DEF Symbols, MacSymbol, Unidentified
    <3>2. CASE code = "AltRight"
      BY <2>2, <3>2, OwnIs DEF Symbols, MacSymbol
    <3>3. CASE code \notin {"MetaLeft", "AltRight"}
      <4>1. x \notin {"Super_L", "Alt_R"}
        BY <2>2, <3>3 DEF Codes, Symbols, Unidentified, Japanese
      <4>. QED BY <2>4, <4>1 DEF MacSymbol
    <3>. QED BY <3>1, <3>2, <3>3
  <2>. QED BY <1>2, <2>3, <2>4, <2>5
<1>. QED BY <1>1, <1>2

(* The Control key that waited counts, or there is none. *)
LEMMA Counted ==
    ASSUME NEW k, NEW p, NEW b \in BOOLEAN, NEW l \in Locks, NEW caps \in {l, Unknown}, NEW m,
           Good(k), Locked(k, l, m), p = IF b THEN ControlCounts(k, caps) ELSE k
    PROVE  /\ Good(p) /\ Locked(p, l, m)
           /\ DOMAIN p.list = DOMAIN k.list \cup (IF b THEN {"ControlLeft"} ELSE {})
           /\ (k.leds = <<>> => Early(p, l))
<1>1. CASE ~b
  BY <1>1 DEF Early
<1>2. CASE b
  <2>1. p = Press(k, "ControlLeft", "ControlLeft", caps)
    BY <1>2 DEF ControlCounts
  <2>2. /\ "ControlLeft" \in Codes /\ "ControlLeft" \in Own("ControlLeft")
        /\ caps \in Locks \cup {Unknown}
    BY OwnIs DEF Codes
  <2>3. "ControlLeft" \in DOMAIN k.list => k.list["ControlLeft"] = "ControlLeft"
    BY OwnIs DEF Good, Owned
  <2>4. /\ Good(p) /\ DOMAIN p.list = DOMAIN k.list \cup {"ControlLeft"}
        /\ Pushes(k, p, "ControlLeft", caps)
    BY <2>1, <2>2, <2>3, PressIs
  <2>5. Locked(p, l, m) /\ (k.leds = <<>> => Early(p, l))
    BY <2>4, StaysLocked DEF Good
  <2>. QED BY <1>2, <2>4, <2>5
<1>. QED BY <1>1, <1>2

(* A key after that. *)
LEMMA PushedLocked ==
    ASSUME NEW k, NEW p, NEW code, NEW l \in Locks, NEW caps \in {l, Unknown}, NEW m,
           Good(k), Locked(k, l, m), Pushes(k, p, code, caps),
           code = "CapsLock" => m \/ Early(k, l)
    PROVE  Locked(p, l, m)
<1>1. CASE code = "CapsLock"
  BY <1>1, LockLocked DEF Good, Locked
<1>2. CASE code # "CapsLock"
  BY <1>2, StaysLocked DEF Good
<1>. QED BY <1>1, <1>2

(* A key that goes down or repeats: the keys that are down after it are    *)
(* those of before, the Control key that waited, and the key itself unless *)
(* it is let go at once or waits.                                          *)
Relists(code) ==
    \E b \in BOOLEAN, D \in SUBSET Codes :
        /\ b => armed
        /\ D = DOMAIN list \cup (IF b THEN {"ControlLeft"} ELSE {})
        /\ \/ ReleasedAtOnce(code) /\ DOMAIN list' = D \ {code}
           \/ armed' /\ DOMAIN list' = D
           \/ ~ReleasedAtOnce(code) /\ DOMAIN list' = D \cup {code}

LEMMA DownIs ==
    ASSUME KeyInv, NEW code \in Codes, NEW symbol \in Symbols(code), NEW quick \in BOOLEAN,
           local' \in Locks, Locked(keyboard, local', mixed'),
           code = "CapsLock" => mixed' \/ leds = <<>>,
           HandleKeyDown(code, symbol, quick)
    PROVE  /\ Good(keyboard') /\ Locked(keyboard', local', mixed')
           /\ armed' \in BOOLEAN
           /\ (armed' => Windows /\ code = "ControlLeft")
           /\ Relists(code)
<1>21. PICK altGr \in BOOLEAN : \E k, s :
        /\ altGr => code = "AltRight"
        /\ k = IF armed /\ ~altGr THEN ControlCounts(keyboard, local') ELSE keyboard
        /\ s = KeepsSymbol(k, code, IF altGr THEN "Level3" ELSE symbol)
        /\ armed' = (~ReleasedAtOnce(code) /\ StartsAltGr(k, code))
        /\ \/ /\ ReleasedAtOnce(code)
              /\ Becomes(Tap(k, s, code, local'))
           \/ /\ ~ReleasedAtOnce(code) /\ armed'
              /\ Becomes(k)
           \/ /\ ~ReleasedAtOnce(code) /\ ~armed'
              /\ Becomes(Press(k, s, code, local'))
  BY DEF HandleKeyDown
<1>1. PICK k, s :
        /\ altGr => code = "AltRight"
        /\ k = IF armed /\ ~altGr THEN ControlCounts(keyboard, local') ELSE keyboard
        /\ s = KeepsSymbol(k, code, IF altGr THEN "Level3" ELSE symbol)
        /\ armed' = (~ReleasedAtOnce(code) /\ StartsAltGr(k, code))
        /\ \/ /\ ReleasedAtOnce(code)
              /\ Becomes(Tap(k, s, code, local'))
           \/ /\ ~ReleasedAtOnce(code) /\ armed'
              /\ Becomes(k)
           \/ /\ ~ReleasedAtOnce(code) /\ ~armed'
              /\ Becomes(Press(k, s, code, local'))
  BY <1>21
<1>2. PICK b \in BOOLEAN : b = (armed /\ ~altGr)
  OBVIOUS
<1>3. /\ Good(k) /\ Locked(k, local', mixed')
      /\ DOMAIN k.list = DOMAIN list \cup (IF b THEN {"ControlLeft"} ELSE {})
      /\ (leds = <<>> => Early(k, local'))
  <2>1. k = IF b THEN ControlCounts(keyboard, local') ELSE keyboard
    BY <1>1, <1>2
  <2>2. Good(keyboard)
    BY DEF KeyInv
  <2>. QED BY <2>1, <2>2, Counted, KeyboardIs
<1>4. s \in Own(code) /\ (code \in DOMAIN k.list => k.list[code] = s)
  BY <1>1, <1>3, KeepsIs
<1>5. armed' \in BOOLEAN /\ (armed' => Windows /\ code = "ControlLeft")
  BY <1>1 DEF StartsAltGr
<1>6. b => armed
  BY <1>2
<1>10. DOMAIN k.list \in SUBSET Codes
  BY <1>3 DEF Good, Owned
<1>7. CASE ReleasedAtOnce(code) /\ Becomes(Tap(k, s, code, local'))
  <2>1. PICK p : p = Tap(k, s, code, local')
    OBVIOUS
  <2>2. Good(p) /\ DOMAIN p.list = DOMAIN k.list \ {code} /\ Pushes(k, p, code, local')
    BY <1>3, <1>4, <2>1, TapIs
  <2>3. Locked(p, local', mixed')
    BY <1>3, <2>2, PushedLocked
  <2>4. keyboard' = p /\ list' = p.list
    BY <1>7, <2>1, <2>2, BecomesIs DEF Good
  <2>5. Relists(code)
    BY <1>3, <1>6, <1>10, <1>7, <2>2, <2>4 DEF Relists
  <2>. QED BY <1>5, <2>2, <2>3, <2>4, <2>5
<1>8. CASE armed' /\ Becomes(k)
  <2>1. keyboard' = k /\ list' = k.list
    BY <1>3, <1>8, BecomesIs DEF Good
  <2>2. Relists(code)
    BY <1>3, <1>6, <1>10, <1>8, <2>1 DEF Relists
  <2>. QED BY <1>3, <1>5, <2>1, <2>2
<1>9. CASE ~ReleasedAtOnce(code) /\ Becomes(Press(k, s, code, local'))
  <2>1. PICK p : p = Press(k, s, code, local')
    OBVIOUS
  <2>2. Good(p) /\ DOMAIN p.list = DOMAIN k.list \cup {code} /\ Pushes(k, p, code, local')
    BY <1>3, <1>4, <2>1, PressIs
  <2>3. Locked(p, local', mixed')
    BY <1>3, <2>2, PushedLocked
  <2>4. keyboard' = p /\ list' = p.list
    BY <1>9, <2>1, <2>2, BecomesIs DEF Good
  <2>5. Relists(code)
    BY <1>3, <1>6, <1>10, <1>9, <2>2, <2>4 DEF Relists
  <2>. QED BY <1>5, <2>2, <2>3, <2>4, <2>5
<1>. QED BY <1>1, <1>7, <1>8, <1>9

LEMMA UpIs ==
    ASSUME KeyInv, NEW code \in Codes, NEW l \in Locks, Locked(keyboard, l, mixed'),
           Mac /\ code = "CapsLock" => mixed' \/ leds = <<>>,
           HandleKeyUp(code)
    PROVE  /\ Good(keyboard') /\ Locked(keyboard', l, mixed') /\ ~armed'
           /\ DOMAIN list' =
                (DOMAIN list \cup (IF armed THEN {"ControlLeft"} ELSE {}))
                    \ (IF Windows /\ code \in Shifts THEN Shifts ELSE {code})
<1>1. PICK k :
        /\ k = IF armed THEN ControlCounts(keyboard, Unknown) ELSE keyboard
        /\ armed' = FALSE
        /\ Becomes(IF Mac /\ code = "CapsLock" THEN Tap(k, code, code, Unknown)
                   ELSE IF Windows /\ code \in Shifts THEN ReleaseShifts(k)
                   ELSE Release(k, code))
  BY DEF HandleKeyUp
<1>2. /\ Good(k) /\ Locked(k, l, mixed')
      /\ DOMAIN k.list = DOMAIN list \cup (IF armed THEN {"ControlLeft"} ELSE {})
      /\ (leds = <<>> => Early(k, l))
  <2>1. Good(keyboard) /\ armed \in BOOLEAN
    BY DEF KeyInv, Typed
  <2>2. Unknown \in {l, Unknown}
    OBVIOUS
  <2>. QED BY <1>1, <2>1, <2>2, Counted, KeyboardIs
<1>3. CASE Mac /\ code = "CapsLock"
  <2>1. PICK p : p = Tap(k, code, code, Unknown)
    OBVIOUS
  <2>2. code \in Own(code) /\ (code \in DOMAIN k.list => k.list[code] = code)
    BY <1>2, <1>3, OwnIs DEF Good, Owned
  <2>3. Good(p) /\ DOMAIN p.list = DOMAIN k.list \ {code} /\ Pushes(k, p, code, Unknown)
    BY <1>2, <2>1, <2>2, TapIs
  <2>4. Locked(p, l, mixed')
    BY <1>2, <1>3, <2>3, PushedLocked
  <2>5. keyboard' = p /\ list' = p.list
    BY <1>1, <1>3, <2>1, <2>3, BecomesIs DEF Good
  <2>6. ~Windows
    BY <1>3 DEF Mac, Windows
  <2>. QED BY <1>1, <1>2, <2>3, <2>4, <2>5, <2>6
<1>4. CASE ~(Mac /\ code = "CapsLock") /\ Windows /\ code \in Shifts
  <2>1. PICK p : p = ReleaseShifts(k)
    OBVIOUS
  <2>2. Good(p) /\ Lighter(k, p, Shifts)
    BY <1>2, <2>1, ReleaseShiftsIs
  <2>3. Locked(p, l, mixed') /\ DOMAIN p.list = DOMAIN k.list \ Shifts
    BY <1>2, <2>2, LighterLocked DEF Lighter
  <2>4. keyboard' = p /\ list' = p.list
    BY <1>1, <1>4, <2>1, <2>2, BecomesIs DEF Good
  <2>. QED BY <1>1, <1>2, <1>4, <2>2, <2>3, <2>4
<1>5. CASE ~(Mac /\ code = "CapsLock") /\ ~(Windows /\ code \in Shifts)
  <2>1. PICK p : p = Release(k, code)
    OBVIOUS
  <2>2. Good(p) /\ Lighter(k, p, {code})
    BY <1>2, <2>1, ReleaseIs
  <2>3. Locked(p, l, mixed') /\ DOMAIN p.list = DOMAIN k.list \ {code}
    BY <1>2, <2>2, LighterLocked DEF Lighter
  <2>4. keyboard' = p /\ list' = p.list
    BY <1>1, <1>5, <2>1, <2>2, BecomesIs DEF Good
  <2>. QED BY <1>1, <1>2, <1>5, <2>2, <2>3, <2>4
<1>. QED BY <1>3, <1>4, <1>5

(* Which keys are held is in step with that. *)
LEMMA KeyDownKeepsDowns ==
    ASSUME KeyInv, NEW code \in Keys, KeyDown(code), Relists(code),
           armed' => Windows /\ code = "ControlLeft"
    PROVE  Downs'
<1>0. PICK b \in BOOLEAN, D \in SUBSET Codes :
        /\ b => armed
        /\ D = DOMAIN list \cup (IF b THEN {"ControlLeft"} ELSE {})
        /\ \/ ReleasedAtOnce(code) /\ DOMAIN list' = D \ {code}
           \/ armed' /\ DOMAIN list' = D
           \/ ~ReleasedAtOnce(code) /\ DOMAIN list' = D \cup {code}
  BY DEF Relists
<1>1. /\ focused /\ focused' = focused /\ platform' = platform /\ lapsed' = lapsed
      /\ held' = held \cup {code}
      /\ muted' = (IF Mac /\ "MetaLeft" \in held' THEN muted \cup {code} ELSE muted \ {code})
  BY DEF KeyDown
<1>2. Windows' = Windows /\ Mac' = Mac
  BY <1>1 DEF Windows, Mac
<1>3. Waiting /\ NoneStuck /\ Unheard
  BY DEF KeyInv, Downs
<1>4. Waiting'
  BY <1>1, <1>2 DEF Waiting
<1>5. b => Windows /\ ("ControlLeft" \in held \/ lapsed)
  BY <1>0, <1>3 DEF Waiting
<1>6. NoneStuck'
  <2>. SUFFICES ASSUME NEW c \in DOMAIN list'
                PROVE  \/ c \in held'
                       \/ Windows' /\ c \in Shifts /\ held' \cap Shifts # {}
                       \/ c = "ControlLeft" /\ lapsed'
    BY DEF NoneStuck
  <2>1. c \in DOMAIN list \/ (b /\ c = "ControlLeft") \/ c = code
    BY <1>0
  <2>. QED BY <1>1, <1>2, <1>3, <1>5, <2>1 DEF NoneStuck
<1>7. Away'
  BY <1>1 DEF Away
<1>8. Unheard'
  <2>. SUFFICES ASSUME Mac, NEW c \in DOMAIN list'
                PROVE  c # "CapsLock" /\ c \notin muted' \ {"MetaLeft"}
    BY <1>2 DEF Unheard
  <2>1. ~b /\ ~armed' /\ ~Windows
    BY <1>2, <1>5 DEF Mac, Windows
  <2>2. c \in DOMAIN list \/ c = code
    BY <1>0, <2>1
  <2>3. c = code => ~ReleasedAtOnce(code)
    BY <1>0, <2>1
  <2>4. c = code => c # "CapsLock" /\ ~("MetaLeft" \in held' /\ code # "MetaLeft")
    BY <2>3 DEF ReleasedAtOnce
  <2>. QED BY <1>1, <1>3, <2>2, <2>4 DEF Unheard
<1>9. Ours'
  <2>1. Keys' = Keys /\ Ours
    BY <1>1, <1>2 DEF Keys, KeyInv, Downs
  <2>2. DOMAIN list' \subseteq Keys
    BY <1>0, <2>1 DEF Ours
  <2>. QED BY <1>1, <2>1, <2>2 DEF Ours
<1>. QED BY <1>4, <1>6, <1>7, <1>8, <1>9 DEF Downs

LEMMA KeyDownKeeps ==
    ASSUME KeyInv, NEW code \in Keys, KeyDown(code)
    PROVE  KeyInv'
<1>0. code \in Codes
  BY KeysAreCodes
<1>1. /\ local \in Locks /\ local' \in Locks
      /\ (code = "CapsLock" => mixed' \/ leds = <<>>)
      /\ (mixed => mixed') /\ (code # "CapsLock" => local' = local)
  BY DEF KeyInv, Typed, KeyDown, Turned, Locks
<1>2. Locked(keyboard, local', mixed')
  <2>1. Locked(keyboard, local, mixed)
    BY DEF KeyInv
  <2>2. CASE code # "CapsLock"
    BY <1>1, <2>1, <2>2 DEF Locked
  <2>3. CASE code = "CapsLock"
    BY <1>1, <2>1, <2>3, KeyboardIs DEF Locked, Alone
  <2>. QED BY <2>2, <2>3
<1>3. /\ platform' = platform /\ focused' = focused /\ lapsed' = lapsed
      /\ held' \subseteq Codes /\ muted' \subseteq Codes /\ mixed' \in BOOLEAN
  BY <1>0 DEF KeyInv, Typed, KeyDown
<1>4. armed' \in BOOLEAN => Typed'
  BY <1>1, <1>3 DEF KeyInv, Typed
<1>5. CASE Mac /\ code = "CapsLock" /\ local = "on"
  <2>1. HandleKeyUp(code)
    BY <1>5 DEF KeyDown
  <2>2. /\ Good(keyboard') /\ Locked(keyboard', local', mixed') /\ ~armed'
        /\ DOMAIN list' =
             (DOMAIN list \cup (IF armed THEN {"ControlLeft"} ELSE {}))
                 \ (IF Windows /\ code \in Shifts THEN Shifts ELSE {code})
    BY <1>0, <1>1, <1>2, <2>1, UpIs
  <2>3. armed' \in BOOLEAN
    BY <2>1 DEF HandleKeyUp
  <2>4. armed \in BOOLEAN /\ ReleasedAtOnce(code)
    BY <1>5 DEF KeyInv, Typed, ReleasedAtOnce
  <2>5. ~Windows
    BY <1>5 DEF Mac, Windows
  <2>6. Downs'
    <3>1. PICK D : D = DOMAIN list \cup (IF armed THEN {"ControlLeft"} ELSE {})
      OBVIOUS
    <3>2. DOMAIN list' = D \ {code}
      BY <2>2, <2>5, <3>1
    <3>3. D \in SUBSET Codes
      BY <3>1 DEF KeyInv, Good, Owned, keyboard, Codes
    <3>4. Relists(code)
      BY <2>4, <3>1, <3>2, <3>3 DEF Relists
    <3>. QED BY <2>2, <3>4, KeyDownKeepsDowns
  <2>. QED BY <1>4, <2>2, <2>3, <2>6 DEF KeyInv
<1>6. CASE ~(Mac /\ code = "CapsLock" /\ local = "on")
  <2>1. PICK symbol \in Symbols(code), quick \in BOOLEAN : HandleKeyDown(code, symbol, quick)
    BY <1>6 DEF KeyDown
  <2>2. /\ Good(keyboard') /\ Locked(keyboard', local', mixed') /\ armed' \in BOOLEAN
        /\ (armed' => Windows /\ code = "ControlLeft") /\ Relists(code)
    BY <1>0, <1>1, <1>2, <2>1, DownIs
  <2>3. Downs'
    BY <2>2, KeyDownKeepsDowns
  <2>. QED BY <1>4, <2>2, <2>3 DEF KeyInv
<1>. QED BY <1>5, <1>6

LEMMA KeyUpKeeps ==
    ASSUME KeyInv, NEW code \in Keys, KeyUp(code)
    PROVE  KeyInv'
<1>0. code \in Codes
  BY KeysAreCodes
<1>1. /\ code \in held /\ held' = held \ {code}
      /\ platform' = platform /\ muted' = muted /\ focused' = focused
      /\ local' = local /\ lapsed' = lapsed /\ mixed' = mixed
  BY DEF KeyUp
<1>2. Windows' = Windows /\ Mac' = Mac
  BY <1>1 DEF Windows, Mac
<1>3. Waiting /\ NoneStuck /\ Away /\ Unheard /\ local \in Locks /\ armed \in BOOLEAN
  BY DEF KeyInv, Downs, Typed
<1>4. armed' \in BOOLEAN => Typed'
  BY <1>1 DEF KeyInv, Typed
<1>5. CASE Told(code)
  <2>1. HandleKeyUp(code) /\ focused /\ ~(Mac /\ code = "CapsLock")
    BY <1>5 DEF KeyUp, Told
  <2>2. Locked(keyboard, local, mixed')
    BY <1>1 DEF KeyInv
  <2>3. /\ Good(keyboard') /\ Locked(keyboard', local, mixed') /\ ~armed'
        /\ DOMAIN list' =
             (DOMAIN list \cup (IF armed THEN {"ControlLeft"} ELSE {}))
                 \ (IF Windows /\ code \in Shifts THEN Shifts ELSE {code})
    BY <1>0, <1>3, <2>1, <2>2, UpIs
  <2>4. armed' \in BOOLEAN
    BY <2>1 DEF HandleKeyUp
  <2>5. Waiting' /\ Away'
    BY <1>1, <2>1, <2>3 DEF Waiting, Away
  <2>6. armed => Windows /\ ("ControlLeft" \in held \/ lapsed)
    BY <1>3 DEF Waiting
  <2>7. NoneStuck'
    <3>. SUFFICES ASSUME NEW c \in DOMAIN list'
                  PROVE  \/ c \in held'
                         \/ Windows' /\ c \in Shifts /\ held' \cap Shifts # {}
                         \/ c = "ControlLeft" /\ lapsed'
      BY DEF NoneStuck
    <3>1. CASE Windows /\ code \in Shifts
      <4>1. c \notin Shifts /\ (c \in DOMAIN list \/ (armed /\ c = "ControlLeft"))
        BY <2>3, <3>1
      <4>2. c # code
        BY <3>1, <4>1
      <4>. QED BY <1>1, <1>3, <2>6, <4>1, <4>2 DEF NoneStuck
    <3>2. CASE ~(Windows /\ code \in Shifts)
      <4>1. c # code /\ (c \in DOMAIN list \/ (armed /\ c = "ControlLeft"))
        BY <2>3, <3>2
      <4>2. Windows => held' \cap Shifts = held \cap Shifts
        BY <1>1, <3>2
      <4>. QED BY <1>1, <1>2, <1>3, <2>6, <4>1, <4>2 DEF NoneStuck
    <3>. QED BY <3>1, <3>2
  <2>8. Unheard'
    <3>. SUFFICES ASSUME Mac, NEW c \in DOMAIN list'
                  PROVE  c # "CapsLock" /\ c \notin muted' \ {"MetaLeft"}
      BY <1>2 DEF Unheard
    <3>1. ~armed
      BY <2>6 DEF Mac, Windows
    <3>2. c \in DOMAIN list
      BY <2>3, <3>1
    <3>. QED BY <1>1, <1>3, <3>2 DEF Unheard
  <2>9. Ours'
    <3>1. Keys' = Keys /\ Ours
      BY <1>1, <1>2 DEF Keys, KeyInv, Downs
    <3>2. DOMAIN list' \subseteq Keys
      BY <2>3, <3>1 DEF Ours
    <3>. QED BY <1>1, <2>3, <3>1, <3>2 DEF Ours
  <2>. QED BY <1>1, <1>4, <2>3, <2>4, <2>5, <2>7, <2>8, <2>9 DEF KeyInv, Downs
<1>6. CASE ~Told(code)
  <2>1. /\ armed' = armed /\ list' = list /\ remote' = remote
        /\ server' = server /\ leds' = leds
    BY <1>6 DEF KeyUp
  <2>2. keyboard' = keyboard
    BY <2>1 DEF keyboard
  <2>3. Typed' /\ Good(keyboard') /\ Locked(keyboard', local', mixed')
    BY <1>1, <1>3, <1>4, <2>1, <2>2 DEF KeyInv
  <2>4. Away' /\ Unheard'
    BY <1>1, <1>2, <1>3, <2>1 DEF Away, Unheard
  <2>5. Waiting'
    <3>. SUFFICES ASSUME armed
                  PROVE  Windows /\ ((focused /\ "ControlLeft" \in held') \/ lapsed)
      BY <1>1, <1>2, <2>1 DEF Waiting
    <3>1. Windows /\ ((focused /\ "ControlLeft" \in held) \/ lapsed)
      BY <1>3 DEF Waiting
    <3>2. focused => code # "ControlLeft"
      BY <1>6, <3>1 DEF Told, Mac, Windows, Shifts
    <3>. QED BY <1>1, <3>1, <3>2
  <2>6. NoneStuck'
    <3>. SUFFICES ASSUME NEW c \in DOMAIN list
                  PROVE  \/ c \in held'
                         \/ Windows /\ c \in Shifts /\ held' \cap Shifts # {}
                         \/ c = "ControlLeft" /\ lapsed
      BY <1>1, <1>2, <2>1 DEF NoneStuck
    <3>1. CASE ~focused
      BY <1>3, <3>1 DEF Away
    <3>2. CASE focused /\ Mac
      <4>1. c # code
        BY <1>3, <1>6, <3>2 DEF Told, Unheard, Mac, Windows
      <4>2. ~Windows
        BY <3>2 DEF Mac, Windows
      <4>. QED BY <1>1, <1>3, <4>1, <4>2 DEF NoneStuck
    <3>3. CASE focused /\ ~Mac
      <4>1. Windows /\ code \in Shifts /\ Shifts \subseteq held
        BY <1>6, <3>3 DEF Told
      <4>2. held' \cap Shifts # {}
        BY <1>1, <4>1 DEF Shifts
      <4>3. CASE c = code
        BY <4>1, <4>2, <4>3
      <4>4. CASE c # code
        BY <1>1, <1>3, <4>2, <4>4 DEF NoneStuck
      <4>. QED BY <4>3, <4>4
    <3>. QED BY <3>1, <3>2, <3>3
  <2>7. Ours'
    BY <1>1, <1>2, <2>1 DEF KeyInv, Downs, Ours, Keys
  <2>. QED BY <2>3, <2>4, <2>5, <2>6, <2>7 DEF KeyInv, Downs
<1>. QED BY <1>5, <1>6

LEMMA TimeoutKeeps ==
    ASSUME KeyInv, HandleAltGrTimeout
    PROVE  KeyInv'
<1>1. PICK p : p = ControlCounts(keyboard, Unknown)
  OBVIOUS
<1>2. /\ armed /\ armed' = FALSE /\ Becomes(p)
      /\ platform' = platform /\ held' = held /\ muted' = muted /\ focused' = focused
      /\ local' = local /\ lapsed' = lapsed /\ mixed' = mixed
  BY <1>1 DEF HandleAltGrTimeout
<1>3. /\ Good(p) /\ Locked(p, local, mixed)
      /\ DOMAIN p.list = DOMAIN keyboard.list \cup {"ControlLeft"}
  <2>1. local \in Locks /\ Unknown \in {local, Unknown} /\ armed \in BOOLEAN
    BY DEF KeyInv, Typed
  <2>2. p = IF armed THEN ControlCounts(keyboard, Unknown) ELSE keyboard
    BY <1>1, <1>2
  <2>3. Good(keyboard) /\ Locked(keyboard, local, mixed)
    BY DEF KeyInv
  <2>. QED BY <1>2, <2>1, <2>2, <2>3, Counted
<1>4. keyboard' = p /\ DOMAIN list' = DOMAIN list \cup {"ControlLeft"}
  BY <1>2, <1>3, BecomesIs, KeyboardIs DEF Good
<1>5. Windows' = Windows /\ Mac' = Mac
  BY <1>2 DEF Windows, Mac
<1>6. Windows /\ ~Mac /\ ((focused /\ "ControlLeft" \in held) \/ lapsed)
  BY <1>2 DEF KeyInv, Downs, Waiting, Windows, Mac
<1>7. Waiting' /\ Unheard'
  BY <1>2, <1>5, <1>6 DEF Waiting, Unheard
<1>8. NoneStuck'
  BY <1>2, <1>4, <1>5, <1>6 DEF KeyInv, Downs, NoneStuck
<1>9. Away'
  BY <1>2, <1>4, <1>6 DEF KeyInv, Downs, Away
<1>10. Typed'
  BY <1>2 DEF KeyInv, Typed
<1>11. Ours'
  BY <1>2, <1>4, <1>5 DEF KeyInv, Downs, Ours, Keys
<1>. QED BY <1>2, <1>3, <1>4, <1>7, <1>8, <1>9, <1>10, <1>11 DEF KeyInv, Downs

LEMMA AllKeysUpKeeps ==
    ASSUME KeyInv, AllKeysUp
    PROVE  KeyInv'
<1>1. PICK p : p = FoldSet(LAMBDA code, k : Release(k, code), keyboard, DOMAIN list)
  OBVIOUS
<1>2. /\ focused' = FALSE /\ Becomes(p) /\ lapsed' = (lapsed \/ armed)
      /\ platform' = platform /\ held' = held /\ muted' = muted /\ armed' = armed
      /\ local' = local /\ mixed' = mixed
  BY <1>1 DEF AllKeysUp
<1>3. Good(p) /\ Lighter(keyboard, p, DOMAIN list)
  BY <1>1, AllReleased, KeyboardIs DEF KeyInv
<1>4. Locked(p, local, mixed) /\ DOMAIN p.list = {}
  BY <1>3, LighterLocked, KeyboardIs DEF KeyInv, Lighter
<1>5. keyboard' = p /\ DOMAIN list' = {}
  BY <1>2, <1>3, <1>4, BecomesIs DEF Good
<1>6. NoneStuck' /\ Away' /\ Unheard'
  BY <1>5 DEF NoneStuck, Away, Unheard
<1>7. Windows' = Windows
  BY <1>2 DEF Windows
<1>8. Waiting'
  BY <1>2, <1>7 DEF KeyInv, Downs, Waiting
<1>9. Typed'
  BY <1>2 DEF KeyInv, Typed
<1>10. Ours'
  BY <1>2, <1>5, <1>7 DEF KeyInv, Downs, Ours, Keys, Mac
<1>. QED BY <1>2, <1>3, <1>4, <1>5, <1>6, <1>8, <1>9, <1>10 DEF KeyInv, Downs

LEMMA FocusKeeps ==
    ASSUME KeyInv, Focus
    PROVE  KeyInv'
<1>1. /\ ~focused /\ focused' = TRUE
      /\ platform' = platform /\ held' = held /\ muted' = muted /\ armed' = armed
      /\ local' = local /\ mixed' = mixed /\ lapsed' = lapsed
      /\ list' = list /\ remote' = remote /\ server' = server /\ leds' = leds
  BY DEF Focus
<1>2. keyboard' = keyboard /\ Windows' = Windows /\ Mac' = Mac
  BY <1>1 DEF keyboard, Windows, Mac
<1>3. Good(keyboard') /\ Locked(keyboard', local', mixed')
  BY <1>1, <1>2 DEF KeyInv
<1>4. Downs'
  BY <1>1, <1>2 DEF KeyInv, Downs, Waiting, NoneStuck, Away, Unheard, Ours, Keys
<1>5. Typed'
  BY <1>1 DEF KeyInv, Typed
<1>. QED BY <1>3, <1>4, <1>5 DEF KeyInv

(* The keyboard of the user and what is down are as they were. *)
LEMMA SameDowns ==
    ASSUME Downs, list' = list, armed' = armed,
           UNCHANGED <<platform, held, muted, focused, lapsed>>
    PROVE  Downs'
BY DEF Downs, Waiting, NoneStuck, Away, Unheard, Ours, Keys, Windows, Mac

LEMMA LedKeeps ==
    ASSUME KeyInv, HandleLedEvent
    PROVE  KeyInv'
<1>1. /\ leds # <<>> /\ remote' = Head(leds).lock /\ leds' = Tail(leds)
      /\ UNCHANGED <<platform, held, muted, focused, lapsed>>
      /\ list' = list /\ armed' = armed /\ server' = server /\ local' = local /\ mixed' = mixed
  BY DEF HandleLedEvent
<1>2. PICK k, p : k = keyboard /\ p = keyboard'
  OBVIOUS
<1>3. /\ k.leds = leds /\ k.remote = remote /\ k.list = list /\ k.server = server
      /\ p.leds = leds' /\ p.remote = remote' /\ p.list = list' /\ p.server = server'
  BY <1>2 DEF keyboard
<1>4. Good(k) /\ Locked(k, local, mixed)
  BY <1>2 DEF KeyInv
<1>5. leds \in Seq(Led)
  BY <1>3, <1>4, ShapeIs DEF Good
<1>6. /\ leds[1] \in Led /\ Head(leds) = leds[1] /\ leds' \in Seq(Led)
      /\ Len(leds) \in Nat /\ Len(leds) >= 1 /\ Len(leds') = Len(leds) - 1
      /\ (leds' = <<>> <=> Len(leds) = 1)
      /\ \A i \in 1 .. Len(leds) - 1 : leds'[i] = leds[i + 1]
  <2>1. Len(leds) \in Nat /\ Len(leds) >= 1
    BY <1>1, <1>5
  <2>2. leds[1] \in Led /\ Head(leds) = leds[1]
    BY <1>1, <1>5, <2>1
  <2>3. leds' \in Seq(Led) /\ Len(leds') = Len(leds) - 1
    BY <1>1, <1>5, HeadTailProperties
  <2>4. leds' = <<>> <=> Len(leds) = 1
    BY <2>1, <2>3, EmptySeq
  <2>5. ASSUME NEW i \in 1 .. Len(leds) - 1
        PROVE  leds'[i] = leds[i + 1]
    BY <1>1, <1>5, HeadTailProperties
  <2>. QED BY <2>1, <2>2, <2>3, <2>4, <2>5
<1>7. leds[1].lock \in Locks
  BY <1>6 DEF Led
<1>8. Good(p)
  <2>1. p = Made(list, remote', k.server.down, k.server.caps, leds')
    <3>1. PICK l, r, d, c, q : k = Made(l, r, d, c, q)
      BY <1>4 DEF Good, Shaped
    <3>2. PICK s : s = [down |-> d, caps |-> c]
      OBVIOUS
    <3>3. k.server = s /\ k.server.down = d /\ k.server.caps = c
      BY <3>1, <3>2 DEF Made
    <3>4. p = [list |-> list, remote |-> remote', server |-> s, leds |-> leds']
      BY <1>1, <1>2, <1>3, <3>3 DEF keyboard
    <3>. QED BY <3>2, <3>3, <3>4 DEF Made
  <2>2. Shaped(p)
    <3>1. remote' \in Locks \cup {Unknown} /\ k.server.caps \in Locks
      BY <1>1, <1>4, <1>6, <1>7, ShapeIs DEF Good
    <3>. QED BY <1>6, <2>1, <3>1, MadeShaped
  <2>. QED BY <1>1, <1>3, <1>4, <2>2 DEF Good, Pressed
<1>9. Synced(p)
  <2>1. leds[Len(leds)].lock = server.caps
    BY <1>1, <1>3, <1>4 DEF Locked, Synced
  <2>2. CASE Len(leds) = 1
    BY <1>1, <1>3, <1>6, <2>1, <2>2 DEF Synced
  <2>3. CASE Len(leds) # 1
    <3>1. Len(leds) - 1 \in 1 .. Len(leds) - 1 /\ (Len(leds) - 1) + 1 = Len(leds)
      BY <1>6, <2>3
    <3>2. leds'[Len(leds')] = leds[Len(leds)]
      BY <1>6, <3>1
    <3>. QED BY <1>1, <1>3, <1>6, <2>1, <2>3, <3>2 DEF Synced
  <2>. QED BY <2>2, <2>3
<1>10. Alone(k, local) => Alone(p, local)
  <2>1. CASE Len(leds) = 1
    BY <1>3, <1>6, <2>1 DEF Alone
  <2>2. CASE Len(leds) = 2 /\ leds[1].lock = local /\ ~leds[2].fix
    <3>1. Len(leds') = 1 /\ leds'[1] = leds[2]
      BY <1>6, <2>2
    <3>2. remote' = local
      BY <1>1, <1>6, <2>2
    <3>. QED BY <1>3, <2>2, <3>1, <3>2 DEF Alone
  <2>. QED BY <1>1, <1>3, <1>6, <2>1, <2>2 DEF Alone
<1>11. Downs' /\ Typed'
  BY <1>1, SameDowns DEF KeyInv, Typed
<1>. QED BY <1>1, <1>2, <1>4, <1>8, <1>9, <1>10, <1>11 DEF KeyInv, Locked

LEMMA ServerTurnsKeeps ==
    ASSUME KeyInv, ServerTurnsCaps
    PROVE  KeyInv'
<1>1. PICK k, p : k = keyboard /\ p = keyboard'
  OBVIOUS
<1>2. Good(k)
  BY <1>1 DEF KeyInv
<1>3. PICK l, r, d, c, q : k = Made(l, r, d, c, q)
  BY <1>2 DEF Good, Shaped
<1>4. /\ c \in Locks /\ q \in Seq(Led) /\ r \in Locks \cup {Unknown}
      /\ k.list = l /\ k.server.down = d
  BY <1>2, <1>3, ShapeIs, MadeIs DEF Good
<1>5. PICK t : t = Turned(c)
  OBVIOUS
<1>6. t \in Locks
  BY <1>5 DEF Turned, Locks
<1>7. /\ list' = list /\ armed' = armed /\ remote' = remote /\ local' = local
      /\ UNCHANGED <<platform, held, muted, focused, lapsed>> /\ mixed' = TRUE
      /\ server' = [server EXCEPT !.caps = Turned(@)]
      /\ leds' = Append(leds, [lock |-> server'.caps, fix |-> FALSE])
  BY DEF ServerTurnsCaps
<1>8. list = l /\ remote = r /\ server = [down |-> d, caps |-> c] /\ leds = q
  BY <1>1, <1>3, KeyboardIs DEF Made
<1>9. server' = [down |-> d, caps |-> t]
  BY <1>5, <1>7, <1>8
<1>10. PICK led : led = [lock |-> t, fix |-> FALSE]
  OBVIOUS
<1>11. led \in Led /\ led.lock = t
  BY <1>6, <1>10 DEF Led
<1>12. leds' = Append(q, led)
  <2>1. server'.caps = t
    BY <1>9
  <2>2. [lock |-> server'.caps, fix |-> FALSE] = led
    BY <1>10, <2>1
  <2>. QED BY <1>7, <1>8, <2>2
<1>13. PICK o : o = Append(q, led)
  OBVIOUS
<1>14. o \in Seq(Led) /\ o # <<>> /\ o[Len(o)] = led
  <2>1. Len(q) \in Nat /\ Len(o) = Len(q) + 1 /\ o[Len(q) + 1] = led /\ o \in Seq(Led)
    BY <1>4, <1>11, <1>13
  <2>. QED BY <2>1
<1>15. p = Made(l, r, d, t, o)
  BY <1>1, <1>7, <1>8, <1>9, <1>12, <1>13 DEF keyboard, Made
<1>16. Good(p)
  <2>1. Shaped(p)
    BY <1>4, <1>6, <1>14, <1>15, MadeShaped
  <2>. QED BY <1>2, <1>4, <1>15, <2>1, MadeIs DEF Good, Pressed
<1>17. Locked(p, local, TRUE)
  <2>1. Synced(p)
    BY <1>11, <1>14, <1>15, MadeIs DEF Synced
  <2>. QED BY <2>1 DEF Locked
<1>18. Downs' /\ Typed'
  BY <1>7, SameDowns DEF KeyInv, Typed
<1>. QED BY <1>1, <1>7, <1>16, <1>17, <1>18 DEF KeyInv
-----------------------------------------------------------------------------
LEMMA InitKeyInv == KeyInit => KeyInv
<1>. SUFFICES ASSUME KeyInit PROVE KeyInv
  OBVIOUS
<1>1. Typed
  BY DEF KeyInit, Typed, Locks
<1>2. PICK led : led = [lock |-> "off", fix |-> FALSE]
  OBVIOUS
<1>3. led \in Led /\ led.lock = "off"
  BY <1>2 DEF Led, Locks
<1>4. PICK q : q = <<led>>
  OBVIOUS
<1>5. q \in Seq(Led) /\ Len(q) = 1 /\ q[1] = led /\ q # <<>>
  BY <1>3, <1>4
<1>6. PICK e : e = <<>>
  OBVIOUS
<1>7. PICK k : k = keyboard
  OBVIOUS
<1>8. k = Made(e, Unknown, {}, "off", q)
  BY <1>2, <1>4, <1>6, <1>7 DEF KeyInit, Made, keyboard
<1>9. e = [c \in {} |-> c] /\ DOMAIN e = {}
  BY <1>6
<1>10. Good(k)
  <2>1. Shaped(k)
    BY <1>5, <1>8, MadeShaped DEF Locks
  <2>2. Owned(e) /\ Range(e) = {}
    BY <1>9 DEF Owned, Range
  <2>. QED BY <1>8, <2>1, <2>2, MadeIs DEF Good, Pressed
<1>11. Locked(k, local, mixed)
  BY <1>3, <1>5, <1>8, MadeIs DEF Locked, Synced, Alone
<1>12. Downs
  BY <1>6, <1>9 DEF KeyInit, Downs, Waiting, NoneStuck, Away, Unheard, Ours
<1>. QED BY <1>1, <1>7, <1>10, <1>11, <1>12 DEF KeyInv

LEMMA NextKeyInv == KeyInv /\ [KeyNext]_keyVars => KeyInv'
<1>. SUFFICES ASSUME KeyInv, [KeyNext]_keyVars PROVE KeyInv'
  OBVIOUS
<1>1. CASE \E code \in Keys : KeyDown(code)
  BY <1>1, KeyDownKeeps
<1>2. CASE \E code \in Keys : KeyUp(code)
  BY <1>2, KeyUpKeeps
<1>3. CASE HandleAltGrTimeout
  BY <1>3, TimeoutKeeps
<1>4. CASE AllKeysUp
  BY <1>4, AllKeysUpKeeps
<1>5. CASE Focus
  BY <1>5, FocusKeeps
<1>6. CASE HandleLedEvent
  BY <1>6, LedKeeps
<1>7. CASE ServerTurnsCaps
  BY <1>7, ServerTurnsKeeps
<1>8. CASE UNCHANGED keyVars
  <2>1. /\ UNCHANGED <<platform, held, muted, focused, lapsed>>
        /\ list' = list /\ armed' = armed /\ remote' = remote /\ server' = server
        /\ leds' = leds /\ local' = local /\ mixed' = mixed
    BY <1>8 DEF keyVars
  <2>2. keyboard' = keyboard
    BY <2>1 DEF keyboard
  <2>3. Downs' /\ Typed'
    BY <2>1, SameDowns DEF KeyInv, Typed
  <2>. QED BY <2>1, <2>2, <2>3 DEF KeyInv
<1>. QED BY <1>1, <1>2, <1>3, <1>4, <1>5, <1>6, <1>7, <1>8 DEF KeyNext

(* The inductive invariant, for any keys, however many are held and however *)
(* many messages of the lock are on their way.                              *)
THEOREM KeyInvariant == KeySpec => []KeyInv
<1>1. KeyInit => KeyInv
  BY InitKeyInv
<1>2. KeyInv /\ [KeyNext]_keyVars => KeyInv'
  BY NextKeyInv
<1>. QED BY <1>1, <1>2, PTL DEF KeySpec

(* Every press the server knows of can be undone: the list holds the very  *)
(* symbol that was sent for each key (keyboard.js:159-163, 234).           *)
THEOREM ReleasesWhatItPressedAlways == KeySpec => []ReleasesWhatItPressed
<1>1. KeyInv => ReleasesWhatItPressed
  BY KeyboardIs DEF KeyInv, Good, Pressed, ReleasesWhatItPressed
<1>. QED BY <1>1, KeyInvariant, PTL

(* No key stays down at the server but for the two gaps the property names *)
(* (keyboard.js:165-173, 236-249, 258-264).                                *)
THEOREM NoneStuckAlways == KeySpec => []NoneStuck
<1>1. KeyInv => NoneStuck
  BY DEF KeyInv, Downs
<1>. QED BY <1>1, KeyInvariant, PTL

(* The server's Caps Lock is turned over once for one difference           *)
(* (rfb.js:998-1016).                                                      *)
THEOREM TurnedOverOnceAlways == KeySpec => []TurnedOverOnce
<1>1. KeyInv => TurnedOverOnce
  <2>. SUFFICES ASSUME KeyInv, NEW i \in DOMAIN leds, leds[i].fix, ~mixed
                PROVE  remote = Unknown
    BY DEF TurnedOverOnce
  <2>1. leds \in Seq(Led)
    BY ShapeIs, KeyboardIs DEF KeyInv, Good
  <2>2. DOMAIN leds = 1 .. Len(leds) /\ Len(leds) \in Nat
    BY <2>1
  <2>3. Alone(keyboard, local)
    BY DEF KeyInv, Locked
  <2>4. leds # <<>>
    BY <2>2
  <2>5. CASE Len(leds) = 1
    <3>1. i = 1
      BY <2>2, <2>5
    <3>. QED BY <2>3, <2>4, <2>5, <3>1, KeyboardIs DEF Alone
  <2>6. CASE Len(leds) # 1
    BY <2>3, <2>4, <2>6, KeyboardIs DEF Alone
  <2>. QED BY <2>5, <2>6
<1>. QED BY <1>1, KeyInvariant, PTL

LEMMA SymbolsIn ==
    /\ \A code \in Keys : Symbols(code) \subseteq AllSymbols
    /\ {"Alt_L", "CapsLock"} \subseteq AllSymbols
<1> DEFINE named == { Symbols(code) : code \in Keys }
<1>1. \A code \in Keys : Symbols(code) \in named
  OBVIOUS
<1>2. AllSymbols = (UNION named) \cup {"Alt_L", "CapsLock"}
  BY DEF AllSymbols
<1>. HIDE DEF named
<1>3. ASSUME NEW code \in Keys, NEW symbol \in Symbols(code)
      PROVE  symbol \in AllSymbols
  <2>1. symbol \in UNION named
    BY <1>1, Zenon
  <2>. QED BY <1>2, <2>1, Zenon
<1>4. {"Alt_L", "CapsLock"} \subseteq AllSymbols
  BY <1>2
<1>. QED BY <1>3, <1>4

(* Every variable keeps its type; what the server takes for pressed are    *)
(* symbols that keys have.                                                 *)
THEOREM KeyboardTypes == KeySpec => []KeyTypeOK
<1>1. KeyInv => KeyTypeOK
  <2>. SUFFICES ASSUME KeyInv PROVE KeyTypeOK
    OBVIOUS
  <2>1. /\ platform \in {"windows", "mac", "other"}
        /\ held \subseteq Keys /\ muted \subseteq Keys /\ DOMAIN list \subseteq Keys
        /\ focused \in BOOLEAN /\ armed \in BOOLEAN /\ lapsed \in BOOLEAN /\ mixed \in BOOLEAN
        /\ local \in Locks
    BY DEF KeyInv, Typed, Downs, Ours
  <2>2. Owned(list) /\ Pressed(keyboard) /\ Shaped(keyboard)
    BY KeyboardIs DEF KeyInv, Good
  <2>3. remote \in Locks \cup {Unknown} /\ server.caps \in Locks /\ leds \in Seq(Led)
    BY <2>2, ShapeIs, KeyboardIs
  <2>4. ASSUME NEW c \in DOMAIN list
        PROVE  list[c] \in AllSymbols
    <3>1. list[c] \in Own(c) /\ c \in Keys
      BY <2>1, <2>2 DEF Owned
    <3>2. Own(c) \subseteq Symbols(c) \cup {"Alt_L"}
      BY DEF Own
    <3>3. Symbols(c) \cup {"Alt_L"} \subseteq AllSymbols
      BY <3>1, SymbolsIn
    <3>. QED BY <3>1, <3>2, <3>3
  <2>5. Range(list) \subseteq AllSymbols
    BY <2>4 DEF Range
  <2>6. server.down \subseteq AllSymbols
    <3>1. "CapsLock" \in AllSymbols
      BY SymbolsIn
    <3>. QED BY <2>2, <2>5, <3>1, KeyboardIs DEF Pressed
  <2>7. \A i \in DOMAIN leds : leds[i].lock \in Locks /\ leds[i].fix \in BOOLEAN
    <3>1. \A i \in DOMAIN leds : leds[i] \in Led
      BY <2>3
    <3>2. \A led \in Led : led.lock \in Locks /\ led.fix \in BOOLEAN
      BY DEF Led
    <3>. QED BY <3>1, <3>2
  <2>. QED BY <2>1, <2>3, <2>5, <2>6, <2>7 DEF KeyTypeOK
<1>. QED BY <1>1, KeyInvariant, PTL
-----------------------------------------------------------------------------
(* The display.  A state [view, back, target, damage, q] of it. *)
St(v, b, t, d, q) == [view |-> v, back |-> b, target |-> t, damage |-> d, q |-> q]

Views == [fb: Nat, clip: BOOLEAN, x: Nat, w: Nat]

(* The canvases have their sizes: the visible one that of the viewport,    *)
(* the hidden one at least that of the framebuffer.                        *)
Sized(s) ==
    /\ s = St(s.view, s.back, s.target, s.damage, s.q)
    /\ s.view \in Views /\ s.damage \in [l: Nat, r: Nat]
    /\ s.target = [i \in 0..(s.view.w - 1) |-> s.target[i]]
    /\ s.back = [i \in DOMAIN s.back |-> s.back[i]]
    /\ 0..(s.view.fb - 1) \subseteq DOMAIN s.back

(* A column that looks otherwise than the picture is damaged. *)
Fresh(s) ==
    \A i \in 0..(s.view.w - 1) :
        s.view.x + i \in DOMAIN s.back =>
            s.target[i] = s.back[s.view.x + i] \/ s.view.x + i \in s.damage.l..(s.damage.r - 1)

Sound(s) == Sized(s) /\ Fresh(s) /\ s.view.x + s.view.w <= s.view.fb

LEMMA SizedIs ==
    ASSUME NEW v \in Views, NEW b, b = [i \in DOMAIN b |-> b[i]], 0..(v.fb - 1) \subseteq DOMAIN b,
           NEW t, t = [i \in 0..(v.w - 1) |-> t[i]], NEW d \in [l: Nat, r: Nat], NEW q
    PROVE  Sized(St(v, b, t, d, q))
<1>1. PICK s : s = St(v, b, t, d, q)
  OBVIOUS
<1>2. s.view = v /\ s.back = b /\ s.target = t /\ s.damage = d /\ s.q = q
  BY <1>1 DEF St
<1>3. Sized(s)
  BY <1>1, <1>2 DEF Sized
<1>. QED BY <1>1, <1>3

LEMMA SoundStale ==
    ASSUME Sound(State)
    PROVE  StaleIsDamaged
<1>1. /\ State.view = view /\ State.back = back /\ State.target = target
      /\ State.damage = damage
  BY DEF State
<1>2. DOMAIN target = 0..(view.w - 1) /\ view \in Views /\ view.x + view.w <= view.fb
  BY <1>1 DEF Sound, Sized
<1>3. \A i \in 0..(view.w - 1) : view.x + i \in 0..(view.fb - 1)
  BY <1>2 DEF Views
<1>. QED BY <1>1, <1>2, <1>3 DEF Sound, Fresh, StaleIsDamaged

(* Drawing on some columns and damaging those. *)
LEMMA DamagedSound ==
    ASSUME NEW s, Sound(s), NEW b, b = [i \in DOMAIN b |-> b[i]], DOMAIN b = DOMAIN s.back,
           NEW x \in Nat, NEW w \in Nat,
           \A i \in DOMAIN b : i \notin x..(x + w - 1) => b[i] = s.back[i],
           NEW t, t = Damaged([s EXCEPT !.back = b], x, w)
    PROVE  Sound(t) /\ t.view = s.view /\ t.q = s.q /\ t.back = b
<1> DEFINE d == [l |-> Min2(s.damage.l, x), r |-> Max2(s.damage.r, x + w)]
<1>1. s = St(s.view, s.back, s.target, s.damage, s.q)
  BY DEF Sound, Sized
<1>2. t = St(s.view, b, s.target, d, s.q)
  BY <1>1 DEF Damaged, St
<1>3. d \in [l: Nat, r: Nat] /\ d.l <= s.damage.l /\ d.l <= x /\ s.damage.r <= d.r /\ x + w <= d.r
  BY DEF Sound, Sized, Min2, Max2
<1>. HIDE DEF d
<1>4. t.view = s.view /\ t.back = b /\ t.target = s.target /\ t.damage = d /\ t.q = s.q
  BY <1>2 DEF St
<1>5. Sized(t)
  BY <1>2, <1>3, <1>4 DEF Sound, Sized
<1>6. Fresh(t)
  <2>. SUFFICES ASSUME NEW i \in 0..(s.view.w - 1), s.view.x + i \in DOMAIN b
                PROVE  s.target[i] = b[s.view.x + i] \/ s.view.x + i \in d.l..(d.r - 1)
    BY <1>4 DEF Fresh
  <2>1. s.view.x + i \in Nat /\ s.damage.l \in Nat /\ s.damage.r \in Nat /\ d.l \in Nat /\ d.r \in Nat
    <3>1. s.view \in Views /\ s.damage \in [l: Nat, r: Nat]
      BY DEF Sound, Sized
    <3>2. s.view.x \in Nat
      BY <3>1 DEF Views
    <3>. QED BY <1>3, <3>1, <3>2
  <2>2. CASE s.view.x + i \in x..(x + w - 1)
    BY <1>3, <2>1, <2>2
  <2>3. CASE s.view.x + i \notin x..(x + w - 1)
    <3>1. b[s.view.x + i] = s.back[s.view.x + i]
      BY <2>3
    <3>2. s.target[i] = s.back[s.view.x + i] \/ s.view.x + i \in s.damage.l..(s.damage.r - 1)
      BY DEF Sound, Fresh
    <3>3. s.view.x + i \in s.damage.l..(s.damage.r - 1) => s.view.x + i \in d.l..(d.r - 1)
      BY <1>3, <2>1
    <3>. QED BY <3>1, <3>2, <3>3
  <2>. QED BY <2>2, <2>3
<1>. QED BY <1>4, <1>5, <1>6 DEF Sound

(* What waits does not show.                                               *)
LEMMA QueuedSound ==
    ASSUME NEW s, Sound(s), NEW q, NEW t, t = [s EXCEPT !.q = q]
    PROVE  Sound(t) /\ t.view = s.view /\ t.back = s.back /\ t.q = q
<1>1. s = St(s.view, s.back, s.target, s.damage, s.q)
  BY DEF Sound, Sized
<1>2. t = St(s.view, s.back, s.target, s.damage, q)
  BY <1>1 DEF St
<1>3. /\ t.view = s.view /\ t.back = s.back /\ t.target = s.target /\ t.damage = s.damage
      /\ t.q = q
  BY <1>2 DEF St
<1>. QED BY <1>2, <1>3 DEF Sound, Sized, Fresh

(* Showing the damaged part makes every column fresh. *)
LEMMA ShownSound ==
    ASSUME NEW s, Sound(s), NEW t, t = ShowDamage(s)
    PROVE  Sound(t) /\ t.view = s.view /\ t.q = s.q /\ t.back = s.back
<1> DEFINE x == Max2(s.damage.l, s.view.x)
           vx == x - s.view.x
           w == Min2(s.damage.r - x, s.view.w - vx)
           g == IF w > 0 THEN Copied(s.target, s.back, x, vx, w) ELSE s.target
           d == [l |-> Far, r |-> 0]
<1>1. s = St(s.view, s.back, s.target, s.damage, s.q)
  BY DEF Sound, Sized
<1>2. t = St(s.view, s.back, g, d, s.q)
  BY <1>1 DEF ShowDamage, St
<1>3. /\ s.view.x \in Nat /\ s.view.w \in Nat /\ s.damage.l \in Nat /\ s.damage.r \in Nat
      /\ d \in [l: Nat, r: Nat]
  BY FarAssumption DEF Sound, Sized, Views
<1>4. x \in Nat /\ vx \in Nat /\ w \in Int /\ s.damage.l <= x /\ x = s.view.x + vx
  BY <1>3 DEF Max2, Min2
<1>5. \A i \in 0..(s.view.w - 1) : i \notin vx..(vx + w - 1) =>
          s.view.x + i \notin s.damage.l..(s.damage.r - 1)
  BY <1>3 DEF Max2, Min2
<1>6. \A i : i - vx + x = i - vx + (s.view.x + vx)
  BY <1>4
<1>. HIDE DEF x, vx, w, d
<1>7. /\ t.view = s.view /\ t.back = s.back /\ t.target = g /\ t.damage = d /\ t.q = s.q
  BY <1>2 DEF St
<1>8. s.target = [i \in 0..(s.view.w - 1) |-> s.target[i]]
  BY DEF Sound, Sized
<1>9. g = [i \in 0..(s.view.w - 1) |-> g[i]]
  BY <1>8 DEF Copied
<1>10. Sized(t)
  BY <1>2, <1>3, <1>7, <1>9 DEF Sound, Sized
<1>11. Fresh(t)
  <2>. SUFFICES ASSUME NEW i \in 0..(s.view.w - 1), s.view.x + i \in DOMAIN s.back
                PROVE  g[i] = s.back[s.view.x + i]
    BY <1>7 DEF Fresh
  <2>1. i - vx + x = s.view.x + i
    BY <1>3, <1>4
  <2>2. CASE w > 0 /\ i \in vx..(vx + w - 1)
    BY <1>8, <2>1, <2>2 DEF Copied
  <2>3. CASE ~(w > 0 /\ i \in vx..(vx + w - 1))
    <3>1. i \notin vx..(vx + w - 1)
      BY <1>3, <1>4, <2>3
    <3>2. g[i] = s.target[i]
      BY <1>8, <3>1 DEF Copied
    <3>3. s.target[i] = s.back[s.view.x + i]
      BY <1>5, <3>1 DEF Sound, Fresh
    <3>. QED BY <3>2, <3>3
  <2>. QED BY <2>2, <2>3
<1>. QED BY <1>7, <1>10, <1>11 DEF Sound
-----------------------------------------------------------------------------
(* What waits in the queue. *)
Act == [type : {"flip"}]
       \cup [type : {"paint"}, x : Nat, w : Nat, c : Colours \cup {Stray}]
       \cup [type : {"copy"}, from : Nat, x : Nat, w : Nat]
       \cup [type : {"img"}, x : Nat, w : Nat, c : Colours, complete : BOOLEAN, fits : BOOLEAN]

LEMMA PaintedIs ==
    ASSUME NEW b, b = [i \in DOMAIN b |-> b[i]], NEW x \in Nat, NEW w \in Nat, NEW c,
           NEW p, p = Painted(b, x, w, c)
    PROVE  /\ p = [i \in DOMAIN p |-> p[i]] /\ DOMAIN p = DOMAIN b
           /\ \A i \in DOMAIN p : i \notin x..(x + w - 1) => p[i] = b[i]
BY DEF Painted

LEMMA CopiedIs ==
    ASSUME NEW b, b = [i \in DOMAIN b |-> b[i]], NEW f \in Nat, NEW x \in Nat, NEW w \in Nat,
           NEW p, p = Copied(b, b, f, x, w)
    PROVE  /\ p = [i \in DOMAIN p |-> p[i]] /\ DOMAIN p = DOMAIN b
           /\ \A i \in DOMAIN p : i \notin x..(x + w - 1) => p[i] = b[i]
BY DEF Copied

(* What an action makes of the hidden canvas. *)
LEMMA PutIs ==
    ASSUME NEW b, NEW a \in Act
    PROVE  /\ a.type = "flip" => Put(b, a) = b
           /\ a.type = "copy" => Put(b, a) = Copied(b, b, a.from, a.x, a.w)
           /\ a.type = "paint" => Put(b, a) = Painted(b, a.x, a.w, a.c)
           /\ a.type = "img" => Put(b, a) = IF a.fits THEN Painted(b, a.x, a.w, a.c) ELSE b
<1>1. CASE a.type = "flip"
  BY <1>1 DEF Put, WillDraw, Draw, ShowDamage, Unseen
<1>2. CASE a.type = "copy"
  BY <1>2 DEF Put, WillDraw, Draw, Damaged, Unseen
<1>3. CASE a.type = "paint"
  BY <1>3 DEF Put, WillDraw, Draw, Damaged, Unseen
<1>4. CASE a.type = "img"
  BY <1>4 DEF Put, WillDraw, Draw, Damaged, Unseen
<1>. QED BY <1>1, <1>2, <1>3, <1>4

LEMMA DrawSound ==
    ASSUME NEW s, Sound(s), NEW a \in Act, WillDraw(a), NEW t, t = Draw(s, a)
    PROVE  Sound(t) /\ t.view = s.view /\ t.q = s.q /\ t.back = Put(s.back, a)
<1>1. s.back = [i \in DOMAIN s.back |-> s.back[i]]
  BY DEF Sound, Sized
<1>2. CASE a.type = "flip"
  <2>1. t = ShowDamage(s)
    BY <1>2 DEF Draw
  <2>. QED BY <1>2, <2>1, ShownSound, PutIs
<1>3. CASE a.type = "copy"
  <2>1. a.from \in Nat /\ a.x \in Nat /\ a.w \in Nat
    BY <1>3 DEF Act
  <2>2. PICK b : b = Copied(s.back, s.back, a.from, a.x, a.w)
    OBVIOUS
  <2>3. t = Damaged([s EXCEPT !.back = b], a.x, a.w)
    BY <1>3, <2>2 DEF Draw
  <2>4. /\ b = [i \in DOMAIN b |-> b[i]] /\ DOMAIN b = DOMAIN s.back
        /\ \A i \in DOMAIN b : i \notin a.x..(a.x + a.w - 1) => b[i] = s.back[i]
    BY <1>1, <2>1, <2>2 DEF Copied
  <2>5. Sound(t) /\ t.view = s.view /\ t.q = s.q /\ t.back = b
    BY <2>1, <2>3, <2>4, DamagedSound
  <2>. QED BY <1>3, <2>2, <2>5, PutIs
<1>4. CASE a.type \in {"paint", "img"}
  <2>1. a.x \in Nat /\ a.w \in Nat
    BY <1>4 DEF Act
  <2>2. PICK b : b = Painted(s.back, a.x, a.w, a.c)
    OBVIOUS
  <2>3. t = Damaged([s EXCEPT !.back = b], a.x, a.w)
    BY <1>4, <2>2 DEF Draw
  <2>4. Put(s.back, a) = b
    BY <1>4, <2>2, PutIs DEF WillDraw
  <2>5. /\ b = [i \in DOMAIN b |-> b[i]] /\ DOMAIN b = DOMAIN s.back
        /\ \A i \in DOMAIN b : i \notin a.x..(a.x + a.w - 1) => b[i] = s.back[i]
    BY <1>1, <2>1, <2>2 DEF Painted
  <2>6. Sound(t) /\ t.view = s.view /\ t.q = s.q /\ t.back = b
    BY <2>1, <2>3, <2>5, DamagedSound
  <2>. QED BY <2>4, <2>6
<1>5. a.type \in {"flip", "copy", "paint", "img"}
  BY DEF Act
<1>. QED BY <1>2, <1>3, <1>4, <1>5

-----------------------------------------------------------------------------
(* A set of numbers that is not empty has a least one.                     *)
LEMMA LeastOf ==
    ASSUME NEW S \in SUBSET Nat, NEW n \in S
    PROVE  \E k \in S : \A j \in S : k <= j
<1> DEFINE Up == {0 .. k : k \in {j \in S : j <= n}}
<1>1. PICK whole : whole = 0 .. n
  OBVIOUS
<1>2. IsFiniteSet(whole)
  BY <1>1, FS_Interval
<1>3. IsWellFoundedOn(StrictSubsetOrdering(whole), SUBSET whole)
  BY <1>2, FS_StrictSubsetOrderingWellFounded, FS_FiniteSubsetsOfFinite
<1>4. Up \subseteq SUBSET whole /\ Up # {}
  BY <1>1
<1>5. PICK u \in Up : \A v \in Up : ~(<<v, u>> \in StrictSubsetOrdering(whole))
  BY <1>3, <1>4, WFMin
<1>6. PICK k \in S : k <= n /\ u = 0 .. k
  OBVIOUS
<1>7. ASSUME NEW j \in S, j < k PROVE FALSE
  <2>1. 0 .. j \in Up /\ 0 .. j \subseteq u /\ k \in u /\ k \notin 0 .. j
    BY <1>6, <1>7
  <2>2. 0 .. j \subseteq whole /\ u \subseteq whole /\ 0 .. j # u
    BY <1>4, <2>1
  <2>. QED BY <1>5, <2>1, <2>2 DEF StrictSubsetOrdering
<1>. QED BY <1>7

(* The recursive definitions, one step unfolded.                           *)
Puts(b, q, f) == [k \in 0..Len(q) |-> IF k = 0 THEN b ELSE Put(f[k - 1], q[k])]
DrawsOf(s, q, n, g) == [k \in 0..n |-> IF k = 0 THEN s ELSE Draw(g[k - 1], q[k])]
TheDraws(s, q, n) == CHOOSE g : g = DrawsOf(s, q, n, g)
ThePuts(b, q) == CHOOSE f : f = Puts(b, q, f)

LEMMA FinalUnfolds ==
    ASSUME NEW b, NEW q
    PROVE  Final(b, q) = ThePuts(b, q)[Len(q)]
BY DEF Final, ThePuts, Puts

LEMMA DrawingUnfolds ==
    ASSUME NEW s, NEW q, NEW n
    PROVE  Drawing(s, q, n) = TheDraws(s, q, n)[n]
BY DEF Drawing, TheDraws, DrawsOf

LEMMA DrawsExist ==
    ASSUME NEW s, NEW q, NEW n \in Nat
    PROVE  \E g : g = DrawsOf(s, q, n, g)
<1> DEFINE Lacks == {m \in Nat : ~\E g : g = DrawsOf(s, q, m, g)}
<1>. SUFFICES ASSUME n \in Lacks PROVE FALSE
  OBVIOUS
<1>1. PICK m \in Lacks : \A j \in Lacks : m <= j
  BY LeastOf
<1>2. m # 0
  <2>. SUFFICES ASSUME m = 0 PROVE FALSE
    OBVIOUS
  <2> DEFINE g == [k \in 0..0 |-> s]
  <2>1. g = DrawsOf(s, q, 0, g)
    BY DEF DrawsOf
  <2>. QED BY <1>1, <2>1
<1>3. m - 1 \in Nat /\ m - 1 \notin Lacks
  <2>1. m \in Nat
    OBVIOUS
  <2>2. m - 1 \in Nat /\ ~(m <= m - 1)
    BY <1>2, <2>1
  <2>. QED BY <1>1, <2>2
<1>4. PICK g : g = DrawsOf(s, q, m - 1, g)
  BY <1>3
<1> DEFINE h == [k \in 0..m |-> IF k = m THEN Draw(g[m - 1], q[m]) ELSE g[k]]
<1>5. ASSUME NEW k \in 0..m
      PROVE  h[k] = IF k = 0 THEN s ELSE Draw(h[k - 1], q[k])
  <2>1. CASE k = m
    BY <1>2, <1>3, <2>1
  <2>2. CASE k # m
    <3>1. k \in 0..(m - 1) /\ h[k] = g[k]
      BY <1>3, <2>2
    <3>2. g[k] = IF k = 0 THEN s ELSE Draw(g[k - 1], q[k])
      BY <1>4, <3>1 DEF DrawsOf
    <3>3. k # 0 => h[k - 1] = g[k - 1]
      BY <1>3, <3>1
    <3>. QED BY <3>1, <3>2, <3>3
  <2>. QED BY <2>1, <2>2
<1>6. h = DrawsOf(s, q, m, h)
  BY <1>5 DEF DrawsOf
<1>. QED BY <1>1, <1>6

LEMMA PutsExist ==
    ASSUME NEW b, NEW q, Len(q) \in Nat
    PROVE  \E f : f = Puts(b, q, f)
<1> DEFINE P(m, f) == [k \in 0..m |-> IF k = 0 THEN b ELSE Put(f[k - 1], q[k])]
           Lacks == {m \in Nat : ~\E f : f = P(m, f)}
<1>. SUFFICES ASSUME Len(q) \in Lacks PROVE FALSE
  BY DEF Puts
<1>1. PICK m \in Lacks : \A j \in Lacks : m <= j
  BY LeastOf
<1>2. m # 0
  <2>. SUFFICES ASSUME m = 0 PROVE FALSE
    OBVIOUS
  <2> DEFINE f == [k \in 0..0 |-> b]
  <2>1. f = P(0, f)
    OBVIOUS
  <2>. QED BY <1>1, <2>1
<1>3. m - 1 \in Nat /\ m - 1 \notin Lacks
  <2>1. m \in Nat
    OBVIOUS
  <2>2. m - 1 \in Nat /\ ~(m <= m - 1)
    BY <1>2, <2>1
  <2>. QED BY <1>1, <2>2
<1>4. PICK f : f = P(m - 1, f)
  BY <1>3
<1> DEFINE h == [k \in 0..m |-> IF k = m THEN Put(f[m - 1], q[m]) ELSE f[k]]
<1>5. ASSUME NEW k \in 0..m
      PROVE  h[k] = IF k = 0 THEN b ELSE Put(h[k - 1], q[k])
  <2>1. CASE k = m
    BY <1>2, <1>3, <2>1
  <2>2. CASE k # m
    <3>1. k \in 0..(m - 1) /\ h[k] = f[k]
      BY <1>3, <2>2
    <3>2. f[k] = IF k = 0 THEN b ELSE Put(f[k - 1], q[k])
      BY <1>4, <3>1
    <3>3. k # 0 => h[k - 1] = f[k - 1]
      BY <1>3, <3>1
    <3>. QED BY <3>1, <3>2, <3>3
  <2>. QED BY <2>1, <2>2
<1>6. h = P(m, h)
  BY <1>5
<1>. QED BY <1>1, <1>6

(* There is one function of the kind, so any one will do.                  *)
LEMMA FinalIs ==
    ASSUME NEW b, NEW q, Len(q) \in Nat, NEW f, f = Puts(b, q, f)
    PROVE  Final(b, q) = f[Len(q)]
<1>1. PICK g : g = ThePuts(b, q)
  OBVIOUS
<1>2. g = Puts(b, q, g)
  BY <1>1, PutsExist DEF ThePuts
<1> DEFINE Differ == {k \in 0..Len(q) : f[k] # g[k]}
<1>3. Differ = {}
  <2>. SUFFICES ASSUME Differ # {} PROVE FALSE
    OBVIOUS
  <2>1. PICK m \in Differ : \A j \in Differ : m <= j
    <3>1. Differ \in SUBSET Nat
      OBVIOUS
    <3>. HIDE DEF Differ
    <3>. QED BY <3>1, LeastOf
  <2>2. /\ f[m] = IF m = 0 THEN b ELSE Put(f[m - 1], q[m])
        /\ g[m] = IF m = 0 THEN b ELSE Put(g[m - 1], q[m])
    BY <1>2 DEF Puts
  <2>3. m # 0 => f[m - 1] = g[m - 1]
    BY <2>1
  <2>. QED BY <2>2, <2>3
<1>. QED BY <1>1, <1>3, FinalUnfolds

LEMMA FinalNone ==
    ASSUME NEW b
    PROVE  Final(b, <<>>) = b
<1> DEFINE f == [k \in 0..0 |-> b]
<1>1. Len(<<>>) = 0 /\ f = Puts(b, <<>>, f)
  BY DEF Puts
<1>. QED BY <1>1, FinalIs

LEMMA FinalAppended ==
    ASSUME NEW b, NEW q \in Seq(Act), NEW a \in Act
    PROVE  Final(b, Append(q, a)) = Put(Final(b, q), a)
<1>1. PICK f : f = Puts(b, q, f)
  BY PutsExist
<1>2. PICK n \in Nat : n = Len(q)
  OBVIOUS
<1> DEFINE r == Append(q, a)
           h == [k \in 0..(n + 1) |-> IF k = n + 1 THEN Put(f[n], a) ELSE f[k]]
<1>3. Len(r) = n + 1 /\ r[n + 1] = a /\ \A k \in 1..n : r[k] = q[k]
  BY <1>2
<1>. HIDE DEF r
<1>4. ASSUME NEW k \in 0..(n + 1)
      PROVE  h[k] = IF k = 0 THEN b ELSE Put(h[k - 1], r[k])
  <2>1. CASE k = n + 1
    BY <1>2, <1>3, <2>1
  <2>2. CASE k # n + 1
    <3>1. k \in 0..n /\ h[k] = f[k]
      BY <2>2
    <3>2. f[k] = IF k = 0 THEN b ELSE Put(f[k - 1], q[k])
      BY <1>1, <1>2, <3>1 DEF Puts
    <3>3. k # 0 => h[k - 1] = f[k - 1] /\ r[k] = q[k]
      BY <1>3, <3>1
    <3>. QED BY <3>1, <3>2, <3>3
  <2>. QED BY <2>1, <2>2
<1>5. h = Puts(b, r, h)
  BY <1>3, <1>4 DEF Puts
<1>6. Final(b, r) = h[n + 1]
  BY <1>3, <1>5, FinalIs
<1>7. Final(b, q) = f[n]
  BY <1>1, <1>2, FinalIs
<1>. QED BY <1>6, <1>7 DEF r

(* That an image has come changes nothing of what it will draw.            *)
Arrived(q, i) == [q EXCEPT ![i].complete = TRUE]

LEMMA ArrivedIs ==
    ASSUME NEW q \in Seq(Act), NEW i \in 1..Len(q), q[i].type = "img"
    PROVE  /\ Arrived(q, i) \in Seq(Act) /\ Len(Arrived(q, i)) = Len(q)
           /\ \A b, k : k \in 1..Len(q) => Put(b, Arrived(q, i)[k]) = Put(b, q[k])
<1> DEFINE a == [q[i] EXCEPT !.complete = TRUE]
<1>1. q[i] \in Act
  OBVIOUS
<1>2. /\ a \in Act /\ a.type = "img" /\ a.x = q[i].x /\ a.w = q[i].w /\ a.c = q[i].c
      /\ a.fits = q[i].fits
  BY <1>1 DEF Act
<1>3. Arrived(q, i) = [q EXCEPT ![i] = a]
  BY DEF Arrived
<1>4. ASSUME NEW b PROVE Put(b, a) = Put(b, q[i])
  <2>1. Put(b, a) = IF a.fits THEN Painted(b, a.x, a.w, a.c) ELSE b
    BY <1>2, PutIs
  <2>2. Put(b, q[i]) = IF q[i].fits THEN Painted(b, q[i].x, q[i].w, q[i].c) ELSE b
    BY <1>1, PutIs
  <2>. QED BY <1>2, <2>1, <2>2
<1>. HIDE DEF a
<1>5. Arrived(q, i) \in Seq(Act) /\ Len(Arrived(q, i)) = Len(q)
  BY <1>2, <1>3
<1>6. \A k \in 1..Len(q) : Arrived(q, i)[k] = IF k = i THEN a ELSE q[k]
  BY <1>3
<1>. QED BY <1>4, <1>5, <1>6

LEMMA FinalArrived ==
    ASSUME NEW b, NEW q \in Seq(Act), NEW i \in 1..Len(q), q[i].type = "img"
    PROVE  Final(b, Arrived(q, i)) = Final(b, q)
<1>1. PICK f : f = Puts(b, q, f)
  <2>1. Len(q) \in Nat
    OBVIOUS
  <2>. QED BY <2>1, PutsExist
<1>2. PICK r : r = Arrived(q, i)
  OBVIOUS
<1>3. Len(r) = Len(q) /\ \A c, k : k \in 1..Len(q) => Put(c, r[k]) = Put(c, q[k])
  <2>1. /\ Len(Arrived(q, i)) = Len(q)
        /\ \A c, k : k \in 1..Len(q) => Put(c, Arrived(q, i)[k]) = Put(c, q[k])
    BY ArrivedIs
  <2>. QED BY <1>2, <2>1
<1>4. \A k \in 0..Len(q) : k # 0 => k \in 1..Len(q)
  OBVIOUS
<1>5. Puts(b, q, f) = Puts(b, r, f)
  BY <1>3, <1>4 DEF Puts
<1>6. Final(b, r) = f[Len(r)] /\ Final(b, q) = f[Len(q)]
  BY <1>1, <1>3, <1>5, FinalIs
<1>. QED BY <1>2, <1>3, <1>6

(* What has been drawn need not be drawn again.                            *)
LEMMA FinalRest ==
    ASSUME NEW b, NEW q \in Seq(Act), NEW n \in 0..Len(q), NEW f, f = Puts(b, q, f)
    PROVE  Final(f[n], SubSeq(q, n + 1, Len(q))) = Final(b, q)
<1>1. PICK r : r = SubSeq(q, n + 1, Len(q))
  OBVIOUS
<1>2. PICK m \in Nat : m = Len(q) - n
  OBVIOUS
<1>3. Len(r) = m /\ \A k \in 1..m : r[k] = q[n + k]
  BY <1>1, <1>2
<1> DEFINE h == [k \in 0..m |-> f[n + k]]
<1>4. ASSUME NEW k \in 0..m
      PROVE  h[k] = IF k = 0 THEN f[n] ELSE Put(h[k - 1], r[k])
  <2>1. n + k \in 0..Len(q)
    BY <1>2
  <2>2. CASE k = 0
    BY <2>2
  <2>3. CASE k # 0
    <3>1. k - 1 \in 0..m /\ k \in 1..m /\ n + k # 0 /\ n + k - 1 = n + (k - 1)
      BY <2>3
    <3>2. f[n + k] = Put(f[n + k - 1], q[n + k])
      BY <2>1, <3>1 DEF Puts
    <3>3. h[k - 1] = f[n + k - 1] /\ r[k] = q[n + k] /\ h[k] = f[n + k]
      BY <1>3, <3>1
    <3>. QED BY <2>3, <3>2, <3>3
  <2>. QED BY <2>2, <2>3
<1>5. h = Puts(f[n], r, h)
  BY <1>3, <1>4 DEF Puts
<1>6. Final(f[n], r) = h[m] /\ Final(b, q) = f[Len(q)]
  BY <1>3, <1>5, FinalIs
<1>7. h[m] = f[Len(q)]
  BY <1>2
<1>. QED BY <1>1, <1>6, <1>7

(* Carrying out the first n actions keeps a sound state sound, and draws   *)
(* what was due.                                                           *)
LEMMA DrawingSound ==
    ASSUME NEW s, Sound(s), NEW q \in Seq(Act), NEW n \in 0..Len(q),
           \A i \in 1..n : WillDraw(q[i]), NEW f, f = Puts(s.back, q, f)
    PROVE  /\ Sound(Drawing(s, q, n)) /\ Drawing(s, q, n).q = s.q
           /\ Drawing(s, q, n).back = f[n]
<1>1. PICK g : g = TheDraws(s, q, n)
  OBVIOUS
<1>2. g = DrawsOf(s, q, n, g)
  BY <1>1, DrawsExist DEF TheDraws
<1> DEFINE Bad == {k \in 0..n : ~(Sound(g[k]) /\ g[k].q = s.q /\ g[k].back = f[k])}
<1>3. Bad = {}
  <2>. SUFFICES ASSUME Bad # {} PROVE FALSE
    OBVIOUS
  <2>1. PICK m \in Bad : \A j \in Bad : m <= j
    <3>1. Bad \in SUBSET Nat
      OBVIOUS
    <3>. HIDE DEF Bad
    <3>. QED BY <3>1, LeastOf
  <2>2. m \in 0..n /\ m \in 0..Len(q)
    OBVIOUS
  <2>3. m # 0
    <3>1. f[0] = s.back
      BY DEF Puts
    <3>2. g[0] = s
      BY <1>2 DEF DrawsOf
    <3>. QED BY <3>1, <3>2
  <2>4. m \in 1..n /\ m - 1 \in 0..n /\ m \in 1..Len(q)
    BY <2>2, <2>3
  <2>5. m - 1 \notin Bad
    <3>1. Bad \in SUBSET Nat
      OBVIOUS
    <3>. HIDE DEF Bad
    <3>. QED BY <2>1, <2>2
  <2>6. Sound(g[m - 1]) /\ g[m - 1].q = s.q /\ g[m - 1].back = f[m - 1]
    BY <2>4, <2>5
  <2>7. g[m] = Draw(g[m - 1], q[m]) /\ f[m] = Put(f[m - 1], q[m])
    <3>1. g[m] = Draw(g[m - 1], q[m])
      BY <1>2, <2>2, <2>3 DEF DrawsOf
    <3>2. f[m] = Put(f[m - 1], q[m])
      BY <2>2, <2>3 DEF Puts
    <3>. QED BY <3>1, <3>2
  <2>8. q[m] \in Act /\ WillDraw(q[m])
    BY <2>4
  <2>9. Sound(g[m]) /\ g[m].q = s.q /\ g[m].back = f[m]
    BY <2>6, <2>7, <2>8, DrawSound
  <2>. QED BY <2>1, <2>9
<1>4. n \in 0..n
  OBVIOUS
<1>5. Sound(g[n]) /\ g[n].q = s.q /\ g[n].back = f[n]
  BY <1>3, <1>4
<1>. QED BY <1>1, <1>5, DrawingUnfolds

LEMMA ReadyPrefixIs ==
    ASSUME NEW q \in Seq(Act)
    PROVE  ReadyPrefix(q) \in 0..Len(q) /\ \A i \in 1..ReadyPrefix(q) : WillDraw(q[i])
<1> DEFINE HaltsAt(n) == (\A i \in 1..n : Ready(q[i])) /\ (n < Len(q) => ~Ready(q[n + 1]))
           Stuck == {i \in 1..Len(q) : ~Ready(q[i])}
<1>1. \E n \in 0..Len(q) : HaltsAt(n)
  <2>1. CASE Stuck = {}
    <3>1. HaltsAt(Len(q)) /\ Len(q) \in 0..Len(q)
      BY <2>1
    <3>. QED BY <3>1
  <2>2. CASE Stuck # {}
    <3>1. PICK m \in Stuck : \A j \in Stuck : m <= j
      <4>1. Stuck \in SUBSET Nat
        OBVIOUS
      <4>. HIDE DEF Stuck
      <4>. QED BY <2>2, <4>1, LeastOf
    <3>2. m - 1 \in 0..Len(q) /\ m - 1 + 1 = m
      OBVIOUS
    <3>3. \A i \in 1..(m - 1) : Ready(q[i])
      BY <3>1
    <3>4. ~Ready(q[m - 1 + 1])
      BY <3>2
    <3>. QED BY <3>2, <3>3, <3>4
  <2>. QED BY <2>1, <2>2
<1>2. ReadyPrefix(q) = CHOOSE n \in 0..Len(q) : HaltsAt(n)
  BY DEF ReadyPrefix
<1>3. ReadyPrefix(q) \in 0..Len(q) /\ HaltsAt(ReadyPrefix(q))
  BY <1>1, <1>2
<1>. QED BY <1>3 DEF Ready, WillDraw
-----------------------------------------------------------------------------
(* The viewport: wherever it is asked to go, it stays on the framebuffer.  *)
LEMMA DeltaBounds ==
    ASSUME NEW v \in Views, v.w <= v.fb, NEW asked \in Int
    PROVE  /\ Delta(v, asked) \in Int /\ v.x + Delta(v, asked) \in Nat
           /\ v.x + Delta(v, asked) + v.w <= v.fb
BY DEF Views, Delta

LEMMA FlippedSound ==
    ASSUME NEW s, Sound(s), NEW t, t = Flipped(s)
    PROVE  /\ Sound(t) /\ t.back = s.back
           /\ IF s.q # <<>> THEN t.q = Append(s.q, FlipAction) ELSE t.q = s.q
<1>1. CASE s.q # <<>>
  <2>1. PICK q : q = Append(s.q, FlipAction)
    OBVIOUS
  <2>2. t = [s EXCEPT !.q = q]
    BY <1>1, <2>1 DEF Flipped, InOrder
  <2>3. Sound(t) /\ t.back = s.back /\ t.q = q
    BY <2>2, QueuedSound
  <2>. QED BY <1>1, <2>1, <2>3
<1>2. CASE s.q = <<>>
  <2>1. t = ShowDamage(s)
    BY <1>2 DEF Flipped, InOrder, Draw, FlipAction
  <2>. QED BY <1>2, <2>1, ShownSound
<1>. QED BY <1>1, <1>2

LEMMA ReframedSound ==
    ASSUME NEW s, Sized(s), Fresh(s), NEW w \in Nat, w <= s.view.fb, NEW asked \in Int,
           NEW t, t = Reframed(s, w, asked)
    PROVE  /\ Sound(t) /\ t.back = s.back
           /\ t.q = s.q \/ (s.q # <<>> /\ t.q = Append(s.q, FlipAction))
<1> DEFINE v0 == [s.view EXCEPT !.w = w]
           d == Delta(v0, asked)
           x == s.view.x + d
           v == [s.view EXCEPT !.x = x, !.w = w]
           g == IF w = s.view.w THEN s.target ELSE Cleared(w)
           moved == [s EXCEPT !.view = v, !.target = g]
           e == [l |-> Min2(s.damage.l, x), r |-> Max2(s.damage.r, x + w)]
           u == Damaged(moved, x, w)
<1>1. /\ s = St(s.view, s.back, s.target, s.damage, s.q) /\ s.view \in Views
      /\ s.damage \in [l: Nat, r: Nat]
  BY DEF Sized
<1>2. v0 \in Views /\ v0.w = w /\ v0.fb = s.view.fb /\ v0.x = s.view.x
  BY <1>1 DEF Views
<1>3. d \in Int /\ x \in Nat /\ x + w <= s.view.fb
  BY <1>2, DeltaBounds
<1>4. t = IF d = 0 /\ w = s.view.w THEN s ELSE Flipped(u)
  BY DEF Reframed
<1>. HIDE DEF d
<1>5. CASE d = 0 /\ w = s.view.w
  <2>1. s.view.x + s.view.w <= s.view.fb
    BY <1>1, <1>3, <1>5 DEF Views
  <2>. QED BY <1>4, <1>5, <2>1 DEF Sound
<1>6. CASE ~(d = 0 /\ w = s.view.w)
  <2>1. v \in Views /\ v.x = x /\ v.w = w /\ v.fb = s.view.fb
    BY <1>1, <1>3 DEF Views
  <2>2. e \in [l: Nat, r: Nat] /\ e.l <= x /\ x + w <= e.r
    BY <1>1, <1>3 DEF Min2, Max2
  <2>3. g = [i \in 0..(w - 1) |-> g[i]]
    BY DEF Sized, Cleared
  <2>. HIDE DEF v, g, x
  <2>4. moved = St(v, s.back, g, s.damage, s.q) /\ moved.damage = s.damage
    <3>1. PICK m : m = moved
      OBVIOUS
    <3>2. m = [s EXCEPT !.view = v, !.target = g]
      BY <3>1
    <3>. HIDE DEF moved
    <3>3. m = St(v, s.back, g, s.damage, s.q)
      BY <1>1, <3>2 DEF St
    <3>. QED BY <3>1, <3>3 DEF St
  <2>. HIDE DEF moved
  <2>5. u = St(v, s.back, g, e, s.q)
    <3>1. u = [moved EXCEPT !.damage = e]
      BY <2>4 DEF Damaged
    <3>. QED BY <2>4, <3>1 DEF St
  <2>6. u.view = v /\ u.back = s.back /\ u.target = g /\ u.damage = e /\ u.q = s.q
    BY <2>5 DEF St
  <2>. HIDE DEF e, u
  <2>7. Sized(u)
    BY <2>1, <2>2, <2>3, <2>5, <2>6 DEF Sized
  <2>8. Fresh(u)
    <3>1. \A i \in 0..(w - 1) : x + i \in e.l..(e.r - 1)
      BY <1>3, <2>2
    <3>. QED BY <2>1, <2>6, <3>1 DEF Fresh
  <2>9. Sound(u)
    BY <1>3, <2>1, <2>6, <2>7, <2>8 DEF Sound
  <2>10. t = Flipped(u)
    BY <1>4, <1>6
  <2>. QED BY <2>6, <2>9, <2>10, FlippedSound
<1>. QED BY <1>5, <1>6
-----------------------------------------------------------------------------
(* The steps. *)
Calls == [draws: 0..MaxDraws, changes: 0..MaxChanges]
Queued == renderQ \in Seq(Act) /\ flushing \in BOOLEAN /\ (flushing => renderQ # <<>>)
DispInv == Sound(State) /\ Queued /\ calls \in Calls

LEMMA StateIs ==
    /\ State = St(view, back, target, damage, renderQ)
    /\ State.view = view /\ State.back = back /\ State.target = target
    /\ State.damage = damage /\ State.q = renderQ
BY DEF State, St

LEMMA BecomeIs ==
    ASSUME NEW s, Sound(s), Become(s)
    PROVE  State' = s /\ back' = s.back /\ renderQ' = s.q
BY DEF Become, State, Sound, Sized, St

(* A drawing call acts, or waits. *)
LEMMA InOrderStep ==
    ASSUME DispInv, NEW a \in Act, a.type # "img", NEW b \in Act,
           Keep(InOrder(State, a, b))
    PROVE  /\ Sound(State)' /\ Queued'
           /\ Put(Eventual, a) = Put(Eventual, b) => Eventual' = Put(Eventual, a)
<1>1. PICK t : t = InOrder(State, a, b) /\ Become(t) /\ UNCHANGED flushing
  BY DEF Keep
<1>2. Sound(State) /\ WillDraw(a)
  BY DEF DispInv, Queued, WillDraw
<1>3. CASE renderQ = <<>>
  <2>1. t = Draw(State, a)
    BY <1>1, <1>3, StateIs DEF InOrder
  <2>2. Sound(t) /\ t.q = renderQ /\ t.back = Put(back, a)
    BY <1>2, <2>1, StateIs, DrawSound
  <2>3. State' = t /\ back' = Put(back, a) /\ renderQ' = <<>>
    BY <1>1, <1>3, <2>2, BecomeIs
  <2>4. Eventual = back /\ Eventual' = back'
    BY <1>3, <2>3, FinalNone DEF Eventual
  <2>5. Queued'
    BY <1>1, <1>3, <2>3 DEF DispInv, Queued
  <2>. QED BY <2>2, <2>3, <2>4, <2>5
<1>4. CASE renderQ # <<>>
  <2>1. t = [State EXCEPT !.q = Append(renderQ, b)]
    BY <1>1, <1>4, StateIs DEF InOrder
  <2>2. t.back = back /\ t.q = Append(renderQ, b)
    BY <1>2, <2>1, StateIs, QueuedSound
  <2>3. Sound(t)
    BY <1>2, <2>1, QueuedSound
  <2>4. State' = t /\ back' = back /\ renderQ' = Append(renderQ, b)
    BY <1>1, <2>2, <2>3, BecomeIs
  <2>5. renderQ \in Seq(Act) /\ Queued'
    <3>1. renderQ \in Seq(Act) /\ flushing \in BOOLEAN
      BY DEF DispInv, Queued
    <3>2. Append(renderQ, b) \in Seq(Act) /\ Append(renderQ, b) # <<>>
      BY <3>1
    <3>. QED BY <1>1, <2>4, <3>1, <3>2 DEF Queued
  <2>6. Eventual' = Put(Eventual, b)
    BY <2>4, <2>5, FinalAppended DEF Eventual
  <2>. QED BY <2>3, <2>4, <2>5, <2>6
<1>. QED BY <1>3, <1>4

(* A scan of the queue draws what was due. *)
LEMMA ScanStep ==
    ASSUME NEW s, Sound(s), s.q \in Seq(Act), flushing \in BOOLEAN, ScanRenderQ(s)
    PROVE  Sound(State)' /\ Queued' /\ Eventual' = Final(s.back, s.q)
<1>1. PICK q, n : q = s.q /\ q \in Seq(Act) /\ n = ReadyPrefix(q)
  OBVIOUS
<1>2. n \in 0..Len(q) /\ \A i \in 1..n : WillDraw(q[i])
  BY <1>1, ReadyPrefixIs
<1>3. PICK f : f = Puts(s.back, q, f)
  <2>1. Len(q) \in Nat
    OBVIOUS
  <2>. QED BY <2>1, PutsExist
<1>4. PICK t : t = Drawing(s, q, n)
  OBVIOUS
<1>5. Sound(t) /\ t.q = q /\ t.back = f[n]
  <2>1. q \in Seq(Act)
    BY <1>1
  <2>2. /\ Sound(Drawing(s, q, n)) /\ Drawing(s, q, n).q = s.q
        /\ Drawing(s, q, n).back = f[n]
    BY <1>2, <1>3, <2>1, DrawingSound, SMTT(60)
  <2>. QED BY <1>1, <1>4, <2>2
<1>6. PICK rest : rest = SubSeq(q, n + 1, Len(q))
  OBVIOUS
<1>7. PICK u : u = [t EXCEPT !.q = rest]
  OBVIOUS
<1>8. Become(u) /\ flushing' = (flushing /\ n < Len(q))
  <2>1. u = [t EXCEPT !.q = SubSeq(t.q, n + 1, Len(t.q))]
    BY <1>5, <1>6, <1>7
  <2>. QED BY <1>1, <1>4, <2>1 DEF ScanRenderQ
<1>9. rest \in Seq(Act) /\ Final(f[n], rest) = Final(s.back, q)
  <2>1. q \in Seq(Act)
    BY <1>1
  <2>2. rest \in Seq(Act)
    BY <1>2, <1>6, <2>1
  <2>3. Final(f[n], SubSeq(q, n + 1, Len(q))) = Final(s.back, q)
    BY <1>2, <1>3, <2>1, FinalRest, Zenon
  <2>. QED BY <1>6, <2>2, <2>3
<1>10. Sound(u) /\ u.back = f[n] /\ u.q = rest
  <2>1. Sound(t) /\ t.back = f[n]
    BY <1>5
  <2>2. t = St(t.view, t.back, t.target, t.damage, t.q)
    BY <2>1 DEF Sound, Sized
  <2>3. u = St(t.view, t.back, t.target, t.damage, rest)
    BY <1>7, <2>2 DEF St
  <2>4. /\ u.view = t.view /\ u.back = t.back /\ u.target = t.target /\ u.damage = t.damage
        /\ u.q = rest
    BY <2>3 DEF St
  <2>. QED BY <2>1, <2>3, <2>4 DEF Sound, Sized, Fresh
<1>11. State' = u /\ back' = f[n] /\ renderQ' = rest
  BY <1>8, <1>10, BecomeIs
<1>12. n < Len(q) => rest # <<>>
  <2>1. n \in Nat /\ Len(q) \in Nat /\ n <= Len(q)
    BY <1>1, <1>2
  <2>2. q \in Seq(Act) /\ n + 1 \in 1..(Len(q) + 1) /\ Len(q) \in 0..Len(q)
    BY <1>1, <2>1
  <2>3. Len(rest) = Len(q) - n
    BY <1>6, <2>1, <2>2
  <2>. QED BY <2>1, <2>3
<1>13. Queued'
  BY <1>8, <1>9, <1>11, <1>12 DEF Queued
<1>. QED BY <1>1, <1>9, <1>10, <1>11, <1>13 DEF Eventual

LEMMA FlipIs ==
    /\ FlipAction \in Act
    /\ \A b : Put(b, FlipAction) = b
<1>1. FlipAction \in Act /\ FlipAction.type = "flip"
  BY DEF FlipAction, Act
<1>. QED BY <1>1, PutIs

(* A move of the viewport changes nothing of the picture. *)
LEMMA ReframedStep ==
    ASSUME DispInv, NEW s, Sized(s), Fresh(s), s.q = renderQ, NEW w \in Nat, w <= s.view.fb,
           NEW asked \in Int, Keep(Reframed(s, w, asked))
    PROVE  /\ Sound(State)' /\ Queued' /\ back' = s.back
           /\ back' = back => Eventual' = Eventual
           /\ renderQ = <<>> => renderQ' = <<>>
<1>1. PICK t : t = Reframed(s, w, asked) /\ Become(t) /\ UNCHANGED flushing
  BY DEF Keep
<1>2. /\ Sound(t) /\ t.back = s.back
      /\ t.q = s.q \/ (s.q # <<>> /\ t.q = Append(s.q, FlipAction))
  BY <1>1, ReframedSound
<1>3. State' = t /\ back' = s.back /\ renderQ' = t.q
  BY <1>1, <1>2, BecomeIs
<1>4. renderQ \in Seq(Act) /\ Queued
  BY DEF DispInv, Queued
<1>5. CASE t.q = s.q
  <2>1. Queued'
    BY <1>1, <1>3, <1>4, <1>5 DEF Queued
  <2>. QED BY <1>2, <1>3, <1>4, <1>5, <2>1 DEF Eventual
<1>6. CASE s.q # <<>> /\ t.q = Append(s.q, FlipAction)
  <2>1. Final(back, Append(renderQ, FlipAction)) = Final(back, renderQ)
    BY <1>4, FlipIs, FinalAppended
  <2>2. Append(renderQ, FlipAction) \in Seq(Act) /\ Append(renderQ, FlipAction) # <<>>
    BY <1>4, FlipIs
  <2>3. Queued'
    BY <1>1, <1>3, <1>4, <1>6, <2>2 DEF Queued
  <2>. QED BY <1>2, <1>3, <1>6, <2>1, <2>2, <2>3 DEF Eventual
<1>. QED BY <1>2, <1>5, <1>6

(* A new size of the framebuffer keeps what both sizes have.               *)
LEMMA ResizedSized ==
    ASSUME Sound(State), NEW n \in Nat,
           NEW s, s = [State EXCEPT !.view.fb = n, !.back = Resized(@, n)]
    PROVE  /\ Sized(s) /\ Fresh(s) /\ s.q = renderQ /\ s.back = Resized(back, n)
           /\ s.view.fb = n /\ s.view.w = view.w /\ s.view.clip = view.clip
<1> DEFINE v == [view EXCEPT !.fb = n]
           b == Resized(back, n)
<1>1. /\ view \in Views /\ damage \in [l: Nat, r: Nat] /\ view.x + view.w <= view.fb
      /\ target = [i \in 0..(view.w - 1) |-> target[i]] /\ 0..(view.fb - 1) \subseteq DOMAIN back
  BY StateIs DEF Sound, Sized
<1>2. v \in Views /\ v.fb = n /\ v.x = view.x /\ v.w = view.w /\ v.clip = view.clip
  BY <1>1 DEF Views
<1>3. /\ b = [i \in DOMAIN b |-> b[i]] /\ DOMAIN b = 0..(n - 1)
      /\ \A i \in 0..(n - 1) : i \in DOMAIN back => b[i] = back[i]
  BY DEF Resized, Copied, Cleared
<1>4. s = [[State EXCEPT !.view = v] EXCEPT !.back = b]
  BY StateIs
<1>. HIDE DEF v, b
<1>5. s = St(v, b, target, damage, renderQ)
  BY <1>4, StateIs DEF St
<1>6. s.view = v /\ s.back = b /\ s.target = target /\ s.damage = damage /\ s.q = renderQ
  <2>1. PICK r : r = St(v, b, target, damage, renderQ)
    OBVIOUS
  <2>2. r.view = v /\ r.back = b /\ r.target = target /\ r.damage = damage /\ r.q = renderQ
    BY <2>1, Zenon DEF St
  <2>. QED BY <1>5, <2>1, <2>2, Zenon
<1>7. Sized(s)
  <2>1. 0..(v.fb - 1) \subseteq DOMAIN b
    BY <1>2, <1>3
  <2>2. target = [i \in 0..(v.w - 1) |-> target[i]]
    BY <1>1, <1>2
  <2>3. Sized(St(v, b, target, damage, renderQ))
    BY <1>1, <1>2, <1>3, <2>1, <2>2, SizedIs
  <2>. QED BY <1>5, <2>3
<1>8. Fresh(s)
  <2>. SUFFICES ASSUME NEW i \in 0..(view.w - 1), view.x + i \in 0..(n - 1)
                PROVE  target[i] = b[view.x + i] \/ view.x + i \in damage.l..(damage.r - 1)
    BY <1>2, <1>3, <1>6 DEF Fresh
  <2>1. view.x + i \in DOMAIN back
    BY <1>1 DEF Views
  <2>2. target[i] = back[view.x + i] \/ view.x + i \in damage.l..(damage.r - 1)
    BY <2>1, StateIs DEF Sound, Fresh
  <2>. QED BY <1>3, <2>1, <2>2
<1>. QED BY <1>2, <1>6, <1>7, <1>8 DEF b

LEMMA AllowedFits ==
    ASSUME NEW v \in Views, NEW asked \in Nat
    PROVE  AllowedWidth(v, asked) \in Nat /\ AllowedWidth(v, asked) <= v.fb
BY DEF Views, AllowedWidth, Min2

(* Changes of the viewport and the framebuffer.                            *)
LEMMA ResizeStep ==
    ASSUME DispInv, NEW n \in Widths, ResizeFb(n)
    PROVE  /\ Sound(State)' /\ Queued'
           /\ DOMAIN back' = DOMAIN back => Eventual' = Eventual
<1>1. PICK s : s = [State EXCEPT !.view.fb = n, !.back = Resized(@, n)]
  OBVIOUS
<1>2. n \in Nat /\ view \in Views
  BY WidthsAssumption, StateIs DEF DispInv, Queued, Sound, Sized
<1>3. /\ Sized(s) /\ Fresh(s) /\ s.q = renderQ /\ s.back = Resized(back, n)
      /\ s.view.fb = n /\ s.view.w = view.w
  BY <1>1, <1>2, ResizedSized DEF DispInv, Queued
<1>4. s.view \in Views /\ s.view.w \in Nat
  BY <1>3 DEF Sized, Views
<1>5. PICK w : w = AllowedWidth(s.view, s.view.w)
  OBVIOUS
<1>6. w \in Nat /\ w <= s.view.fb
  BY <1>4, <1>5, AllowedFits
<1>7. renderQ = <<>> /\ Keep(Reframed(s, w, 0))
  BY <1>1, <1>5 DEF ResizeFb, Readjusted
<1>8. Sound(State)' /\ renderQ' = <<>> /\ Queued' /\ back' = Resized(back, n)
  BY <1>3, <1>6, <1>7, ReframedStep
<1>9. ASSUME DOMAIN back' = DOMAIN back PROVE back' = back
  <2>1. back = [i \in DOMAIN back |-> back[i]]
    BY StateIs DEF DispInv, Queued, Sound, Sized
  <2>2. /\ DOMAIN Resized(back, n) = 0..(n - 1)
        /\ Resized(back, n) = [i \in 0..(n - 1) |-> Resized(back, n)[i]]
        /\ \A i \in 0..(n - 1) : i \in DOMAIN back => Resized(back, n)[i] = back[i]
    BY <1>2 DEF Resized, Copied, Cleared
  <2>3. DOMAIN back = 0..(n - 1)
    BY <1>8, <1>9, <2>2
  <2>4. \A i \in 0..(n - 1) : Resized(back, n)[i] = back[i]
    BY <2>2, <2>3
  <2>5. [i \in 0..(n - 1) |-> Resized(back, n)[i]] = [i \in DOMAIN back |-> back[i]]
    BY <2>3, <2>4
  <2>. QED BY <1>8, <2>1, <2>2, <2>5
<1>. QED BY <1>7, <1>8, <1>9, FinalNone DEF Eventual

LEMMA ClipStep ==
    ASSUME DispInv, NEW on \in BOOLEAN, SetClip(on)
    PROVE  /\ Sound(State)' /\ Queued' /\ Eventual' = Eventual
<1>1. PICK s : s = [State EXCEPT !.view.clip = on]
  OBVIOUS
<1> DEFINE v == [view EXCEPT !.clip = on]
<1>2. view \in Views /\ Sound(State)
  BY StateIs DEF DispInv, Queued, Sound, Sized
<1>3. v \in Views /\ v.fb = view.fb /\ v.x = view.x /\ v.w = view.w
  BY <1>2 DEF Views
<1>4. s = [State EXCEPT !.view = v]
  BY <1>1, StateIs
<1>. HIDE DEF v
<1>5. s = St(v, back, target, damage, renderQ)
  BY <1>4, StateIs DEF St
<1>6. s.view = v /\ s.back = back /\ s.target = target /\ s.damage = damage /\ s.q = renderQ
  BY <1>5 DEF St
<1>7. Sized(s) /\ Fresh(s)
  <2>1. Sized(s)
    BY <1>2, <1>3, <1>5, <1>6, StateIs DEF Sound, Sized
  <2>2. Fresh(s)
    BY <1>2, <1>3, <1>6, StateIs DEF Sound, Fresh
  <2>. QED BY <2>1, <2>2
<1>8. PICK w : w = AllowedWidth(s.view, s.view.w)
  OBVIOUS
<1>9. w \in Nat /\ w <= s.view.fb
  BY <1>3, <1>6, <1>8, AllowedFits DEF Views
<1>10. Keep(Reframed(s, w, 0))
  BY <1>1, <1>8 DEF SetClip, Readjusted
<1>. QED BY <1>6, <1>7, <1>9, <1>10, ReframedStep

LEMMA MoveStep ==
    ASSUME DispInv, NEW d \in Int, ViewportChangePos(d)
    PROVE  Sound(State)' /\ Queued' /\ Eventual' = Eventual
<1>1. /\ Sized(State) /\ Fresh(State) /\ view \in Views /\ view.w \in Nat
      /\ view.x + view.w <= view.fb
  BY StateIs DEF DispInv, Queued, Sound, Sized, Views
<1>2. view.w <= State.view.fb
  BY <1>1, StateIs DEF Views
<1>3. Keep(Reframed(State, view.w, d))
  BY DEF ViewportChangePos
<1>. QED BY <1>1, <1>2, <1>3, StateIs, ReframedStep

LEMMA SizeStep ==
    ASSUME DispInv, NEW n \in Widths, ViewportChangeSize(n)
    PROVE  Sound(State)' /\ Queued' /\ Eventual' = Eventual
<1>1. PICK w : w = AllowedWidth(view, n)
  OBVIOUS
<1>2. Sized(State) /\ Fresh(State) /\ Sound(State) /\ view \in Views /\ n \in Nat
  BY WidthsAssumption, StateIs DEF DispInv, Queued, Sound, Sized
<1>3. w \in Nat /\ w <= State.view.fb
  BY <1>1, <1>2, AllowedFits, StateIs
<1>4. CASE w = view.w
  <2>1. Become(State) /\ UNCHANGED flushing
    BY <1>1, <1>4 DEF ViewportChangeSize, Keep
  <2>2. State' = State /\ back' = back /\ renderQ' = renderQ
    BY <1>2, <2>1, BecomeIs, StateIs
  <2>. QED BY <1>2, <2>1, <2>2 DEF DispInv, Queued, Eventual
<1>5. CASE w # view.w
  <2>1. Keep(Reframed(State, w, 0))
    BY <1>1, <1>5 DEF ViewportChangeSize
  <2>. QED BY <1>2, <1>3, <2>1, StateIs, ReframedStep
<1>. QED BY <1>4, <1>5

(* Rectangles are where the canvas has columns. *)
LEMMA PlacesAre ==
    ASSUME NEW x \in Columns, NEW w \in Widths
    PROVE  x \in Nat /\ w \in Nat
BY WidthsAssumption, FarAssumption

(* The actions of the drawing calls. *)
LEMMA FillStep ==
    ASSUME DispInv, NEW x \in Columns, NEW w \in Widths, NEW c \in Colours, FillRect(x, w, c)
    PROVE  Sound(State)' /\ Queued' /\ Eventual' = Painted(Eventual, x, w, c)
<1>1. PICK a : a = [type |-> "paint", x |-> x, w |-> w, c |-> c]
  OBVIOUS
<1>2. a \in Act /\ a.type = "paint" /\ a.x = x /\ a.w = w /\ a.c = c
  BY <1>1, PlacesAre DEF Act
<1>3. Keep(InOrder(State, a, a))
  BY <1>1 DEF FillRect
<1>4. Put(Eventual, a) = Painted(Eventual, x, w, c)
  BY <1>2, PutIs
<1>. QED BY <1>2, <1>3, <1>4, InOrderStep

LEMMA CopyStep ==
    ASSUME DispInv, NEW from \in Columns, NEW x \in Columns, NEW w \in Widths,
           CopyImage(from, x, w)
    PROVE  /\ Sound(State)' /\ Queued'
           /\ Eventual' = Copied(Eventual, Eventual, from, x, w)
<1>1. PICK a : a = [type |-> "copy", from |-> from, x |-> x, w |-> w]
  OBVIOUS
<1>2. a \in Act /\ a.type = "copy" /\ a.from = from /\ a.x = x /\ a.w = w
  BY <1>1, PlacesAre DEF Act
<1>3. Keep(InOrder(State, a, a))
  BY <1>1 DEF CopyImage
<1>4. Put(Eventual, a) = Copied(Eventual, Eventual, from, x, w)
  BY <1>2, PutIs
<1>. QED BY <1>2, <1>3, <1>4, InOrderStep

LEMMA BlitStep ==
    ASSUME DispInv, NEW x \in Columns, NEW w \in Widths, NEW c \in Colours,
           NEW whole \in BOOLEAN, BlitImage(x, w, c, whole)
    PROVE  /\ Sound(State)' /\ Queued'
           /\ whole => Eventual' = Painted(Eventual, x, w, c)
<1>1. PICK a : a = [type |-> "paint", x |-> x, w |-> w, c |-> c]
  OBVIOUS
<1>2. PICK b : b = IF whole THEN a ELSE [a EXCEPT !.c = Stray]
  OBVIOUS
<1>3. a \in Act /\ a.type = "paint" /\ a.x = x /\ a.w = w /\ a.c = c
  BY <1>1, PlacesAre DEF Act
<1>4. b \in Act
  <2>1. [a EXCEPT !.c = Stray] = [type |-> "paint", x |-> x, w |-> w, c |-> Stray]
    BY <1>1
  <2>2. [type |-> "paint", x |-> x, w |-> w, c |-> Stray] \in Act
    BY PlacesAre DEF Act
  <2>. QED BY <1>2, <1>3, <2>1, <2>2
<1>5. Keep(InOrder(State, a, b))
  BY <1>1, <1>2 DEF BlitImage
<1>6. Put(Eventual, a) = Painted(Eventual, x, w, c)
  BY <1>3, PutIs
<1>7. a.type # "img"
  BY <1>3
<1>8. /\ Sound(State)' /\ Queued'
      /\ Put(Eventual, a) = Put(Eventual, b) => Eventual' = Put(Eventual, a)
  BY <1>3, <1>4, <1>5, <1>7, InOrderStep
<1>. QED BY <1>2, <1>6, <1>8

LEMMA FlipStep ==
    ASSUME DispInv, Flip
    PROVE  Sound(State)' /\ Queued'
<1>1. Keep(InOrder(State, FlipAction, FlipAction))
  BY DEF Flip, Flipped
<1>2. FlipAction \in Act /\ FlipAction.type # "img"
  BY FlipIs DEF FlipAction
<1>. QED BY <1>1, <1>2, InOrderStep

LEMMA ImageStep ==
    ASSUME DispInv, NEW x \in Columns, NEW w \in Widths, NEW c \in Colours,
           NEW complete \in BOOLEAN, NEW fits \in BOOLEAN, ImageRect(x, w, c, complete, fits)
    PROVE  /\ Sound(State)' /\ Queued'
           /\ fits => Eventual' = Painted(Eventual, x, w, c)
<1>1. PICK a : a = [type |-> "img", x |-> x, w |-> w, c |-> c, complete |-> complete, fits |-> fits]
  OBVIOUS
<1>2. PICK q : q = Append(renderQ, a)
  OBVIOUS
<1>3. PICK s : s = [State EXCEPT !.q = q]
  OBVIOUS
<1>4. a \in Act /\ a.type = "img" /\ a.x = x /\ a.w = w /\ a.c = c /\ a.fits = fits
  BY <1>1, PlacesAre DEF Act
<1>5. Sound(State) /\ renderQ \in Seq(Act) /\ q \in Seq(Act)
  BY <1>2, <1>4 DEF DispInv, Queued
<1>6. Sound(s) /\ s.back = back /\ s.q = q
  <2>1. PICK r : r = State
    OBVIOUS
  <2>2. Sound(r) /\ r.back = back
    BY <1>5, <2>1, StateIs
  <2>3. s = [r EXCEPT !.q = q]
    BY <1>3, <2>1
  <2>4. Sound(s) /\ s.back = r.back /\ s.q = q
    BY <2>2, <2>3, QueuedSound
  <2>. QED BY <2>2, <2>4
<1>7. s = [State EXCEPT !.q = Append(State.q, a)]
  BY <1>2, <1>3, StateIs
<1>8. ScanRenderQ(s) \/ (Become(s) /\ UNCHANGED flushing)
  BY <1>1, <1>7 DEF ImageRect
<1>9. Final(back, q) = Put(Eventual, a)
  BY <1>2, <1>4, <1>5, FinalAppended DEF Eventual
<1>10. fits => Put(Eventual, a) = Painted(Eventual, x, w, c)
  BY <1>4, PutIs
<1>11. CASE ScanRenderQ(s)
  <2>1. s.q \in Seq(Act) /\ flushing \in BOOLEAN
    BY <1>5, <1>6 DEF DispInv, Queued
  <2>2. Sound(State)' /\ Queued' /\ Eventual' = Final(s.back, s.q)
    BY <1>6, <1>11, <2>1, ScanStep
  <2>. QED BY <1>6, <1>9, <1>10, <2>2
<1>12. CASE Become(s) /\ UNCHANGED flushing
  <2>1. State' = s /\ back' = s.back /\ renderQ' = s.q
    BY <1>6, <1>12, BecomeIs
  <2>2. q # <<>>
    BY <1>2, <1>4, <1>5
  <2>3. Queued'
    BY <1>5, <1>6, <1>12, <2>1, <2>2 DEF DispInv, Queued
  <2>. QED BY <1>5, <1>6, <1>9, <1>10, <2>1, <2>3 DEF Eventual
<1>. QED BY <1>8, <1>11, <1>12

(* An image that comes changes nothing of what is due.                     *)
LEMMA LoadStep ==
    ASSUME DispInv, NEW i \in DOMAIN renderQ, Load(i)
    PROVE  Sound(State)' /\ Queued' /\ Eventual' = Eventual
<1>1. PICK q : q = Arrived(renderQ, i)
  OBVIOUS
<1>2. PICK s : s = [State EXCEPT !.q = q]
  OBVIOUS
<1>3. Sound(State) /\ renderQ \in Seq(Act) /\ i \in 1..Len(renderQ) /\ renderQ[i].type = "img"
  BY DEF DispInv, Queued, Load
<1>4. q \in Seq(Act) /\ Final(back, q) = Final(back, renderQ)
  BY <1>1, <1>3, ArrivedIs, FinalArrived
<1>5. Sound(s) /\ s.back = back /\ s.q = q
  <2>1. PICK r : r = State
    OBVIOUS
  <2>2. Sound(r) /\ r.back = back
    BY <1>3, <2>1, StateIs
  <2>3. s = [r EXCEPT !.q = q]
    BY <1>2, <2>1
  <2>4. Sound(s) /\ s.back = r.back /\ s.q = q
    BY <2>2, <2>3, QueuedSound
  <2>. QED BY <2>2, <2>4
<1>6. s = [State EXCEPT !.q[i].complete = TRUE]
  BY <1>1, <1>2, StateIs DEF Arrived
<1>7. ScanRenderQ(s) \/ (Become(s) /\ UNCHANGED flushing)
  BY <1>6 DEF Load
<1>8. CASE ScanRenderQ(s)
  <2>1. s.q \in Seq(Act) /\ flushing \in BOOLEAN
    BY <1>4, <1>5 DEF DispInv, Queued
  <2>2. Sound(State)' /\ Queued' /\ Eventual' = Final(s.back, s.q)
    BY <1>5, <1>8, <2>1, ScanStep
  <2>. QED BY <1>4, <1>5, <2>2 DEF Eventual
<1>9. CASE Become(s) /\ UNCHANGED flushing
  <2>1. State' = s /\ back' = s.back /\ renderQ' = s.q
    BY <1>5, <1>9, BecomeIs
  <2>2. q # <<>>
    <3>1. Len(q) = Len(renderQ) /\ Len(renderQ) # 0
      BY <1>1, <1>3, ArrivedIs
    <3>. QED BY <3>1
  <2>3. Queued'
    BY <1>4, <1>5, <1>9, <2>1, <2>2 DEF DispInv, Queued
  <2>. QED BY <1>4, <1>5, <2>1, <2>3 DEF Eventual
<1>. QED BY <1>7, <1>8, <1>9
-----------------------------------------------------------------------------
(* A new display is sound: all of the empty canvas counts as damaged.      *)
LEMMA DispStarts ==
    ASSUME DispInit
    PROVE  DispInv
<1> DEFINE v == [fb |-> 0, clip |-> FALSE, x |-> 0, w |-> 0]
           d == [l |-> 0, r |-> DefaultWidth]
<1>1. v \in Views /\ v.x = 0 /\ v.w = 0 /\ v.fb = 0 /\ d \in [l: Nat, r: Nat]
  BY WidthsAssumption DEF Views
<1>2. /\ view = v /\ damage = d /\ back = Cleared(DefaultWidth) /\ target = Cleared(0)
      /\ renderQ = <<>> /\ calls = [draws |-> 0, changes |-> 0]
  BY DEF DispInit
<1>. HIDE DEF v, d
<1>3. /\ back = [i \in DOMAIN back |-> back[i]] /\ target = [i \in 0..(0 - 1) |-> target[i]]
  BY <1>2 DEF Cleared
<1>4. 0..(0 - 1) = {}
  OBVIOUS
<1>5. Sized(State)
  BY <1>1, <1>2, <1>3, <1>4, StateIs DEF Sized
<1>6. Fresh(State) /\ view.x + view.w <= view.fb
  BY <1>1, <1>2, <1>4, StateIs DEF Fresh
<1>7. calls \in Calls /\ Queued
  <2>1. calls \in Calls
    BY <1>2, BoundsAssumption DEF Calls
  <2>2. flushing = FALSE
    BY DEF DispInit
  <2>3. flushing \in BOOLEAN /\ (flushing => renderQ # <<>>)
    BY <2>2, Zenon
  <2>4. renderQ \in Seq(Act)
    BY <1>2
  <2>. QED BY <2>1, <2>3, <2>4 DEF Queued
<1>. QED BY <1>5, <1>6, <1>7, StateIs DEF DispInv, Queued, Sound

(* What the calls count. *)
LEMMA CallsKept ==
    ASSUME calls \in Calls
    PROVE  /\ Draws => calls' \in Calls /\ calls'.draws # calls.draws
           /\ Changes => calls' \in Calls /\ calls'.draws = calls.draws
BY BoundsAssumption DEF Draws, Changes, Calls

(* Every step keeps the display sound, and only drawing or a new size      *)
(* changes the picture that is due.                                        *)
LEMMA DispStep ==
    ASSUME DispInv, [DispNext]_dispVars
    PROVE  /\ DispInv'
           /\ calls'.draws = calls.draws /\ DOMAIN back' = DOMAIN back => Eventual' = Eventual
<1>. USE DEF DispInv
<1>1. ASSUME NEW x \in Columns, NEW w \in Widths, NEW c \in Colours, FillRect(x, w, c)
      PROVE  DispInv' /\ calls'.draws # calls.draws
  BY <1>1, FillStep, CallsKept DEF FillRect
<1>2. ASSUME NEW x \in Columns, NEW w \in Widths, NEW c \in Colours, NEW whole \in BOOLEAN,
             BlitImage(x, w, c, whole)
      PROVE  DispInv' /\ calls'.draws # calls.draws
  BY <1>2, BlitStep, CallsKept DEF BlitImage
<1>3. ASSUME NEW x \in Columns, NEW w \in Widths, NEW c \in Colours, NEW complete \in BOOLEAN,
             NEW fits \in BOOLEAN, ImageRect(x, w, c, complete, fits)
      PROVE  DispInv' /\ calls'.draws # calls.draws
  BY <1>3, ImageStep, CallsKept DEF ImageRect
<1>4. ASSUME NEW from \in Columns, NEW x \in Columns, NEW w \in Widths, CopyImage(from, x, w)
      PROVE  DispInv' /\ calls'.draws # calls.draws
  BY <1>4, CopyStep, CallsKept DEF CopyImage
<1>5. ASSUME NEW w \in Widths, ResizeFb(w)
      PROVE  DispInv' /\ (DOMAIN back' = DOMAIN back => Eventual' = Eventual)
  BY <1>5, ResizeStep, CallsKept DEF ResizeFb
<1>6. ASSUME NEW w \in Widths, ViewportChangeSize(w)
      PROVE  DispInv' /\ Eventual' = Eventual
  BY <1>6, SizeStep, CallsKept DEF ViewportChangeSize
<1>7. ASSUME NEW d \in Int, ViewportChangePos(d)
      PROVE  DispInv' /\ Eventual' = Eventual
  BY <1>7, MoveStep, CallsKept DEF ViewportChangePos
<1>8. ASSUME NEW on \in BOOLEAN, SetClip(on)
      PROVE  DispInv' /\ Eventual' = Eventual
  BY <1>8, ClipStep, CallsKept DEF SetClip
<1>9. CASE Flip
  <2>1. DispInv' /\ calls'.draws # calls.draws
    BY <1>9, FlipStep, CallsKept DEF Flip
  <2>. QED BY <2>1
<1>10. ASSUME NEW i \in DOMAIN renderQ, Load(i)
       PROVE  DispInv' /\ Eventual' = Eventual
  <2>1. calls' = calls
    BY <1>10 DEF Load
  <2>. QED BY <1>10, <2>1, LoadStep
<1>11. ASSUME UNCHANGED <<view, back, target, damage, renderQ, calls>>, Queued'
       PROVE  DispInv' /\ Eventual' = Eventual
  BY <1>11 DEF State, Eventual
<1>12. CASE Flush
  <2>1. UNCHANGED <<view, back, target, damage, renderQ, calls>> /\ Queued'
    BY <1>12 DEF Flush, Queued
  <2>. QED BY <1>11, <2>1
<1>13. CASE UNCHANGED dispVars
  <2>1. UNCHANGED <<view, back, target, damage, renderQ, calls>> /\ Queued'
    BY <1>13 DEF dispVars, Queued
  <2>. QED BY <1>11, <2>1
<1>14. \A d \in Moves : d \in Int /\ -d \in Int
  BY MovesAssumption
<1>15. CASE \E x \in Columns, w \in Widths, c \in Colours :
                \/ FillRect(x, w, c)
                \/ \E whole \in BOOLEAN : BlitImage(x, w, c, whole)
                \/ \E complete, fits \in BOOLEAN : ImageRect(x, w, c, complete, fits)
  <2>1. DispInv' /\ calls'.draws # calls.draws
    BY <1>1, <1>2, <1>3, <1>15
  <2>. QED BY <2>1
<1>16. CASE \E from, x \in Columns, w \in Widths : CopyImage(from, x, w)
  <2>1. DispInv' /\ calls'.draws # calls.draws
    BY <1>4, <1>16
  <2>. QED BY <2>1
<1>17. CASE \E w \in Widths : ResizeFb(w) \/ ViewportChangeSize(w)
  <2>1. DispInv' /\ (DOMAIN back' = DOMAIN back => Eventual' = Eventual)
    BY <1>5, <1>6, <1>17
  <2>. QED BY <2>1
<1>18. CASE \E d \in Moves : ViewportChangePos(d) \/ ViewportChangePos(-d)
  <2>1. DispInv' /\ Eventual' = Eventual
    BY <1>7, <1>14, <1>18
  <2>. QED BY <2>1
<1>19. CASE \E on \in BOOLEAN : SetClip(on)
  <2>1. DispInv' /\ Eventual' = Eventual
    BY <1>8, <1>19
  <2>. QED BY <2>1
<1>20. CASE Loading
  <2>1. DispInv' /\ Eventual' = Eventual
    BY <1>10, <1>20 DEF Loading
  <2>. QED BY <2>1
<1>. QED BY <1>9, <1>12, <1>13, <1>15, <1>16, <1>17, <1>18, <1>19, <1>20 DEF DispNext

(* The invariant: the canvases have their sizes, the viewport lies on the  *)
(* framebuffer, every column that looks otherwise than the hidden canvas   *)
(* is damaged, and the queue holds drawing actions.  StaleIsDamaged alone  *)
(* is not kept: it says nothing of what waits in the queue.                *)
(* app/static/novnc/core/display.js:92-297, 316-526.                       *)
THEOREM DisplayInvariant == DispSpec => []DispInv
<1>1. DispInit => DispInv
  BY DispStarts
<1>2. DispInv /\ [DispNext]_dispVars => DispInv'
  BY DispStep
<1>. QED BY <1>1, <1>2, PTL DEF DispSpec

(* What a display is made of: the visible canvas has the width of the      *)
(* viewport, and a promise to flush waits only while something is queued,  *)
(* so that a scan can keep it (display.js:303-314, 480-526).               *)
THEOREM DisplayTypes == DispSpec => []DispTypeOK
<1>1. DispInv => DispTypeOK
  <2>. SUFFICES ASSUME DispInv PROVE DispTypeOK
    OBVIOUS
  <2>1. /\ view \in Views /\ damage \in [l: Nat, r: Nat]
        /\ target = [i \in 0..(view.w - 1) |-> target[i]]
    BY StateIs DEF DispInv, Sound, Sized
  <2>2. view \in [fb: Nat, clip: BOOLEAN, x: Int, w: Int]
    BY <2>1 DEF Views
  <2>3. DOMAIN target = 0..(view.w - 1) /\ damage.l \in Nat /\ damage.r \in Nat
    BY <2>1
  <2>. QED BY <2>2, <2>3 DEF DispTypeOK, DispInv, Queued, Calls
<1>. QED BY <1>1, DisplayInvariant, PTL

(* Whatever the server and the window do, the viewport shows columns of    *)
(* the framebuffer, and a column that looks otherwise than what was drawn  *)
(* will be shown by the next flip (display.js:92-173, 189-221, 236-297).   *)
THEOREM StaleIsDamagedAlways == DispSpec => []StaleIsDamaged
<1>1. DispInv => StaleIsDamaged
  BY SoundStale DEF DispInv, Queued
<1>. QED BY <1>1, DisplayInvariant, PTL

(* A drawing call changes the picture that is due as if it were carried    *)
(* out at once, in the order of the calls, whatever waits in the queue;    *)
(* nothing else but a new size changes it (display.js:316-407, 464-526).   *)
THEOREM DrawsInOrderAlways == DispSpec => DrawsInOrder
<1>1. DispInv /\ [DispNext]_dispVars =>
        [/\ \A x \in Columns, w \in Widths, c \in Colours :
               \/ FillRect(x, w, c)
               \/ BlitImage(x, w, c, TRUE)
               \/ \E complete \in BOOLEAN : ImageRect(x, w, c, complete, TRUE)
               => Eventual' = Painted(Eventual, x, w, c)
         /\ \A from, x \in Columns, w \in Widths :
               CopyImage(from, x, w) => Eventual' = Copied(Eventual, Eventual, from, x, w)
         /\ calls'.draws = calls.draws /\ DOMAIN back' = DOMAIN back => Eventual' = Eventual
        ]_dispVars
  <2>. SUFFICES ASSUME DispInv, [DispNext]_dispVars
                PROVE  /\ \A x \in Columns, w \in Widths, c \in Colours :
                             \/ FillRect(x, w, c)
                             \/ BlitImage(x, w, c, TRUE)
                             \/ \E complete \in BOOLEAN : ImageRect(x, w, c, complete, TRUE)
                             => Eventual' = Painted(Eventual, x, w, c)
                       /\ \A from, x \in Columns, w \in Widths :
                             CopyImage(from, x, w) =>
                                 Eventual' = Copied(Eventual, Eventual, from, x, w)
                       /\ calls'.draws = calls.draws /\ DOMAIN back' = DOMAIN back =>
                             Eventual' = Eventual
    OBVIOUS
  <2>1. ASSUME NEW x \in Columns, NEW w \in Widths, NEW c \in Colours,
               \/ FillRect(x, w, c)
               \/ BlitImage(x, w, c, TRUE)
               \/ \E complete \in BOOLEAN : ImageRect(x, w, c, complete, TRUE)
        PROVE  Eventual' = Painted(Eventual, x, w, c)
    <3>1. CASE FillRect(x, w, c)
      BY <3>1, FillStep
    <3>2. CASE BlitImage(x, w, c, TRUE)
      BY <3>2, BlitStep
    <3>3. CASE \E complete \in BOOLEAN : ImageRect(x, w, c, complete, TRUE)
      BY <3>3, ImageStep
    <3>. QED BY <2>1, <3>1, <3>2, <3>3
  <2>2. ASSUME NEW from \in Columns, NEW x \in Columns, NEW w \in Widths, CopyImage(from, x, w)
        PROVE  Eventual' = Copied(Eventual, Eventual, from, x, w)
    BY <2>2, CopyStep
  <2>3. calls'.draws = calls.draws /\ DOMAIN back' = DOMAIN back => Eventual' = Eventual
    BY DispStep
  <2>. QED BY <2>1, <2>2, <2>3
<1>. QED BY <1>1, DisplayInvariant, PTL DEF DispSpec, DrawsInOrder
=============================================================================
