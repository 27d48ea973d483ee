------------------------------ MODULE Keyboard ------------------------------
(***************************************************************************)
(* The keyboard of the console (core/input/keyboard.js, rfb.js): key       *)
(* events of a browser, with what each platform leaves out or makes up,    *)
(* become presses and releases the server can follow, and the server's     *)
(* Caps Lock is set to what the user's keyboard shows.                     *)
(*                                                                         *)
(* Num Lock is handled as Caps Lock is, and left out.  A key event has the *)
(* code of its key and one of the symbols the layout gives it.             *)
(***************************************************************************)
EXTENDS Sequences, Functions, FiniteSetsExt

CONSTANTS WindowsKeys, MacKeys, OtherKeys,  \* codes of keys, by platform
          MaxHeld,      \* bound: keys the user holds at once
          Window        \* bound: LED messages on their way when a key is pressed

VARIABLES
    platform,   \* of this browser
    held,       \* keys the user holds down
    muted,      \* keys of which macOS will not tell the release
    focused,    \* the window has the focus
    list,       \* _keyDownList: the symbol of each key that is down
    armed,      \* _altGrArmed, and the timer is pending
    local,      \* Caps Lock of the keyboard
    remote,     \* _remoteCapsLock
    server,     \* symbols the server takes for pressed, and its Caps Lock
    leds,       \* LED messages on their way from the server
    lapsed,     \* the window lost the focus while _altGrArmed
    mixed       \* Caps Lock was turned over by another client, or twice by
                \* its key before the server had told of the first

keyVars == <<platform, held, muted, focused, list, armed, local, remote, server, leds, lapsed, mixed>>

Unidentified == "Unidentified"
Japanese == "Zenkaku"       \* any of jpBadKeys
Unknown == "unknown"        \* null, of a lock that is "on" or "off" else

(* The symbols of a key. *)
Symbols(code) ==
    CASE code = "KeyA" -> {"a", "A"}
      [] code = "AltRight" -> {"Alt_R", "Level3"}
      [] code = "MetaLeft" -> {"Super_L"}
      [] code = Unidentified -> {"virtual"}
      [] OTHER -> {code}

ASSUME KeyAssumption ==
    /\ WindowsKeys \cup MacKeys \cup OtherKeys \subseteq
            {"KeyA", "ControlLeft", "AltRight", "ShiftLeft", "ShiftRight",
             "MetaLeft", "CapsLock", Japanese, Unidentified}
    /\ MaxHeld \in Nat /\ Window \in Nat

Mac == platform = "mac"
Windows == platform = "windows"
Keys == IF Windows THEN WindowsKeys ELSE IF Mac THEN MacKeys ELSE OtherKeys
Shifts == {"ShiftLeft", "ShiftRight"}

keyboard == [list |-> list, remote |-> remote, server |-> server, leds |-> leds]
Becomes(k) == /\ list' = k.list /\ remote' = k.remote
              /\ server' = k.server /\ leds' = k.leds
-----------------------------------------------------------------------------
Turned(lock) == IF lock = "on" THEN "off" ELSE "on"

(* The server turns Caps Lock over when it is pressed, and says so. *)
Serve(k, symbol, down, fix) ==
    LET turns == down /\ symbol = "CapsLock" /\ symbol \notin k.server.down
        caps == IF turns THEN Turned(k.server.caps) ELSE k.server.caps
    IN  [k EXCEPT !.server = [down |-> IF down THEN @.down \cup {symbol} ELSE @.down \ {symbol},
                              caps |-> caps],
                  !.leds = IF turns THEN Append(@, [lock |-> caps, fix |-> fix]) ELSE @]

TurnOver(k) == Serve(Serve(k, "CapsLock", TRUE, TRUE), "CapsLock", FALSE, TRUE)

(* Variant: what was known is not forgotten when the lock is turned over. *)
HandleKeyEventKnowing(k, symbol, code, down, caps) ==
    LET fixes == down /\ k.remote # Unknown /\ caps # Unknown /\ k.remote # caps
        fixed == IF fixes THEN TurnOver(k) ELSE k
    IN  Serve(fixed, symbol, down, FALSE)

(* The server's Caps Lock is turned over first if it is known to differ;   *)
(* it is not known then until the server says.                             *)
HandleKeyEvent(k, symbol, code, down, caps) ==
    LET known == IF code = "CapsLock" /\ down THEN Unknown ELSE k.remote
        fixes == down /\ known # Unknown /\ caps # Unknown /\ known # caps
        fixed == IF fixes THEN TurnOver(k) ELSE k
    IN  Serve([fixed EXCEPT !.remote = IF fixes THEN Unknown ELSE known], symbol, down, FALSE)

Noted(keys, code, symbol) ==
    [c \in DOMAIN keys \cup {code} |-> IF c = code THEN symbol ELSE keys[c]]

Press(k, symbol, code, caps) ==
    HandleKeyEvent([k EXCEPT !.list = Noted(@, code, symbol)], symbol, code, TRUE, caps)

Release(k, code) ==
    IF code \notin DOMAIN k.list THEN k
    ELSE HandleKeyEvent([k EXCEPT !.list = Restrict(@, DOMAIN @ \ {code})],
                        k.list[code], code, FALSE, Unknown)

Tap(k, symbol, code, caps) == Release(Press(k, symbol, code, caps), code)

ReleaseShifts(k) == Release(Release(k, "ShiftRight"), "ShiftLeft")

MacSymbol(symbol) == CASE symbol = "Super_L" -> "Alt_L"
                       [] symbol = "Alt_R" -> "Level3"
                       [] OTHER -> symbol

(* The end of waiting for AltGr: the Control key that started it counts.   *)
ControlCounts(k, caps) == Press(k, "ControlLeft", "ControlLeft", caps)
-----------------------------------------------------------------------------
KeyInit == /\ platform \in {"windows", "mac", "other"}
           /\ held = {} /\ muted = {} /\ focused = TRUE /\ lapsed = FALSE /\ mixed = FALSE
           /\ list = <<>> /\ armed = FALSE
           /\ local \in {"on", "off"} /\ remote = Unknown
           /\ server = [down |-> {}, caps |-> "off"]
           /\ leds = <<[lock |-> "off", fix |-> FALSE]>>

Room == Len(leds) <= Window

(* Variant: a key that repeats has the symbol of the moment. *)
KeepsSymbolNew(k, code, symbol) == IF Mac THEN MacSymbol(symbol) ELSE symbol

(* A key keeps the symbol it went down with. *)
KeepsSymbol(k, code, symbol) ==
    IF code \in DOMAIN k.list THEN k.list[code] ELSE IF Mac THEN MacSymbol(symbol) ELSE symbol

ReleasedAtOnce(code) ==
    \/ code = Unidentified
    \/ Mac /\ (("MetaLeft" \in held' /\ code # "MetaLeft") \/ code = "CapsLock")
    \/ Windows /\ code = Japanese

StartsAltGr(k, code) == Windows /\ code = "ControlLeft" /\ code \notin DOMAIN k.list

(* A key that goes down, or repeats.  `quick': it follows Control within   *)
(* the time AltGr takes to.                                                *)
HandleKeyDown(code, symbol, quick) ==
    \E altGr \in {armed /\ quick /\ code = "AltRight"} :
    \E k \in {IF armed /\ ~altGr THEN ControlCounts(keyboard, local') ELSE keyboard} :
    \E s \in {KeepsSymbol(k, code, IF altGr THEN "Level3" ELSE symbol)} :
        /\ armed' = (~ReleasedAtOnce(code) /\ StartsAltGr(k, code))
        /\ \/ /\ ReleasedAtOnce(code)
              /\ Becomes(Tap(k, s, code, local'))
           \/ /\ ~ReleasedAtOnce(code) /\ armed'
              /\ Becomes(k)
           \/ /\ ~ReleasedAtOnce(code) /\ ~armed'
              /\ Becomes(Press(k, s, code, local'))

(* Variant: a Shift is let go alone. *)
HandleKeyUpAlone(code) ==
    \E k \in {IF armed THEN ControlCounts(keyboard, Unknown) ELSE keyboard} :
        /\ armed' = FALSE
        /\ Becomes(IF Mac /\ code = "CapsLock" THEN Tap(k, code, code, Unknown)
                   ELSE Release(k, code))

HandleKeyUp(code) ==
    \E k \in {IF armed THEN ControlCounts(keyboard, Unknown) ELSE keyboard} :
        /\ armed' = FALSE
        /\ Becomes(IF Mac /\ code = "CapsLock" THEN Tap(k, code, code, Unknown)
                   ELSE IF Windows /\ code \in Shifts THEN ReleaseShifts(k)
                   ELSE Release(k, code))

(* The user presses a key, or holds it until it repeats.  Caps Lock of     *)
(* macOS is one event a press, as if it went down to lock and up to unlock.*)
KeyDown(code) ==
    /\ focused /\ Room
    /\ held' = held \cup {code} /\ Cardinality(held') <= MaxHeld
    /\ muted' = IF Mac /\ "MetaLeft" \in held' THEN muted \cup {code} ELSE muted \ {code}
    /\ code = "CapsLock" => code \notin held
    /\ local' = IF code = "CapsLock" THEN Turned(local) ELSE local
    /\ IF Mac /\ code = "CapsLock" /\ local = "on"
       THEN HandleKeyUp(code)
       ELSE \E symbol \in Symbols(code), quick \in BOOLEAN : HandleKeyDown(code, symbol, quick)
    /\ mixed' = (mixed \/ (code = "CapsLock" /\ leds # <<>>))
    /\ UNCHANGED <<platform, focused, lapsed>>

(* The release of a key is told unless the window has lost the focus, the  *)
(* key went down with Meta on macOS, or it is a Shift of Windows and the   *)
(* other one is held.                                                      *)
Told(code) == /\ focused
              /\ ~(Mac /\ (code \in muted \ {"MetaLeft"} \/ code = "CapsLock"))
              /\ ~(Windows /\ code \in Shifts /\ Shifts \subseteq held)

KeyUp(code) ==
    /\ code \in held /\ Room
    /\ held' = held \ {code}
    /\ IF Told(code) THEN HandleKeyUp(code)
       ELSE UNCHANGED <<armed, list, remote, server, leds>>
    /\ UNCHANGED <<platform, muted, focused, local, lapsed, mixed>>

HandleAltGrTimeout ==
    /\ armed /\ armed' = FALSE
    /\ Becomes(ControlCounts(keyboard, Unknown))
    /\ UNCHANGED <<platform, held, muted, focused, local, lapsed, mixed>>

(* Every key that is down is let go; a Control key that waits is not.      *)
AllKeysUp ==
    /\ focused /\ focused' = FALSE
    /\ Becomes(FoldSet(LAMBDA code, k : Release(k, code), keyboard, DOMAIN list))
    /\ lapsed' = (lapsed \/ armed)
    /\ UNCHANGED <<platform, held, muted, armed, local, mixed>>

Focus == /\ ~focused /\ focused' = TRUE
         /\ UNCHANGED <<platform, held, muted, list, armed, local, remote, server, leds, lapsed, mixed>>

HandleLedEvent ==
    /\ leds # <<>>
    /\ remote' = Head(leds).lock /\ leds' = Tail(leds)
    /\ UNCHANGED <<platform, held, muted, focused, list, armed, local, server, lapsed, mixed>>

(* Another client of the server presses Caps Lock. *)
ServerTurnsCaps ==
    /\ Room
    /\ server' = [server EXCEPT !.caps = Turned(@)]
    /\ leds' = Append(leds, [lock |-> server'.caps, fix |-> FALSE])
    /\ mixed' = TRUE
    /\ UNCHANGED <<platform, held, muted, focused, list, armed, local, remote, lapsed>>

KeyNext == \/ \E code \in Keys : KeyDown(code) \/ KeyUp(code)
           \/ HandleAltGrTimeout \/ AllKeysUp \/ Focus
           \/ HandleLedEvent \/ ServerTurnsCaps

KeySpec == KeyInit /\ [][KeyNext]_keyVars
-----------------------------------------------------------------------------
Locks == {"on", "off"}
AllSymbols == (UNION { Symbols(code) : code \in Keys }) \cup {"Alt_L", "CapsLock"}

KeyTypeOK ==
    /\ platform \in {"windows", "mac", "other"}
    /\ held \subseteq Keys /\ muted \subseteq Keys
    /\ focused \in BOOLEAN /\ armed \in BOOLEAN /\ lapsed \in BOOLEAN /\ mixed \in BOOLEAN
    /\ DOMAIN list \subseteq Keys /\ Range(list) \subseteq AllSymbols
    /\ local \in Locks /\ remote \in Locks \cup {Unknown}
    /\ server.down \subseteq AllSymbols /\ server.caps \in Locks
    /\ \A i \in DOMAIN leds : leds[i].lock \in Locks /\ leds[i].fix \in BOOLEAN

(* Every press the server knows of can be undone: the list holds the very  *)
(* symbol that was sent for each key, whatever symbol the key has by now   *)
(* (keyboard.js:159-163, 234).  Caps Lock aside, which is let go early     *)
(* where it is turned over for another key.                                *)
ReleasesWhatItPressed == server.down \ {"CapsLock"} = Range(list) \ {"CapsLock"}

(* No key stays down at the server: it is held, or it is a Shift of which  *)
(* Windows has not told the release and will not until the other one ends, *)
(* or the window lost the focus within the time AltGr takes, after which   *)
(* the timer presses Control (keyboard.js:165-173, 236-249, 258-264).      *)
NoneStuck ==
    \A code \in DOMAIN list :
        \/ code \in held
        \/ Windows /\ code \in Shifts /\ held \cap Shifts # {}
        \/ code = "ControlLeft" /\ lapsed

(* One difference is put right once: while the server has yet to tell of a *)
(* lock turned over for the user nothing is known of it, so no further key *)
(* turns it again; unless others turn it, or the user does so faster than  *)
(* the server tells (rfb.js:998-1016).                                     *)
TurnedOverOnce ==
    (\E i \in DOMAIN leds : leds[i].fix) /\ ~mixed => remote = Unknown
=============================================================================
