SPECIFICATION KeySpec
CONSTANTS
    WindowsKeys = {"KeyA", "ControlLeft", "AltRight", "ShiftLeft", "ShiftRight", "CapsLock", "Zenkaku"}
    MacKeys = {"KeyA", "AltRight", "MetaLeft", "CapsLock"}
    OtherKeys = {"KeyA", "CapsLock", "Unidentified"}
    MaxHeld = 3
    Window = 1
CHECK_DEADLOCK FALSE
INVARIANTS ReleasesWhatItPressed  TurnedOverOnce
