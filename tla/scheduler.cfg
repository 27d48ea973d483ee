SPECIFICATION SchedSpec
CONSTANTS
    Servers = {s1}
    Day = 4
    Window = 1
    Cooldown = 3
    RestartTimes = {0, 3}
    MaxAttempts = 2
    MaxChanges = 2
    MaxCrashes = 1
PROPERTIES
    NightlyRestarts
INVARIANTS
    OncePerNight
    BackupsKeepPace
CHECK_DEADLOCK FALSE
