SPECIFICATION HsSpec
CONSTANTS
    Versions = {"3.3", "3.7", "3.8"}
    Schemes = {"None", "VNCAuth", "RA2ne", "Tight", "VeNCrypt", "XVP", "ARD", "MSLogonII", "Plain"}
    FirstCreds = {{}, {"password"}}
CHECK_DEADLOCK FALSE
INVARIANTS ReadsInStep EventsInOrder
PROPERTIES Settles
