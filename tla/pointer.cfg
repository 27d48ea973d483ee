SPECIFICATION PtrSpec
CONSTANTS
    Fingers = {f1, f2, f3, f4}
    MouseButtons = {"left"}
SYMMETRY Symmetry
CHECK_DEADLOCK FALSE
INVARIANTS NeverThrows RestsWhenLifted HeldByUser
PROPERTIES EndsAreTold
