SPECIFICATION SessSpec
CONSTANTS
    Encodings = {"raw", "copyrect", "rre", "hextile", "tight", "tightpng", "zrle", "jpeg", "cursor", "vmware", "name", "screens", "led", "size", "qemu", "other"}
    Streams = {0, 1}
    MaxRects = 2
    Window = 1
CHECK_DEADLOCK FALSE
INVARIANTS   NeverStarves
PROPERTIES FlushResumes
