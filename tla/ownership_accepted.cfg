SPECIFICATION Spec
CONSTANTS
    Vars = {"x", "y", "h", "k"}
    MoveOnly = {"h", "k"}
    Locals = {"k"}
    Refs = {"r", "s"}
    NoOwner = "none"
    Bodies <- MCBodies
INVARIANTS
    NoUseAfterMove
    BorrowsRespected
    BorrowsStayValid
    NoFalseAlarm
    DroppedOnce
CHECK_DEADLOCK FALSE
