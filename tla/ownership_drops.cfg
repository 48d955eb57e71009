SPECIFICATION Spec
CONSTANTS
    Vars = {"x", "y", "h", "k"}
    MoveOnly = {"h", "k"}
    Locals = {"k"}
    Refs = {"r", "s"}
    NoOwner = "none"
    Bodies <- MCCompounds
INVARIANTS
    NoDoubleDrop
CHECK_DEADLOCK FALSE
