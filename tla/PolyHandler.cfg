CONSTANTS
    Handler = {h1, h2, h3}
    Callable = {c1, c2, c3}
    Big = {c1, c2}
    Shell = Shell
    Empty = Empty
    Gone = Gone
    Broken = Broken
SPECIFICATION Spec
INVARIANTS OneOwner
PROPERTY ImplementsCallSlot
CHECK_DEADLOCK FALSE
