CONSTANTS
    Slot = {s1, s2, s3, s4}
    stopped_value = 3
    MaxStops = 2
SPECIFICATION SourceSpec
INVARIANTS OneShot NoneForgotten
CHECK_DEADLOCK FALSE
