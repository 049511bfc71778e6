CONSTANTS
    Path = {f1, f2}
    MaxEntries = 3
    MaxFaults = 1
    Kinds = {"user", "assistant", "compaction"}
SPECIFICATION Spec
PROPERTIES
    BranchedSessionIsPath
SYMMETRY Symmetry
CHECK_DEADLOCK FALSE
