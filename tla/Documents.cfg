SPECIFICATION Spec
CHECK_DEADLOCK FALSE
CONSTANTS
    p = p  q = q
    MaxDocs = 3
    Paths = {p, q}
    Locked = {q}
    MaxMoves = 6
INVARIANTS TypeOK CombosListOpen ListsMatchFiles
PROPERTIES SessionRestores
