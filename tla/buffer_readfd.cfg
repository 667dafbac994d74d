SPECIFICATION Spec
CONSTANTS
    InitLen = 2
    ExtraLen = 4
    MaxOp = 3
    MaxLen = 4
    MaxBytes = 4
INVARIANT ReadFdKeepsAll
