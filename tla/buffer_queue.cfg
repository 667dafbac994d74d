SPECIFICATION Spec
CONSTANTS
    InitLen = 2
    ExtraLen = 4
    MaxOp = 4
    MaxLen = 6
    MaxBytes = 8
INVARIANT BufferInv
PROPERTY IsByteQueue
