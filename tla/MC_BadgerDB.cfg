CONSTANTS
    b1 = b1
    Byte <- MC_Byte
    Key <- MC_Key
    Value <- MC_Value
    Buf = {b1}
    Prefix <- MC_Prefix
    Start <- MC_Start
    Absent = Absent
    NoBuf = NoBuf
    TxnLimit = 1
    MaxOps = 2
SPECIFICATION Spec
INVARIANT IteratorYieldsRange
INVARIANT BatchHoldsTail
