SPECIFICATION Spec
CONSTANTS
    a1 = a1
    a2 = a2
    b1 = b1
    Handles = {a1, a2, b1}
    Owner <- mcOwner
    Datas <- mcBuffers
    MaxSize = 3
    MaxOpens = 3
    MaxWrites = 3
    MaxViews = 1
SYMMETRY mcSymmetry
CONSTRAINT UntilDoubled
CHECK_DEADLOCK FALSE
INVARIANTS LockExclusion RangeCheckHolds AppendedIntact ViewsStable
