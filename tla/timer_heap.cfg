\* Six timers: the first size at which a removal in the middle must move up.
SPECIFICATION Spec
CONSTANTS
    Timers = {t1, t2, t3, t4, t5, t6}
    Nil = Nil
    MaxTime = 2
SYMMETRY Symmetry
INVARIANT HeapInv
PROPERTY IsTimerSet
