SPECIFICATION Spec
CONSTANTS
    N = 3
    Names = {a, b, c, h}
    Threads = {t1, t2}
    Timeout = 2
SYMMETRY Symmetry
INVARIANT TypeOK
INVARIANT SlotZeroNeverDown
INVARIANT ThreadsOwnDownSlots
INVARIANT LiveServersSeeEveryOperation
INVARIANT PrimaryExecutesEveryOperation
PROPERTY LoneExchangeKeepsNames
PROPERTY ReconnectsCountDown
