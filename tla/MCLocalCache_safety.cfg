\* Two callers and the expire task on one key; the clock may be set back.
SPECIFICATION Spec
CONSTANTS
    Threads = {t1, t2}
    Sweeper = sweeper
    Keys = {k1}
    Values = {v1, v2}
    Nil = Nil
    MaxNow = 1
    Ttls <- TtlZeroAndOne
    BackSteps <- OneBack
SYMMETRY Symmetry
INVARIANTS
    TypeOK
    ReadIsStable
PROPERTY ImplementsAtomicCache
