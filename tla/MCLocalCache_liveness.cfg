\* Every call returns and what has expired is purged; no symmetry, no clock
\* that is set back.
SPECIFICATION FairSpec
CONSTANTS
    Threads = {t1, t2}
    Sweeper = sweeper
    Keys = {k1}
    Values = {v1}
    Nil = Nil
    MaxNow = 1
    Ttls <- TtlZeroAndOne
    BackSteps <- Monotone
PROPERTIES
    CallsReturn
    ExpiredIsPurged
