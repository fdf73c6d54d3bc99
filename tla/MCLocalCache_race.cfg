\* One caller sets a key again while the expire task is about to delete it.
SPECIFICATION Spec
CONSTANTS
    Threads = {t1}
    Sweeper = sweeper
    Keys = {k1}
    Values = {v1}
    Nil = Nil
    MaxNow = 2
    Ttls <- TtlZeroAndOne
    BackSteps <- Monotone
PROPERTY SweepDeletesOnlyExpired
