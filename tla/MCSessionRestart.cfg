\* Two users log in on one pool thread, before and after two restarts.
SPECIFICATION RestartSpec
CONSTANTS
    Threads = {t1}
    Sweeper = sweeper
    Users = {u1, u2}
    Stranger = stranger
    Pages <- Dynamic
    Changes <- NoChange
    LoginExpire = 1
    MaxRequests = 3
    MaxNow = 1
    MaxRestarts = 2
    Nil = Nil
INVARIANTS
    RestartTypeOK
    StaleCookieLogsOut
CHECK_DEADLOCK FALSE
