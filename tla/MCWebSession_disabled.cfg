\* A user logs in and is disabled afterwards.
SPECIFICATION Spec
CONSTANTS
    Threads = {t1}
    Sweeper = sweeper
    Users = {u1}
    Stranger = stranger
    Pages <- AllPages
    Changes <- Statuses
    LoginExpire = 1
    MaxRequests = 2
    MaxNow = 1
    Nil = Nil
INVARIANT DisabledUserIsRejected
