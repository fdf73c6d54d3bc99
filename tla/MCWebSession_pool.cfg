\* Two pool threads serve two requests of one user, for every page, while the
\* lifetime of the session ends; no symmetry.
SPECIFICATION FairSpec
CONSTANTS
    Threads = {t1, t2}
    Sweeper = sweeper
    Users = {u1}
    Stranger = stranger
    Pages <- AllPages
    Changes <- NoChange
    LoginExpire = 1
    MaxRequests = 2
    MaxNow = 2
    Nil = Nil
INVARIANTS
    ContextIsOwn
    LiveSessionIsKept
PROPERTIES
    ImplementsSessionStore
    RequestIsAnswered
