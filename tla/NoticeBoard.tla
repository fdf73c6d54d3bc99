---------------------------- MODULE NoticeBoard -----------------------------
(***************************************************************************)
(* What a jGrowl container promises its page: messages are put up in the   *)
(* order they were posted, never more than the pool holds at a time, and   *)
(* one that has been taken down does not come back.                        *)
(***************************************************************************)
EXTENDS Naturals, Sequences, FiniteSets

CONSTANTS
    Messages,  \* the messages a page can post, each at most once
    Pool       \* how many are up at a time; 0 is no limit

VARIABLES waiting, showing, open

board == <<waiting, showing, open>>

Room == Pool = 0 \/ Cardinality(showing) < Pool

BoardInit == waiting = <<>> /\ showing = {} /\ open = TRUE

\* The page posts a message.
Post(m) ==
    /\ waiting' = Append(waiting, m)
    /\ UNCHANGED <<showing, open>>

\* The oldest message is put up, unless a callback of the page refuses it.
PutUp ==
    /\ open /\ waiting # <<>> /\ Room
    /\ waiting' = Tail(waiting)
    /\ showing' \in {showing, showing \union {Head(waiting)}}
    /\ UNCHANGED open

\* A message is taken down.
TakeDown(m) ==
    /\ m \in showing
    /\ showing' = showing \ {m}
    /\ UNCHANGED <<waiting, open>>

\* The container is shut down: everything comes down and nothing goes up.
Close ==
    /\ open
    /\ open' = FALSE
    /\ showing' = {}
    /\ UNCHANGED waiting

BoardNext ==
    \/ \E m \in Messages : Post(m) \/ TakeDown(m)
    \/ PutUp
    \/ Close

BoardSpec == BoardInit /\ [][BoardNext]_board
=============================================================================
