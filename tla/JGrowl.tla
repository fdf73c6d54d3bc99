------------------------------- MODULE JGrowl -------------------------------
(***************************************************************************)
(* One container of jquery.jgrowl.js: the queue of messages, the interval  *)
(* that closes what has lived long enough and renders one message a time,  *)
(* the animations (each element has a queue of them, the first runs), the  *)
(* mouse that pauses the container, and the "close all" button.            *)
(***************************************************************************)
EXTENDS Naturals, Sequences, FiniteSets

CONSTANTS
    Messages,  \* the notifications of the page, each created at most once
    Pool,      \* defaults.pool: how many are in the container; 0 is no limit
    Sticky,    \* those with sticky: true
    NoOpen,    \* those whose beforeOpen or open callback returns false
    NoClose,   \* those whose beforeClose callback returns false
    Keeps,     \* those whose close callback returns false
    MaxFx,     \* bound: user actions stop when an element has more animations
    NoMouse

ASSUME JGrowlAssumption ==
    /\ Pool \in Nat
    /\ MaxFx \in Nat
    /\ Sticky \union NoOpen \union NoClose \union Keeps \subseteq Messages
    /\ NoMouse \notin Messages

VARIABLES
    queue,    \* this.notifications
    stage,    \* of each message: where its element is
    fx,       \* of each element: its animations, "show" and "hide"
    visible,  \* elements that have not been faded out
    life,     \* of each element: "none" until created is set, "running", "over"
    pause,    \* elements with jGrowl.pause
    mouse,    \* the element under the pointer
    closer,   \* the "close all" button: "none", "up" or "fading"
    alive,    \* has shutdown not been called?
    closed    \* how often the close callback of each was called, up to 2

vars == <<queue, stage, fx, visible, life, pause, mouse, closer, alive, closed>>

TypeOK ==
    /\ queue \in Seq(Messages)
    /\ stage \in [Messages -> {"new", "queued", "dom", "gone"}]
    /\ fx \in [Messages -> Seq({"show", "hide"})]
    /\ visible \subseteq Messages
    /\ life \in [Messages -> {"none", "running", "over"}]
    /\ pause \subseteq Messages
    /\ mouse \in Messages \union {NoMouse}
    /\ closer \in {"none", "up", "fading"}
    /\ alive \in BOOLEAN
    /\ closed \in [Messages -> 0..2]

\* find('div.jGrowl-notification:parent'): the placeholder of startup is empty.
InDom == {m \in Messages : stage[m] = "dom"}

\* startup.
Init ==
    /\ queue = <<>>
    /\ stage = [m \in Messages |-> "new"]
    /\ fx = [m \in Messages |-> <<>>]
    /\ visible = {}
    /\ life = [m \in Messages |-> "none"]
    /\ pause = {}
    /\ mouse = NoMouse
    /\ closer = "none"
    /\ alive = TRUE
    /\ closed = [m \in Messages |-> 0]
-----------------------------------------------------------------------------
\* Bound: while the page or its user may still act.
Calm == \A m \in Messages : Len(fx[m]) < MaxFx

\* create: also after shutdown, the instance being kept with the container.
Create(m) ==
    /\ stage[m] = "new"
    /\ queue' = Append(queue, m)
    /\ stage' = [stage EXCEPT ![m] = "queued"]
    /\ UNCHANGED <<fx, visible, life, pause, mouse, closer, alive, closed>>

\* The handler of jGrowl.close: pause, and fade out behind what is running. An
\* element that is hidden already has nothing to fade: its callback is called.
CloseAll(S) ==
    /\ pause' = pause \union S
    /\ fx' = [m \in Messages |->
                 IF m \in S \intersect visible THEN Append(fx[m], "hide") ELSE fx[m]]
    /\ closed' = [m \in Messages |-> IF m \in S \ visible THEN 2 ELSE closed[m]]

\* The cross of a notification: straight to jGrowl.close.
ClickClose(m) ==
    /\ Calm /\ m \in InDom \intersect visible
    /\ CloseAll({m})
    /\ UNCHANGED <<queue, stage, visible, life, mouse, closer, alive>>

\* The "close all" button, and the method close: jGrowl.beforeClose for all.
ClickCloser ==
    /\ Calm /\ closer # "none"
    /\ CloseAll(InDom \ NoClose)
    /\ UNCHANGED <<queue, stage, visible, life, mouse, closer, alive>>

CallClose ==
    /\ Calm /\ InDom # {}
    /\ CloseAll(InDom \ NoClose)
    /\ UNCHANGED <<queue, stage, visible, life, mouse, closer, alive>>

\* A MouseOver that pauses the siblings of the element.
MouseOverSiblings(m) ==
    /\ Calm /\ mouse = NoMouse /\ m \in InDom \intersect visible
    /\ mouse' = m
    /\ pause' = pause \union (InDom \ {m})
    /\ UNCHANGED <<queue, stage, fx, visible, life, closer, alive, closed>>

MouseOver(m) ==
    /\ Calm /\ mouse = NoMouse /\ m \in InDom \intersect visible
    /\ mouse' = m
    /\ pause' = pause \union InDom
    /\ UNCHANGED <<queue, stage, fx, visible, life, closer, alive, closed>>

\* Not fired for an element that is taken away under the pointer.
MouseOut ==
    /\ Calm /\ mouse # NoMouse
    /\ mouse' = NoMouse
    /\ pause' = pause \ InDom
    /\ UNCHANGED <<queue, stage, fx, visible, life, closer, alive, closed>>
-----------------------------------------------------------------------------
\* What update finds to close. The life of a notification runs from the end
\* of its opening.
Expired == {m \in InDom : life[m] = "over" /\ m \notin Sticky /\ m \notin pause}

\* A Room that counts everything ever rendered.
RoomEver == Pool = 0 \/ Cardinality({m \in Messages : stage[m] \in {"dom", "gone"}}) < Pool

\* A Room with an off-by-one.
RoomMore == Pool = 0 \/ Cardinality(InDom) <= Pool

Room == Pool = 0 \/ Cardinality(InDom) < Pool

\* render makes a closer when there is none and it finds two notifications;
\* update fades it out when it finds fewer.
CloserAfter(n) ==
    IF n < 2 THEN IF closer = "none" THEN "none" ELSE "fading"
    ELSE IF closer = "none" /\ queue' # queue THEN "up" ELSE closer

\* render: the element of the oldest message, unless a callback refuses it.
Render ==
    LET m == Head(queue) IN
    /\ queue' = Tail(queue)
    /\ stage' = [stage EXCEPT ![m] = IF m \in NoOpen THEN "gone" ELSE "dom"]
    /\ visible' = visible \union ({m} \ NoOpen)

\* The interval: close what is over, render one, look after the closer.
Update ==
    /\ alive
    /\ IF queue # <<>> /\ Room THEN Render ELSE UNCHANGED <<queue, stage, visible>>
    /\ LET S == Expired \ NoClose IN
       /\ pause' = pause \union S
       /\ fx' = [m \in Messages |->
                    IF m \in visible' \ visible THEN <<"show">>
                    ELSE IF m \in S \intersect visible THEN Append(fx[m], "hide")
                    ELSE fx[m]]
       /\ closed' = [m \in Messages |-> IF m \in S \ visible THEN 2 ELSE closed[m]]
    /\ closer' = CloserAfter(Cardinality({m \in Messages : stage'[m] = "dom"}))
    /\ UNCHANGED <<life, mouse, alive>>
-----------------------------------------------------------------------------
\* The opening is over: the life of the notification begins.
Opened(m) ==
    /\ fx[m] # <<>> /\ Head(fx[m]) = "show"
    /\ fx' = [fx EXCEPT ![m] = Tail(@)]
    /\ life' = [life EXCEPT ![m] = IF stage[m] = "dom" THEN "running" ELSE @]
    /\ UNCHANGED <<queue, stage, visible, pause, mouse, closer, alive, closed>>

\* A Faded that takes the answer of the close callback the wrong way round.
FadedInverted(m) ==
    /\ fx[m] # <<>> /\ Head(fx[m]) = "hide"
    /\ fx' = [fx EXCEPT ![m] = <<>>]
    /\ visible' = visible \ {m}
    /\ closed' = [closed EXCEPT ![m] = IF @ = 0 THEN 1 ELSE 2]
    /\ IF m \notin Keeps
       THEN UNCHANGED <<stage, pause, mouse>>
       ELSE /\ stage' = [stage EXCEPT ![m] = "gone"]
            /\ pause' = pause \ {m}
            /\ mouse' = IF mouse = m THEN NoMouse ELSE mouse
    /\ UNCHANGED <<queue, life, closer, alive>>

\* The fading is over: the close callback, and the element is removed with the
\* animations that were still queued for it, unless the callback says no. An
\* element that is kept is hidden: what was queued for it ends at once.
Faded(m) ==
    /\ fx[m] # <<>> /\ Head(fx[m]) = "hide"
    /\ fx' = [fx EXCEPT ![m] = <<>>]
    /\ visible' = visible \ {m}
    /\ closed' = [closed EXCEPT ![m] =
                     IF @ = 0 /\ (m \notin Keeps \/ Len(fx[m]) = 1) THEN 1 ELSE 2]
    /\ IF m \in Keeps \/ stage[m] = "gone"
       THEN UNCHANGED <<stage, pause, mouse>>
       ELSE /\ stage' = [stage EXCEPT ![m] = "gone"]
            /\ pause' = pause \ {m}
            /\ mouse' = IF mouse = m THEN NoMouse ELSE mouse
    /\ UNCHANGED <<queue, life, closer, alive>>

\* life milliseconds after created.
LifeEnds(m) ==
    /\ life[m] = "running"
    /\ life' = [life EXCEPT ![m] = "over"]
    /\ UNCHANGED <<queue, stage, fx, visible, pause, mouse, closer, alive, closed>>

\* The closer has faded out.
CloserGone ==
    /\ closer = "fading"
    /\ closer' = "none"
    /\ UNCHANGED <<queue, stage, fx, visible, life, pause, mouse, alive, closed>>

\* shutdown: elements go, whatever animation runs on them, and the interval
\* stops; queue and instance stay.
Shutdown ==
    /\ alive
    /\ alive' = FALSE
    /\ stage' = [m \in Messages |-> IF stage[m] = "dom" THEN "gone" ELSE stage[m]]
    /\ fx' = [m \in Messages |-> IF fx[m] = <<>> THEN <<>> ELSE <<Head(fx[m])>>]
    /\ visible' = {} /\ pause' = {} /\ mouse' = NoMouse
    /\ UNCHANGED <<queue, life, closer, closed>>
-----------------------------------------------------------------------------
\* The clock and the animations.
Timers ==
    \/ Update \/ CloserGone
    \/ \E m \in Messages : Opened(m) \/ Faded(m) \/ LifeEnds(m)

\* The page and its user.
Users ==
    \/ \E m \in Messages : Create(m) \/ ClickClose(m) \/ MouseOver(m)
    \/ ClickCloser \/ CallClose \/ MouseOut \/ Shutdown

Next == Timers \/ Users

Spec == Init /\ [][Next]_vars

\* setInterval keeps calling update; the animations of jQuery come to an end.
Fairness ==
    /\ WF_vars(Update) /\ WF_vars(CloserGone)
    /\ \A m \in Messages :
          WF_vars(Opened(m)) /\ WF_vars(Faded(m)) /\ WF_vars(LifeEnds(m))

FairSpec == Spec /\ Fairness
-----------------------------------------------------------------------------
\* The close callback of a notification is called when it leaves the page and
\* only then, once, however often it was closed meanwhile: by its cross, by
\* "close all", by the interval, and by a shutdown in the middle of its fading.
ClosedOnce ==
    \A m \in Messages \ Keeps :
        /\ stage[m] # "gone" => closed[m] = 0
        /\ closed[m] <= 1
        /\ stage[m] = "gone" /\ alive /\ m \notin NoOpen => closed[m] = 1

\* The interval never closes the notification that the mouse is on, although
\* others close and appear meanwhile.
ReadInPeace == [][Update => \A m \in Messages : m = mouse => fx'[m] = fx[m]]_vars

Board == INSTANCE NoticeBoard WITH waiting <- queue, showing <- InDom, open <- alive

\* The container shows the messages in the order of their creation and never
\* more than its pool, whatever is clicked and whatever the callbacks answer.
ImplementsNoticeBoard == Board!BoardSpec

\* A notification that is paused although it is not being closed.
Held == \E m \in InDom : m \in pause /\ ~ \E i \in DOMAIN fx[m] : fx[m][i] = "hide"

\* Unless the container is shut down or stays paused, each message created gets
\* its turn, also when the pool is full at the time.
MessagesAppear ==
    <>[](alive /\ ~Held) =>
        \A m \in Messages : stage[m] = "queued" ~> stage[m] # "queued"

\* Under the same condition each notification that is not sticky leaves, also
\* when it was closed while it opened or was paused for a while.
LivesEnd ==
    <>[](alive /\ ~Held) =>
        \A m \in Messages \ Sticky : stage[m] = "dom" ~> stage[m] = "gone"

\* The "close all" button does not outlive the notifications it is for.
CloserLeaves == <>[](alive /\ Cardinality(InDom) < 2) => <>[](closer = "none")

\* Changes in 1.2.1: the interval no longer closes a notification twice.
IntervalClosesOnce ==
    [][Update => \A m \in Messages :
          (\E i \in DOMAIN fx[m] : fx[m][i] = "hide") => fx'[m] = fx[m]]_vars
=============================================================================
