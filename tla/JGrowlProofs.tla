---------------------------- MODULE JGrowlProofs ----------------------------
(***************************************************************************)
(* Proofs about JGrowl, for any messages, any pool and any callbacks.      *)
(***************************************************************************)
EXTENDS JGrowl, TLAPS

\* The queue holds the messages that are queued, each once; nothing moves that
\* has not been put into the page.
QueueInv ==
    /\ \A i \in 1..Len(queue) : stage[queue[i]] = "queued"
    /\ \A i, j \in 1..Len(queue) : queue[i] = queue[j] => i = j
    /\ \A m \in Messages : stage[m] \in {"new", "queued"} => fx[m] = <<>>

\* The mouse rests on a notification of the container, which it has paused.
MouseInv == mouse # NoMouse => mouse \in pause /\ stage[mouse] = "dom"

\* A notification that does not refuse to go is seen until it goes, and one that
\* a shutdown has taken in the middle of an animation has not been told yet.
CloseInv ==
    \A m \in Messages \ Keeps :
        /\ stage[m] = "dom" => m \in visible
        /\ stage[m] = "gone" /\ fx[m] # <<>> => closed[m] = 0

IInv == TypeOK /\ QueueInv /\ MouseInv /\ CloseInv /\ ClosedOnce

LEMMA InitIInv == Init => IInv
BY JGrowlAssumption
   DEF Init, IInv, TypeOK, QueueInv, MouseInv, CloseInv, ClosedOnce

-----------------------------------------------------------------------------
(* The page and its user *)

LEMMA CreateIInv ==
    ASSUME IInv, NEW m \in Messages, Create(m)
    PROVE  IInv'
<1> USE JGrowlAssumption DEF IInv
<1>1. /\ queue' \in Seq(Messages) /\ Len(queue') = Len(queue) + 1
      /\ \A i \in 1..Len(queue) : queue'[i] = queue[i]
      /\ queue'[Len(queue) + 1] = m
  BY DEF Create, TypeOK
<1>2. \A n \in Messages : stage'[n] = IF n = m THEN "queued" ELSE stage[n]
  BY DEF Create, TypeOK
<1>3. \A i \in 1..Len(queue) : queue[i] \in Messages /\ queue[i] # m
  <2> TAKE i \in 1..Len(queue)
  <2>1. queue[i] \in Messages
    BY DEF TypeOK
  <2>2. stage[queue[i]] = "queued" /\ stage[m] = "new"
    BY DEF QueueInv, Create
  <2>. QED
    BY <2>1, <2>2
<1>4. TypeOK'
  BY <1>1 DEF Create, TypeOK
<1>5. QueueInv'
  <2>1. \A i \in 1..Len(queue') : i \in 1..Len(queue) \/ i = Len(queue) + 1
    BY <1>1 DEF TypeOK
  <2>2. \A i \in 1..Len(queue') : stage'[queue'[i]] = "queued"
    BY <1>1, <1>2, <1>3, <2>1 DEF QueueInv
  <2>3. \A i, j \in 1..Len(queue') : queue'[i] = queue'[j] => i = j
    BY <1>1, <1>3, <2>1 DEF QueueInv
  <2>. QED
    BY <1>2, <2>2, <2>3 DEF Create, QueueInv
<1>6. MouseInv' /\ CloseInv' /\ ClosedOnce'
  BY <1>2 DEF Create, TypeOK, MouseInv, CloseInv, ClosedOnce
<1>. QED
  BY <1>4, <1>5, <1>6

(* Closing some that are there, by a cross, by "close all" or by a script. *)
LEMMA CloseAllIInv ==
    ASSUME IInv, NEW S \in SUBSET InDom, CloseAll(S),
           UNCHANGED <<queue, stage, visible, life, mouse, alive>>,
           closer' = closer
    PROVE  IInv'
<1> USE JGrowlAssumption DEF IInv, InDom
<1>1. TypeOK'
  <2>1. pause' \subseteq Messages
    BY DEF CloseAll, TypeOK
  <2>2. fx' \in [Messages -> Seq({"show", "hide"})]
    BY DEF CloseAll, TypeOK
  <2>3. closed' \in [Messages -> 0..2]
    BY DEF CloseAll, TypeOK
  <2>. QED
    BY <2>1, <2>2, <2>3 DEF TypeOK
<1>2. QueueInv'
  BY DEF CloseAll, TypeOK, QueueInv
<1>3. MouseInv'
  BY DEF CloseAll, TypeOK, MouseInv
<1>4. \A m \in Messages \ Keeps : closed'[m] = closed[m]
  BY DEF CloseAll, CloseInv, TypeOK
<1>5. \A m \in Messages : stage[m] # "dom" => fx'[m] = fx[m]
  BY DEF CloseAll, TypeOK
<1>6. CloseInv' /\ ClosedOnce'
  BY <1>4, <1>5 DEF CloseInv, ClosedOnce
<1>. QED
  BY <1>1, <1>2, <1>3, <1>6

LEMMA UsersIInv ==
    ASSUME IInv, Users
    PROVE  IInv'
<1> USE JGrowlAssumption
<1>1. ASSUME NEW m \in Messages, Create(m)
      PROVE  IInv'
  BY <1>1, CreateIInv
<1>2. ASSUME NEW m \in Messages, ClickClose(m)
      PROVE  IInv'
  <2>1. {m} \in SUBSET InDom
    BY <1>2 DEF ClickClose
  <2>. QED
    BY <1>2, <2>1, CloseAllIInv DEF ClickClose
<1>3. CASE ClickCloser
  <2>1. InDom \ NoClose \in SUBSET InDom
    OBVIOUS
  <2>. QED
    BY <1>3, <2>1, CloseAllIInv DEF ClickCloser
<1>4. CASE CallClose
  <2>1. InDom \ NoClose \in SUBSET InDom
    OBVIOUS
  <2>. QED
    BY <1>4, <2>1, CloseAllIInv DEF CallClose
<1>5. ASSUME NEW m \in Messages, MouseOver(m)
      PROVE  IInv'
  BY <1>5 DEF MouseOver, IInv, TypeOK, QueueInv, MouseInv, CloseInv, ClosedOnce, InDom
<1>6. CASE MouseOut
  BY <1>6 DEF MouseOut, IInv, TypeOK, QueueInv, MouseInv, CloseInv, ClosedOnce, InDom
<1>7. CASE Shutdown
  <2> USE DEF IInv
  <2>1. \A m \in Messages : /\ fx'[m] \in Seq({"show", "hide"})
                            /\ fx[m] = <<>> => fx'[m] = <<>>
    <3> TAKE m \in Messages
    <3>1. fx[m] \in Seq({"show", "hide"})
      BY DEF TypeOK
    <3>2. fx'[m] = IF fx[m] = <<>> THEN <<>> ELSE <<Head(fx[m])>>
      BY <1>7 DEF Shutdown
    <3>3. fx[m] # <<>> => Head(fx[m]) \in {"show", "hide"}
      BY <3>1
    <3>4. \A x \in {"show", "hide"} : <<x>> \in Seq({"show", "hide"})
      OBVIOUS
    <3>5. <<>> \in Seq({"show", "hide"})
      OBVIOUS
    <3>. QED
      BY <3>2, <3>3, <3>4, <3>5, Zenon
  <2>2. TypeOK'
    <3>1. stage' \in [Messages -> {"new", "queued", "dom", "gone"}]
      BY <1>7 DEF Shutdown, TypeOK
    <3>2. fx' \in [Messages -> Seq({"show", "hide"})]
      BY <1>7, <2>1 DEF Shutdown, TypeOK
    <3>. QED
      BY <1>7, <3>1, <3>2 DEF Shutdown, TypeOK
  <2>3. \A m \in Messages : stage'[m] = IF stage[m] = "dom" THEN "gone" ELSE stage[m]
    BY <1>7 DEF Shutdown, TypeOK
  <2>4. QueueInv'
    <3>1. \A i \in 1..Len(queue) : queue[i] \in Messages
      BY DEF TypeOK
    <3>. QED
      BY <1>7, <2>1, <2>3, <3>1 DEF Shutdown, QueueInv
  <2>5. MouseInv' /\ CloseInv' /\ ClosedOnce'
    BY <1>7, <2>1, <2>3 DEF Shutdown, MouseInv, CloseInv, ClosedOnce, TypeOK
  <2>. QED
    BY <2>2, <2>4, <2>5
<1>. QED
  BY <1>1, <1>2, <1>3, <1>4, <1>5, <1>6, <1>7 DEF Users

-----------------------------------------------------------------------------
(* The interval and the animations *)

(* What the interval renders was queued, and is put into the page or refused. *)
LEMMA RenderQueue ==
    ASSUME IInv, queue # <<>>, Render
    PROVE  /\ Head(queue) \in Messages /\ stage[Head(queue)] = "queued"
           /\ queue' \in Seq(Messages)
           /\ \A i \in 1..Len(queue') : /\ stage[queue'[i]] = "queued"
                                        /\ queue'[i] \in Messages \ {Head(queue)}
           /\ \A i, j \in 1..Len(queue') : queue'[i] = queue'[j] => i = j
<1>1. queue \in Seq(Messages) /\ queue' = Tail(queue)
  BY DEF IInv, TypeOK, Render
<1>2. Len(queue) \in Nat \ {0} /\ Head(queue) = queue[1] /\ 1 \in 1..Len(queue)
  BY <1>1
<1>3. /\ queue' \in Seq(Messages) /\ Len(queue') = Len(queue) - 1
      /\ \A i \in 1..Len(queue') : queue'[i] = queue[i + 1]
  BY <1>1, <1>2
<1>4. \A i \in 1..Len(queue') : i + 1 \in 1..Len(queue) /\ i + 1 # 1
  BY <1>2, <1>3
<1>5. \A i \in 1..Len(queue) : queue[i] \in Messages /\ stage[queue[i]] = "queued"
  BY <1>1 DEF IInv, QueueInv
<1>6. \A i, j \in 1..Len(queue) : queue[i] = queue[j] => i = j
  BY DEF IInv, QueueInv
<1>7. \A i, j \in 1..Len(queue') : queue'[i] = queue'[j] => i = j
  <2> SUFFICES ASSUME NEW i \in 1..Len(queue'), NEW j \in 1..Len(queue'),
                      queue'[i] = queue'[j]
               PROVE  i = j
    OBVIOUS
  <2>1. i + 1 = j + 1
    BY <1>3, <1>4, <1>6
  <2>. QED
    BY <2>1
<1>8. \A i \in 1..Len(queue') : queue'[i] # Head(queue)
  BY <1>2, <1>3, <1>4, <1>6
<1>9. \A i \in 1..Len(queue') : queue'[i] \in Messages /\ stage[queue'[i]] = "queued"
  BY <1>3, <1>4, <1>5
<1>. QED
  BY <1>2, <1>3, <1>5, <1>7, <1>8, <1>9

(* What the interval closes: notifications of the container, not the one the *)
(* mouse is on, and seen unless they are kept.                               *)
LEMMA ExpiredThere ==
    ASSUME IInv
    PROVE  /\ Expired \subseteq InDom /\ mouse \notin Expired
           /\ Expired \ visible \subseteq Keeps
BY JGrowlAssumption DEF IInv, Expired, InDom, MouseInv, CloseInv

LEMMA UpdateIInv ==
    ASSUME IInv, Update
    PROVE  IInv'
<1> DEFINE S == Expired \ NoClose
           F(m) == IF m \in visible' \ visible THEN <<"show">>
                   ELSE IF m \in S \intersect visible THEN Append(fx[m], "hide")
                   ELSE fx[m]
<1> USE JGrowlAssumption
<1>1. /\ S \subseteq InDom /\ mouse \notin S /\ S \ visible \subseteq Keeps
      /\ S \subseteq Messages
  BY ExpiredThere DEF InDom
<1>2. /\ pause' = pause \union S
      /\ fx' = [m \in Messages |-> F(m)]
      /\ closed' = [m \in Messages |-> IF m \in S \ visible THEN 2 ELSE closed[m]]
      /\ life' = life /\ mouse' = mouse /\ alive' = alive /\ alive
  BY DEF Update
<1> HIDE DEF S
<1>3. fx' \in [Messages -> Seq({"show", "hide"})]
  <2>1. \A m \in Messages : F(m) \in Seq({"show", "hide"})
    <3> TAKE m \in Messages
    <3>1. fx[m] \in Seq({"show", "hide"})
      BY DEF IInv, TypeOK
    <3>2. Append(fx[m], "hide") \in Seq({"show", "hide"})
      BY <3>1
    <3>3. <<"show">> \in Seq({"show", "hide"})
      OBVIOUS
    <3>. QED
      BY <3>1, <3>2, <3>3
  <2>. QED
    BY <1>2, <2>1
<1>4. closed' \in [Messages -> 0..2] /\ pause' \subseteq Messages
  BY <1>1, <1>2 DEF IInv, TypeOK
<1>5. closer' \in {"none", "up", "fading"}
  BY DEF Update, CloserAfter, IInv, TypeOK
<1>6. \A m \in Messages \ Keeps : closed'[m] = closed[m]
  BY <1>1, <1>2 DEF IInv, TypeOK
<1>7. CASE queue # <<>> /\ Room
  <2> DEFINE h == Head(queue)
  <2>1. Render
    BY <1>7 DEF Update
  <2>2. /\ h \in Messages /\ stage[h] = "queued" /\ queue' \in Seq(Messages)
        /\ \A i \in 1..Len(queue') : /\ stage[queue'[i]] = "queued"
                                     /\ queue'[i] \in Messages \ {h}
        /\ \A i, j \in 1..Len(queue') : queue'[i] = queue'[j] => i = j
    BY <1>7, <2>1, RenderQueue
  <2>3. /\ stage' = [stage EXCEPT ![h] = IF h \in NoOpen THEN "gone" ELSE "dom"]
        /\ visible' = visible \union ({h} \ NoOpen)
    BY <2>1 DEF Render
  <2> HIDE DEF h
  <2>4. \A m \in Messages \ {h} : stage'[m] = stage[m]
    BY <2>2, <2>3 DEF IInv, TypeOK
  <2>5. stage'[h] = IF h \in NoOpen THEN "gone" ELSE "dom"
    BY <2>2, <2>3 DEF IInv, TypeOK
  <2>6. \A m \in Messages : stage[m] # "dom" /\ m # h => fx'[m] = fx[m]
    BY <1>1, <1>2, <2>3 DEF InDom
  <2>7. h \in NoOpen => fx'[h] = <<>>
    BY <1>1, <1>2, <2>2, <2>3 DEF InDom, IInv, QueueInv
  <2>8. TypeOK'
    <3>1. stage' \in [Messages -> {"new", "queued", "dom", "gone"}]
      BY <2>2, <2>3 DEF IInv, TypeOK
    <3>2. visible' \subseteq Messages
      BY <2>2, <2>3 DEF IInv, TypeOK
    <3>. QED
      BY <1>2, <1>3, <1>4, <1>5, <2>2, <3>1, <3>2 DEF IInv, TypeOK
  <2>9. QueueInv'
    <3>1. \A m \in Messages : stage'[m] \in {"new", "queued"} => fx'[m] = <<>>
      <4> TAKE m \in Messages
      <4>1. CASE m = h
        BY <4>1, <2>5
      <4>2. CASE m # h
        BY <4>2, <2>4, <2>6 DEF IInv, QueueInv
      <4>. QED
        BY <4>1, <4>2
    <3>. QED
      BY <2>2, <2>4, <3>1 DEF QueueInv
  <2>10. MouseInv'
    BY <1>2, <2>2, <2>4 DEF IInv, MouseInv, TypeOK
  <2>11. CloseInv' /\ ClosedOnce'
    <3> SUFFICES ASSUME NEW m \in Messages \ Keeps
                 PROVE  /\ stage'[m] = "dom" => m \in visible'
                        /\ stage'[m] = "gone" /\ fx'[m] # <<>> => closed'[m] = 0
                        /\ stage'[m] # "gone" => closed'[m] = 0
                        /\ closed'[m] <= 1
                        /\ stage'[m] = "gone" /\ alive' /\ m \notin NoOpen => closed'[m] = 1
      BY DEF CloseInv, ClosedOnce
    <3>1. CASE m = h
      BY <1>6, <2>2, <2>3, <2>5, <2>7, <3>1 DEF IInv, ClosedOnce
    <3>2. CASE m # h
      BY <1>2, <1>6, <2>3, <2>4, <2>6, <3>2 DEF IInv, CloseInv, ClosedOnce
    <3>. QED
      BY <3>1, <3>2
  <2>. QED
    BY <2>8, <2>9, <2>10, <2>11 DEF IInv
<1>8. CASE ~(queue # <<>> /\ Room)
  <2>1. UNCHANGED <<queue, stage, visible>>
    BY <1>8 DEF Update
  <2>2. \A m \in Messages : stage[m] # "dom" => fx'[m] = fx[m]
    BY <1>1, <1>2, <2>1 DEF InDom
  <2>3. TypeOK'
    BY <1>2, <1>3, <1>4, <1>5, <2>1 DEF IInv, TypeOK
  <2>4. QueueInv'
    BY <2>1, <2>2 DEF IInv, QueueInv
  <2>5. MouseInv'
    BY <1>2, <2>1 DEF IInv, MouseInv
  <2>6. CloseInv' /\ ClosedOnce'
    BY <1>2, <1>6, <2>1, <2>2 DEF IInv, CloseInv, ClosedOnce
  <2>. QED
    BY <2>3, <2>4, <2>5, <2>6 DEF IInv
<1>. QED
  BY <1>7, <1>8

(* An animation ends: the one that showed a notification, or one that hid it. *)
LEMMA FxOf ==
    ASSUME IInv, NEW m \in Messages, fx[m] # <<>>
    PROVE  Tail(fx[m]) \in Seq({"show", "hide"}) /\ stage[m] \in {"dom", "gone"}
<1>1. fx[m] \in Seq({"show", "hide"})
  BY DEF IInv, TypeOK
<1>2. stage[m] \in {"new", "queued", "dom", "gone"}
  BY DEF IInv, TypeOK
<1>. QED
  BY <1>1, <1>2 DEF IInv, QueueInv

LEMMA OpenedIInv ==
    ASSUME IInv, NEW m \in Messages, Opened(m)
    PROVE  IInv'
<1>1. Tail(fx[m]) \in Seq({"show", "hide"}) /\ fx[m] # <<>> /\ stage[m] \in {"dom", "gone"}
  BY FxOf DEF Opened
<1>2. \A n \in Messages : fx'[n] = IF n = m THEN Tail(fx[m]) ELSE fx[n]
  BY DEF Opened, IInv, TypeOK
<1>3. fx' \in [Messages -> Seq({"show", "hide"})]
  BY <1>1 DEF Opened, IInv, TypeOK
<1>4. life' \in [Messages -> {"none", "running", "over"}]
  BY DEF Opened, IInv, TypeOK
<1>. QED
  BY <1>1, <1>2, <1>3, <1>4
     DEF Opened, IInv, TypeOK, QueueInv, MouseInv, CloseInv, ClosedOnce

LEMMA FadedIInv ==
    ASSUME IInv, NEW m \in Messages, Faded(m)
    PROVE  IInv'
<1>1. fx[m] # <<>> /\ stage[m] \in {"dom", "gone"}
  BY FxOf DEF Faded
<1>2. /\ fx' = [fx EXCEPT ![m] = <<>>] /\ visible' = visible \ {m}
      /\ closed' \in [Messages -> 0..2]
      /\ \A n \in Messages \ {m} : closed'[n] = closed[n] /\ fx'[n] = fx[n]
      /\ fx'[m] = <<>>
      /\ UNCHANGED <<queue, life, closer, alive>>
  BY DEF Faded, IInv, TypeOK
<1>3. fx' \in [Messages -> Seq({"show", "hide"})]
  BY <1>2 DEF IInv, TypeOK
<1>4. CASE m \in Keeps \/ stage[m] = "gone"
  <2>1. UNCHANGED <<stage, pause, mouse>>
    BY <1>4 DEF Faded
  <2>2. TypeOK'
    BY <1>2, <1>3, <2>1 DEF IInv, TypeOK
  <2>3. QueueInv' /\ MouseInv'
    BY <1>2, <2>1 DEF IInv, QueueInv, MouseInv
  <2>4. m \in Messages \ Keeps => /\ stage[m] = "gone" /\ closed[m] = 0 /\ closed'[m] = 1
                                  /\ closed'[m] <= 1
    BY <1>1, <1>4 DEF Faded, IInv, CloseInv, TypeOK
  <2>5. CloseInv' /\ ClosedOnce'
    BY <1>2, <2>1, <2>4 DEF IInv, CloseInv, ClosedOnce
  <2>. QED
    BY <2>2, <2>3, <2>5 DEF IInv
<1>5. CASE ~(m \in Keeps \/ stage[m] = "gone")
  <2>1. /\ stage' = [stage EXCEPT ![m] = "gone"]
        /\ pause' = pause \ {m}
        /\ mouse' = IF mouse = m THEN NoMouse ELSE mouse
    BY <1>5 DEF Faded
  <2>2. \A n \in Messages : stage'[n] = IF n = m THEN "gone" ELSE stage[n]
    BY <2>1 DEF IInv, TypeOK
  <2>3. TypeOK'
    BY <1>2, <1>3, <2>1 DEF IInv, TypeOK
  <2>4. QueueInv'
    <3>1. \A i \in 1..Len(queue) : queue[i] \in Messages /\ queue[i] # m
      <4> TAKE i \in 1..Len(queue)
      <4>1. queue[i] \in Messages
        BY DEF IInv, TypeOK
      <4>2. stage[queue[i]] = "queued"
        BY DEF IInv, QueueInv
      <4>. QED
        BY <1>1, <4>1, <4>2
    <3>. QED
      BY <1>2, <2>2, <3>1 DEF IInv, QueueInv
  <2>5. MouseInv'
    BY <2>1, <2>2 DEF IInv, MouseInv, TypeOK
  <2>6. closed[m] = 0 /\ closed'[m] = 1
    BY <1>5 DEF Faded, IInv, ClosedOnce, TypeOK
  <2>7. CloseInv' /\ ClosedOnce'
    BY <1>2, <2>2, <2>6 DEF IInv, CloseInv, ClosedOnce
  <2>. QED
    BY <2>3, <2>4, <2>5, <2>7 DEF IInv
<1>. QED
  BY <1>4, <1>5

LEMMA TimersIInv ==
    ASSUME IInv, Timers
    PROVE  IInv'
<1>1. ASSUME NEW m \in Messages, LifeEnds(m)
      PROVE  IInv'
  <2>1. life' \in [Messages -> {"none", "running", "over"}]
    BY <1>1 DEF LifeEnds, IInv, TypeOK
  <2>. QED
    BY <1>1, <2>1
       DEF LifeEnds, IInv, TypeOK, QueueInv, MouseInv, CloseInv, ClosedOnce
<1>2. CASE CloserGone
  BY <1>2 DEF CloserGone, IInv, TypeOK, QueueInv, MouseInv, CloseInv, ClosedOnce
<1>. QED
  BY <1>1, <1>2, UpdateIInv, OpenedIInv, FadedIInv DEF Timers

-----------------------------------------------------------------------------
LEMMA NextIInv == IInv /\ [Next]_vars => IInv'
<1>1. ASSUME IInv, UNCHANGED vars
      PROVE  IInv'
  BY <1>1 DEF vars, IInv, TypeOK, QueueInv, MouseInv, CloseInv, ClosedOnce
<1>. QED
  BY <1>1, TimersIInv, UsersIInv DEF Next

(* The invariant is inductive. *)
THEOREM Invariance == Spec => []IInv
BY InitIInv, NextIInv, PTL DEF Spec

(* Every variable of the container keeps its type. *)
THEOREM TypeCorrect == Spec => []TypeOK
<1>1. IInv => TypeOK
  BY DEF IInv
<1>. QED
  BY Invariance, <1>1, PTL

(* The close callback of a notification that does not refuse to go is called *)
(* when it leaves and only then, once, however often it was closed.          *)
THEOREM ClosesOnce == Spec => []ClosedOnce
<1>1. IInv => ClosedOnce
  BY DEF IInv
<1>. QED
  BY Invariance, <1>1, PTL

(* The interval does not touch the notification the mouse is on. *)
THEOREM ReadsInPeace == Spec => ReadInPeace
<1>1. IInv /\ [Next]_vars
        => [Update => \A m \in Messages : m = mouse => fx'[m] = fx[m]]_vars
  <2> SUFFICES ASSUME IInv, Update, NEW m \in Messages, m = mouse
               PROVE  fx'[m] = fx[m]
    OBVIOUS
  <2>1. m \notin Expired /\ stage[m] = "dom"
    BY ExpiredThere, JGrowlAssumption DEF IInv, MouseInv
  <2>2. m \notin visible' \ visible
    <3>1. CASE queue # <<>> /\ Room
      <4>1. Render
        BY <3>1 DEF Update
      <4>2. m # Head(queue)
        BY <2>1, <3>1, <4>1, RenderQueue
      <4>. QED
        BY <4>1, <4>2 DEF Render
    <3>2. CASE ~(queue # <<>> /\ Room)
      BY <3>2 DEF Update
    <3>. QED
      BY <3>1, <3>2
  <2>. QED
    BY <2>1, <2>2 DEF Update
<1>. QED
  BY Invariance, <1>1, PTL DEF Spec, ReadInPeace

-----------------------------------------------------------------------------
(* The notice board *)

LEMMA InitBoard == Init => Board!BoardInit
BY DEF Init, Board!BoardInit, InDom

LEMMA CreatePosts ==
    ASSUME IInv, NEW m \in Messages, Create(m)
    PROVE  Board!Post(m)
BY DEF Create, InDom, IInv, TypeOK, Board!Post

LEMMA UpdatePutsUp ==
    ASSUME IInv, Update
    PROVE  Board!PutUp \/ UNCHANGED Board!board
<1>1. alive /\ alive' = alive
  BY DEF Update
<1>2. CASE queue # <<>> /\ Room
  <2>1. Render
    BY <1>2 DEF Update
  <2>2. Head(queue) \in Messages /\ stage[Head(queue)] = "queued"
    BY <1>2, <2>1, RenderQueue
  <2>3. InDom' \in {InDom, InDom \union {Head(queue)}}
    BY <2>1, <2>2 DEF Render, InDom, IInv, TypeOK
  <2>4. Board!Room
    BY <1>2, Zenon DEF Room, Board!Room, Cardinality, Board!Cardinality
  <2>. QED
    BY <1>1, <1>2, <2>1, <2>3, <2>4 DEF Render, Board!PutUp
<1>3. CASE ~(queue # <<>> /\ Room)
  BY <1>1, <1>3 DEF Update, InDom, Board!board
<1>. QED
  BY <1>2, <1>3

LEMMA FadedTakesDown ==
    ASSUME IInv, NEW m \in Messages, Faded(m)
    PROVE  Board!TakeDown(m) \/ UNCHANGED Board!board
<1>1. stage[m] \in {"dom", "gone"} /\ UNCHANGED <<queue, alive>>
  BY FxOf DEF Faded
<1>2. CASE m \in Keeps \/ stage[m] = "gone"
  BY <1>1, <1>2 DEF Faded, InDom, Board!board
<1>3. CASE ~(m \in Keeps \/ stage[m] = "gone")
  <2>1. stage[m] = "dom" /\ stage' = [stage EXCEPT ![m] = "gone"]
    BY <1>1, <1>3 DEF Faded
  <2>2. m \in InDom /\ InDom' = InDom \ {m}
    BY <2>1 DEF InDom, IInv, TypeOK
  <2>. QED
    BY <1>1, <2>2 DEF Board!TakeDown
<1>. QED
  BY <1>2, <1>3

LEMMA ShutdownCloses ==
    ASSUME IInv, Shutdown
    PROVE  Board!Close
<1>1. InDom' = {}
  BY DEF Shutdown, InDom, IInv, TypeOK
<1>. QED
  BY <1>1 DEF Shutdown, Board!Close

LEMMA StepBoard == IInv /\ [Next]_vars => [Board!BoardNext]_(Board!board)
<1> SUFFICES ASSUME IInv, [Next]_vars
             PROVE  Board!BoardNext \/ UNCHANGED Board!board
  OBVIOUS
<1>1. CASE UNCHANGED vars
  BY <1>1 DEF vars, InDom, Board!board
<1>2. CASE Update
  BY <1>2, UpdatePutsUp DEF Board!BoardNext
<1>3. CASE Shutdown
  BY <1>3, ShutdownCloses DEF Board!BoardNext
<1>4. ASSUME NEW m \in Messages, Create(m)
      PROVE  Board!BoardNext
  BY <1>4, CreatePosts DEF Board!BoardNext
<1>5. ASSUME NEW m \in Messages, Faded(m)
      PROVE  Board!BoardNext \/ UNCHANGED Board!board
  BY <1>5, FadedTakesDown DEF Board!BoardNext
<1>6. ASSUME NEW m \in Messages,
             Opened(m) \/ LifeEnds(m) \/ ClickClose(m) \/ MouseOver(m)
      PROVE  UNCHANGED Board!board
  BY <1>6 DEF Opened, LifeEnds, ClickClose, MouseOver, InDom, Board!board
<1>7. CASE CloserGone \/ ClickCloser \/ CallClose \/ MouseOut
  BY <1>7 DEF CloserGone, ClickCloser, CallClose, MouseOut, InDom, Board!board
<1>. QED
  BY <1>1, <1>2, <1>3, <1>4, <1>5, <1>6, <1>7 DEF Next, Timers, Users

(* The container, its animations, its mouse and its callbacks included, *)
(* implements the notice board.                                         *)
THEOREM Refinement == Spec => ImplementsNoticeBoard
BY Invariance, InitBoard, StepBoard, PTL
   DEF Spec, ImplementsNoticeBoard, Board!BoardSpec
=============================================================================
