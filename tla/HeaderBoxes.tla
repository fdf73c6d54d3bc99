----------------------------- MODULE HeaderBoxes -----------------------------
(***************************************************************************)
(* custom/general.js: the drop down with the user's data and the box with  *)
(* the notifications, which a click on the bell fetches from the server.   *)
(***************************************************************************)
EXTENDS Integers, Sequences, FiniteSets

CONSTANTS
    MaxPosts,  \* bound: clicks on the bell that ask the server
    Patient,   \* do clicks on the header wait for the server?
    BellShuts  \* is the bell used to put the box away?

HeaderAssumption ==
    MaxPosts \in Nat /\ Patient \in BOOLEAN /\ BellShuts \in BOOLEAN

VARIABLES
    drop,      \* is .userinfodrop visible?
    active,    \* has .userinfo the class active?
    boxes,     \* the .noticontent elements, in the order of the page
    posts,     \* how often the server was asked
    pending    \* how many replies are to come

vars == <<drop, active, boxes, posts, pending>>

Tabs == {"messages", "activities"}

\* A box: can it be seen, which tab is marked, which list is visible.
Box == [seen : BOOLEAN, tab : Tabs \union {"none"}, list : SUBSET Tabs]

NewBox == [seen |-> TRUE, tab |-> "messages", list |-> {"messages"}]

\* What a click that reaches the document can be on: the drop down or its
\* .userdata ("userinfodrop"), another element in it ("theme"), a box
\* ("noticontent") or an element in it ("inside"), or anything else.
Targets == {"outside", "userinfodrop", "theme", "noticontent", "inside"}

TypeOK ==
    /\ drop \in BOOLEAN /\ active \in BOOLEAN
    /\ boxes \in Seq(Box)
    /\ pending \in 0 .. posts /\ Len(boxes) + pending <= posts

Init ==
    /\ drop = FALSE /\ active = FALSE
    /\ boxes = <<>> /\ posts = 0 /\ pending = 0
-----------------------------------------------------------------------------
Seen == \E i \in DOMAIN boxes : boxes[i].seen

SeenCount == Cardinality({i \in DOMAIN boxes : boxes[i].seen})

\* Mutant: the boxes stay.
UserInfoKeepsBoxes ==
    /\ Patient => pending = 0
    /\ drop' = ~active /\ active' = ~active
    /\ UNCHANGED <<boxes, posts, pending>>

\* A click on .userinfo: its class says whether to show or to hide.
UserInfo ==
    /\ Patient => pending = 0
    /\ drop' = ~active /\ active' = ~active
    /\ boxes' = <<>>
    /\ UNCHANGED <<posts, pending>>

\* A click on the bell: asks the server while no box can be seen, and hides,
\* without removing them, the ones that can.
Bell ==
    /\ Patient => pending = 0
    /\ IF ~Seen
       THEN /\ posts < MaxPosts
            /\ posts' = posts + 1 /\ pending' = pending + 1
            /\ drop' = FALSE /\ active' = FALSE
            /\ UNCHANGED boxes
       ELSE /\ BellShuts
            /\ boxes' = [i \in DOMAIN boxes |-> [boxes[i] EXCEPT !.seen = FALSE]]
            /\ UNCHANGED <<drop, active, posts, pending>>

\* The reply: one more box, whatever is open by now.
Reply ==
    /\ pending > 0 /\ pending' = pending - 1
    /\ boxes' = Append(boxes, NewBox)
    /\ UNCHANGED <<drop, active, posts>>

\* The click handler of the document.
Document(target) ==
    /\ target \in {"noticontent", "inside"} => Seen
    /\ target \in {"userinfodrop", "theme"} => drop
    /\ LET shut == drop /\ target # "userinfodrop"
       IN  /\ drop' = (drop /\ ~shut)
           /\ active' = (active /\ ~shut)
    /\ boxes' = IF target # "noticontent" /\ Seen THEN <<>> ELSE boxes
    /\ UNCHANGED <<posts, pending>>

\* A click on a tab of box i: the marks of all boxes go, and the id of a list
\* finds the one of the first box in the page.
Tab(i, t) ==
    /\ boxes[i].seen
    /\ boxes' =
         [j \in DOMAIN boxes |->
            [boxes[j] EXCEPT
               !.tab = IF j = i THEN t ELSE "none",
               !.list = IF j = 1 THEN {t} ELSE @]]
    /\ UNCHANGED <<drop, active, posts, pending>>

Next ==
    \/ UserInfo \/ Bell \/ Reply
    \/ \E target \in Targets : Document(target)
    \/ \E i \in DOMAIN boxes, t \in Tabs : Tab(i, t)

Spec == Init /\ [][Next]_vars
-----------------------------------------------------------------------------
\* .userinfo is marked exactly while its drop down can be seen: three handlers
\* change the two, and a click acts on the mark.
DropIsMarked == drop = active

\* For a user who waits for the server: one box at most can be seen, and never
\* together with the drop down.
OneBoxAtATime == SeenCount + (IF drop THEN 1 ELSE 0) <= 1

\* For a user who waits and shuts the box from outside: the tab that is marked
\* is the list that is shown.
TabShowsItsList ==
    \A i \in DOMAIN boxes : boxes[i].seen => boxes[i].list = {boxes[i].tab}
=============================================================================
