------------------------------ MODULE ChartTip ------------------------------
(***************************************************************************)
(* The tooltip of the line charts (custom/dashboard.js, and the same code  *)
(* in custom/charts.js). Flot, which is external, reports each movement of *)
(* the pointer with the point it is near, if any.                          *)
(***************************************************************************)
EXTENDS Integers, FiniteSets

CONSTANTS
    Series,    \* the lines of the chart
    Indices,   \* the positions of their points
    Nothing    \* no point, no tooltip

ChartTipAssumption == Nothing \notin Series \X Indices /\ Nothing \notin Indices

VARIABLES
    near,           \* the point the pointer is near, or Nothing
    previousPoint,  \* the position remembered
    tips,           \* the points of the tooltips on the page
    clicked         \* the point clicked last

vars == <<near, previousPoint, tips, clicked>>

Points == Series \X Indices

TypeOK ==
    /\ near \in Points \union {Nothing}
    /\ previousPoint \in Indices \union {Nothing}
    /\ tips \subseteq Points
    /\ clicked \in Points \union {Nothing}

Init == near = Nothing /\ previousPoint = Nothing /\ tips = {} /\ clicked = Nothing

\* The pointer is near a point. A point at the position remembered is taken
\* for the one whose tooltip is there.
Hover(point) ==
    /\ near' = point
    /\ IF point[2] = previousPoint
       THEN UNCHANGED <<previousPoint, tips>>
       ELSE /\ previousPoint' = point[2]
            /\ tips' = {point}
    /\ UNCHANGED clicked

\* Mutant: the position is not forgotten.
LeaveRemembering ==
    /\ near' = Nothing
    /\ tips' = {}
    /\ UNCHANGED <<previousPoint, clicked>>

\* It is near none.
Leave ==
    /\ near' = Nothing
    /\ previousPoint' = Nothing /\ tips' = {}
    /\ UNCHANGED clicked

ClickPoint ==
    /\ near # Nothing
    /\ clicked' = near
    /\ UNCHANGED <<near, previousPoint, tips>>

Next ==
    \/ \E point \in Points : Hover(point)
    \/ Leave
    \/ ClickPoint

Spec == Init /\ [][Next]_vars

-----------------------------------------------------------------------------
\* While the pointer is near a point there is one tooltip, of a point at this
\* position, and otherwise there is none.
TipFollowsPointer ==
    IF near = Nothing THEN tips = {}
    ELSE \E s \in Series : tips = {<<s, near[2]>>}
=============================================================================
