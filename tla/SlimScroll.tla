------------------------------ MODULE SlimScroll ------------------------------
(***************************************************************************)
(* jquery.slimscroll.js: a panel with a bar and a rail of its own. The     *)
(* wheel moves the bar and the bar moves the content; the bar begins to    *)
(* fade a second after the mouse has left the panel or the rail, unless    *)
(* the mouse is on it or drags it then. Lengths are pixels.                *)
(***************************************************************************)
EXTENDS Integers

CONSTANTS
    Panel,      \* me.outerHeight()
    MinBar,     \* minBarHeight: 30
    WheelStep,  \* wheelStep: 30
    Contents,   \* the heights the content can have
    Changes,    \* how it can change: a subset of {"grow", "shrink"}
    Places,     \* where the bar can be dragged to
    PageTops,   \* how far the page itself may be scrolled
    MaxOrphans  \* bound: timers that run and cannot be cleared any more

SlimScrollAssumption ==
    /\ Panel \in Nat \ {0} /\ MinBar \in 1 .. Panel /\ WheelStep \in Nat \ {0}
    /\ Contents \subseteq Nat /\ \A c \in Contents : c >= Panel
    /\ Changes \subseteq {"grow", "shrink"} /\ Places \subseteq Nat
    /\ PageTops \subseteq Nat /\ MaxOrphans \in Nat

VARIABLES
    content,   \* scrollHeight: never less than the panel
    height,    \* of the bar, as it was last computed
    top,       \* of the bar
    scroll,    \* scrollTop of the panel
    visible,   \* is the bar on the page, if only fading?
    fading,    \* is a fadeOut the last animation asked for, and not yet over?
    mouse,     \* "out", "panel", "rail" or "bar"
    exit,      \* what it left for "out"
    dragging,  \* isDragg
    queued,    \* is the timer queueHide names still to come?
    orphans    \* timers to come that queueHide no longer names

place == <<height, top, scroll>>
timers == <<queued, orphans>>
vars == <<content, place, visible, fading, mouse, exit, dragging, timers>>

\* getBarHeight. The height of an element is a whole number.
BarHeight(c) ==
    LET h == (Panel * Panel) \div c IN IF h < MinBar THEN MinBar ELSE h

TypeOK ==
    /\ content \in Contents /\ scroll \in 0 .. content
    /\ height \in MinBar .. Panel /\ top \in 0 .. Panel
    /\ visible \in BOOLEAN /\ fading \in BOOLEAN /\ (fading => visible)
    /\ dragging \in BOOLEAN /\ queued \in BOOLEAN
    /\ mouse \in {"out", "panel", "rail", "bar"} /\ exit \in {"panel", "rail", "bar"}
    /\ orphans \in 0 .. MaxOrphans

Init ==
    /\ content \in Contents
    /\ height = BarHeight(content) /\ top = 0 /\ scroll = 0
    /\ visible = FALSE /\ fading = FALSE /\ mouse = "out" /\ exit = "panel"
    /\ dragging = FALSE /\ queued = FALSE /\ orphans = 0
-----------------------------------------------------------------------------
\* showBar: the height of the bar for the content as it is now; only the last
\* timer is cleared; shown only when there is something to scroll. Its fadeIn
\* waits for a fadeOut that goes on, and takes the bar back at once.
ShowBar ==
    /\ height' = BarHeight(content)
    /\ visible' = (visible \/ height' < Panel)
    /\ fading' = (fading /\ ~(height' < Panel))

\* hideBar: one more timer, named queueHide from now on.
HideBar ==
    /\ orphans + (IF queued THEN 1 ELSE 0) <= MaxOrphans
    /\ orphans' = orphans + (IF queued THEN 1 ELSE 0)
    /\ queued' = TRUE

\* Where jQuery says the bar is in the panel. A bar that is not displayed has no
\* place, and what comes out is how far the page is scrolled.
Position(t, page) == IF visible THEN t ELSE page

\* How far the content is scrolled with the bar, as high as it is, at t.
ScrollFor(t) ==
    LET far == (t * (content - Panel)) \div (Panel - height)
    IN  IF height = Panel THEN 0 ELSE IF far > content - Panel THEN content - Panel ELSE far

\* The bar is dragged to t, within the panel. The plugin is told before the bar
\* is there: it scrolls to where the bar was.
Drag(t, page) ==
    /\ dragging /\ t <= Panel - height
    /\ top' = t /\ scroll' = ScrollFor(Position(top, page))
    /\ ShowBar /\ queued' = FALSE
    /\ UNCHANGED <<content, mouse, exit, dragging, orphans>>

DragStart ==
    /\ mouse = "bar" /\ visible /\ ~dragging
    /\ dragging' = TRUE
    /\ UNCHANGED <<content, place, visible, fading, mouse, exit, timers>>

DragStop ==
    /\ dragging /\ dragging' = FALSE
    /\ HideBar
    /\ UNCHANGED <<content, place, visible, fading, mouse, exit>>

\* The wheel, while the mouse is over the panel: y steps down (or up) from where
\* the bar is said to be, limited to the panel. Then the content follows, to
\* where the bar is said to be.
Wheel(y, page) ==
    /\ mouse = "panel"
    /\ LET to == Position(top, page) + y * WheelStep
       IN  top' = IF to < 0 THEN 0 ELSE IF to > Panel - height THEN Panel - height ELSE to
    /\ scroll' = ScrollFor(Position(top', page))
    /\ ShowBar /\ queued' = FALSE
    /\ UNCHANGED <<content, mouse, exit, dragging, orphans>>

\* The mouse goes to m. Panel: leaving it starts a timer, entering it clears one
\* and starts one. Rail: leaving it starts a timer, entering it clears one. Bar:
\* only noted, also while it fades; a bar that is gone is noted until the mouse
\* moves. One timer at most is left that queueHide names.
Move(m) ==
    LET left == mouse \in {"panel", "rail"}
        orphaned == IF queued /\ left THEN 1 ELSE 0
    IN  /\ m # mouse /\ mouse' = m
        /\ m = "bar" => visible
        /\ exit' = IF m = "out" THEN mouse ELSE exit
        /\ orphans + orphaned <= MaxOrphans /\ orphans' = orphans + orphaned
        /\ IF m \in {"panel", "rail"}
           THEN ShowBar /\ queued' = (m = "panel")
           ELSE UNCHANGED <<height, visible, fading>> /\ queued' = (queued \/ left)
        /\ UNCHANGED <<content, top, scroll, dragging>>

\* Mutant: does not look what the mouse does.
HideAnyway == fading' = visible /\ UNCHANGED visible

\* What a timer does after its second: a fadeOut, unless the mouse is on the bar
\* or drags it.
Hide == fading' = (fading \/ (visible /\ mouse # "bar" /\ ~dragging)) /\ UNCHANGED visible

TimerOfQueue ==
    /\ queued /\ queued' = FALSE /\ Hide
    /\ UNCHANGED <<content, place, mouse, exit, dragging, orphans>>

TimerOfOrphan ==
    /\ orphans > 0 /\ orphans' = orphans - 1 /\ Hide
    /\ UNCHANGED <<content, place, mouse, exit, dragging, queued>>

\* The fadeOut is over, wherever the mouse is by now and whatever it does.
Faded ==
    /\ fading /\ fading' = FALSE /\ visible' = FALSE
    /\ UNCHANGED <<content, place, mouse, exit, dragging, timers>>

\* The content changes. The bar is not told, and the browser keeps scrollTop in
\* the content.
Change(c) ==
    /\ c # content
    /\ c > content => "grow" \in Changes
    /\ c < content => "shrink" \in Changes
    /\ content' = c
    /\ scroll' = IF scroll > c - Panel THEN c - Panel ELSE scroll
    /\ UNCHANGED <<height, top, visible, fading, mouse, exit, dragging, timers>>

Next ==
    \/ \E page \in PageTops :
          (\E t \in Places : Drag(t, page)) \/ (\E y \in {-1, 1} : Wheel(y, page))
    \/ DragStart \/ DragStop
    \/ \E m \in {"out", "panel", "rail", "bar"} : Move(m)
    \/ TimerOfQueue \/ TimerOfOrphan \/ Faded
    \/ \E c \in Contents : Change(c)

Spec == Init /\ [][Next]_vars

\* Timers fire, animations end, and a drag does: somebody lets go of the mouse.
Fairness ==
    WF_vars(TimerOfQueue) /\ WF_vars(TimerOfOrphan) /\ WF_vars(Faded) /\ SF_vars(DragStop)

FairSpec == Spec /\ Fairness
-----------------------------------------------------------------------------
\* "move bar, make sure it doesn't go out": the bar is inside the panel.
BarInPanel == top + height <= Panel

\* The mouse is on the bar or drags it.
InUse == mouse = "bar" \/ dragging

\* Whatever timers are left over, none makes a bar go that is in use: one that
\* goes began to fade before the mouse came.
BarInUseStays == [][InUse /\ visible /\ ~fading => visible' /\ ~fading']_vars

\* No bar is forgotten, whichever timers were cleared: once the mouse has left it
\* for good it fades, or a timer is to come that makes it fade.
HideIsDue ==
    visible /\ mouse = "out" /\ exit # "bar" /\ ~dragging => queued \/ orphans > 0 \/ fading

\* The content is where the bar is.
InStep == scroll = ScrollFor(top)

\* While the content keeps its height, only a drag, or the wheel over a panel
\* whose bar is hidden, parts the bar from the content, and the wheel brings
\* them together when the bar can be seen.
KeepsInStep ==
    LET wheel == \E y \in {-1, 1}, page \in PageTops : Wheel(y, page)
        drag == \E t \in Places, page \in PageTops : Drag(t, page)
    IN  /\ InStep /\ ~InStep' => drag \/ (wheel /\ ~visible)
        /\ wheel /\ visible => InStep'

\* A bar the mouse has left by the panel or the rail goes, also when timers were
\* cleared and started again in between, and when a drag ended elsewhere.
BarGoes == <>[](mouse = "out" /\ exit # "bar") => <>[]~visible
=============================================================================
