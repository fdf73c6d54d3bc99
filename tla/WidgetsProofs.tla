---------------------------- MODULE WidgetsProofs ----------------------------
(***************************************************************************)
(* Proofs about Widgets, for any notices, dialogs, panels, pickers, charts *)
(* and style sheets. Each plugin has an inductive invariant of its own; a  *)
(* step of a page is a step or a stutter of every plugin.                  *)
(***************************************************************************)
EXTENDS Widgets, JGrowlProofs, FiniteSetTheorems, SequenceTheorems, WellFoundedInduction

-----------------------------------------------------------------------------
(* The scroll bar *)

\* The bar may be higher than the content asks for, never lower: it was computed
\* for a content that has only grown since.
ScrollInv ==
    /\ Growing!TypeOK /\ Growing!BarInPanel /\ Growing!HideIsDue
    /\ Growing!BarHeight(content) <= height

\* In a panel whose content stays as it is the height is up to date.
FixedInv == height = Growing!BarHeight(content)

LEMMA Division ==
    ASSUME NEW n \in Nat, NEW d \in Nat \ {0}
    PROVE  /\ n \div d \in Int /\ d * (n \div d) \in Int
           /\ d * (n \div d) <= n /\ n < d * (n \div d) + d
OBVIOUS

(* A share of a product is not more than the factor it is a share of. *)
LEMMA ShareOf ==
    ASSUME NEW n \in Nat, NEW d \in Nat \ {0}, NEW b \in Nat, n <= d * b
    PROVE  n \div d \in Nat /\ n \div d <= b
<1> DEFINE q == n \div d
<1>1. q \in Int /\ d * q <= n /\ n < d * q + d
  BY Division
<1>2. q >= 0
  <2>1. CASE q <= -1
    <3>1. d * (q + 1) <= 0
      BY <1>1, <2>1
    <3>. QED
      BY <1>1, <3>1
  <2>. QED
    BY <1>1, <2>1
<1>3. q <= b
  <2>1. CASE q >= b + 1
    <3>1. d * (b + 1) <= d * q
      BY <1>1, <2>1
    <3>2. d * (b + 1) = d * b + d /\ d * b \in Int /\ d * q \in Int
      BY <1>1
    <3>. QED
      BY <1>1, <3>1, <3>2
  <2>. QED
    BY <1>1, <2>1
<1>. QED
  BY <1>1, <1>2, <1>3

(* The height of the bar: in the panel, and lower for more content. *)
LEMMA HeightOfBar ==
    ASSUME NEW c \in Contents
    PROVE  /\ Growing!BarHeight(c) \in MinBar..Panel
           /\ \A d \in Contents : d >= c => Growing!BarHeight(d) <= Growing!BarHeight(c)
<1> DEFINE area == Panel * Panel
           share(e) == area \div e
<1>1. Panel \in Nat \ {0} /\ MinBar \in 1..Panel /\ \A e \in Contents : e \in Nat /\ e >= Panel
  BY PanelAssumption DEF Growing!SlimScrollAssumption
<1>2. area \in Nat
  BY <1>1
<1>3. ASSUME NEW e \in Contents
      PROVE  share(e) \in Nat /\ share(e) <= Panel
  <2>1. area <= e * Panel
    BY <1>1
  <2>. QED
    BY <1>1, <1>2, <2>1, ShareOf
<1>4. ASSUME NEW d \in Contents, d >= c
      PROVE  share(d) <= share(c)
  <2>0. c \in Nat \ {0} /\ d \in Nat \ {0}
    BY <1>1
  <2>1. share(c) \in Int /\ area < c * share(c) + c
    BY <1>2, <2>0, Division
  <2>2. share(c) \in Nat /\ share(d) \in Nat
    BY <1>3
  <2>3. d * share(d) <= area
    BY <1>2, <2>0, Division
  <2> HIDE DEF area, share
  <2>4. c * share(d) <= d * share(d)
    BY <1>1, <1>4, <2>2
  <2>5. c * share(d) < c * (share(c) + 1)
    <3>1. c * share(d) \in Int /\ d * share(d) \in Int /\ c * (share(c) + 1) = c * share(c) + c
          /\ c * share(c) \in Int /\ area \in Int
      BY <1>2, <2>0, <2>2
    <3>. QED
      BY <2>0, <2>1, <2>3, <2>4, <3>1
  <2>6. share(d) < share(c) + 1
    BY <1>1, <2>2, <2>5
  <2>. QED
    BY <2>2, <2>6
<1>5. \A e \in Contents : Growing!BarHeight(e) = IF share(e) < MinBar THEN MinBar ELSE share(e)
  BY DEF Growing!BarHeight
<1> HIDE DEF share
<1>. QED
  BY <1>1, <1>3, <1>4, <1>5

LEMMA HeightLater == Growing!BarHeight(content)' = Growing!BarHeight(content')
BY DEF Growing!BarHeight

LEMMA ScrollInit == Growing!Init => ScrollInv /\ FixedInv
<1> SUFFICES ASSUME Growing!Init
             PROVE  ScrollInv /\ FixedInv
  OBVIOUS
<1>1. /\ Panel \in Nat \ {0} /\ MinBar \in 1..Panel /\ MaxOrphans \in Nat
      /\ content \in Nat /\ content >= Panel
  BY PanelAssumption DEF Growing!Init, Growing!SlimScrollAssumption
<1>2. height = Growing!BarHeight(content) /\ height \in MinBar..Panel
  BY HeightOfBar DEF Growing!Init
<1>3. Growing!BarInPanel /\ Growing!HideIsDue
  BY <1>1, <1>2 DEF Growing!Init, Growing!BarInPanel, Growing!HideIsDue
<1>4. Growing!TypeOK
  <2>1. 0 \in 0..content /\ 0 \in 0..Panel /\ 0 \in 0..MaxOrphans
    BY <1>1
  <2>. QED
    BY <1>2, <2>1 DEF Growing!Init, Growing!TypeOK
<1>. QED
  BY <1>2, <1>3, <1>4 DEF ScrollInv, FixedInv

(* showBar: the bar is not higher than it was. *)
LEMMA ShowBarLowers ==
    ASSUME ScrollInv, Growing!ShowBar
    PROVE  /\ height' = Growing!BarHeight(content) /\ height' \in MinBar..Panel
           /\ height' <= height /\ (barVisible' <=> barVisible \/ height' < Panel)
           /\ (barFading' <=> barFading /\ ~(height' < Panel))
           /\ barVisible' \in BOOLEAN /\ barFading' \in BOOLEAN /\ (barFading' => barVisible')
BY HeightOfBar DEF ScrollInv, Growing!ShowBar, Growing!TypeOK

(* The content is scrolled within its height. *)
LEMMA ScrollInContent ==
    ASSUME ScrollInv, NEW t \in Nat
    PROVE  Growing!ScrollFor(t) \in 0..content
<1>1. /\ Panel \in Nat \ {0} /\ height \in 1..Panel /\ content \in Nat /\ content >= Panel
  BY PanelAssumption DEF ScrollInv, Growing!TypeOK, Growing!SlimScrollAssumption
<1>2. CASE height = Panel
  BY <1>1, <1>2 DEF Growing!ScrollFor
<1>3. CASE height # Panel
  <2> DEFINE n == t * (content - Panel)
             d == Panel - height
  <2>1. d \in Nat \ {0} /\ n \in Nat
    BY <1>1, <1>3
  <2>2. n \div d \in Nat
    <3>1. n <= d * n
      BY <2>1
    <3>. QED
      BY <2>1, <3>1, ShareOf
  <2>3. Growing!ScrollFor(t) =
           IF n \div d > content - Panel THEN content - Panel ELSE n \div d
    BY <1>3 DEF Growing!ScrollFor
  <2> HIDE DEF n, d
  <2>. QED
    BY <1>1, <2>2, <2>3
<1>. QED
  BY <1>2, <1>3

(* A scroll by the wheel or a drag, to a place of the bar in the panel. *)
LEMMA ScrollKeeps ==
    ASSUME ScrollInv, NEW t \in Nat, t <= Panel - height, barTop' = t,
           NEW from \in Nat, scroll' = Growing!ScrollFor(from), Growing!ShowBar,
           dragging \/ pointer = "panel", queued' = FALSE,
           UNCHANGED <<content, pointer, exit, dragging, orphans>>
    PROVE  ScrollInv' /\ (FixedInv => FixedInv')
<1>1. Panel \in Nat \ {0} /\ MinBar \in 1..Panel /\ content \in Nat /\ content >= Panel
  BY PanelAssumption DEF ScrollInv, Growing!TypeOK, Growing!SlimScrollAssumption
<1>2. /\ height' = Growing!BarHeight(content) /\ height' \in MinBar..Panel
      /\ height' <= height /\ height \in MinBar..Panel
      /\ barVisible' \in BOOLEAN /\ barFading' \in BOOLEAN /\ (barFading' => barVisible')
  BY ShowBarLowers DEF ScrollInv, Growing!TypeOK
<1>3. scroll' \in 0..content /\ barTop' \in 0..Panel
  BY <1>1, <1>2, ScrollInContent
<1>4. Growing!TypeOK'
  BY <1>2, <1>3 DEF ScrollInv, Growing!TypeOK
<1>5. Growing!BarInPanel' /\ Growing!HideIsDue'
  BY <1>1, <1>2 DEF Growing!BarInPanel, Growing!HideIsDue
<1>6. (Growing!BarHeight(content) <= height)' /\ FixedInv'
  BY <1>2, HeightLater DEF FixedInv
<1>. QED
  BY <1>4, <1>5, <1>6 DEF ScrollInv

(* jQuery's place of a bar is one, be it that of the page. *)
LEMMA PositionOf ==
    ASSUME ScrollInv, NEW above \in PageTops, NEW t \in Nat
    PROVE  Growing!Position(t, above) \in Nat
BY PanelAssumption DEF Growing!SlimScrollAssumption, Growing!Position

LEMMA ScrollNext ==
    ASSUME ScrollInv, [Growing!Next]_panel
    PROVE  ScrollInv' /\ (FixedInv /\ content' = content => FixedInv')
<1> USE DEF ScrollInv, Growing!TypeOK, Growing!BarInPanel
<1>1. /\ Panel \in Nat \ {0} /\ MinBar \in 1..Panel /\ WheelStep \in Nat \ {0}
      /\ Places \subseteq Nat /\ MaxOrphans \in Nat
      /\ \A c \in Contents : c \in Nat /\ c >= Panel
  BY PanelAssumption DEF Growing!SlimScrollAssumption
<1>2. ASSUME NEW t \in Places, NEW above \in PageTops, Growing!Drag(t, above)
      PROVE  ScrollInv' /\ (FixedInv => FixedInv')
  <2>1. t \in Nat /\ Growing!Position(barTop, above) \in Nat
    <3>1. barTop \in Nat
      BY <1>1
    <3>. QED
      BY <1>1, <3>1, PositionOf
  <2>. QED
    BY <1>2, <2>1, ScrollKeeps DEF Growing!Drag
<1>3. ASSUME NEW y \in {-1, 1}, NEW above \in PageTops, Growing!Wheel(y, above)
      PROVE  ScrollInv' /\ (FixedInv => FixedInv')
  <2> DEFINE to == Growing!Position(barTop, above) + y * WheelStep
             t == IF to < 0 THEN 0 ELSE IF to > Panel - height THEN Panel - height ELSE to
  <2>1. to \in Int
    <3>1. barTop \in Nat
      BY <1>1
    <3>2. Growing!Position(barTop, above) \in Nat /\ y * WheelStep \in Int
      BY <1>1, <3>1, PositionOf
    <3>. QED
      BY <3>2
  <2>2. barTop' = t
    BY <1>3 DEF Growing!Wheel
  <2> HIDE DEF to
  <2>3. t \in Nat /\ t <= Panel - height
    BY <1>1, <2>1
  <2> HIDE DEF t
  <2>4. Growing!Position(barTop', above) \in Nat
    BY <2>2, <2>3, PositionOf
  <2>. QED
    BY <1>3, <2>2, <2>3, <2>4, ScrollKeeps DEF Growing!Wheel
<1>4. ASSUME NEW m \in {"out", "panel", "rail", "bar"}, Growing!Move(m)
      PROVE  ScrollInv' /\ (FixedInv => FixedInv')
  <2>1. pointer' = m /\ m # pointer /\ UNCHANGED <<content, barTop, scroll, dragging>>
    BY <1>4 DEF Growing!Move
  <2>2. exit' \in {"panel", "rail", "bar"} /\ queued' \in BOOLEAN
    BY <1>4 DEF Growing!Move
  <2>3. orphans' \in 0..MaxOrphans
    BY <1>1, <1>4 DEF Growing!Move
  <2>4. Growing!HideIsDue'
    BY <1>4, <2>1 DEF Growing!Move, Growing!HideIsDue
  <2>5. CASE m \in {"panel", "rail"}
    <3>1. Growing!ShowBar
      BY <1>4, <2>5 DEF Growing!Move
    <3>2. /\ height' = Growing!BarHeight(content) /\ height' \in MinBar..Panel
          /\ height' <= height
          /\ barVisible' \in BOOLEAN /\ barFading' \in BOOLEAN /\ (barFading' => barVisible')
      BY <3>1, ShowBarLowers
    <3>3. ScrollInv'
      BY <1>1, <2>1, <2>2, <2>3, <2>4, <2>5, <3>2, HeightLater
    <3>. QED
      BY <2>1, <3>2, <3>3, HeightLater DEF FixedInv
  <2>6. CASE m \notin {"panel", "rail"}
    <3>1. UNCHANGED <<height, barVisible, barFading>>
      BY <1>4, <2>6 DEF Growing!Move
    <3>. QED
      BY <2>1, <2>2, <2>3, <2>4, <3>1, HeightLater DEF FixedInv
  <2>. QED
    BY <2>5, <2>6
<1>5. ASSUME \/ Growing!DragStart \/ Growing!DragStop \/ Growing!TimerOfQueue
             \/ Growing!TimerOfOrphan \/ Growing!Faded
      PROVE  ScrollInv' /\ (FixedInv => FixedInv')
  <2> USE DEF Growing!DragStart, Growing!DragStop, Growing!TimerOfQueue,
              Growing!TimerOfOrphan, Growing!Faded, Growing!place, Growing!timers
  <2>1. UNCHANGED <<content, height, barTop, scroll, pointer, exit>>
    BY <1>5
  <2>2. queued' \in BOOLEAN /\ dragging' \in BOOLEAN
    BY <1>5 DEF Growing!HideBar
  <2>3. orphans' \in 0..MaxOrphans
    <3>1. CASE Growing!DragStop
      BY <1>1, <3>1 DEF Growing!HideBar
    <3>2. CASE Growing!DragStart \/ Growing!Faded
      BY <3>2
    <3>3. CASE Growing!TimerOfQueue \/ Growing!TimerOfOrphan
      BY <1>1, <3>3
    <3>. QED
      BY <1>5, <3>1, <3>2, <3>3
  <2>4. barVisible' \in BOOLEAN /\ barFading' \in BOOLEAN /\ (barFading' => barVisible')
    <3>1. barVisible \in BOOLEAN /\ barFading \in BOOLEAN /\ (barFading => barVisible)
      OBVIOUS
    <3>2. CASE Growing!DragStart \/ Growing!DragStop
      <4>1. barVisible' = barVisible /\ barFading' = barFading
        BY <3>2
      <4>. QED
        BY <3>1, <4>1
    <3>3. CASE Growing!TimerOfQueue \/ Growing!TimerOfOrphan
      <4>1. Growing!Hide
        BY <3>3
      <4>. QED
        BY <3>1, <4>1, Zenon DEF Growing!Hide
    <3>4. CASE Growing!Faded
      BY <3>4
    <3>. QED
      BY <1>5, <3>2, <3>3, <3>4
  <2>5. Growing!HideIsDue'
    BY <1>5 DEF Growing!Hide, Growing!HideBar, Growing!HideIsDue
  <2>. QED
    BY <2>1, <2>2, <2>3, <2>4, <2>5, HeightLater DEF FixedInv
<1>6. ASSUME NEW c \in Contents, Growing!Change(c)
      PROVE  ScrollInv' /\ content' # content
  <2>1. /\ content' = c /\ c > content
        /\ UNCHANGED <<height, barTop, barVisible, barFading, pointer, exit, dragging, queued,
                       orphans>>
    BY <1>1, <1>6, NoShrinking DEF Growing!Change, Growing!timers
  <2>2. Growing!BarHeight(c) <= Growing!BarHeight(content)
    BY <1>1, <2>1, HeightOfBar
  <2>3. Growing!BarHeight(c) \in Int /\ Growing!BarHeight(content) \in Int
    BY HeightOfBar, <1>1
  <2>4. scroll' \in 0..c
    BY <1>1, <1>6 DEF Growing!Change
  <2>5. Growing!HideIsDue'
    BY <2>1 DEF Growing!HideIsDue
  <2>. QED
    BY <1>1, <1>6, <2>1, <2>2, <2>3, <2>4, <2>5, HeightLater
<1>7. CASE UNCHANGED panel
  BY <1>7 DEF panel, FixedInv, Growing!HideIsDue, Growing!BarHeight
<1>. QED
  BY <1>2, <1>3, <1>4, <1>5, <1>6, <1>7 DEF Growing!Next

(* Every animation a timer starts has looked at the mouse, and whatever scrolls *)
(* or comes back shows the bar.                                                *)
LEMMA UsedBarStays ==
    ASSUME ScrollInv, [Growing!Next]_panel, Growing!InUse, barVisible, ~barFading
    PROVE  barVisible' /\ ~barFading'
<1>1. ASSUME Growing!ShowBar
      PROVE  barVisible' /\ ~barFading'
  BY <1>1 DEF Growing!ShowBar
<1>2. ASSUME Growing!TimerOfQueue \/ Growing!TimerOfOrphan
      PROVE  barVisible' /\ ~barFading'
  BY <1>2 DEF Growing!TimerOfQueue, Growing!TimerOfOrphan, Growing!Hide, Growing!InUse
<1>3. CASE Growing!DragStart \/ Growing!DragStop \/ UNCHANGED panel
  <2>1. CASE Growing!DragStart
    BY <2>1 DEF Growing!DragStart
  <2>2. CASE Growing!DragStop
    BY <2>2 DEF Growing!DragStop
  <2>3. CASE UNCHANGED panel
    BY <2>3 DEF panel
  <2>. QED
    BY <1>3, <2>1, <2>2, <2>3
<1>6. ~Growing!Faded
  BY DEF Growing!Faded
<1>4. ASSUME NEW m \in {"out", "panel", "rail", "bar"}, Growing!Move(m)
      PROVE  Growing!ShowBar \/ UNCHANGED <<barVisible, barFading>>
  BY <1>4 DEF Growing!Move
<1>5. ASSUME NEW c \in Contents, Growing!Change(c)
      PROVE  UNCHANGED <<barVisible, barFading>>
  BY <1>5 DEF Growing!Change
<1>. QED
  BY <1>1, <1>2, <1>3, <1>4, <1>5, <1>6 DEF Growing!Next, Growing!Drag, Growing!Wheel

(* A panel whose content stays is one whose content might grow. *)
LEMMA FixedIsGrowing ==
    ScrollInv /\ Fixed!Next => Growing!Next /\ content' = content
<1> SUFFICES ASSUME ScrollInv, Fixed!Next
             PROVE  Growing!Next /\ content' = content
  OBVIOUS
<1> USE DEF Fixed!ShowBar, Growing!ShowBar, Fixed!BarHeight, Growing!BarHeight,
            Fixed!place, Growing!place, Fixed!timers, Growing!timers,
            Fixed!Position, Growing!Position, Fixed!ScrollFor, Growing!ScrollFor
<1>1. ASSUME NEW t \in Places, NEW above \in PageTops, Fixed!Drag(t, above)
      PROVE  Growing!Drag(t, above) /\ content' = content
  BY <1>1 DEF Fixed!Drag, Growing!Drag
<1>2. ASSUME NEW y \in {-1, 1}, NEW above \in PageTops, Fixed!Wheel(y, above)
      PROVE  Growing!Wheel(y, above) /\ content' = content
  BY <1>2 DEF Fixed!Wheel, Growing!Wheel
<1>3. ASSUME NEW m \in {"out", "panel", "rail", "bar"}, Fixed!Move(m)
      PROVE  Growing!Move(m) /\ content' = content
  BY <1>3 DEF Fixed!Move, Growing!Move
<1>4. ASSUME Fixed!DragStart \/ Fixed!DragStop
      PROVE  (Growing!DragStart \/ Growing!DragStop) /\ content' = content
  BY <1>4 DEF Fixed!DragStart, Fixed!DragStop, Growing!DragStart, Growing!DragStop,
              Fixed!HideBar, Growing!HideBar
<1>5. ASSUME Fixed!TimerOfQueue \/ Fixed!TimerOfOrphan \/ Fixed!Faded
      PROVE  /\ Growing!TimerOfQueue \/ Growing!TimerOfOrphan \/ Growing!Faded
             /\ content' = content
  BY <1>5 DEF Fixed!TimerOfQueue, Fixed!TimerOfOrphan, Growing!TimerOfQueue,
              Growing!TimerOfOrphan, Fixed!Hide, Growing!Hide, Fixed!Faded, Growing!Faded
<1>6. ASSUME NEW c \in Contents, Fixed!Change(c)
      PROVE  FALSE
  <2>1. c \in Nat /\ content \in Nat
    BY PanelAssumption DEF Growing!SlimScrollAssumption, ScrollInv, Growing!TypeOK
  <2>. QED
    BY <1>6, <2>1 DEF Fixed!Change
<1>. QED
  BY <1>1, <1>2, <1>3, <1>4, <1>5, <1>6 DEF Fixed!Next, Growing!Next

(* The steps that leave the bar and the content where they are, in a panel whose *)
(* content stays; and a wheel that knows where the bar is.                       *)
LEMMA FixedStaysInStep ==
    ASSUME ScrollInv, FixedInv, Fixed!Next
    PROVE  Fixed!KeepsInStep
<1> DEFINE wheel == \E y \in {-1, 1}, above \in PageTops : Fixed!Wheel(y, above)
           drag == \E t \in Places, above \in PageTops : Fixed!Drag(t, above)
<1>1. ASSUME ~wheel, ~drag
      PROVE  UNCHANGED <<content, height, barTop, scroll>>
  <2>1. ASSUME Fixed!ShowBar
        PROVE  height' = height
    BY <2>1 DEF Fixed!ShowBar, Fixed!BarHeight, Growing!BarHeight, FixedInv
  <2>2. ASSUME NEW m \in {"out", "panel", "rail", "bar"}, Fixed!Move(m)
        PROVE  UNCHANGED <<content, height, barTop, scroll>>
    BY <2>1, <2>2 DEF Fixed!Move
  <2>3. ASSUME \/ Fixed!DragStart \/ Fixed!DragStop \/ Fixed!TimerOfQueue
               \/ Fixed!TimerOfOrphan \/ Fixed!Faded
        PROVE  UNCHANGED <<content, height, barTop, scroll>>
    BY <2>3 DEF Fixed!DragStart, Fixed!DragStop, Fixed!TimerOfQueue, Fixed!TimerOfOrphan,
                Fixed!Faded, Fixed!place
  <2>4. ASSUME NEW c \in Contents, Fixed!Change(c)
        PROVE  FALSE
    <3>1. c \in Nat /\ content \in Nat
      BY PanelAssumption DEF Growing!SlimScrollAssumption, ScrollInv, Growing!TypeOK
    <3>. QED
      BY <2>4, <3>1 DEF Fixed!Change
  <2>. QED
    BY <1>1, <2>2, <2>3, <2>4 DEF Fixed!Next
<1>2. ASSUME wheel, barVisible
      PROVE  Fixed!InStep'
  <2>1. PICK y \in {-1, 1}, above \in PageTops : Fixed!Wheel(y, above)
    BY <1>2
  <2>2. scroll' = Fixed!ScrollFor(barTop') /\ content' = content /\ height' = height
    BY <1>2, <2>1 DEF Fixed!Wheel, Fixed!Position, Fixed!ShowBar, Fixed!BarHeight,
                      Growing!BarHeight, FixedInv
  <2>. QED
    BY <2>2 DEF Fixed!InStep, Fixed!ScrollFor
<1>3. ASSUME Fixed!InStep, ~Fixed!InStep', ~drag
      PROVE  wheel /\ ~barVisible
  <2>1. wheel
    BY <1>1, <1>3 DEF Fixed!InStep, Fixed!ScrollFor
  <2>. QED
    BY <1>2, <1>3, <2>1
<1>. QED
  BY <1>2, <1>3 DEF Fixed!KeepsInStep

-----------------------------------------------------------------------------
(* The color pickers *)

\* What a step does to the colors keeps the swatches with them.
ColorsInv ==
    /\ \A f \in {color, origColor, newColor, currentColor} : f \in [Pickers -> Colors]
    /\ fields \in [Pickers -> [Picker!Groups -> Colors]]
    /\ Picker!SwatchesAgree

\* The document hides one picker at most, a click that shows one hides the other,
\* and one field has the focus.
HandlersInv ==
    /\ editing \subseteq Pickers \X Picker!Groups /\ \A e, f \in editing : e = f
    /\ Flat \subseteq shown /\ shown \subseteq Pickers
    /\ hides \subseteq Pickers \ Flat /\ drags \subseteq Pickers \X Picker!Kinds
    /\ Picker!ShownCanBeHidden
    /\ \A p, q \in hides : p = q

PickerInv == ColorsInv /\ HandlersInv

LEMMA PickerTypes == PickerInv => Picker!TypeOK
<1> SUFFICES ASSUME PickerInv
             PROVE  Picker!TypeOK
  OBVIOUS
<1>1. Picker!Cardinality(editing) <= 1
  <2>0. Picker!Cardinality(editing) = Cardinality(editing)
    BY DEF Picker!Cardinality, Cardinality
  <2>1. CASE editing = {}
    BY <2>0, <2>1, FS_EmptySet
  <2>2. CASE editing # {}
    <3>0. PICK e \in editing : TRUE
      BY <2>2
    <3>1. editing = {e}
      BY <3>0 DEF PickerInv, HandlersInv
    <3>2. Cardinality({e}) = 1
      BY FS_Singleton
    <3>. QED
      BY <2>0, <3>1, <3>2
  <2>. QED
    BY <2>1, <2>2
<1>. QED
  BY <1>1 DEF PickerInv, ColorsInv, HandlersInv, Picker!TypeOK

LEMMA PickerSets ==
    /\ Flat \subseteq Pickers /\ FromInput \subseteq Pickers \ Flat
    /\ \A c \in Colors : Picker!Filled(c) \in [Picker!Groups -> Colors]
BY PickersAssumption DEF Picker!PickerAssumption, Picker!Filled

LEMMA PickerInit == Picker!Init => PickerInv
<1> SUFFICES ASSUME Picker!Init
             PROVE  PickerInv
  OBVIOUS
<1>1. /\ color \in [Pickers -> Colors] /\ origColor = color /\ newColor = color
      /\ currentColor = color
      /\ fields = [p \in Pickers |-> [g \in Picker!Groups |-> color[p]]]
  BY DEF Picker!Init
<1>2. ColorsInv
  BY <1>1 DEF ColorsInv, Picker!SwatchesAgree
<1>3. HandlersInv
  BY PickerSets DEF Picker!Init, HandlersInv, Picker!ShownCanBeHidden
<1>. QED
  BY <1>2, <1>3 DEF PickerInv

(* A mousedown leaves the picker it is in, if that is the one with a handler. *)
LEMMA PressKeeps ==
    ASSUME HandlersInv, NEW where, Picker!Press(where), UNCHANGED editing,
           drags' \subseteq Pickers \X Picker!Kinds
    PROVE  HandlersInv'
<1> USE DEF HandlersInv, Picker!ShownCanBeHidden
<1>1. CASE hides \subseteq where
  <2>1. shown' = shown /\ hides' = hides
    BY <1>1 DEF Picker!Press
  <2>. QED
    BY <2>1
<1>2. CASE ~(hides \subseteq where)
  <2>1. hides \intersect where = {}
    BY <1>2
  <2>2. shown' = shown \ hides /\ hides' = {}
    BY <1>2, <2>1 DEF Picker!Press
  <2>. QED
    BY <2>2, PickerSets
<1>. QED
  BY <1>1, <1>2

(* A field a script fills is no longer one that was typed in. *)
LEMMA RefilledKeeps ==
    ASSUME HandlersInv, NEW filled, Picker!Refilled(filled), drags' \subseteq drags,
           UNCHANGED <<shown, hides>>
    PROVE  HandlersInv'
BY DEF HandlersInv, Picker!ShownCanBeHidden, Picker!Refilled

(* Fields are read: some pickers have the colors c. *)
LEMMA ReadKeeps ==
    ASSUME ColorsInv, NEW moved \in SUBSET Pickers, NEW c \in [Pickers -> Colors],
           color' = [p \in Pickers |-> IF p \in moved THEN c[p] ELSE color[p]],
           newColor' = [p \in Pickers |-> IF p \in moved THEN c[p] ELSE newColor[p]],
           UNCHANGED <<origColor, currentColor>>,
           fields' \in [Pickers -> [Picker!Groups -> Colors]]
    PROVE  ColorsInv'
<1>1. color' \in [Pickers -> Colors] /\ newColor' \in [Pickers -> Colors]
  BY DEF ColorsInv
<1>2. Picker!SwatchesAgree'
  BY DEF ColorsInv, Picker!SwatchesAgree
<1>. QED
  BY <1>1, <1>2 DEF ColorsInv, Picker!Groups

LEMMA ReadOneKeeps ==
    ASSUME ColorsInv, NEW p \in Pickers, NEW c \in Colors, Picker!Read(p, c),
           fields' \in [Pickers -> [Picker!Groups -> Colors]]
    PROVE  ColorsInv'
<1>1. /\ color' = [color EXCEPT ![p] = c] /\ newColor' = [newColor EXCEPT ![p] = c]
      /\ UNCHANGED <<origColor, currentColor>>
  BY DEF Picker!Read
<1>2. color' \in [Pickers -> Colors] /\ newColor' \in [Pickers -> Colors]
  BY <1>1 DEF ColorsInv
<1>3. Picker!SwatchesAgree'
  BY <1>1 DEF ColorsInv, Picker!SwatchesAgree
<1>. QED
  BY <1>1, <1>2, <1>3 DEF ColorsInv, Picker!Groups

LEMMA ChangedKeeps ==
    ASSUME ColorsInv, NEW p \in Pickers, NEW c \in Colors, Picker!Changed(p, c)
    PROVE  ColorsInv'
<1>1. fields' \in [Pickers -> [Picker!Groups -> Colors]]
  BY PickerSets DEF ColorsInv, Picker!Changed
<1>. QED
  BY <1>1, ReadOneKeeps DEF Picker!Changed

LEMMA SetColorKeeps ==
    ASSUME ColorsInv, NEW p \in Pickers, NEW c \in Colors, Picker!SetColorTo(p, c)
    PROVE  ColorsInv'
<1>1. /\ color' = [color EXCEPT ![p] = c] /\ newColor' = [newColor EXCEPT ![p] = c]
      /\ origColor' = [origColor EXCEPT ![p] = c]
      /\ currentColor' = [currentColor EXCEPT ![p] = c]
      /\ fields' = [fields EXCEPT ![p] = Picker!Filled(c)]
  BY DEF Picker!SetColorTo
<1>2. /\ color' \in [Pickers -> Colors] /\ newColor' \in [Pickers -> Colors]
      /\ origColor' \in [Pickers -> Colors] /\ currentColor' \in [Pickers -> Colors]
      /\ fields' \in [Pickers -> [Picker!Groups -> Colors]]
  BY <1>1, PickerSets DEF ColorsInv
<1>3. Picker!SwatchesAgree'
  BY <1>1 DEF ColorsInv, Picker!SwatchesAgree
<1>. QED
  BY <1>2, <1>3 DEF ColorsInv, Picker!Groups

(* Nothing of a color changes. *)
LEMMA ColorsStay ==
    ASSUME ColorsInv, UNCHANGED Picker!state
    PROVE  ColorsInv'
BY DEF ColorsInv, Picker!state, Picker!SwatchesAgree, Picker!Groups

\* The steps of one picker and its fields.
LEMMA FieldSteps ==
    ASSUME PickerInv, NEW p \in Pickers, NEW c \in Colors,
           \/ Picker!KeyUp(p, c) \/ Picker!Change(p, c) \/ Picker!SetColor(p, c)
           \/ \E clicked \in BOOLEAN : Picker!Show(p, c, clicked)
    PROVE  PickerInv'
<1> USE DEF PickerInv
<1>1. CASE Picker!KeyUp(p, c)
  <2>1. ColorsInv'
    BY <1>1, ReadOneKeeps DEF Picker!KeyUp, ColorsInv, Picker!Groups
  <2>2. HandlersInv'
    BY <1>1 DEF Picker!KeyUp, HandlersInv, Picker!ShownCanBeHidden
  <2>. QED
    BY <2>1, <2>2
<1>2. CASE Picker!Change(p, c)
  BY <1>2, ChangedKeeps, RefilledKeeps DEF Picker!Change, Picker!Changed
<1>3. CASE Picker!SetColor(p, c)
  BY <1>3, SetColorKeeps, RefilledKeeps DEF Picker!SetColor, Picker!SetColorTo
<1>4. ASSUME NEW clicked \in BOOLEAN, Picker!Show(p, c, clicked)
      PROVE  PickerInv'
  <2>1. ColorsInv'
    BY <1>4, SetColorKeeps, ColorsStay DEF Picker!Show
  <2>2. clicked /\ p \notin Flat
    BY <1>4 DEF Picker!Show
  <2>3. shown' = {p} \union (shown \ hides) /\ hides' = {p} /\ drags' = drags
    BY <1>4, <2>2 DEF Picker!Show
  <2>4. editing' \subseteq editing
    BY <1>4 DEF Picker!Show, Picker!SetColorTo, Picker!Refilled
  <2>5. HandlersInv'
    BY <2>2, <2>3, <2>4, PickerSets DEF HandlersInv, Picker!ShownCanBeHidden
  <2>. QED
    BY <2>1, <2>5
<1>. QED
  BY <1>1, <1>2, <1>3, <1>4

\* The clicks on a picker, the start of a drag, and typing.
LEMMA ClickSteps ==
    ASSUME PickerInv, NEW p \in Pickers,
           \/ Picker!ClickSubmit(p) \/ Picker!RestoreOriginal(p)
           \/ \E g \in Picker!Groups : Picker!TypeIn(p, g)
           \/ \E k \in Picker!Kinds : Picker!Down(p, k)
    PROVE  PickerInv'
<1> USE DEF PickerInv
<1>1. CASE Picker!ClickSubmit(p)
  <2>1. /\ origColor' = [origColor EXCEPT ![p] = color[p]]
        /\ currentColor' = [currentColor EXCEPT ![p] = color[p]]
        /\ UNCHANGED <<color, newColor, fields, editing>>
    BY <1>1 DEF Picker!ClickSubmit
  <2>2. origColor' \in [Pickers -> Colors] /\ currentColor' \in [Pickers -> Colors]
    BY <2>1 DEF ColorsInv
  <2>3. Picker!SwatchesAgree'
    BY <2>1 DEF ColorsInv, Picker!SwatchesAgree
  <2>4. ColorsInv'
    BY <2>1, <2>2, <2>3 DEF ColorsInv, Picker!Groups
  <2>5. HandlersInv'
    BY <1>1, PickerSets DEF Picker!ClickSubmit, HandlersInv, Picker!ShownCanBeHidden
  <2>. QED
    BY <2>4, <2>5
<1>2. CASE Picker!RestoreOriginal(p)
  <2>1. origColor[p] \in Colors
    BY DEF ColorsInv
  <2>. QED
    BY <1>2, <2>1, ChangedKeeps, RefilledKeeps DEF Picker!RestoreOriginal, Picker!Changed
<1>3. ASSUME NEW g \in Picker!Groups, Picker!TypeIn(p, g)
      PROVE  PickerInv'
  <2>1. ColorsInv'
    BY <1>3, ColorsStay DEF Picker!TypeIn
  <2>2. HandlersInv'
    BY <1>3 DEF Picker!TypeIn, HandlersInv, Picker!ShownCanBeHidden
  <2>. QED
    BY <2>1, <2>2
<1>4. ASSUME NEW k \in Picker!Kinds, Picker!Down(p, k)
      PROVE  PickerInv'
  <2>1. ColorsInv'
    BY <1>4, ColorsStay DEF Picker!Down
  <2>2. drags' \subseteq Pickers \X Picker!Kinds
    BY <1>4 DEF Picker!Down, HandlersInv
  <2>3. HandlersInv'
    BY <1>4, <2>2, PressKeeps DEF Picker!Down
  <2>. QED
    BY <2>1, <2>3
<1>. QED
  BY <1>1, <1>2, <1>3, <1>4

\* The mouse over the document.
LEMMA MouseSteps ==
    ASSUME PickerInv, NEW c \in [Pickers -> Colors], Picker!Mousemove(c) \/ Picker!Mouseup(c)
    PROVE  PickerInv'
<1> USE DEF PickerInv
<1>1. CASE Picker!Mousemove(c)
  <2> DEFINE moved == {p \in Pickers : Picker!Dragged(p)}
  <2>1. /\ color' = [p \in Pickers |-> IF p \in moved THEN c[p] ELSE color[p]]
        /\ newColor' = [p \in Pickers |-> IF p \in moved THEN c[p] ELSE newColor[p]]
        /\ fields' = [p \in Pickers |-> IF p \in moved THEN Picker!Filled(c[p]) ELSE fields[p]]
        /\ UNCHANGED <<origColor, currentColor>>
    BY <1>1 DEF Picker!Mousemove
  <2>2. moved \in SUBSET Pickers
    OBVIOUS
  <2> HIDE DEF moved
  <2>3. fields' \in [Pickers -> [Picker!Groups -> Colors]]
    BY <2>1, PickerSets DEF ColorsInv
  <2>4. ColorsInv'
    BY <2>1, <2>2, <2>3, ReadKeeps
  <2>. QED
    BY <1>1, <2>4, RefilledKeeps DEF Picker!Mousemove
<1>2. CASE Picker!Mouseup(c)
  <2> DEFINE arrow(p) == \E k \in {"rgb", "hsb"} : <<p, k>> \in drags
             moved == {p \in Pickers : arrow(p)}
             filled(p, g) == Picker!Dragged(p) /\ (arrow(p) \/ g # "hsb")
  <2>1. /\ color' = [p \in Pickers |-> IF p \in moved THEN c[p] ELSE color[p]]
        /\ newColor' = [p \in Pickers |-> IF p \in moved THEN c[p] ELSE newColor[p]]
        /\ fields' = [p \in Pickers |-> [g \in Picker!Groups |->
                         IF filled(p, g) THEN color'[p] ELSE fields[p][g]]]
        /\ Picker!Refilled({f \in editing : filled(f[1], f[2])})
        /\ UNCHANGED <<origColor, currentColor, shown, hides>>
    BY <1>2 DEF Picker!Mouseup
  <2>2. drags' \subseteq drags
    BY <1>2 DEF Picker!Mouseup, Picker!StillBound
  <2>3. moved \in SUBSET Pickers
    OBVIOUS
  <2> HIDE DEF moved, filled
  <2>4. color' \in [Pickers -> Colors]
    BY <2>1 DEF ColorsInv
  <2>5. fields' \in [Pickers -> [Picker!Groups -> Colors]]
    BY <2>1, <2>4 DEF ColorsInv
  <2>6. ColorsInv'
    BY <2>1, <2>3, <2>5, ReadKeeps
  <2>. QED
    BY <2>1, <2>2, <2>6, RefilledKeeps
<1>. QED
  BY <1>1, <1>2

LEMMA PickerNext == PickerInv /\ [Picker!Next]_picker => PickerInv'
<1> SUFFICES ASSUME PickerInv, [Picker!Next]_picker
             PROVE  PickerInv'
  OBVIOUS
<1> USE DEF PickerInv
<1>1. ASSUME NEW where \in SUBSET Pickers, Picker!Mousedown(where)
      PROVE  PickerInv'
  <2>1. ColorsInv'
    BY <1>1, ColorsStay DEF Picker!Mousedown
  <2>2. HandlersInv'
    BY <1>1, PressKeeps DEF Picker!Mousedown, HandlersInv
  <2>. QED
    BY <2>1, <2>2
<1>2. CASE Picker!Leave \/ UNCHANGED picker
  <2>1. ColorsInv'
    BY <1>2, ColorsStay DEF picker, Picker!state, Picker!Leave
  <2>2. HandlersInv'
    BY <1>2 DEF picker, HandlersInv, Picker!ShownCanBeHidden, Picker!Leave
  <2>. QED
    BY <2>1, <2>2
<1>. QED
  BY <1>1, <1>2, FieldSteps, ClickSteps, MouseSteps DEF Picker!Next

(* Only keys part the fields of a picker from its color. *)
LEMMA KeysPart ==
    ASSUME PickerInv, [Picker!Next]_picker, NEW p \in Pickers,
           Picker!Agrees(p), ~Picker!Agrees(p)'
    PROVE  \/ \E g \in Picker!Groups : Picker!TypeIn(p, g)
           \/ \E c \in Colors : Picker!KeyUp(p, c)
<1> USE DEF PickerInv
<1>0. /\ fields[p] = Picker!Filled(color[p])
      /\ fields[p] = [g \in Picker!Groups |-> fields[p][g]]
      /\ \A g \in Picker!Groups : <<p, g>> \notin editing
  BY DEF Picker!Agrees, ColorsInv
<1>1. ASSUME color'[p] = color[p], fields'[p] = fields[p],
             \A g \in Picker!Groups : <<p, g>> \notin editing'
      PROVE  FALSE
  BY <1>0, <1>1 DEF Picker!Agrees, Picker!Filled, Picker!Groups
<1>2. ASSUME NEW c, fields'[p] = Picker!Filled(c), color'[p] = c,
             \A g \in Picker!Groups : <<p, g>> \notin editing'
      PROVE  FALSE
  BY <1>2 DEF Picker!Agrees, Picker!Filled, Picker!Groups
<1>3. ASSUME NEW q \in Pickers, NEW c \in Colors, Picker!Changed(q, c)
      PROVE  FALSE
  <2>1. \A g \in Picker!Groups : <<p, g>> \notin editing'
    BY <1>0, <1>3 DEF Picker!Changed, Picker!Refilled
  <2>. QED
    BY <1>1, <1>2, <1>3, <2>1 DEF Picker!Changed, Picker!Read, ColorsInv
<1>4. ASSUME NEW q \in Pickers, NEW c \in Colors, Picker!SetColorTo(q, c)
      PROVE  FALSE
  <2>1. \A g \in Picker!Groups : <<p, g>> \notin editing'
    BY <1>0, <1>4 DEF Picker!SetColorTo, Picker!Refilled
  <2>. QED
    BY <1>1, <1>2, <1>4, <2>1 DEF Picker!SetColorTo, ColorsInv
<1>5. ASSUME UNCHANGED Picker!state, editing' \subseteq editing
      PROVE  FALSE
  BY <1>0, <1>1, <1>5 DEF Picker!state
<1>6. ASSUME NEW c \in [Pickers -> Colors], Picker!Mousemove(c)
      PROVE  FALSE
  <2>1. \A g \in Picker!Groups : <<p, g>> \notin editing'
    BY <1>0, <1>6 DEF Picker!Mousemove, Picker!Refilled
  <2>. QED
    BY <1>1, <1>2, <1>6, <2>1 DEF Picker!Mousemove
<1>7. ASSUME NEW c \in [Pickers -> Colors], Picker!Mouseup(c)
      PROVE  FALSE
  <2> DEFINE arrow(q) == \E k \in {"rgb", "hsb"} : <<q, k>> \in drags
             filled(q, g) == Picker!Dragged(q) /\ (arrow(q) \/ g # "hsb")
  <2>1. /\ color'[p] = IF arrow(p) THEN c[p] ELSE color[p]
        /\ fields'[p] = [g \in Picker!Groups |->
                           IF filled(p, g) THEN color'[p] ELSE fields[p][g]]
    BY <1>7 DEF Picker!Mouseup
  <2>2. \A g \in Picker!Groups : <<p, g>> \notin editing'
    BY <1>0, <1>7 DEF Picker!Mouseup, Picker!Refilled
  <2>3. CASE arrow(p)
    <3>1. Picker!Dragged(p)
      BY <2>3 DEF Picker!Dragged, Picker!Kinds
    <3>2. fields'[p] = [g \in Picker!Groups |-> color'[p]]
      BY <2>1, <2>3, <3>1
    <3>. QED
      BY <1>2, <2>2, <3>2 DEF Picker!Filled
  <2>4. CASE ~arrow(p)
    <3>1. \A g \in Picker!Groups : fields[p][g] = color[p]
      BY <1>0 DEF Picker!Filled
    <3>2. color'[p] = color[p]
      BY <2>1, <2>4
    <3> HIDE DEF filled
    <3>3. fields'[p] = fields[p]
      BY <1>0, <2>1, <3>1, <3>2
    <3>. QED
      BY <1>1, <2>2, <3>2, <3>3
  <2>. QED
    BY <2>3, <2>4
<1>8. ASSUME NEW q \in Pickers, NEW c \in Colors, Picker!KeyUp(q, c)
      PROVE  q = p
  <2>1. CASE q # p
    <3>1. color'[p] = color[p] /\ fields' = fields /\ editing' = editing
      BY <1>8, <2>1 DEF Picker!KeyUp, Picker!Read, ColorsInv
    <3>. QED
      BY <1>0, <1>1, <3>1
  <2>. QED
    BY <2>1
<1>9. ASSUME NEW q \in Pickers, NEW g \in Picker!Groups, Picker!TypeIn(q, g)
      PROVE  q = p
  <2>1. CASE q # p
    <3>1. UNCHANGED Picker!state /\ editing' = {<<q, g>>}
      BY <1>9 DEF Picker!TypeIn
    <3>. QED
      BY <1>0, <1>1, <2>1, <3>1 DEF Picker!state
  <2>. QED
    BY <2>1
<1>10. ASSUME NEW q \in Pickers, Picker!ClickSubmit(q)
       PROVE  FALSE
  BY <1>0, <1>1, <1>10 DEF Picker!ClickSubmit
<1>11. ASSUME NEW q \in Pickers, Picker!RestoreOriginal(q)
       PROVE  FALSE
  <2>1. origColor[q] \in Colors
    BY DEF ColorsInv
  <2>. QED
    BY <1>3, <1>11, <2>1 DEF Picker!RestoreOriginal
<1>12. ASSUME NEW q \in Pickers, NEW c \in Colors,
              \/ Picker!Change(q, c) \/ Picker!SetColor(q, c)
              \/ \E clicked \in BOOLEAN : Picker!Show(q, c, clicked)
       PROVE  FALSE
  BY <1>3, <1>4, <1>5, <1>12 DEF Picker!Change, Picker!SetColor, Picker!Show
<1>13. ASSUME \/ \E q \in Pickers, k \in Picker!Kinds : Picker!Down(q, k)
              \/ \E where \in SUBSET Pickers : Picker!Mousedown(where)
              \/ Picker!Leave \/ UNCHANGED picker
       PROVE  FALSE
  BY <1>5, <1>13 DEF Picker!Down, Picker!Mousedown, Picker!Leave, picker, Picker!state
<1>. QED
  BY <1>6, <1>7, <1>8, <1>9, <1>10, <1>11, <1>12, <1>13 DEF Picker!Next

\* A drag that ends ends all drags.
LEMMA DragsEndTogether ==
    [Picker!Next]_picker
      => [drags # {} /\ ~(drags \subseteq drags') => drags' = {}]_picker
<1> SUFFICES ASSUME Picker!Next, ~(drags \subseteq drags')
             PROVE  drags' = {}
  OBVIOUS
<1>1. PICK c \in [Pickers -> Colors] : Picker!Mouseup(c)
  BY DEF Picker!Next, Picker!KeyUp, Picker!Change, Picker!SetColor, Picker!Show,
         Picker!TypeIn, Picker!Leave, Picker!ClickSubmit, Picker!RestoreOriginal,
         Picker!Down, Picker!Mousedown, Picker!Mousemove
<1>. QED
  BY <1>1 DEF Picker!Mouseup, Picker!StillBound

-----------------------------------------------------------------------------
(* The media queries *)

\* A request for the sheets of a parse is answered before the parse ends, and
\* nothing is parsed, cached or added before.
ParseInv ==
    /\ phase = "none" => waiting = {} /\ request = [l \in Links |-> "none"] /\ ~ready
    /\ phase # "parsed" => parsed = {} /\ lists = {} /\ asked = FALSE /\ added = {}
    /\ phase = "parsing" => Styles!Unanswered(request) # {}
    /\ phase = "parsed" => Styles!Unanswered(request) = {}
    /\ parsed \subseteq Links \union elements /\ waiting \ {Styles!Test} \subseteq elements

\* The test comes when the document is complete: it waits for the parse or has
\* asked for all lists, which are cached since.
TestInv ==
    /\ ~ready => Styles!Test \notin waiting /\ asked = FALSE /\ added = {} /\ timer = FALSE
    /\ ready /\ phase = "parsing" => Styles!Test \in waiting
    /\ ready /\ phase = "parsed" => asked = TRUE
    /\ asked = TRUE => lists = parsed

\* The pages that do not count as resized.
Remembered ==
    IF threshold = 0 THEN {seen - ScrollBar, seen} ELSE seen - threshold .. seen + threshold

\* A sheet is added as one of them asks for.
AddedInv ==
    /\ Styles!Viewport - seen <= threshold /\ seen - Styles!Viewport <= threshold
    /\ ready /\ ~timer /\ phase = "parsed" =>
          \A s \in parsed : \E w \in Remembered : s \in added <=> Styles!Matches(s, w)

StylesInv == Styles!TypeOK /\ ParseInv /\ TestInv /\ AddedInv

LEMMA StylesSets ==
    /\ Links \intersect InPage = {} /\ Links \intersect Scripted = {}
    /\ InPage \intersect Scripted = {} /\ Styles!Test \notin Scripted
    /\ Styles!Sheets = Links \union InPage \union Scripted
    /\ ScrollBar \in Nat /\ Thresholds \subseteq {0, ScrollBar} /\ MaxResizes \in Nat
    /\ Widths \subseteq Nat /\ (\A w \in Widths : w > ScrollBar)
BY StylesAssumption DEF Styles!SheetsAssumption, Styles!SizesAssumption, Styles!Sheets

(* The sizes of the window are numbers, and the page as it is is one of those *)
(* remembered.                                                                *)
LEMMA WindowOf ==
    ASSUME Styles!TypeOK
    PROVE  /\ width \in Nat /\ seen \in Nat /\ threshold \in Nat
           /\ Styles!Client \in Nat /\ Styles!Viewport \in Nat
           /\ threshold # 0 => threshold = ScrollBar /\ Styles!Viewport = Styles!Client
           /\ threshold = 0 => Styles!Viewport = width
           /\ Styles!Viewport \in Widths \union {w - ScrollBar : w \in Widths}
BY StylesSets DEF Styles!TypeOK, Styles!Client, Styles!Viewport

LEMMA ClientRemembered ==
    ASSUME Styles!TypeOK, Styles!Viewport - seen <= threshold, seen - Styles!Viewport <= threshold
    PROVE  Styles!Client \in Remembered
<1>1. CASE threshold = 0
  <2>1. seen = width
    BY <1>1, WindowOf
  <2>. QED
    BY <1>1, <2>1 DEF Remembered, Styles!Client
<1>2. CASE threshold # 0
  BY <1>2, WindowOf DEF Remembered
<1>. QED
  BY <1>1, <1>2

(* A window that is left alone. *)
LEMMA SameWindow ==
    ASSUME UNCHANGED <<width, barred, seen, threshold>>
    PROVE  /\ Styles!Client' = Styles!Client /\ Styles!Viewport' = Styles!Viewport
           /\ Remembered' = Remembered
BY DEF Styles!Client, Styles!Viewport, Remembered

LEMMA StylesInit == Styles!Init => StylesInv
<1> SUFFICES ASSUME Styles!Init
             PROVE  StylesInv
  OBVIOUS
<1>1. Styles!TypeOK
  <2>1. 0 \in 0..MaxResizes
    BY StylesSets
  <2>2. request \in [Links -> {"none", "sent", "overdue", "text", "failed", "lost"}]
    BY DEF Styles!Init
  <2>3. /\ ready \in BOOLEAN /\ phase = "none" /\ waiting = {} /\ elements = InPage
        /\ parsed = {} /\ lists = {} /\ asked = FALSE /\ added = {} /\ page = "off"
        /\ width \in Widths /\ barred \in BOOLEAN /\ threshold \in Thresholds
        /\ seen = Styles!Viewport /\ timer = FALSE /\ resizes = 0
    BY DEF Styles!Init
  <2>4. seen \in Widths \union {w - ScrollBar : w \in Widths}
    BY <2>3 DEF Styles!Viewport, Styles!Client
  <2>. QED
    BY <2>1, <2>2, <2>3, <2>4 DEF Styles!TypeOK
<1>2. ParseInv /\ TestInv
  BY DEF Styles!Init, ParseInv, TestInv
<1>3. AddedInv
  BY <1>1, WindowOf DEF Styles!Init, AddedInv
<1>. QED
  BY <1>1, <1>2, <1>3 DEF StylesInv

\* What a step that has to do with sheets may do to the rest: the document gets
\* complete, the timer of a resize fires, or a script adds a style.
Asks(cb, kept) ==
    /\ UNCHANGED <<width, barred, seen, threshold, resizes>>
    /\ \/ /\ cb = Styles!Test /\ elements' = elements /\ ready' = TRUE
          /\ \/ ready = FALSE /\ kept = added /\ timer' = timer
             \/ timer = TRUE /\ ready = TRUE /\ kept = {} /\ timer' = FALSE
       \/ /\ cb \in Scripted \ elements /\ elements' = elements \union {cb}
          /\ ready' = ready /\ kept = added /\ timer' = timer

(* Sheets that have just been tested are added as the page is. *)
LEMMA TestedNow ==
    ASSUME StylesInv, UNCHANGED <<width, barred, seen, threshold>>,
           \A s \in parsed' : s \in added' <=> Styles!Matches(s, Styles!Client)
    PROVE  AddedInv'
<1>1. Styles!Client \in Remembered
  BY ClientRemembered DEF StylesInv, AddedInv
<1>2. /\ Remembered' = Remembered /\ Styles!Viewport' = Styles!Viewport
      /\ seen' = seen /\ threshold' = threshold
  BY SameWindow
<1>3. (Styles!Viewport - seen <= threshold /\ seen - Styles!Viewport <= threshold)'
  BY <1>2 DEF StylesInv, AddedInv
<1>4. \A s \in parsed' : \E w \in Remembered' : s \in added' <=> Styles!Matches(s, w)
  BY <1>1, <1>2
<1>. QED
  BY <1>3, <1>4 DEF AddedInv, Styles!Matches, Styles!QueryHolds, Styles!Feature

(* The end of a parse: everything is tested, or nothing when the document is  *)
(* not complete.                                                              *)
LEMMA FinishInv ==
    ASSUME StylesInv, phase # "parsed",
           request' \in [Links -> {"none", "sent", "overdue", "text", "failed", "lost"}],
           Styles!Unanswered(request') = {},
           Styles!Finish(request', waiting', elements'),
           InPage \subseteq elements', elements' \subseteq InPage \union Scripted,
           waiting' \subseteq Scripted \union {Styles!Test},
           waiting' \ {Styles!Test} \subseteq elements',
           \/ ready' = TRUE /\ Styles!Test \in waiting'
                /\ (ready = TRUE \/ waiting' = {Styles!Test})
           \/ ready' = FALSE /\ ready = FALSE /\ Styles!Test \notin waiting' /\ timer' = FALSE,
           timer' \in BOOLEAN,
           UNCHANGED <<width, barred, seen, threshold, resizes>>
    PROVE  StylesInv'
<1> DEFINE texts == {l \in Links : request'[l] = "text"}
           scripts == waiting' \ {Styles!Test}
<1>1. /\ phase' = "parsed" /\ parsed' = texts \union elements' \union scripts
      /\ asked' = (asked \/ Styles!Test \in waiting')
      /\ page' \in {page, Styles!PageAfterTest}
  BY DEF Styles!Finish, Styles!CallBacks
<1>2. asked = FALSE /\ lists = {} /\ added = {}
  BY DEF StylesInv, ParseInv
<1>3. CASE ready' = TRUE
  <2>1. lists' = parsed' /\ asked' = TRUE
    BY <1>1, <1>2, <1>3 DEF Styles!Finish, Styles!CallBacks
  <2>2. added' = Styles!Matching(lists')
                   \union (IF ready THEN Styles!Matching(scripts) ELSE {})
    BY <1>2, <1>3 DEF Styles!Finish, Styles!CallBacks
  <2>3. \A s \in parsed' : s \in added' <=> Styles!Matches(s, Styles!Client)
    BY <1>1, <2>1, <2>2 DEF Styles!Matching
  <2>4. added' \subseteq parsed'
    BY <1>1, <2>1, <2>2 DEF Styles!Matching
  <2>5. Styles!TypeOK'
    BY <1>1, <1>3, <2>1, <2>4, StylesSets
    DEF StylesInv, Styles!TypeOK, Styles!PageAfterTest, Styles!Sheets, Styles!Test
  <2>6. ParseInv' /\ TestInv'
    BY <1>1, <1>3, <2>1 DEF ParseInv, TestInv, Styles!Unanswered, Styles!Test
  <2>. QED
    BY <2>3, <2>5, <2>6, TestedNow DEF StylesInv
<1>4. CASE ready' = FALSE
  <2>1. lists' = {} /\ added' = {} /\ asked' = FALSE
    BY <1>1, <1>2, <1>4 DEF Styles!Finish, Styles!CallBacks
  <2>2. Styles!TypeOK'
    BY <1>1, <1>4, <2>1, StylesSets
    DEF StylesInv, Styles!TypeOK, Styles!PageAfterTest, Styles!Sheets, Styles!Test
  <2>3. ParseInv' /\ TestInv'
    BY <1>1, <1>4, <2>1 DEF StylesInv, ParseInv, TestInv, Styles!Unanswered, Styles!Test
  <2>4. AddedInv'
    BY <1>4, SameWindow DEF StylesInv, AddedInv
  <2>. QED
    BY <2>2, <2>3, <2>4 DEF StylesInv
<1>. QED
  BY <1>3, <1>4

(* cssHelper.parsed: at once, or after the parse. *)
LEMMA ParsedInv ==
    ASSUME StylesInv, NEW cb, NEW kept, Asks(cb, kept), Styles!Parsed(cb, elements', kept)
    PROVE  StylesInv'
<1> USE DEF Styles!Test
<1>1. /\ cb \in Scripted \union {Styles!Test} /\ kept \in {added, {}}
      /\ ready' \in BOOLEAN /\ timer' \in BOOLEAN /\ ready \in BOOLEAN
      /\ InPage \subseteq elements' /\ elements' \subseteq InPage \union Scripted
      /\ elements \subseteq elements' /\ (cb # Styles!Test => cb \in elements')
  BY DEF Asks, StylesInv, Styles!TypeOK
<1>2. UNCHANGED <<width, barred, seen, threshold, resizes>>
  BY DEF Asks
<1>3. CASE phase = "parsed"
  <2>1. /\ Styles!CallBacks(parsed, kept, {cb}) /\ UNCHANGED <<phase, request, waiting>>
    BY <1>3 DEF Styles!Parsed
  <2>2. page' \in {"off", "due", "shown"}
    BY <2>1 DEF Styles!CallBacks, Styles!PageAfterTest, StylesInv, Styles!TypeOK
  <2>3. CASE cb = Styles!Test
    <3>1. kept = {} /\ elements' = elements /\ ready' = TRUE
      BY <2>3, StylesSets DEF Asks, StylesInv, TestInv
    <3>2. /\ parsed' = parsed /\ asked' = TRUE /\ lists' = parsed
          /\ added' = Styles!Matching(parsed)
      BY <2>1, <2>3, <3>1 DEF Styles!CallBacks, StylesInv, TestInv, Styles!Matching
    <3>3. AddedInv'
      BY <1>2, <3>2, TestedNow DEF Styles!Matching
    <3>4. Styles!TypeOK'
      BY <1>1, <1>2, <2>1, <2>2, <3>1, <3>2, StylesSets
      DEF StylesInv, Styles!TypeOK, Styles!Sheets, Styles!Matching
    <3>5. ParseInv' /\ TestInv'
      BY <1>3, <2>1, <3>1, <3>2 DEF StylesInv, ParseInv, TestInv, Styles!Unanswered
    <3>. QED
      BY <3>3, <3>4, <3>5 DEF StylesInv
  <2>4. CASE cb # Styles!Test
    <3>1. /\ cb \in Scripted \ elements /\ elements' = elements \union {cb}
          /\ ready' = ready /\ kept = added /\ timer' = timer
      BY <2>4 DEF Asks
    <3>2. /\ parsed' = parsed \union {cb} /\ asked' = asked
          /\ lists' = IF asked THEN lists \union {cb} ELSE lists
          /\ added' = added \union (IF ready THEN Styles!Matching({cb}) ELSE {})
      BY <2>1, <2>4, <3>1 DEF Styles!CallBacks, StylesInv, Styles!TypeOK
    <3>3. cb \notin parsed /\ cb \notin added
      BY <3>1, StylesSets DEF StylesInv, ParseInv, Styles!TypeOK
    <3>4. Styles!TypeOK'
      BY <1>1, <1>2, <2>1, <2>2, <3>1, <3>2, StylesSets
      DEF StylesInv, Styles!TypeOK, Styles!Sheets, Styles!Matching
    <3>5. ParseInv' /\ TestInv'
      BY <1>3, <2>1, <3>1, <3>2, StylesSets
      DEF StylesInv, ParseInv, TestInv, Styles!Unanswered, Styles!TypeOK
    <3>6. CASE ready' /\ ~timer'
      <4>1. \A s \in parsed : s \in added' <=> s \in added
        BY <3>2, <3>3 DEF Styles!Matching
      <4>2. \A s \in parsed :
               \E w \in Remembered : s \in added' <=> Styles!Matches(s, w)
        BY <1>3, <3>1, <3>6, <4>1 DEF StylesInv, AddedInv
      <4>3. cb \in added' <=> Styles!Matches(cb, Styles!Client)
        BY <3>1, <3>2, <3>3, <3>6 DEF Styles!Matching
      <4>4. Styles!Client \in Remembered
        BY ClientRemembered DEF StylesInv, AddedInv
      <4>5. \A s \in parsed' : \E w \in Remembered' : s \in added' <=> Styles!Matches(s, w)
        BY <1>2, <3>2, <4>2, <4>3, <4>4, SameWindow
      <4>6. AddedInv'
        BY <1>2, <4>5, SameWindow
        DEF StylesInv, AddedInv, Styles!Matches, Styles!QueryHolds, Styles!Feature
      <4>. QED
        BY <3>4, <3>5, <4>6 DEF StylesInv
    <3>7. CASE ~(ready' /\ ~timer')
      BY <1>2, <3>4, <3>5, <3>7, SameWindow DEF StylesInv, AddedInv
    <3>. QED
      BY <3>6, <3>7
  <2>. QED
    BY <2>3, <2>4
<1>4. (kept = {} /\ added = {}) \/ phase = "parsed"
  BY <1>1 DEF StylesInv, ParseInv
<1>5. CASE phase = "parsing"
  <2>1. /\ waiting' = waiting \union {cb} /\ added' = {}
        /\ UNCHANGED <<phase, request, parsed, lists, asked, page>>
    BY <1>4, <1>5 DEF Styles!Parsed
  <2>2. Styles!TypeOK'
    BY <1>1, <1>2, <2>1, StylesSets DEF StylesInv, Styles!TypeOK, Styles!Sheets
  <2>3. ParseInv'
    BY <1>1, <1>5, <2>1 DEF StylesInv, ParseInv, Styles!Unanswered
  <2>4. TestInv'
    BY <1>5, <2>1, StylesSets DEF Asks, StylesInv, TestInv, ParseInv
  <2>5. AddedInv'
    BY <1>2, <1>5, <2>1, SameWindow DEF StylesInv, AddedInv
  <2>. QED
    BY <2>2, <2>3, <2>4, <2>5 DEF StylesInv
<1>6. CASE phase = "none"
  <2>1. /\ waiting' = {cb} /\ request' = [l \in Links |-> "sent"]
        /\ IF Links = {} THEN Styles!Finish(request', waiting', elements')
           ELSE /\ phase' = "parsing" /\ UNCHANGED <<parsed, lists, asked, added, page>>
    BY <1>6 DEF Styles!Parsed, Styles!styles, StylesInv, ParseInv
  <2>2. ready = FALSE /\ timer = FALSE
    BY <1>1, <1>6 DEF StylesInv, ParseInv, TestInv
  <2>3. \/ cb = Styles!Test /\ ready' = TRUE
        \/ cb # Styles!Test /\ ready' = FALSE /\ timer' = FALSE
    BY <2>2, StylesSets DEF Asks
  <2>4. CASE Links = {}
    <3>1. Styles!Unanswered(request') = {}
      BY <2>4 DEF Styles!Unanswered
    <3>. QED
      BY <1>1, <1>2, <1>6, <2>1, <2>2, <2>3, <2>4, <3>1, FinishInv
  <2>5. CASE Links # {}
    <3>1. phase' = "parsing" /\ UNCHANGED <<parsed, lists, asked, added, page>>
      BY <2>1, <2>5
    <3>2. Styles!TypeOK'
      BY <1>1, <1>2, <2>1, <3>1, StylesSets DEF StylesInv, Styles!TypeOK, Styles!Sheets
    <3>3. ParseInv'
      BY <1>1, <1>6, <2>1, <2>5, <3>1 DEF StylesInv, ParseInv, Styles!Unanswered
    <3>4. TestInv'
      BY <1>6, <2>1, <2>2, <2>3, <3>1 DEF StylesInv, TestInv, ParseInv
    <3>5. AddedInv'
      BY <1>2, <3>1, SameWindow DEF StylesInv, AddedInv
    <3>. QED
      BY <3>2, <3>3, <3>4, <3>5 DEF StylesInv
  <2>. QED
    BY <2>4, <2>5
<1>. QED
  BY <1>3, <1>5, <1>6 DEF StylesInv, Styles!TypeOK

(* A reply, one that is late, or none in time. *)
LEMMA ReplySteps ==
    ASSUME StylesInv, NEW l \in Links,
           (\E ok \in BOOLEAN : Styles!Reply(l, ok)) \/ Styles!Overdue(l) \/ Styles!LateReply(l)
    PROVE  StylesInv'
<1>1. UNCHANGED <<ready, waiting, elements, width, barred, seen, threshold, timer, resizes>>
  BY DEF Styles!Reply, Styles!Overdue, Styles!LateReply, Styles!window
<1>2. request' \in [Links -> {"none", "sent", "overdue", "text", "failed", "lost"}]
  BY DEF Styles!Reply, Styles!Overdue, Styles!LateReply, StylesInv, Styles!TypeOK
<1>3. phase = "parsing" /\ request[l] \in {"sent", "overdue"}
  BY DEF Styles!Reply, Styles!Overdue, Styles!LateReply, StylesInv, Styles!TypeOK, ParseInv,
         Styles!Unanswered
<1>4. CASE Styles!Unanswered(request') = {}
  <2>1. PICK ok \in BOOLEAN : Styles!Reply(l, ok)
    <3>1. ~Styles!Overdue(l) /\ ~Styles!LateReply(l)
      BY <1>4 DEF Styles!Overdue, Styles!LateReply, Styles!Unanswered, StylesInv, Styles!TypeOK
    <3>. QED
      BY <3>1
  <2>2. Styles!Finish(request', waiting', elements')
    BY <1>1, <1>4, <2>1 DEF Styles!Reply
  <2>. QED
    BY <1>1, <1>2, <1>3, <1>4, <2>2, FinishInv DEF StylesInv, Styles!TypeOK, ParseInv, TestInv
<1>5. CASE Styles!Unanswered(request') # {}
  <2>1. UNCHANGED <<phase, parsed, lists, asked, added, page>>
    BY <1>5 DEF Styles!Reply, Styles!Overdue, Styles!LateReply, Styles!styles
  <2>2. Styles!TypeOK'
    BY <1>1, <1>2, <2>1 DEF StylesInv, Styles!TypeOK, Styles!Sheets, Styles!Test
  <2>3. ParseInv'
    BY <1>1, <1>3, <1>5, <2>1 DEF StylesInv, ParseInv, Styles!Unanswered, Styles!Test
  <2>4. TestInv'
    BY <1>1, <1>3, <2>1 DEF StylesInv, TestInv, Styles!Test
  <2>5. AddedInv'
    BY <1>1, <1>3, <2>1, SameWindow DEF StylesInv, AddedInv
  <2>. QED
    BY <2>2, <2>3, <2>4, <2>5 DEF StylesInv
<1>. QED
  BY <1>4, <1>5

\* The sheets added stay as the remembered window has them.
LEMMA Untested ==
    ASSUME AddedInv, UNCHANGED <<ready, timer, phase, parsed, added, seen, threshold>>
    PROVE  (ready /\ ~timer /\ phase = "parsed" =>
               \A s \in parsed : \E w \in Remembered : s \in added <=> Styles!Matches(s, w))'
<1>1. CASE ready /\ ~timer /\ phase = "parsed"
  <2>1. \A s \in parsed : \E w \in Remembered : s \in added <=> Styles!Matches(s, w)
    BY <1>1 DEF AddedInv
  <2>2. Remembered' = Remembered
    BY DEF Remembered
  <2>3. \A s \in parsed' : \E w \in Remembered' : s \in added' <=> Styles!Matches(s, w)
    BY <2>1, <2>2
  <2>. QED
    BY <2>3 DEF Styles!Matches, Styles!QueryHolds, Styles!Feature
<1>2. CASE ~(ready /\ ~timer /\ phase = "parsed")
  BY <1>2
<1>. QED
  BY <1>1, <1>2

\* Nothing depends on where the page is.
LEMMA PageOnly ==
    ASSUME StylesInv, page' \in {"off", "due", "shown"},
           UNCHANGED <<ready, phase, request, waiting, elements, parsed, lists, asked, added,
                       width, barred, seen, threshold, timer, resizes>>
    PROVE  StylesInv'
<1>1. Styles!TypeOK'
  BY DEF StylesInv, Styles!TypeOK, Styles!Sheets, Styles!Test
<1>2. ParseInv'
  BY DEF StylesInv, ParseInv, Styles!Unanswered, Styles!Test
<1>3. TestInv'
  BY DEF StylesInv, TestInv, Styles!Test
<1>4. AddedInv'
  BY Untested, SameWindow DEF StylesInv, AddedInv
<1>. QED
  BY <1>1, <1>2, <1>3, <1>4 DEF StylesInv

(* The handler of a resize: the page hardly differs from the one remembered, or *)
(* the timer is started.                                                        *)
LEMMA ResizeInv ==
    ASSUME StylesInv, width' \in Widths, barred' \in BOOLEAN, resizes' \in 0..MaxResizes, ready,
           \/ Styles!OnResize
           \/ threshold = 0 /\ UNCHANGED <<width, seen, timer>>,
           UNCHANGED <<Styles!files, Styles!styles, page, threshold>>
    PROVE  StylesInv'
<1> DEFINE counts == Styles!Viewport' - seen > threshold \/ seen - Styles!Viewport' > threshold
<1>1. /\ UNCHANGED <<ready, phase, request, waiting, elements, parsed, lists, asked, added,
                     page, threshold>>
      /\ ready = TRUE
  BY DEF Styles!files, Styles!styles, StylesInv, Styles!TypeOK
<1>2. /\ Styles!Viewport' \in Widths \union {w - ScrollBar : w \in Widths}
      /\ Styles!Viewport' \in Nat /\ seen \in Nat /\ threshold \in Nat
  <2>1. \A w \in Widths : w \in Nat /\ w - ScrollBar \in Nat
    BY StylesSets
  <2>2. Styles!Viewport' \in {width', width' - ScrollBar}
    BY DEF Styles!Viewport, Styles!Client
  <2>3. seen \in Nat /\ threshold \in Nat
    BY WindowOf DEF StylesInv
  <2>. QED
    BY <2>1, <2>2, <2>3
<1>3. \/ timer' = TRUE /\ seen' = Styles!Viewport'
      \/ timer' = timer /\ seen' = seen /\ ~counts
      \/ timer' = timer /\ seen' = seen /\ Styles!Viewport' = Styles!Viewport
  <2>1. CASE Styles!OnResize
    <3>1. timer' = (timer \/ counts) /\ seen' = (IF counts THEN Styles!Viewport' ELSE seen)
      BY <2>1 DEF Styles!OnResize
    <3> HIDE DEF counts
    <3>2. timer \in BOOLEAN
      BY DEF StylesInv, Styles!TypeOK
    <3>. QED
      BY <3>1, <3>2
  <2>2. CASE threshold = 0 /\ UNCHANGED <<width, seen, timer>>
    BY <1>1, <2>2 DEF Styles!Viewport
  <2>. QED
    BY <2>1, <2>2
<1> HIDE DEF counts
<1>4. Styles!TypeOK'
  <2>1. seen' \in Widths \union {w - ScrollBar : w \in Widths} /\ timer' \in BOOLEAN
    BY <1>2, <1>3 DEF StylesInv, Styles!TypeOK
  <2>. QED
    BY <1>1, <2>1 DEF StylesInv, Styles!TypeOK, Styles!Sheets, Styles!Test
<1>5. ParseInv' /\ TestInv'
  BY <1>1 DEF StylesInv, ParseInv, TestInv, Styles!Unanswered, Styles!Test
<1>6. CASE timer' = TRUE /\ seen' = Styles!Viewport'
  <2>1. (Styles!Viewport - seen <= threshold /\ seen - Styles!Viewport <= threshold)'
    BY <1>1, <1>2, <1>6
  <2>. QED
    BY <1>4, <1>5, <1>6, <2>1 DEF StylesInv, AddedInv
<1>7. CASE ~(timer' = TRUE /\ seen' = Styles!Viewport')
  <2>1. seen' = seen /\ timer' = timer
    BY <1>3, <1>7
  <2>2. Styles!Viewport' - seen <= threshold /\ seen - Styles!Viewport' <= threshold
    <3>0. Styles!Viewport' \in Int /\ seen \in Int /\ threshold \in Int
      BY <1>2
    <3>1. CASE ~counts
      <4>1. PICK v \in Int : v = Styles!Viewport'
        BY <3>0
      <4>2. ~(v - seen > threshold) /\ ~(seen - v > threshold)
        BY <3>1, <4>1 DEF counts
      <4>3. v - seen <= threshold /\ seen - v <= threshold
        BY <3>0, <4>2
      <4>. QED
        BY <4>1, <4>3
    <3>2. CASE Styles!Viewport' = Styles!Viewport
      BY <3>2 DEF StylesInv, AddedInv
    <3>. QED
      BY <1>3, <1>7, <3>1, <3>2
  <2>3. (Styles!Viewport - seen <= threshold /\ seen - Styles!Viewport <= threshold)'
    BY <1>1, <2>1, <2>2
  <2>4. AddedInv'
    BY <1>1, <2>1, <2>3, Untested DEF StylesInv, AddedInv
  <2>. QED
    BY <1>4, <1>5, <2>4 DEF StylesInv
<1>. QED
  BY <1>6, <1>7

LEMMA StylesNext == StylesInv /\ [Styles!Next]_styles => StylesInv'
<1> SUFFICES ASSUME StylesInv, [Styles!Next]_styles
             PROVE  StylesInv'
  OBVIOUS
<1>1. CASE Styles!Ready
  <2>1. Asks(Styles!Test, added) /\ Styles!Parsed(Styles!Test, elements', added)
    BY <1>1 DEF Styles!Ready, Styles!window, Asks, StylesInv, Styles!TypeOK
  <2>. QED
    BY <2>1, ParsedInv
<1>2. CASE Styles!Timer
  <2>1. Asks(Styles!Test, {}) /\ Styles!Parsed(Styles!Test, elements', {})
    BY <1>2 DEF Styles!Timer, Asks, StylesInv, Styles!TypeOK, TestInv
  <2>. QED
    BY <2>1, ParsedInv
<1>3. ASSUME NEW s \in Scripted, Styles!AddStyle(s)
      PROVE  StylesInv'
  <2>1. Asks(s, added) /\ Styles!Parsed(s, elements', added)
    BY <1>3 DEF Styles!AddStyle, Styles!window, Asks
  <2>. QED
    BY <2>1, ParsedInv
<1>4. CASE Styles!ShowPage
  <2>1. /\ UNCHANGED <<ready, phase, request, waiting, elements, parsed, lists, asked, added,
                       width, barred, seen, threshold, timer, resizes>>
        /\ page' = "shown"
    BY <1>4 DEF Styles!ShowPage, Styles!files, Styles!styles, Styles!window
  <2>. QED
    BY <2>1, PageOnly
<1>5. CASE UNCHANGED styles
  BY <1>5, PageOnly DEF styles, StylesInv, Styles!TypeOK
<1>6. ASSUME NEW w \in Widths, Styles!Resize(w)
      PROVE  StylesInv'
  <2>1. width' \in Widths /\ barred' \in BOOLEAN /\ resizes' \in 0..MaxResizes /\ ready
    BY <1>6, StylesSets DEF Styles!Resize, StylesInv, Styles!TypeOK
  <2>. QED
    BY <1>6, <2>1, ResizeInv DEF Styles!Resize
<1>7. CASE Styles!Overflow
  <2>1. width' \in Widths /\ barred' \in BOOLEAN /\ resizes' \in 0..MaxResizes /\ ready
    BY <1>7 DEF Styles!Overflow, StylesInv, Styles!TypeOK
  <2>. QED
    BY <1>7, <2>1, ResizeInv DEF Styles!Overflow
<1>. QED
  BY <1>1, <1>2, <1>3, <1>4, <1>5, <1>6, <1>7, ReplySteps DEF Styles!Next

LEMMA StylesInvImplies == StylesInv => Styles!TypeOK /\ StylesFitWindow
<1> SUFFICES ASSUME StylesInv
             PROVE  Styles!TypeOK /\ StylesFitWindow
  OBVIOUS
<1>1. Styles!AddedAsWindow
  <2> DEFINE pages == IF threshold = 0 THEN {width - ScrollBar, width}
                      ELSE Styles!Client - 2 * threshold .. Styles!Client + 2 * threshold
  <2>1. \A w \in Remembered : w \in pages
    <3>1. CASE threshold = 0
      <4>1. seen = width
        BY <3>1, WindowOf DEF StylesInv, AddedInv
      <4>. QED
        BY <3>1, <4>1 DEF Remembered
    <3>2. CASE threshold # 0
      <4>1. /\ seen \in Nat /\ threshold \in Nat /\ Styles!Client \in Nat
            /\ Styles!Client - seen <= threshold /\ seen - Styles!Client <= threshold
        BY <3>2, WindowOf DEF StylesInv, AddedInv
      <4>. QED
        BY <3>2, <4>1 DEF Remembered
    <3>. QED
      BY <3>1, <3>2
  <2> HIDE DEF pages
  <2>2. ready /\ ~timer /\ phase = "parsed" =>
           \A s \in parsed : \E w \in pages : s \in added <=> Styles!Matches(s, w)
    BY <2>1 DEF StylesInv, AddedInv
  <2>. QED
    BY <2>2 DEF Styles!AddedAsWindow, pages
<1>2. Styles!ParseWaitsForReply /\ Styles!CacheIsWhole
  BY DEF StylesInv, Styles!TypeOK, ParseInv, TestInv, Styles!ParseWaitsForReply,
         Styles!CacheIsWhole
<1>. QED
  BY <1>1, <1>2 DEF StylesInv, StylesFitWindow

-----------------------------------------------------------------------------
(* The conversions of colors *)

\* The fields of a picker are fractions of at most 360 degrees and 100 percent.
SpaceInv ==
    /\ rgb \in Space!RGB
    /\ hsb.h.d \in Nat \ {0} /\ hsb.s.d \in Nat \ {0} /\ hsb.b.d \in Nat \ {0}
    /\ hsb.h.n \in 0 .. 360 * hsb.h.d
    /\ hsb.s.n \in 0 .. 100 * hsb.s.d /\ hsb.b.n \in 0 .. 100 * hsb.b.d

(* A fraction of at most b is rounded to at most b. *)
LEMMA RoundOf ==
    ASSUME NEW n \in Nat, NEW d \in Nat \ {0}, NEW b \in Nat, n <= d * b, NEW u
    PROVE  Space!Round(n, d, u) \in 0..b
<1>1. n \div d \in 0..b
  BY ShareOf
<1>2. (2 * n + d) \div (2 * d) \in 0..b
  <2> DEFINE q == (2 * n + d) \div (2 * d)
  <2>1. /\ q \in Int /\ (2 * d) * q \in Int /\ (2 * d) * q <= 2 * n + d
        /\ 2 * n + d < (2 * d) * q + 2 * d
    <3>1. 2 * n + d \in Nat /\ 2 * d \in Nat \ {0}
      OBVIOUS
    <3>. QED
      BY <3>1, Division
  <2> HIDE DEF q
  <2>2. (2 * d) * q = 2 * (d * q) /\ d * q \in Int /\ d * b \in Int
    BY <2>1
  <2>3. 2 * (d * q) <= 2 * (d * b) + d
    BY <2>1, <2>2
  <2>4. q <= b
    <3>1. CASE q >= b + 1
      <4>1. d * (b + 1) <= d * q
        BY <2>1, <3>1
      <4>2. d * (b + 1) = d * b + d
        OBVIOUS
      <4>. QED
        BY <2>2, <2>3, <4>1, <4>2
    <3>. QED
      BY <2>1, <3>1
  <2>5. q >= 0
    <3>1. CASE q <= -1
      <4>1. d * (q + 1) <= 0
        BY <2>1, <3>1
      <4>2. d * (q + 1) = d * q + d
        BY <2>1
      <4>. QED
        BY <2>1, <2>2, <4>1, <4>2
    <3>. QED
      BY <2>1, <3>1
  <2>. QED
    BY <2>1, <2>4, <2>5 DEF q
<1>. QED
  BY <1>1, <1>2 DEF Space!Round

LEMMA Extremes ==
    ASSUME NEW a \in Int, NEW b \in Int, NEW c \in Int
    PROVE  /\ Space!Max({a, b, c}) \in {a, b, c}
           /\ \A y \in {a, b, c} : y <= Space!Max({a, b, c})
           /\ Space!Min({a, b, c}) \in {a, b, c}
           /\ \A y \in {a, b, c} : Space!Min({a, b, c}) <= y
<1> DEFINE S == {a, b, c}
<1>1. \E x \in S : \A y \in S : x >= y
  <2>1. (a >= b /\ a >= c) \/ (b >= a /\ b >= c) \/ (c >= a /\ c >= b)
    OBVIOUS
  <2>. QED
    BY <2>1
<1>2. \E x \in S : \A y \in S : x =< y
  <2>1. (a <= b /\ a <= c) \/ (b <= a /\ b <= c) \/ (c <= a /\ c <= b)
    OBVIOUS
  <2>. QED
    BY <2>1
<1>3. \A y \in S : y \in Int
  OBVIOUS
<1> HIDE DEF S
<1>4. Space!Max(S) \in S /\ \A y \in S : Space!Max(S) >= y
  BY <1>1 DEF Space!Max
<1>5. Space!Min(S) \in S /\ \A y \in S : Space!Min(S) =< y
  BY <1>2 DEF Space!Min
<1>6. (\A y \in S : y <= Space!Max(S)) /\ (\A y \in S : Space!Min(S) <= y)
  BY <1>3, <1>4, <1>5
<1>. QED
  BY <1>4, <1>5, <1>6 DEF S

(* No two channels differ by more than the spread. *)
LEMMA SpreadOf ==
    ASSUME NEW c \in Space!RGB
    PROVE  /\ Space!Largest(c) \in {c.r, c.g, c.b}
           /\ c.r <= Space!Largest(c) /\ c.g <= Space!Largest(c) /\ c.b <= Space!Largest(c)
           /\ Space!Spread(c) \in 0 .. Space!Largest(c)
           /\ \A x, y \in {c.r, c.g, c.b} : x - y \in -Space!Spread(c) .. Space!Spread(c)
<1>1. c.r \in 0..255 /\ c.g \in 0..255 /\ c.b \in 0..255
  BY DEF Space!RGB
<1> DEFINE S == {c.r, c.g, c.b}
           l == Space!Max(S)
           m == Space!Min(S)
<1>2. Space!Largest(c) = l /\ Space!Spread(c) = l - m
  BY DEF Space!Largest, Space!Spread
<1>3. l \in S /\ (\A y \in S : y <= l) /\ m \in S /\ (\A y \in S : m <= y)
  <2>1. c.r \in Int /\ c.g \in Int /\ c.b \in Int
    BY <1>1
  <2>. QED
    BY <2>1, Extremes
<1>4. S \subseteq 0..255 /\ c.r \in S /\ c.g \in S /\ c.b \in S
  BY <1>1
<1> HIDE DEF S, l, m
<1>5. l \in 0..255 /\ m \in 0..255 /\ m <= l
  BY <1>3, <1>4
<1>6. \A x, y \in S : x - y \in -(l - m) .. (l - m)
  <2> SUFFICES ASSUME NEW x \in S, NEW y \in S
               PROVE  x - y \in -(l - m) .. (l - m)
    OBVIOUS
  <2>1. x \in Int /\ y \in Int /\ m <= x /\ x <= l /\ m <= y /\ y <= l
    BY <1>3, <1>4
  <2>. QED
    BY <1>5, <2>1
<1>7. l - m \in 0..l
  BY <1>5
<1>8. c.r <= l /\ c.g <= l /\ c.b <= l
  BY <1>3, <1>4
<1>. QED
  BY <1>2, <1>3, <1>6, <1>7, <1>8 DEF S

(* The hue is in the circle, and so are saturation and brightness in percent. *)
LEMMA FractionsOf ==
    ASSUME NEW c \in Space!RGB
    PROVE  LET x == Space!RGBToHSB(c)
           IN  /\ x.h.d \in Nat \ {0} /\ x.s.d \in Nat \ {0} /\ x.b.d \in Nat \ {0}
               /\ x.h.n \in 0 .. 360 * x.h.d
               /\ x.s.n \in 0 .. 100 * x.s.d /\ x.b.n \in 0 .. 100 * x.b.d
<1> DEFINE l == Space!Largest(c)
           d == Space!Spread(c)
           x == Space!RGBToHSB(c)
<1>1. /\ c.r \in 0..255 /\ c.g \in 0..255 /\ c.b \in 0..255
      /\ l \in {c.r, c.g, c.b} /\ c.r <= l /\ c.g <= l /\ c.b <= l
      /\ d \in 0..l /\ \A y, z \in {c.r, c.g, c.b} : y - z \in -d..d
  BY SpreadOf DEF Space!RGB
<1>2. Space!Hue(c).d \in Nat \ {0} /\ Space!Hue(c).n \in 0 .. 360 * Space!Hue(c).d
  <2> DEFINE n == CASE c.r = l -> c.g - c.b
                    [] c.r # l /\ c.g = l -> 2 * d + c.b - c.r
                    [] OTHER -> 4 * d + c.r - c.g
  <2>1. Space!Hue(c) = IF d = 0 THEN [n |-> 300, d |-> 1]
                       ELSE [n |-> 60 * n + (IF n < 0 THEN 360 * d ELSE 0), d |-> d]
    BY DEF Space!Hue, Space!Fraction
  <2>2. n \in -d .. 5 * d
    <3>1. c.g - c.b \in -d..d /\ c.b - c.r \in -d..d /\ c.r - c.g \in -d..d
      BY <1>1
    <3>. QED
      BY <1>1, <3>1
  <2> HIDE DEF n, d, l
  <2>3. CASE d = 0
    BY <2>1, <2>3
  <2>4. CASE d # 0
    <3>1. d \in Nat \ {0} /\ n \in Int
      BY <1>1, <2>2, <2>4
    <3>. QED
      BY <2>1, <2>2, <2>4, <3>1
  <2>. QED
    BY <2>3, <2>4
<1>3. x.h = Space!Hue(c)
  BY DEF Space!RGBToHSB
<1>4. x.s.d \in Nat \ {0} /\ x.s.n \in 0 .. 100 * x.s.d
  <2>1. x.s = IF l = 0 THEN [n |-> 0, d |-> 1] ELSE [n |-> 100 * d, d |-> l]
    BY DEF Space!RGBToHSB, Space!Fraction
  <2>. QED
    BY <1>1, <2>1
<1>5. x.b = [n |-> 100 * l, d |-> 255]
  BY DEF Space!RGBToHSB, Space!Fraction
<1>6. x.b.d \in Nat \ {0} /\ x.b.n \in 0 .. 100 * x.b.d
  <2>1. l \in 0..255
    BY <1>1
  <2>2. 100 * l \in 0 .. 100 * 255
    BY <2>1
  <2>3. x.b.d = 255 /\ x.b.n = 100 * l
    BY <1>5
  <2>4. 255 \in Nat \ {0}
    OBVIOUS
  <2> HIDE DEF x, l
  <2>. QED
    BY <2>2, <2>3, <2>4
<1>. QED
  BY <1>2, <1>3, <1>4, <1>6

LEMMA ProductOf ==
    ASSUME NEW a \in Nat, NEW A \in Nat, NEW b \in Nat, NEW B \in Nat, a <= A, b <= B
    PROVE  a * b \in Nat /\ A * b \in Nat /\ a * b <= A * b /\ A * b <= A * B
<1>1. a * b <= A * b
  OBVIOUS
<1>2. A * b <= A * B
  OBVIOUS
<1>. QED
  BY <1>1, <1>2

(* Every sixth of the circle has its order of channels. *)
LEMMA ChannelsOf ==
    ASSUME NEW h \in 0..360, NEW v \in 0..255, NEW a \in 0..v, NEW b \in 0..v, NEW c \in 0..v
    PROVE  \A x : x = Space!Channels(h, v, a, b, c)
                    => x \in Space!RGB /\ x.r <= v /\ x.g <= v /\ x.b <= v
<1>1. v \in 0..255 /\ a \in 0..255 /\ b \in 0..255 /\ c \in 0..255
  OBVIOUS
<1>2. \/ (h < 60 \/ h = 360) \/ (h >= 60 /\ h < 120) \/ (h >= 120 /\ h < 180)
      \/ (h >= 180 /\ h < 240) \/ (h >= 240 /\ h < 300) \/ (h >= 300 /\ h < 360)
  OBVIOUS
<1>3. Space!Channels(h, v, a, b, c) \in
         {[r |-> v, g |-> b, b |-> a], [r |-> c, g |-> v, b |-> a], [r |-> a, g |-> v, b |-> b],
          [r |-> a, g |-> c, b |-> v], [r |-> b, g |-> a, b |-> v], [r |-> v, g |-> a, b |-> c]}
  BY <1>2 DEF Space!Channels
<1>. QED
  BY <1>1, <1>3 DEF Space!RGB

(* The largest channel of a color is its brightness: the others are less. *)
LEMMA ColorOf ==
    ASSUME NEW x, NEW up,
           x.h.d \in Nat \ {0}, x.s.d \in Nat \ {0}, x.b.d \in Nat \ {0},
           x.h.n \in 0 .. 360 * x.h.d,
           x.s.n \in 0 .. 100 * x.s.d, x.b.n \in 0 .. 100 * x.b.d
    PROVE  LET v == Space!Round(x.b.n * 255, x.b.d * 100, TRUE)
               c == Space!HSBToRGB(x, up)
           IN  v \in 0..255 /\ c \in Space!RGB /\ c.r <= v /\ c.g <= v /\ c.b <= v
<1> DEFINE h == Space!Round(x.h.n, x.h.d, "h" \in up)
           s == Space!Round(x.s.n * 255, x.s.d * 100, "s" \in up \/ x.s.d = 1)
           v == Space!Round(x.b.n * 255, x.b.d * 100, TRUE)
           t2 == 60 * (255 - s) * v
           t3 == s * v * (h % 60)
<1>1. h \in 0..360
  <2>1. x.h.n \in Nat /\ 360 \in Nat /\ x.h.n <= x.h.d * 360
    OBVIOUS
  <2>. QED
    BY <2>1, RoundOf
<1>2. s \in 0..255
  <2> DEFINE n == x.s.n * 255
             d == x.s.d * 100
             u == "s" \in up \/ x.s.d = 1
  <2>1. n \in Nat /\ d \in Nat \ {0} /\ 255 \in Nat /\ n <= d * 255
    OBVIOUS
  <2> HIDE DEF n, d, u
  <2>2. Space!Round(n, d, u) \in 0..255
    BY <2>1, RoundOf
  <2>. QED
    BY <2>2 DEF n, d, u
<1>3. v \in 0..255
  <2>1. /\ x.b.n * 255 \in Nat /\ x.b.d * 100 \in Nat \ {0} /\ 255 \in Nat
        /\ x.b.n * 255 <= (x.b.d * 100) * 255
    OBVIOUS
  <2>. QED
    BY <2>1, RoundOf
<1>4. Space!HSBToRGB(x, up) = IF s = 0 THEN [r |-> v, g |-> v, b |-> v]
                          ELSE Space!Channels(h, v, Space!Round(t2, 15300, "channel" \in up),
                                              Space!Round(t2 + t3, 15300, "channel" \in up),
                                              Space!Round(15300 * v - t3, 15300, "channel" \in up))
  BY DEF Space!HSBToRGB
<1>5. /\ t2 \in Nat /\ t3 \in Nat /\ t2 <= 15300 * v /\ t2 + t3 <= 15300 * v
      /\ 15300 * v - t3 \in Nat /\ 15300 * v - t3 <= 15300 * v
  <2> HIDE DEF h, s, v
  <2> DEFINE p == s * v
             m == h % 60
  <2>1. p \in Nat /\ m \in 0..60 /\ v \in Nat
    BY <1>1, <1>2, <1>3
  <2>2. p <= 255 * v
    BY <1>2, <1>3, ProductOf
  <2>3. t2 = 15300 * v - 60 * p
    BY <1>2, <1>3
  <2>4. t3 = p * m
    OBVIOUS
  <2> HIDE DEF p, m, t2, t3
  <2>5. p * m \in Nat /\ p * m <= 60 * p
    BY <2>1
  <2>. QED
    BY <2>1, <2>2, <2>3, <2>4, <2>5
<1> HIDE DEF h, s, v, t2, t3
<1>6. /\ Space!Round(t2, 15300, "channel" \in up) \in 0..v
      /\ Space!Round(t2 + t3, 15300, "channel" \in up) \in 0..v
      /\ Space!Round(15300 * v - t3, 15300, "channel" \in up) \in 0..v
  <2>1. v \in Nat /\ 15300 \in Nat \ {0} /\ t2 + t3 \in Nat
    BY <1>3, <1>5
  <2>. QED
    BY <1>5, <2>1, RoundOf
<1> DEFINE c == Space!HSBToRGB(x, up)
<1>7. c \in Space!RGB /\ c.r <= v /\ c.g <= v /\ c.b <= v
  <2>1. CASE s = 0
    <3>1. c = [r |-> v, g |-> v, b |-> v]
      BY <1>4, <2>1
    <3> HIDE DEF c
    <3>. QED
      BY <1>3, <3>1 DEF Space!RGB
  <2>2. CASE s # 0
    <3> DEFINE least == Space!Round(t2, 15300, "channel" \in up)
               rise == Space!Round(t2 + t3, 15300, "channel" \in up)
               fall == Space!Round(15300 * v - t3, 15300, "channel" \in up)
    <3>1. c = Space!Channels(h, v, least, rise, fall)
      BY <1>4, <2>2
    <3>2. least \in 0..v /\ rise \in 0..v /\ fall \in 0..v
      BY <1>6
    <3> HIDE DEF c, least, rise, fall
    <3>. QED
      BY <1>1, <1>3, <3>1, <3>2, ChannelsOf
  <2>. QED
    BY <2>1, <2>2
<1>. QED
  BY <1>3, <1>7 DEF v

LEMMA SpaceInit == Space!ColorSpaceAssumption /\ Space!Init => SpaceInv
<1> SUFFICES ASSUME Space!ColorSpaceAssumption, Space!Init
             PROVE  SpaceInv
  OBVIOUS
<1>1. rgb \in Space!RGB /\ hsb = Space!RGBToHSB(rgb)
  BY DEF Space!ColorSpaceAssumption, Space!Init, Space!RGB
<1>. QED
  BY <1>1, FractionsOf DEF SpaceInv

(* A field of at most b shows at most b when it is read as a whole number. *)
LEMMA TruncatedOf ==
    ASSUME NEW f, NEW below, f.d \in Nat \ {0}, NEW b \in Nat, f.n \in 0 .. b * f.d
    PROVE  /\ Space!Truncated(f, below).d = 1
           /\ Space!Truncated(f, below).n \in 0..b
<1> DEFINE q == f.n \div f.d
<1>1. f.n \in Nat /\ f.n <= f.d * b
  OBVIOUS
<1>2. q \in Nat /\ q <= b
  BY <1>1, ShareOf
<1>3. f.n < f.d * q + f.d
  BY <1>1, Division
<1>4. ASSUME f.n > 0, f.n % f.d = 0
      PROVE  q >= 1
  <2>1. CASE q = 0
    <3>1. f.n < f.d
      BY <1>1, <1>3, <2>1
    <3>2. f.n % f.d = f.n
      BY <1>1, <3>1
    <3>. QED
      BY <1>4, <3>2
  <2>. QED
    BY <1>2, <2>1
<1>5. Space!Truncated(f, below) \in {[n |-> q, d |-> 1]}
                                  \union (IF f.n > 0 /\ f.n % f.d = 0
                                          THEN {[n |-> q - 1, d |-> 1]} ELSE {})
  BY DEF Space!Truncated, Space!Fraction
<1> HIDE DEF q
<1>. QED
  BY <1>2, <1>4, <1>5

LEMMA SpaceNext == SpaceInv /\ [Space!Next]_space => SpaceInv'
<1> SUFFICES ASSUME SpaceInv, [Space!Next]_space
             PROVE  SpaceInv'
  OBVIOUS
<1>1. CASE Space!ReadRGB
  <2>1. hsb' = Space!RGBToHSB(rgb)
    BY <1>1 DEF Space!ReadRGB
  <2>2. PICK up \in SUBSET Space!Ties : rgb' = Space!HSBToRGB(hsb', up)
    BY <1>1 DEF Space!ReadRGB
  <2>3. /\ hsb'.h.d \in Nat \ {0} /\ hsb'.s.d \in Nat \ {0} /\ hsb'.b.d \in Nat \ {0}
        /\ hsb'.h.n \in 0 .. 360 * hsb'.h.d
        /\ hsb'.s.n \in 0 .. 100 * hsb'.s.d /\ hsb'.b.n \in 0 .. 100 * hsb'.b.d
    BY <2>1, FractionsOf DEF SpaceInv
  <2>4. rgb' \in Space!RGB
    BY <2>2, <2>3, ColorOf
  <2>. QED
    BY <2>3, <2>4 DEF SpaceInv, Space!RGB
<1>2. CASE Space!ReadHSB
  <2>1. PICK below \in SUBSET {"h", "s"} :
           hsb' = [h |-> Space!Truncated(hsb.h, "h" \in below),
                   s |-> Space!Truncated(hsb.s, "s" \in below),
                   b |-> Space!Truncated(hsb.b, FALSE)]
    BY <1>2 DEF Space!ReadHSB
  <2>2. PICK up \in SUBSET Space!Ties : rgb' = Space!HSBToRGB(hsb', up)
    BY <1>2 DEF Space!ReadHSB
  <2>3. /\ hsb'.h.d = 1 /\ hsb'.h.n \in 0..360 /\ hsb'.s.d = 1 /\ hsb'.s.n \in 0..100
        /\ hsb'.b.d = 1 /\ hsb'.b.n \in 0..100
    <3>1. hsb'.h.d = 1 /\ hsb'.h.n \in 0..360
      <4>1. hsb.h.d \in Nat \ {0} /\ hsb.h.n \in 0 .. 360 * hsb.h.d /\ 360 \in Nat
        BY DEF SpaceInv
      <4>2. /\ Space!Truncated(hsb.h, "h" \in below).d = 1
            /\ Space!Truncated(hsb.h, "h" \in below).n \in 0..360
        BY <4>1, TruncatedOf, Zenon
      <4>. QED
        BY <2>1, <4>2
    <3>2. hsb'.s.d = 1 /\ hsb'.s.n \in 0..100
      <4>1. hsb.s.d \in Nat \ {0} /\ hsb.s.n \in 0 .. 100 * hsb.s.d /\ 100 \in Nat
        BY DEF SpaceInv
      <4>2. /\ Space!Truncated(hsb.s, "s" \in below).d = 1
            /\ Space!Truncated(hsb.s, "s" \in below).n \in 0..100
        BY <4>1, TruncatedOf, Zenon
      <4>. QED
        BY <2>1, <4>2
    <3>3. hsb'.b.d = 1 /\ hsb'.b.n \in 0..100
      <4>1. hsb.b.d \in Nat \ {0} /\ hsb.b.n \in 0 .. 100 * hsb.b.d /\ 100 \in Nat
        BY DEF SpaceInv
      <4>2. /\ Space!Truncated(hsb.b, FALSE).d = 1
            /\ Space!Truncated(hsb.b, FALSE).n \in 0..100
        BY <4>1, TruncatedOf, Zenon
      <4>. QED
        BY <2>1, <4>2
    <3>. QED
      BY <3>1, <3>2, <3>3
  <2>4. /\ hsb'.h.d \in Nat \ {0} /\ hsb'.s.d \in Nat \ {0} /\ hsb'.b.d \in Nat \ {0}
        /\ hsb'.h.n \in 0 .. 360 * hsb'.h.d
        /\ hsb'.s.n \in 0 .. 100 * hsb'.s.d /\ hsb'.b.n \in 0 .. 100 * hsb'.b.d
    BY <2>3
  <2>5. rgb' \in Space!RGB
    BY <2>2, <2>4, ColorOf
  <2>. QED
    BY <2>4, <2>5 DEF SpaceInv, Space!RGB
<1>3. CASE UNCHANGED space
  BY <1>3 DEF space, SpaceInv, Space!RGB
<1>. QED
  BY <1>1, <1>2, <1>3 DEF Space!Next

-----------------------------------------------------------------------------
(* Sums and lists built step by step *)

LessThan == {p \in Nat \X Nat : p[1] < p[2]}

LEMMA LessThanIsWellFounded == IsWellFoundedOn(LessThan, Nat)
<1> SUFFICES ASSUME NEW f \in [Nat -> Nat], \A n \in Nat : <<f[n + 1], f[n]>> \in LessThan
             PROVE  FALSE
  BY DEF IsWellFoundedOn
<1>. QED
  BY NatLessThanWellFounded, SMT DEF IsWellFoundedOn, OpToRel, LessThan

(* Induction, in the form of a minimal counterexample. *)
LEMMA NaturalInduction ==
    ASSUME NEW S, 0 \in S, \A n \in Nat : n \in S => n + 1 \in S
    PROVE  Nat \subseteq S
<1> SUFFICES ASSUME Nat \ S # {}
             PROVE  FALSE
  OBVIOUS
<1>1. PICK x \in Nat \ S : \A y \in Nat \ S : <<y, x>> \notin LessThan
  BY WFMin, LessThanIsWellFounded
<1>2. x # 0 /\ x - 1 \in Nat /\ x - 1 < x
  BY <1>1
<1>3. x - 1 \in S
  BY <1>1, <1>2 DEF LessThan
<1>. QED
  BY <1>1, <1>2, <1>3

\* f is the function whose first value is b and whose others step computes.
Recursive(f, n, b, step) ==
    f = [i \in 0..n |-> IF i = 0 THEN b ELSE step[i][f[i - 1]]]

(* There is a function for every recursion over the first n numbers. *)
LEMMA RecursionExists ==
    ASSUME NEW X, NEW b \in X, NEW step \in [Nat \ {0} -> [X -> X]]
    PROVE  \A n \in Nat : \E f \in [0..n -> X] : Recursive(f, n, b, step)
<1> DEFINE M == {n \in Nat : \E f \in [0..n -> X] : Recursive(f, n, b, step)}
<1>1. 0 \in M
  <2> DEFINE g == [i \in 0..0 |-> b]
  <2>1. g \in [0..0 -> X] /\ Recursive(g, 0, b, step)
    BY DEF Recursive
  <2>. QED
    BY <2>1
<1>2. ASSUME NEW n \in Nat, n \in M
      PROVE  n + 1 \in M
  <2>1. PICK f \in [0..n -> X] : Recursive(f, n, b, step)
    BY <1>2
  <2> DEFINE last == step[n + 1][f[n]]
             longer == [i \in 0..n + 1 |-> IF i = n + 1 THEN last ELSE f[i]]
  <2>2. f[n] \in X /\ last \in X
    <3>1. n \in 0..n /\ n + 1 \in Nat \ {0}
      OBVIOUS
    <3>. QED
      BY <3>1
  <2> HIDE DEF last
  <2>3. /\ longer \in [0..n + 1 -> X] /\ longer[n + 1] = last
        /\ \A i \in 0..n : longer[i] = f[i]
    <3>1. \A i \in 0..n + 1 : (i # n + 1 => i \in 0..n)
      OBVIOUS
    <3>2. \A i \in 0..n : i \in 0..n + 1 /\ i # n + 1
      OBVIOUS
    <3>3. n + 1 \in 0..n + 1
      OBVIOUS
    <3>. QED
      BY <2>2, <3>1, <3>2, <3>3
  <2>4. \A i \in 0..n : f[i] = IF i = 0 THEN b ELSE step[i][f[i - 1]]
    BY <2>1 DEF Recursive
  <2>5. longer = [i \in 0..n + 1 |-> longer[i]]
    OBVIOUS
  <2> HIDE DEF longer
  <2>6. ASSUME NEW i \in 0..n + 1
        PROVE  longer[i] = IF i = 0 THEN b ELSE step[i][longer[i - 1]]
    <3>1. CASE i = n + 1
      <4>1. i # 0 /\ i - 1 = n /\ n \in 0..n
        BY <3>1
      <4>. QED
        BY <2>3, <3>1, <4>1 DEF last
    <3>2. CASE i # n + 1
      <4>1. i \in 0..n /\ (i # 0 => i - 1 \in 0..n)
        BY <3>2
      <4>. QED
        BY <2>3, <2>4, <4>1
    <3>. QED
      BY <3>1, <3>2
  <2>7. Recursive(longer, n + 1, b, step)
    BY <2>5, <2>6 DEF Recursive
  <2> HIDE DEF Recursive
  <2>. QED
    BY <2>3, <2>7
<1> HIDE DEF M
<1>3. Nat \subseteq M
  BY <1>1, <1>2, NaturalInduction
<1>. QED
  BY <1>3 DEF M

Values == Nat \union {NoNumber}

LEMMA NumberOf == \A v \in Values : Pie!Number(v) \in Nat
BY DEF Values, Pie!Number

\* The sum grows by the values in these places.
Sums(f, values, places) ==
    /\ f \in [0..Len(values) -> Nat] /\ f[0] = 0
    /\ \A n \in 1..Len(values) :
          f[n] = f[n - 1] + IF n \in places THEN Pie!Number(values[n]) ELSE 0

LEMMA SumSteps ==
    ASSUME NEW values \in Seq(Values), NEW places
    PROVE  \E f : Sums(f, values, places) /\ Pie!SumOf(values, places) = f[Len(values)]
<1> DEFINE n == Len(values)
           sum == CHOOSE f : f = [i \in 0..n |->
                     IF i = 0 THEN 0
                     ELSE f[i - 1] + IF i \in places THEN Pie!Number(values[i]) ELSE 0]
           more(i) == IF i \in places /\ i \in 1..n THEN Pie!Number(values[i]) ELSE 0
           step == [i \in Nat \ {0} |-> [x \in Nat |-> x + more(i)]]
<1>1. n \in Nat /\ \A i \in 1..n : values[i] \in Values
  OBVIOUS
<1>2. \A i \in Nat : more(i) \in Nat
  BY <1>1, NumberOf
<1> HIDE DEF more
<1>3. step \in [Nat \ {0} -> [Nat -> Nat]]
  <2>1. \A i \in Nat \ {0}, x \in Nat : x + more(i) \in Nat
    BY <1>2
  <2>. QED
    BY <2>1
<1>4. PICK f \in [0..n -> Nat] : Recursive(f, n, 0, step)
  BY <1>1, <1>3, RecursionExists
<1>5. \A i \in 1..n : f[i - 1] \in Nat /\ step[i][f[i - 1]] = f[i - 1] + more(i)
  <2> TAKE i \in 1..n
  <2>1. i \in Nat \ {0} /\ i - 1 \in 0..n
    BY <1>1
  <2>2. f[i - 1] \in Nat
    BY <1>4, <2>1
  <2>. QED
    BY <2>1, <2>2
<1> HIDE DEF step
<1>6. \A i \in 0..n : f[i] = IF i = 0 THEN 0 ELSE step[i][f[i - 1]]
  BY <1>4 DEF Recursive
<1>7. f[0] = 0 /\ \A i \in 1..n :
         f[i] = f[i - 1] + IF i \in places THEN Pie!Number(values[i]) ELSE 0
  <2>1. 0 \in 0..n /\ \A i \in 1..n : i \in 0..n /\ i # 0
    BY <1>1
  <2>2. \A i \in 1..n : f[i] = f[i - 1] + more(i)
    BY <1>5, <1>6, <2>1
  <2>3. f[0] = 0
    BY <1>6, <2>1
  <2>. QED
    BY <2>2, <2>3 DEF more
<1>8. f = [i \in 0..n |-> IF i = 0 THEN 0
             ELSE f[i - 1] + IF i \in places THEN Pie!Number(values[i]) ELSE 0]
  BY <1>1, <1>4, <1>7
<1>9. sum = [i \in 0..n |-> IF i = 0 THEN 0
               ELSE sum[i - 1] + IF i \in places THEN Pie!Number(values[i]) ELSE 0]
  BY <1>8
<1>10. Pie!SumOf(values, places) = sum[n]
  BY DEF Pie!SumOf
<1> HIDE DEF sum
<1>11. sum = f
  <2> DEFINE S == {k \in Nat : k \in 0..n => sum[k] = f[k]}
  <2>1. 0 \in S
    BY <1>1, <1>7, <1>9
  <2>2. ASSUME NEW k \in Nat, k \in S
        PROVE  k + 1 \in S
    <3>1. CASE k + 1 \in 0..n
      <4>1. k \in 0..n /\ k + 1 # 0 /\ (k + 1) - 1 = k /\ k + 1 \in 1..n
        BY <3>1
      <4>2. sum[k + 1] = sum[k] + IF k + 1 \in places THEN Pie!Number(values[k + 1]) ELSE 0
        BY <1>9, <3>1, <4>1
      <4>3. f[k + 1] = f[k] + IF k + 1 \in places THEN Pie!Number(values[k + 1]) ELSE 0
        BY <1>7, <4>1
      <4>. QED
        BY <2>2, <4>1, <4>2, <4>3
    <3>. QED
      BY <3>1
  <2> HIDE DEF S
  <2>3. Nat \subseteq S
    BY <2>1, <2>2, NaturalInduction
  <2>4. \A k \in 0..n : sum[k] = f[k]
    BY <1>1, <2>3 DEF S
  <2>. QED
    BY <1>4, <1>9, <2>4
<1>. QED
  BY <1>4, <1>7, <1>10, <1>11 DEF Sums

LEMMA SumIsNat ==
    ASSUME NEW values \in Seq(Values), NEW places
    PROVE  Pie!SumOf(values, places) \in Nat
<1>1. PICK f : Sums(f, values, places) /\ Pie!SumOf(values, places) = f[Len(values)]
  BY SumSteps
<1>2. Len(values) \in 0..Len(values)
  OBVIOUS
<1>. QED
  BY <1>1, <1>2 DEF Sums

(* A part of the values does not sum up to more than all of them. *)
LEMMA SumOfPart ==
    ASSUME NEW values \in Seq(Values), NEW places
    PROVE  Pie!SumOf(values, places) <= Pie!Sum(values)
<1>1. PICK f : Sums(f, values, places) /\ Pie!SumOf(values, places) = f[Len(values)]
  BY SumSteps
<1>2. PICK g : Sums(g, values, DOMAIN values) /\ Pie!Sum(values) = g[Len(values)]
  BY SumSteps DEF Pie!Sum
<1> DEFINE S == {k \in Nat : k \in 0..Len(values) => f[k] <= g[k]}
<1>3. 0 \in S
  BY <1>1, <1>2 DEF Sums
<1>4. ASSUME NEW k \in Nat, k \in S
      PROVE  k + 1 \in S
  <2>1. CASE k + 1 \in 0..Len(values)
    <3>1. k \in 0..Len(values) /\ k + 1 \in 1..Len(values) /\ (k + 1) - 1 = k
      BY <2>1
    <3>2. f[k + 1] = f[k] + IF k + 1 \in places THEN Pie!Number(values[k + 1]) ELSE 0
      BY <1>1, <3>1 DEF Sums
    <3>3. g[k + 1] = g[k] + Pie!Number(values[k + 1])
      BY <1>2, <3>1 DEF Sums
    <3>4. f[k] \in Nat /\ g[k] \in Nat /\ Pie!Number(values[k + 1]) \in Nat
      <4>1. values[k + 1] \in Values
        BY <3>1
      <4>. QED
        BY <1>1, <1>2, <3>1, <4>1, NumberOf DEF Sums
    <3>. QED
      BY <1>4, <3>1, <3>2, <3>3, <3>4
  <2>. QED
    BY <2>1
<1> HIDE DEF S
<1>5. Nat \subseteq S
  BY <1>3, <1>4, NaturalInduction
<1>. QED
  BY <1>1, <1>2, <1>5 DEF S

LEMMA SumOfOne ==
    ASSUME NEW values \in Seq(Values), NEW p \in 1..Len(values)
    PROVE  Pie!SumOf(values, {p}) = Pie!Number(values[p])
<1>1. PICK f : Sums(f, values, {p}) /\ Pie!SumOf(values, {p}) = f[Len(values)]
  BY SumSteps
<1> DEFINE v == Pie!Number(values[p])
           S == {k \in Nat : k \in 0..Len(values) => f[k] = IF k < p THEN 0 ELSE v}
<1>2. v \in Nat
  <2>1. values[p] \in Values
    OBVIOUS
  <2>. QED
    BY <2>1, NumberOf
<1>3. 0 \in S
  BY <1>1 DEF Sums
<1>4. ASSUME NEW k \in Nat, k \in S
      PROVE  k + 1 \in S
  <2>1. CASE k + 1 \in 0..Len(values)
    <3>1. k \in 0..Len(values) /\ k + 1 \in 1..Len(values) /\ (k + 1) - 1 = k
      BY <2>1
    <3>2. f[k + 1] = f[k] + IF k + 1 = p THEN v ELSE 0
      BY <1>1, <3>1 DEF Sums
    <3> HIDE DEF v
    <3>. QED
      BY <1>2, <1>4, <3>1, <3>2
  <2>. QED
    BY <2>1
<1> HIDE DEF S
<1>5. Nat \subseteq S
  BY <1>3, <1>4, NaturalInduction
<1>. QED
  BY <1>1, <1>5 DEF S

-----------------------------------------------------------------------------
(* The pie *)

\* The value in this place is too small for a slice of its own.
Small(values, i) ==
    /\ Pie!Sum(values) > 0
    /\ Pie!Number(values[i]) * 100 <= options.threshold * Pie!Sum(values)

Part(values) == [of : SUBSET (1..Len(values)), value : Nat]
OwnPart(values, k) == [of |-> {k}, value |-> Pie!Number(values[k])]

\* The parts made of the first n values: one for each that is not small.
OwnParts(parts, values, n) ==
    /\ parts \in Seq(Part(values))
    /\ \A j \in 1..Len(parts) : \E k \in 1..n : parts[j] = OwnPart(values, k) /\ ~Small(values, k)
    /\ \A k \in 1..n : ~Small(values, k) => \E j \in 1..Len(parts) : parts[j] = OwnPart(values, k)
    /\ \A i, j \in 1..Len(parts) : i # j => parts[i].of \intersect parts[j].of = {}

LEMMA OwnPartsStep ==
    ASSUME NEW values \in Seq(Values), NEW n \in Nat, n + 1 <= Len(values),
           NEW parts, OwnParts(parts, values, n)
    PROVE  OwnParts(IF Small(values, n + 1) THEN parts ELSE Append(parts, OwnPart(values, n + 1)),
                    values, n + 1)
<1> DEFINE own == OwnPart(values, n + 1)
<1>1. CASE Small(values, n + 1)
  <2>1. \A k \in 1..n + 1 : k \in 1..n \/ k = n + 1
    OBVIOUS
  <2>2. 1..n \subseteq 1..n + 1
    OBVIOUS
  <2>. QED
    BY <1>1, <2>1, <2>2 DEF OwnParts
<1>2. CASE ~Small(values, n + 1)
  <2> DEFINE longer == Append(parts, own)
             m == Len(parts)
  <2>1. own \in Part(values) /\ own.of = {n + 1}
    <3>1. values[n + 1] \in Values /\ n + 1 \in 1..Len(values)
      OBVIOUS
    <3>. QED
      BY <3>1, NumberOf DEF OwnPart, Part
  <2>2. parts \in Seq(Part(values)) /\ m \in Nat
    BY DEF OwnParts
  <2> HIDE DEF own
  <2>3. /\ longer \in Seq(Part(values)) /\ Len(longer) = m + 1 /\ longer[m + 1] = own
        /\ \A j \in 1..m : longer[j] = parts[j]
    BY <2>1, <2>2
  <2> HIDE DEF longer, m
  <2>4. \A j \in 1 .. m + 1 : j \in 1..m \/ j = m + 1
    BY <2>2
  <2>5. 1..m \subseteq 1 .. m + 1 /\ m + 1 \in 1 .. m + 1 /\ m + 1 \notin 1..m
    BY <2>2
  <2>6. n + 1 \in 1 .. n + 1 /\ n + 1 \notin 1..n /\ 1..n \subseteq 1 .. n + 1
        /\ \A k \in 1 .. n + 1 : k \in 1..n \/ k = n + 1
    OBVIOUS
  <2>7. \A j \in 1..m : \E k \in 1..n : parts[j] = OwnPart(values, k) /\ ~Small(values, k)
    BY DEF OwnParts, m
  <2>8. \A k \in 1..n : ~Small(values, k) => \E j \in 1..m : parts[j] = OwnPart(values, k)
    BY DEF OwnParts, m
  <2>9. \A i, j \in 1..m : i # j => parts[i].of \intersect parts[j].of = {}
    BY DEF OwnParts, m
  <2>10. \A j \in 1 .. m + 1 : \E k \in 1 .. n + 1 :
            longer[j] = OwnPart(values, k) /\ ~Small(values, k)
    BY <1>2, <2>3, <2>4, <2>6, <2>7 DEF own
  <2>11. \A k \in 1 .. n + 1 : ~Small(values, k) =>
            \E j \in 1 .. m + 1 : longer[j] = OwnPart(values, k)
    BY <2>3, <2>5, <2>6, <2>8 DEF own
  <2>12. \A j \in 1..m : parts[j].of \intersect own.of = {}
    <3>1. \A j \in 1..m : \E k \in 1..n : parts[j].of = {k}
      <4> TAKE j \in 1..m
      <4>1. PICK k \in 1..n : parts[j] = OwnPart(values, k)
        BY <2>7
      <4>. QED
        BY <4>1 DEF OwnPart
    <3>. QED
      BY <2>1, <2>6, <3>1
  <2>13. \A i, j \in 1 .. m + 1 : i # j => longer[i].of \intersect longer[j].of = {}
    BY <2>3, <2>4, <2>9, <2>12
  <2>14. OwnParts(longer, values, n + 1)
    BY <2>3, <2>10, <2>11, <2>13 DEF OwnParts
  <2>. QED
    BY <1>2, <2>14 DEF longer, own
<1>. QED
  BY <1>1, <1>2

(* The list that combine builds has the parts of all values but the small ones. *)
LEMMA OwnPartsOf ==
    ASSUME NEW values \in Seq(Values)
    PROVE  LET newdata[n \in 0 .. Len(values)] ==
                   IF n = 0 THEN <<>>
                   ELSE IF Small(values, n) THEN newdata[n - 1]
                        ELSE Append(newdata[n - 1],
                                    [of |-> {n}, value |-> Pie!Number(values[n])])
           IN  OwnParts(newdata[Len(values)], values, Len(values))
<1> DEFINE n == Len(values)
           X == Seq(Part(values))
           next(i, x) == IF Small(values, i) THEN x ELSE Append(x, OwnPart(values, i))
           step == [i \in Nat \ {0} |-> [x \in X |-> IF i \in 1..n THEN next(i, x) ELSE x]]
           newdata == CHOOSE f : f = [i \in 0..n |-> IF i = 0 THEN <<>> ELSE next(i, f[i - 1])]
<1>1. n \in Nat /\ \A i \in 1..n : OwnPart(values, i) \in Part(values)
  <2>1. \A i \in 1..n : values[i] \in Values
    OBVIOUS
  <2>. QED
    BY <2>1, NumberOf DEF OwnPart, Part
<1>2. <<>> \in X /\ \A i \in 1..n, x \in X : next(i, x) \in X
  BY <1>1
<1> HIDE DEF next, X
<1>3. step \in [Nat \ {0} -> [X -> X]]
  <2>1. \A i \in Nat \ {0}, x \in X : (IF i \in 1..n THEN next(i, x) ELSE x) \in X
    BY <1>2
  <2>. QED
    BY <2>1
<1>4. PICK f \in [0..n -> X] : Recursive(f, n, <<>>, step)
  BY <1>1, <1>2, <1>3, RecursionExists
<1>5. \A i \in 1..n : step[i][f[i - 1]] = next(i, f[i - 1])
  <2> TAKE i \in 1..n
  <2>1. i \in Nat \ {0} /\ i - 1 \in 0..n
    BY <1>1
  <2>2. f[i - 1] \in X
    BY <1>4, <2>1
  <2>. QED
    BY <2>1, <2>2
<1> HIDE DEF step
<1>6. f = [i \in 0..n |-> IF i = 0 THEN <<>> ELSE next(i, f[i - 1])]
  <2>1. \A i \in 0..n : i = 0 \/ i \in 1..n
    BY <1>1
  <2>2. \A i \in 0..n : f[i] = IF i = 0 THEN <<>> ELSE step[i][f[i - 1]]
    BY <1>4 DEF Recursive
  <2>. QED
    BY <1>4, <1>5, <2>1, <2>2
<1>7. newdata = [i \in 0..n |-> IF i = 0 THEN <<>> ELSE next(i, newdata[i - 1])]
  BY <1>6
<1> HIDE DEF newdata
<1>8. OwnParts(newdata[n], values, n)
  <2> DEFINE S == {k \in Nat : k \in 0..n => OwnParts(newdata[k], values, k)}
  <2>1. 0 \in S
    <3>1. newdata[0] = <<>>
      BY <1>1, <1>7
    <3>. QED
      BY <3>1 DEF OwnParts
  <2>2. ASSUME NEW k \in Nat, k \in S
        PROVE  k + 1 \in S
    <3>1. CASE k + 1 \in 0..n
      <4>1. k \in 0..n /\ k + 1 # 0 /\ (k + 1) - 1 = k /\ k + 1 <= Len(values)
        BY <3>1
      <4>2. newdata[k + 1] = next(k + 1, newdata[k])
        BY <1>7, <3>1, <4>1
      <4>3. OwnParts(newdata[k], values, k)
        BY <2>2, <4>1
      <4>. QED
        BY <4>1, <4>2, <4>3, OwnPartsStep DEF next
    <3>. QED
      BY <3>1
  <2> HIDE DEF S
  <2>3. Nat \subseteq S
    BY <2>1, <2>2, NaturalInduction
  <2>. QED
    BY <1>1, <2>3 DEF S
<1>. QED
  BY <1>8 DEF newdata, next, OwnPart

\* A list of slices of setting s that is the series: see SlicesAreTheSeries.
Measured(list, values, s) ==
    /\ list = [i \in 1..Len(list) |-> list[i]] /\ Len(list) \in Nat
    /\ \A i \in 1..Len(list) :
          /\ list[i].id = <<s, i>> /\ list[i].of \subseteq 1..Len(values)
          /\ list[i].value = Pie!SumOf(values, list[i].of)
    /\ \A k \in 1..Len(values) : \E i \in 1..Len(list) : k \in list[i].of
    /\ \A i, j \in 1..Len(list) : i # j => list[i].of \intersect list[j].of = {}
    /\ \A i \in 1 .. Len(list) - 1 :
          list[i].value * 100 > options.threshold * Pie!Sum(values) \/ Pie!Sum(values) = 0

LEMMA CombineOf ==
    ASSUME NEW values \in Seq(Values), NEW s, options.threshold \in Int
    PROVE  Measured(Pie!Combine(values, s), values, s)
<1> DEFINE n == Len(values)
           others == {i \in DOMAIN values : Small(values, i)}
           newdata[i \in 0 .. Len(values)] ==
               IF i = 0 THEN <<>>
               ELSE IF Small(values, i) THEN newdata[i - 1]
                    ELSE Append(newdata[i - 1],
                                [of |-> {i}, value |-> Pie!Number(values[i])])
           own == newdata[Len(values)]
           rest == [of |-> others, value |-> Pie!SumOf(values, others)]
           parts == own \o IF others = {} THEN <<>> ELSE <<rest>>
           list == Pie!Combine(values, s)
<1>1. list = [i \in DOMAIN parts |-> [id |-> <<s, i>>, of |-> parts[i].of,
                                      value |-> parts[i].value, known |-> TRUE]]
  BY DEF Pie!Combine, Small
<1>2. OwnParts(own, values, n)
  BY OwnPartsOf
<1> HIDE DEF newdata, list
<1>3. n \in Nat /\ DOMAIN values = 1..n
  OBVIOUS
<1>4. /\ own \in Seq(Part(values)) /\ rest \in Part(values) /\ others \subseteq 1..n
      /\ \A k \in 1..n : k \in others <=> Small(values, k)
  BY <1>2, <1>3, SumIsNat DEF OwnParts, Part
<1> DEFINE m == Len(own)
<1>5. /\ m \in Nat
      /\ \A i \in 1..m : \E k \in 1..n : own[i] = OwnPart(values, k) /\ ~Small(values, k)
      /\ \A k \in 1..n : ~Small(values, k) => \E i \in 1..m : own[i] = OwnPart(values, k)
      /\ \A i, j \in 1..m : i # j => own[i].of \intersect own[j].of = {}
  <2> HIDE DEF own
  <2>1. m \in Nat
    BY <1>4
  <2>. QED
    BY <1>2, <2>1 DEF OwnParts
<1>6. \A i \in 1..m : own[i].of \subseteq 1..n /\ own[i].value = Pie!SumOf(values, own[i].of)
  <2> TAKE i \in 1..m
  <2>1. PICK k \in 1..n : own[i] = OwnPart(values, k)
    BY <1>5
  <2>2. own[i].of = {k} /\ own[i].value = Pie!Number(values[k])
    BY <2>1 DEF OwnPart
  <2>. QED
    BY <2>2, SumOfOne
<1>7. \A i \in 1..m : own[i].value * 100 > options.threshold * Pie!Sum(values)
                        \/ Pie!Sum(values) = 0
  <2> TAKE i \in 1..m
  <2>1. PICK k \in 1..n : own[i] = OwnPart(values, k) /\ ~Small(values, k)
    BY <1>5
  <2>2. own[i].value = Pie!Number(values[k])
    BY <2>1 DEF OwnPart
  <2>3. Pie!Number(values[k]) \in Nat /\ Pie!Sum(values) \in Nat
    BY SumIsNat, NumberOf DEF Pie!Sum
  <2>4. Pie!Number(values[k]) * 100 \in Int /\ options.threshold * Pie!Sum(values) \in Int
    BY <2>3
  <2>. QED
    BY <2>1, <2>2, <2>3, <2>4 DEF Small
<1>8. \A i \in 1..m : own[i].of \intersect others = {}
  <2> TAKE i \in 1..m
  <2>1. PICK k \in 1..n : own[i] = OwnPart(values, k) /\ ~Small(values, k)
    BY <1>5
  <2>2. own[i].of = {k} /\ k \notin others
    BY <1>4, <2>1 DEF OwnPart
  <2>. QED
    BY <2>2
<1>9. \A k \in 1..n : k \in others \/ \E i \in 1..m : k \in own[i].of
  <2> TAKE k \in 1..n
  <2>1. CASE ~Small(values, k)
    <3>1. PICK i \in 1..m : own[i] = OwnPart(values, k)
      BY <1>5, <2>1
    <3>. QED
      BY <3>1 DEF OwnPart
  <2>. QED
    BY <1>4, <2>1
<1> DEFINE size == IF others = {} THEN m ELSE m + 1
<1>10. /\ size \in Nat /\ DOMAIN parts = 1..size
       /\ \A i \in 1..m : parts[i] = own[i]
       /\ others # {} => parts[m + 1] = rest
  <2>1. CASE others = {}
    <3>1. parts = own \o <<>>
      BY <2>1
    <3>. QED
      BY <1>4, <1>5, <2>1, <3>1
  <2>2. CASE others # {}
    <3>1. parts = own \o <<rest>>
      BY <2>2
    <3> HIDE DEF own, rest, others, parts
    <3>2. Len(parts) = m + 1 /\ parts \in Seq(Part(values)) /\ parts[m + 1] = rest
          /\ \A i \in 1..m : parts[i] = own[i]
      BY <1>4, <1>5, <3>1
    <3>. QED
      BY <1>5, <2>2, <3>2
  <2>. QED
    BY <2>1, <2>2
<1> HIDE DEF own, parts
<1>11. /\ DOMAIN list = 1..size
       /\ \A i \in 1..size : /\ list[i].id = <<s, i>> /\ list[i].of = parts[i].of
                             /\ list[i].value = parts[i].value
       /\ list = [i \in 1..size |-> list[i]]
  BY <1>1, <1>10
<1>12. Len(list) = size
  BY <1>10, <1>11
<1>13. rest.of = others /\ rest.value = Pie!SumOf(values, others)
  OBVIOUS
<1> HIDE DEF rest, others, m
<1>14. \A i \in 1..size : i \in 1..m \/ (i = m + 1 /\ others # {})
  BY <1>5
<1>15. 1..m \subseteq 1..size /\ (others # {} => m + 1 \in 1..size) /\ size - 1 <= m
  BY <1>5
<1> HIDE DEF size
<1>16. \A i \in 1..size : /\ list[i].of \subseteq 1..n
                          /\ list[i].value = Pie!SumOf(values, list[i].of)
  BY <1>4, <1>6, <1>10, <1>11, <1>13, <1>14
<1>17. \A k \in 1..n : \E i \in 1..size : k \in list[i].of
  BY <1>9, <1>10, <1>11, <1>13, <1>15
<1>18. \A i, j \in 1..size : i # j => list[i].of \intersect list[j].of = {}
  <2> SUFFICES ASSUME NEW i \in 1..size, NEW j \in 1..size, i # j
               PROVE  list[i].of \intersect list[j].of = {}
    OBVIOUS
  <2>1. list[i].of = parts[i].of /\ list[j].of = parts[j].of
    BY <1>11
  <2>2. CASE i \in 1..m /\ j \in 1..m
    BY <1>5, <1>10, <2>1, <2>2
  <2>3. CASE i \in 1..m /\ j = m + 1 /\ others # {}
    BY <1>8, <1>10, <1>13, <2>1, <2>3
  <2>4. CASE j \in 1..m /\ i = m + 1 /\ others # {}
    BY <1>8, <1>10, <1>13, <2>1, <2>4
  <2>. QED
    BY <1>14, <2>2, <2>3, <2>4
<1>19. \A i \in 1 .. size - 1 :
          list[i].value * 100 > options.threshold * Pie!Sum(values) \/ Pie!Sum(values) = 0
  <2>1. \A i \in 1 .. size - 1 : i \in 1..m /\ i \in 1..size
    BY <1>5, <1>10, <1>15
  <2>. QED
    BY <1>7, <1>10, <1>11, <2>1
<1>20. Measured(list, values, s)
  BY <1>10, <1>11, <1>12, <1>16, <1>17, <1>18, <1>19 DEF Measured
<1>. QED
  BY <1>20 DEF list

\* The slices of the values of setting s, measured or not.
IsSlices(list, values, s) ==
    /\ list = [i \in 1..Len(list) |-> list[i]] /\ Len(list) \in Nat
    /\ \A i \in 1..Len(list) :
          /\ list[i].id = <<s, i>> /\ list[i].of \subseteq 1..Len(values)
          /\ list[i].value = Pie!SumOf(values, list[i].of)
    /\ (\A i \in 1..Len(list) : list[i].known) => Measured(list, values, s)

LEMMA CombineIsSlices ==
    ASSUME NEW values \in Seq(Values), NEW s, options.threshold \in Int
    PROVE  IsSlices(Pie!Combine(values, s), values, s)
<1>1. Measured(Pie!Combine(values, s), values, s)
  BY CombineOf
<1>. QED
  BY <1>1 DEF Measured, IsSlices

LEMMA RawIsSlices ==
    ASSUME NEW values \in Seq(Values), NEW s
    PROVE  IsSlices(Pie!Raw(values, s), values, s)
<1> DEFINE list == Pie!Raw(values, s)
           n == Len(values)
<1>1. n \in Nat /\ list = [i \in 1..n |-> [id |-> <<s, i>>, of |-> {i},
                                           value |-> Pie!Number(values[i]), known |-> FALSE]]
  BY DEF Pie!Raw
<1> HIDE DEF list
<1>2. Len(list) = n /\ DOMAIN list = 1..n /\ list = [i \in 1..n |-> list[i]]
  BY <1>1
<1>3. \A i \in 1..n : /\ list[i].id = <<s, i>> /\ list[i].of = {i} /\ list[i].known = FALSE
                      /\ list[i].value = Pie!SumOf(values, {i})
  BY <1>1, SumOfOne
<1>4. ASSUME \A i \in 1..n : list[i].known
      PROVE  Measured(list, values, s)
  <2>1. n = 0
    <3>1. CASE n # 0
      <4>1. 1 \in 1..n
        BY <1>1, <3>1
      <4>. QED
        BY <1>3, <1>4, <4>1
    <3>. QED
      BY <3>1
  <2>. QED
    BY <1>2, <2>1 DEF Measured
<1>5. IsSlices(list, values, s)
  BY <1>1, <1>2, <1>3, <1>4 DEF IsSlices
<1>. QED
  BY <1>5 DEF list

\* The slices say what they are of, and what is drawn of them stays as it is.
\* The one light that the list has is that of the pointer: where moves are listened
\* to, a click is where the pointer is, whose slice is lit already.
Heard == IF options.hoverable THEN "plothover" ELSE "plotclick"

PieInv ==
    /\ options \in Options /\ given \in Charts /\ processed \in BOOLEAN
    /\ sets \in 0..MaxSets
    /\ IsSlices(slices, given, sets)
    /\ attempts \in 0..10 /\ inside \in BOOLEAN /\ errors \in 0..MaxErrors
    /\ labels \subseteq (0..sets) \X (Nat \ {0})
    /\ Pie!PieInCanvas /\ Pie!OutsideIsSaid
    /\ highlights = IF over = Pie!NoSlice THEN <<>>
                    ELSE <<[slice |-> over, auto |-> Heard]>>
    /\ stale \in BOOLEAN /\ (~stale => lit = Pie!Lit)

LEMMA PieOptions ==
    /\ Charts \subseteq Seq(Values) /\ MaxErrors \in Nat /\ MaxSets \in Nat
    /\ LegendWidths \subseteq Nat /\ CanvasWidth \in Nat /\ CanvasHeight \in Nat
    /\ \A o \in Options : /\ o.threshold \in Int /\ o.offsetLeft \in Int \union {NoNumber}
                          /\ o.tilt \in Nat \X (Nat \ {0})
BY PiesAssumption DEF Pie!PieAssumption, Pie!Option, Values

LEMMA SumLater == \A p : Pie!SumOf(given, p)' = Pie!SumOf(given', p)
BY DEF Pie!SumOf, Pie!Number

LEMMA TotalLater == Pie!Sum(given)' = Pie!Sum(given')
BY DEF Pie!Sum, Pie!SumOf, Pie!Number

LEMMA SlicesLater ==
    ASSUME options' = options, IsSlices(slices', given', sets')
    PROVE  IsSlices(slices, given, sets)'
<1>1. Measured(slices', given', sets') => Measured(slices, given, sets)'
  BY SumLater, TotalLater DEF Measured
<1>. QED
  BY <1>1, SumLater DEF IsSlices

\* The circle is no wider than the canvas and no higher.
LEMMA CenterOf ==
    ASSUME options \in Options, NEW legend \in LegendWidths
    PROVE  /\ Pie!Center(legend) >= Pie!MaxRadius
           /\ Pie!Center(legend) + Pie!MaxRadius <= 2 * CanvasWidth
<1> DEFINE r == Pie!MaxRadius
<1>1. r \in Int /\ r <= CanvasWidth
  <2> DEFINE high == (CanvasHeight * options.tilt[2]) \div options.tilt[1]
  <2>1. options.tilt[1] \in Nat /\ options.tilt[2] \in Nat \ {0} /\ CanvasHeight \in Nat
        /\ CanvasWidth \in Nat
    BY PieOptions
  <2>2. options.tilt[1] # 0 => high \in Int
    BY <2>1
  <2>3. r = IF options.tilt[1] = 0 \/ CanvasWidth < high THEN CanvasWidth ELSE high
    BY DEF Pie!MaxRadius
  <2> HIDE DEF high, r
  <2>. QED
    BY <2>1, <2>2, <2>3
<1> DEFINE left == IF options.offsetLeft # NoNumber THEN CanvasWidth + 2 * options.offsetLeft
                   ELSE IF options.west THEN CanvasWidth + legend ELSE CanvasWidth - legend
<1>2. left \in Int /\ CanvasWidth \in Nat
  <2>1. options.offsetLeft # NoNumber => options.offsetLeft \in Int
    BY PieOptions
  <2>2. legend \in Nat /\ CanvasWidth \in Nat
    BY PieOptions
  <2>. QED
    BY <2>1, <2>2
<1>3. Pie!Center(legend) = IF left < r THEN r
                           ELSE IF left > 2 * CanvasWidth - r THEN 2 * CanvasWidth - r ELSE left
  BY DEF Pie!Center
<1> HIDE DEF left, r
<1>4. Pie!Center(legend) >= r /\ Pie!Center(legend) + r <= 2 * CanvasWidth
  BY <1>1, <1>2, <1>3
<1>. QED
  BY <1>4 DEF r

\* What the loop leaves of a list of one light.
LEMMA ClearedNothing ==
    ASSUME NEW event, NEW s
    PROVE  Pie!Cleared(<<>>, event, s) = <<>>
<1> DEFINE start == [kept |-> <<>>, skip |-> FALSE]
           list == <<>>
           loop == CHOOSE f : f = [n \in 0 .. Len(list) |->
                      IF n = 0 THEN start
                      ELSE IF ~f[n - 1].skip /\ list[n].auto = event /\ list[n].slice # s
                           THEN [kept |-> f[n - 1].kept, skip |-> TRUE]
                           ELSE [kept |-> Append(f[n - 1].kept, list[n]), skip |-> FALSE]]
           g == [n \in 0..0 |-> start]
<1>1. Pie!Cleared(list, event, s) = loop[Len(list)].kept
  BY DEF Pie!Cleared
<1>2. Len(list) = 0 /\ 0 \in 0..0 /\ \A n \in 0..0 : n = 0
  OBVIOUS
<1> HIDE DEF list, start
<1>3. g = [n \in 0 .. Len(list) |->
              IF n = 0 THEN start
              ELSE IF ~g[n - 1].skip /\ list[n].auto = event /\ list[n].slice # s
                   THEN [kept |-> g[n - 1].kept, skip |-> TRUE]
                   ELSE [kept |-> Append(g[n - 1].kept, list[n]), skip |-> FALSE]]
  BY <1>2
<1> HIDE DEF g
<1>4. loop = [n \in 0 .. Len(list) |->
              IF n = 0 THEN start
              ELSE IF ~loop[n - 1].skip /\ list[n].auto = event /\ list[n].slice # s
                   THEN [kept |-> loop[n - 1].kept, skip |-> TRUE]
                   ELSE [kept |-> Append(loop[n - 1].kept, list[n]), skip |-> FALSE]]
  BY <1>3
<1> HIDE DEF loop
<1>5. loop[0] = start
  BY <1>2, <1>4
<1>. QED
  BY <1>1, <1>2, <1>5 DEF start, list

LEMMA ClearedOne ==
    ASSUME NEW light, NEW event, NEW s
    PROVE  Pie!Cleared(<<light>>, event, s)
             = IF light.auto = event /\ light.slice # s THEN <<>> ELSE <<light>>
<1> DEFINE start == [kept |-> <<>>, skip |-> FALSE]
           list == <<light>>
           goes == light.auto = event /\ light.slice # s
           end == IF goes THEN [kept |-> <<>>, skip |-> TRUE]
                  ELSE [kept |-> Append(<<>>, light), skip |-> FALSE]
           loop == CHOOSE f : f = [n \in 0 .. Len(list) |->
                      IF n = 0 THEN start
                      ELSE IF ~f[n - 1].skip /\ list[n].auto = event /\ list[n].slice # s
                           THEN [kept |-> f[n - 1].kept, skip |-> TRUE]
                           ELSE [kept |-> Append(f[n - 1].kept, list[n]), skip |-> FALSE]]
           g == [n \in 0..1 |-> IF n = 0 THEN start ELSE end]
<1>1. Pie!Cleared(list, event, s) = loop[Len(list)].kept
  BY DEF Pie!Cleared
<1>2. Len(list) = 1 /\ list[1] = light /\ \A n \in 0..1 : n = 0 \/ n = 1
  OBVIOUS
<1>3. start.kept = <<>> /\ start.skip = FALSE
  OBVIOUS
<1> HIDE DEF list, start
<1>4. ASSUME NEW f, f[0] = start
      PROVE  (IF ~f[1 - 1].skip /\ list[1].auto = event /\ list[1].slice # s
              THEN [kept |-> f[1 - 1].kept, skip |-> TRUE]
              ELSE [kept |-> Append(f[1 - 1].kept, list[1]), skip |-> FALSE]) = end
  <2>1. 1 - 1 = 0 /\ f[1 - 1] = start
    BY <1>4
  <2>2. f[1 - 1].skip = FALSE /\ f[1 - 1].kept = <<>>
    BY <1>3, <2>1
  <2>3. goes <=> ~f[1 - 1].skip /\ list[1].auto = event /\ list[1].slice # s
    BY <1>2, <2>2
  <2>. QED
    BY <1>2, <2>2, <2>3
<1> HIDE DEF end
<1>5. g[0] = start /\ g[1] = end
  OBVIOUS
<1>6. g = [n \in 0 .. Len(list) |->
              IF n = 0 THEN start
              ELSE IF ~g[n - 1].skip /\ list[n].auto = event /\ list[n].slice # s
                   THEN [kept |-> g[n - 1].kept, skip |-> TRUE]
                   ELSE [kept |-> Append(g[n - 1].kept, list[n]), skip |-> FALSE]]
  BY <1>2, <1>4, <1>5
<1> HIDE DEF g
<1>7. loop = [n \in 0 .. Len(list) |->
              IF n = 0 THEN start
              ELSE IF ~loop[n - 1].skip /\ list[n].auto = event /\ list[n].slice # s
                   THEN [kept |-> loop[n - 1].kept, skip |-> TRUE]
                   ELSE [kept |-> Append(loop[n - 1].kept, list[n]), skip |-> FALSE]]
  BY <1>6
<1> HIDE DEF loop
<1>8. loop[0] = start
  BY <1>2, <1>7
<1>9. loop[1] = end
  BY <1>2, <1>4, <1>7, <1>8
<1>. QED
  BY <1>1, <1>2, <1>9 DEF end, list

\* The list follows the pointer: a click beside the moves changes nothing.
LEMMA LightFollows ==
    ASSUME PieInv, NEW event, NEW s,
           event # Heard => s \in {over, Pie!NoSlice}, Pie!Light(event, s)
    PROVE  /\ highlights' = IF event # Heard THEN highlights
                            ELSE IF s = Pie!NoSlice THEN <<>>
                            ELSE <<[slice |-> s, auto |-> event]>>
           /\ lit' = lit /\ stale' \in BOOLEAN
           /\ ~stale' => ~stale /\ highlights' = highlights
<1> DEFINE kept == Pie!Cleared(highlights, event, s)
           new == s # Pie!NoSlice /\ \A h \in Pie!ToSet(kept) : h.slice # s
           light == [slice |-> over, auto |-> Heard]
<1>1. /\ highlights' = IF new THEN Append(kept, [slice |-> s, auto |-> event]) ELSE kept
      /\ stale' = (stale \/ kept # highlights \/ new) /\ lit' = lit
  BY DEF Pie!Light
<1>2. stale \in BOOLEAN
  BY DEF PieInv
<1> HIDE DEF kept
<1>3. stale' \in BOOLEAN /\ (~stale' => ~stale /\ highlights' = highlights)
  <2> HIDE DEF new
  <2>. QED
    BY <1>1, <1>2
<1>4. CASE over = Pie!NoSlice
  <2>1. highlights = <<>> /\ kept = <<>>
    BY <1>4, ClearedNothing DEF PieInv, kept
  <2>2. Pie!ToSet(kept) = {}
    BY <2>1 DEF Pie!ToSet
  <2>3. new <=> s # Pie!NoSlice
    BY <2>2
  <2>4. Append(kept, [slice |-> s, auto |-> event]) = <<[slice |-> s, auto |-> event]>>
    BY <2>1
  <2>. QED
    BY <1>1, <1>3, <1>4, <2>1, <2>3, <2>4
<1>5. CASE over # Pie!NoSlice
  <2>1. highlights = <<light>> /\ light.slice = over /\ light.auto = Heard
    BY <1>5 DEF PieInv
  <2>2. kept = IF light.auto = event /\ light.slice # s THEN <<>> ELSE <<light>>
    BY <2>1, ClearedOne DEF kept
  <2>3. CASE event # Heard
    <3>1. kept = <<light>>
      BY <2>1, <2>2, <2>3
    <3>2. Pie!ToSet(kept) = {light}
      BY <3>1 DEF Pie!ToSet
    <3>3. ~new
      BY <2>1, <2>3, <3>2
    <3>. QED
      BY <1>1, <1>3, <2>1, <2>3, <3>1, <3>3
  <2>4. CASE event = Heard /\ s = over
    <3>1. kept = <<light>>
      BY <2>1, <2>2, <2>4
    <3>2. Pie!ToSet(kept) = {light}
      BY <3>1 DEF Pie!ToSet
    <3>3. ~new
      BY <2>1, <2>4, <3>2
    <3>. QED
      BY <1>1, <1>3, <1>5, <2>1, <2>4, <3>1, <3>3
  <2>5. CASE event = Heard /\ s # over
    <3>1. kept = <<>>
      BY <2>1, <2>2, <2>5
    <3>2. Pie!ToSet(kept) = {}
      BY <3>1 DEF Pie!ToSet
    <3>3. new <=> s # Pie!NoSlice
      BY <3>2
    <3>4. Append(kept, [slice |-> s, auto |-> event]) = <<[slice |-> s, auto |-> event]>>
      BY <3>1
    <3>. QED
      BY <1>1, <1>3, <2>5, <3>1, <3>3, <3>4
  <2>. QED
    BY <2>3, <2>4, <2>5
<1>. QED
  BY <1>4, <1>5

LEMMA LitLater == highlights' = highlights => Pie!Lit' = Pie!Lit
BY DEF Pie!Lit, Pie!ToSet

\* What the lights do to the rest: nothing.
LEMMA LightInv ==
    ASSUME PieInv, NEW event, NEW s,
           event # Heard => s \in {over, Pie!NoSlice}, Pie!Light(event, s),
           over' = IF event # Heard THEN over ELSE s,
           UNCHANGED <<options, slices, processed, given, sets, center, radius, attempts,
                       inside, labels, errors>>
    PROVE  PieInv'
<1>1. /\ highlights' = IF event # Heard THEN highlights
                       ELSE IF s = Pie!NoSlice THEN <<>>
                       ELSE <<[slice |-> s, auto |-> event]>>
      /\ lit' = lit /\ stale' \in BOOLEAN
      /\ ~stale' => ~stale /\ highlights' = highlights
  BY LightFollows
<1>2. highlights' = IF over' = Pie!NoSlice THEN <<>>
                    ELSE <<[slice |-> over', auto |-> Heard]>>
  BY <1>1 DEF PieInv
<1>3. ~stale' => lit' = Pie!Lit'
  BY <1>1, LitLater DEF PieInv
<1>4. IsSlices(slices, given, sets)'
  BY SlicesLater DEF PieInv
<1>5. (Pie!PieInCanvas /\ Pie!OutsideIsSaid)'
  BY DEF PieInv, Pie!PieInCanvas, Pie!OutsideIsSaid
<1>. QED
  BY <1>1, <1>2, <1>3, <1>4, <1>5 DEF PieInv, Pie!NoSlice, Heard

LEMMA PieInit == Pie!Init => PieInv
<1> SUFFICES ASSUME Pie!Init
             PROVE  PieInv
  OBVIOUS
<1>1. options \in Options /\ given \in Charts /\ slices = Pie!Combine(given, 0) /\ sets = 0
  BY DEF Pie!Init
<1>2. IsSlices(slices, given, sets)
  <2>1. given \in Seq(Values) /\ options.threshold \in Int
    BY <1>1, PieOptions
  <2>. QED
    BY <1>1, <2>1, CombineIsSlices
<1>3. /\ attempts = 0 /\ inside = TRUE /\ labels = {} /\ errors = 0 /\ processed \in BOOLEAN
      /\ over = Pie!NoSlice /\ highlights = <<>> /\ lit = {} /\ stale = FALSE
  BY DEF Pie!Init
<1>4. 0 \in 0..MaxSets /\ 0 \in 0..MaxErrors /\ 0 \in 0..10
  BY PieOptions
<1>5. Pie!PieInCanvas /\ Pie!OutsideIsSaid
  BY <1>3 DEF Pie!PieInCanvas, Pie!OutsideIsSaid
<1>6. Pie!Lit = {}
  BY <1>3 DEF Pie!Lit, Pie!ToSet
<1>. QED
  BY <1>1, <1>2, <1>3, <1>4, <1>5, <1>6 DEF PieInv

LEMMA SetDataInv ==
    ASSUME PieInv, NEW values \in Charts, Pie!SetData(values)
    PROVE  PieInv'
<1>1. /\ sets < MaxSets /\ sets' = sets + 1 /\ given' = values
      /\ slices' = IF processed THEN Pie!Raw(values, sets + 1) ELSE Pie!Combine(values, sets + 1)
      /\ processed' = (processed \/ values # <<>>)
      /\ UNCHANGED <<options, center, radius, attempts, inside, labels, errors, over,
                     highlights, lit, stale>>
  BY DEF Pie!SetData, Pie!picture, Pie!lights
<1>2. IsSlices(slices', given', sets')
  <2>1. values \in Seq(Values) /\ options.threshold \in Int
    BY PieOptions DEF PieInv
  <2>. QED
    BY <1>1, <2>1, CombineIsSlices, RawIsSlices
<1>3. IsSlices(slices, given, sets)'
  BY <1>1, <1>2, SlicesLater
<1>4. sets' \in 0..MaxSets /\ 0..sets \subseteq 0..sets' /\ processed' \in BOOLEAN
  BY <1>1, PieOptions DEF PieInv
<1>5. labels' \subseteq (0..sets') \X (Nat \ {0})
  BY <1>1, <1>4 DEF PieInv
<1>6. (Pie!PieInCanvas /\ Pie!OutsideIsSaid)'
  BY <1>1 DEF PieInv, Pie!PieInCanvas, Pie!OutsideIsSaid
<1>7. ~stale' => lit' = Pie!Lit'
  BY <1>1, LitLater DEF PieInv
<1>. QED
  BY <1>1, <1>3, <1>4, <1>5, <1>6, <1>7 DEF PieInv, Pie!NoSlice, Heard

LEMMA DrawInv ==
    ASSUME PieInv, NEW fits \in 1..11, NEW legend \in LegendWidths, Pie!Draw(fits, legend)
    PROVE  PieInv'
<1> DEFINE labelled == Pie!Labelled
<1>1. /\ center' = Pie!Center(legend) /\ radius' = Pie!MaxRadius
      /\ attempts' = IF labelled = {} THEN 1 ELSE Pie!Min({fits, 10})
      /\ inside' = (labelled = {} \/ fits <= 10)
      /\ IF attempts' >= 10
         THEN errors < MaxErrors /\ errors' = errors + 1 /\ labels' = {}
         ELSE errors' = errors /\ labels' = labelled
      /\ UNCHANGED <<options, slices, processed, given, sets, over, highlights, lit, stale>>
  BY DEF Pie!Draw, Pie!data, Pie!lights
<1>2. labelled \subseteq (0..sets) \X (Nat \ {0})
  <2>1. \A i \in 1..Len(slices) : slices[i].id \in (0..sets) \X (Nat \ {0})
    <3>1. \A i \in 1..Len(slices) : slices[i].id = <<sets, i>> /\ i \in Nat \ {0}
      BY DEF PieInv, IsSlices
    <3>2. sets \in 0..sets
      BY PieOptions DEF PieInv
    <3>3. \A i \in Nat \ {0} : <<sets, i>> \in (0..sets) \X (Nat \ {0})
      BY <3>2
    <3>. QED
      BY <3>1, <3>3
  <2>2. Pie!ToSet(slices) = {slices[i] : i \in 1..Len(slices)}
    <3>1. DOMAIN slices = 1..Len(slices)
      BY DEF PieInv, IsSlices
    <3>. QED
      BY <3>1 DEF Pie!ToSet
  <2>. QED
    BY <2>1, <2>2 DEF Pie!Labelled
<1> HIDE DEF labelled
<1>3. Pie!Min({fits, 10}) = IF fits <= 10 THEN fits ELSE 10
  <2>1. \E x \in {fits, 10} : \A y \in {fits, 10} : x =< y
    OBVIOUS
  <2>. QED
    BY <2>1 DEF Pie!Min
<1>4. attempts' \in 0..10 /\ inside' \in BOOLEAN
  BY <1>1, <1>3
<1>5. errors' \in 0..MaxErrors /\ (attempts' >= 10 => errors' > 0)
  BY <1>1, PieOptions DEF PieInv
<1>6. ~inside' => attempts' = 10
  BY <1>1, <1>3
<1>7. Pie!OutsideIsSaid'
  BY <1>1, <1>5, <1>6 DEF Pie!OutsideIsSaid
<1>8. Pie!PieInCanvas'
  BY <1>1, CenterOf DEF Pie!PieInCanvas, PieInv
<1>9. IsSlices(slices, given, sets)'
  BY <1>1, SlicesLater DEF PieInv
<1>10. labels' \subseteq (0..sets') \X (Nat \ {0})
  BY <1>1, <1>2
<1>11. ~stale' => lit' = Pie!Lit'
  BY <1>1, LitLater DEF PieInv
<1>. QED
  BY <1>1, <1>4, <1>5, <1>7, <1>8, <1>9, <1>10, <1>11 DEF PieInv, Pie!NoSlice, Heard

LEMMA PieNext == PieInv /\ [Pie!Next]_pie => PieInv'
<1> SUFFICES ASSUME PieInv, [Pie!Next]_pie
             PROVE  PieInv'
  OBVIOUS
<1>1. ASSUME NEW s \in Pie!Nearby, Pie!MouseMove(s)
      PROVE  PieInv'
  BY <1>1, LightInv DEF Pie!MouseMove, Pie!data, Pie!picture, Heard
<1>2. ASSUME NEW s \in Pie!Nearby, Pie!ClickPie(s)
      PROVE  PieInv'
  <2>1. CASE options.hoverable
    <3>1. Heard # "plotclick" /\ over' = over /\ s \in {over, Pie!NoSlice}
      BY <1>2, <2>1 DEF Pie!ClickPie, Heard
    <3>. QED
      BY <1>2, <3>1, LightInv DEF Pie!ClickPie, Pie!data, Pie!picture
  <2>2. CASE ~options.hoverable
    <3>1. Heard = "plotclick" /\ over' = s
      BY <1>2, <2>2 DEF Pie!ClickPie, Heard
    <3>. QED
      BY <1>2, <3>1, LightInv DEF Pie!ClickPie, Pie!data, Pie!picture
  <2>. QED
    BY <2>1, <2>2
<1>3. ASSUME Pie!DrawOverlay \/ UNCHANGED pie
      PROVE  PieInv'
  <2>1. UNCHANGED <<options, slices, processed, given, sets, center, radius, attempts, inside,
                    labels, errors, over, highlights>>
    BY <1>3 DEF Pie!DrawOverlay, Pie!data, Pie!picture, pie
  <2>2. stale' \in BOOLEAN /\ (~stale' => lit' = Pie!Lit)
    BY <1>3 DEF Pie!DrawOverlay, PieInv, pie
  <2>3. ~stale' => lit' = Pie!Lit'
    BY <2>1, <2>2, LitLater
  <2>4. IsSlices(slices, given, sets)'
    BY <2>1, SlicesLater DEF PieInv
  <2>5. (Pie!PieInCanvas /\ Pie!OutsideIsSaid)'
    BY <2>1 DEF PieInv, Pie!PieInCanvas, Pie!OutsideIsSaid
  <2>. QED
    BY <2>1, <2>2, <2>3, <2>4, <2>5 DEF PieInv, Pie!NoSlice, Heard
<1>. QED
  BY <1>1, <1>2, <1>3, SetDataInv, DrawInv DEF Pie!Next

LEMMA SlicesOf ==
    ASSUME PieInv
    PROVE  /\ DOMAIN slices = 1..Len(slices)
           /\ Pie!ToSet(slices) = {slices[i] : i \in 1..Len(slices)}
           /\ given \in Seq(Values)
<1>1. DOMAIN slices = 1..Len(slices)
  BY DEF PieInv, IsSlices
<1>. QED
  BY <1>1, PieOptions DEF PieInv, Pie!ToSet

LEMMA PieInvImplies == PieInv => Pie!TypeOK /\ PieIsConsistent
<1> SUFFICES ASSUME PieInv
             PROVE  Pie!TypeOK /\ PieIsConsistent
  OBVIOUS
<1>1. \A s \in Pie!ToSet(slices) :
         s.of \subseteq 1..Len(given) /\ s.value \in 0 .. Pie!Sum(given)
  <2>1. \A i \in 1..Len(slices) :
           slices[i].of \subseteq 1..Len(given) /\ slices[i].value = Pie!SumOf(given, slices[i].of)
    BY DEF PieInv, IsSlices
  <2>2. \A p : Pie!SumOf(given, p) \in 0 .. Pie!Sum(given)
    <3>1. \A p : Pie!SumOf(given, p) \in Nat /\ Pie!SumOf(given, p) <= Pie!Sum(given)
      BY SlicesOf, SumIsNat, SumOfPart
    <3>2. Pie!Sum(given) \in Nat
      BY <3>1 DEF Pie!Sum
    <3>. QED
      BY <3>1, <3>2
  <2>. QED
    BY <2>1, <2>2, SlicesOf
<1>2. \A h \in Pie!ToSet(highlights) : h.auto \in {"plothover", "plotclick"}
  <2>1. CASE over = Pie!NoSlice
    BY <2>1 DEF PieInv, Pie!ToSet
  <2>2. CASE over # Pie!NoSlice
    BY <2>2 DEF PieInv, Pie!ToSet, Heard
  <2>. QED
    BY <2>1, <2>2
<1>3. Pie!TypeOK
  BY <1>1, <1>2 DEF PieInv, Pie!TypeOK, Pie!Events
<1>4. Pie!SlicesAreTheSeries
  <2> SUFFICES ASSUME \A s \in Pie!ToSet(slices) : s.known
               PROVE  /\ UNION {s.of : s \in Pie!ToSet(slices)} = 1..Len(given)
                      /\ \A i, j \in DOMAIN slices :
                            i # j => slices[i].of \intersect slices[j].of = {}
                      /\ \A s \in Pie!ToSet(slices) : s.value = Pie!SumOf(given, s.of)
                      /\ \A i \in 1 .. Len(slices) - 1 :
                            slices[i].value * 100 > options.threshold * Pie!Sum(given)
                              \/ Pie!Sum(given) = 0
    BY DEF Pie!SlicesAreTheSeries
  <2>1. Measured(slices, given, sets)
    BY SlicesOf DEF PieInv, IsSlices
  <2>2. UNION {s.of : s \in Pie!ToSet(slices)} = 1..Len(given)
    <3>1. \A i \in 1..Len(slices) : slices[i].of \subseteq 1..Len(given)
      BY <2>1 DEF Measured
    <3>2. \A k \in 1..Len(given) : \E i \in 1..Len(slices) : k \in slices[i].of
      BY <2>1 DEF Measured
    <3>. QED
      BY <3>1, <3>2, SlicesOf
  <2>. QED
    BY <2>1, <2>2, SlicesOf DEF Measured
<1>5. Pie!PointerIsLit
  BY DEF PieInv, Pie!PointerIsLit, Pie!Lit, Pie!ToSet, Pie!NoSlice
<1>6. Pie!OverlayIsCurrent
  BY DEF PieInv, Pie!OverlayIsCurrent
<1>. QED
  BY <1>3, <1>4, <1>5, <1>6 DEF PieInv, PieIsConsistent

-----------------------------------------------------------------------------
(* The dialogs, whose proofs are those of AlertDialogsProofs *)

Dialog == INSTANCE AlertDialogsProofs

LEMMA DialogConstants == Dialog!AlertsAssumption
BY DialogsAssumption DEF Alerts!AlertsAssumption, Dialog!AlertsAssumption

LEMMA DialogInit == Alerts!Init => Dialog!Init
BY DEF Alerts!Init, Dialog!Init

LEMMA DialogStep == [Alerts!Next]_dialogs => [Dialog!Next]_(Dialog!vars)
<1> SUFFICES ASSUME Alerts!Next
             PROVE  Dialog!Next
  BY DEF dialogs, Dialog!vars
<1> USE DEF Alerts!Show, Dialog!Show, Alerts!Hide, Dialog!Hide, Alerts!Bound, Dialog!Bound,
            Alerts!TopFor, Dialog!TopFor
<1>1. ASSUME NEW d \in Dialogs
      PROVE  (Alerts!Call(d) => Dialog!Call(d)) /\ (Alerts!Ok(d) => Dialog!Ok(d))
             /\ (Alerts!Cancel(d) => Dialog!Cancel(d))
  BY DEF Alerts!Call, Dialog!Call, Alerts!Ok, Dialog!Ok, Alerts!Cancel, Dialog!Cancel,
         Alerts!Press, Dialog!Press
<1>2. ASSUME NEW d \in Dialogs
      PROVE  (Alerts!Enter(d) => Dialog!Enter(d)) /\ (Alerts!Escape(d) => Dialog!Escape(d))
  BY <1>1 DEF Alerts!Enter, Dialog!Enter, Alerts!Escape, Dialog!Escape
<1>3. ASSUME NEW h \in Windows
      PROVE  (Alerts!Resize(h) => Dialog!Resize(h)) /\ (Alerts!Drag(h) => Dialog!Drag(h))
  BY DEF Alerts!Resize, Dialog!Resize, Alerts!Drag, Dialog!Drag
<1>4. Alerts!Toggle => Dialog!Toggle
  BY DEF Alerts!Toggle, Dialog!Toggle
<1>. QED
  BY <1>1, <1>2, <1>3, <1>4 DEF Alerts!Next, Dialog!Next

LEMMA DialogInvImplies ==
    Dialog!IInv => /\ Alerts!TypeOK /\ Alerts!CoveredWhileAsking
                   /\ (~MayToggle => Alerts!HandlerFollowsDialog)
<1> SUFFICES ASSUME Dialog!IInv
             PROVE  /\ Alerts!TypeOK /\ Alerts!CoveredWhileAsking
                    /\ (~MayToggle => Alerts!HandlerFollowsDialog)
  OBVIOUS
<1>1. Alerts!TypeOK
  BY DEF Dialog!IInv, Dialog!TypeOK, Alerts!TypeOK, Dialog!Answers, Alerts!Answers
<1>2. Cardinality(container) = IF container = {} THEN 0 ELSE 1
  <2>1. Dialog!DialogInv
    BY DEF Dialog!IInv
  <2>2. container # {} => \E d \in Dialogs : container = {d}
    BY <2>1 DEF Dialog!DialogInv
  <2>3. Cardinality({}) = 0 /\ \A d : Cardinality({d}) = 1
    BY FS_EmptySet, FS_Singleton
  <2>. QED
    BY <2>2, <2>3
<1>3. overlay = IF container = {} THEN 0 ELSE 1
  BY DEF Dialog!IInv, Dialog!DialogInv
<1>4. ~MayToggle => handlers = IF container = {} THEN 0 ELSE 1
  BY DEF Dialog!IInv, Dialog!HandlerInv
<1>5. Alerts!Cardinality(container) = Cardinality(container)
  BY DEF Alerts!Cardinality, Cardinality
<1>6. Alerts!CoveredWhileAsking
  BY <1>2, <1>3, <1>5 DEF Alerts!CoveredWhileAsking
<1>7. ~MayToggle => Alerts!HandlerFollowsDialog
  BY <1>2, <1>4, <1>5 DEF Alerts!HandlerFollowsDialog
<1>. QED
  BY <1>1, <1>6, <1>7

\* Only the dialog that is up is answered, once, and what follows it is up then.
LEMMA AnswersOf ==
    ASSUME Dialog!IInv, [Alerts!Next]_dialogs, NEW d \in Dialogs, answer'[d] # answer[d]
    PROVE  /\ answer[d] = NoAnswer /\ d \in container
           /\ FollowUp[d] \in Dialogs \ opened => container' = {FollowUp[d]} /\ overlay' = 1
<1>1. PICK a \in Dialog!Answers(Type[d]) : d \in container /\ Dialog!Press(d, a)
  BY DialogConstants, DialogStep, Dialog!AnswerStep
<1>2. answer[d] = NoAnswer
  BY <1>1 DEF Dialog!IInv, Dialog!DialogInv
<1>. QED
  BY <1>1, <1>2 DEF Dialog!Press, Dialog!Show

LEMMA CentredOf ==
    ASSUME Dialog!IInv, ~MayToggle, [Alerts!Next]_dialogs,
           container' # {}, container' # container \/ window' # window
    PROVE  top' = Alerts!TopFor(window') /\ top' >= 0
<1>1. top' = Dialog!TopFor(window') /\ top' >= 0
  BY DialogConstants, DialogStep, Dialog!CentredStep
<1>. QED
  BY <1>1 DEF Dialog!TopFor, Alerts!TopFor

-----------------------------------------------------------------------------
(* The plugins of a page *)

(* A step of the page is a step or a stutter of each plugin, and the content of *)
(* a panel that is not to change does not.                                      *)
LEMMA WidgetsStep ==
    ASSUME ScrollInv, [WidgetsNext]_widgetVars
    PROVE  /\ UNCHANGED widget
           /\ [Next]_vars /\ [Alerts!Next]_dialogs /\ [Growing!Next]_panel
           /\ [Picker!Next]_picker /\ [Space!Next]_space /\ [Pie!Next]_pie /\ [Styles!Next]_styles
           /\ widget = "fixedPanel" => content' = content
<1> USE DEF On, Others
<1>1. CASE \/ On("notices") /\ Next
           \/ On("dialogs") /\ Alerts!Next
           \/ On("panel") /\ Growing!Next
  BY <1>1 DEF panel
<1>2. CASE On("fixedPanel") /\ Fixed!Next
  BY <1>2, FixedIsGrowing
<1>3. CASE \/ On("picker") /\ Picker!Next
           \/ On("colors") /\ Space!Next
  BY <1>3 DEF panel
<1>4. CASE \/ On("pie") /\ Pie!Next
           \/ On("styles") /\ Styles!Next
  BY <1>4 DEF panel
<1>5. CASE UNCHANGED widgetVars
  BY <1>5 DEF widgetVars, panel
<1>. QED
  BY <1>1, <1>2, <1>3, <1>4, <1>5 DEF WidgetsNext

\* The invariant of a behaviour: that of every plugin, those that are not used
\* included. The scroll bar of a panel is up to date while its content stays.
WidgetsInv ==
    /\ widget \in Running
    /\ IInv /\ Dialog!IInv /\ ScrollInv /\ PickerInv /\ SpaceInv /\ PieInv /\ StylesInv
    /\ widget = "fixedPanel" => FixedInv

LEMMA WidgetsInitially == WidgetsInit => WidgetsInv
<1> SUFFICES ASSUME WidgetsInit
             PROVE  WidgetsInv
  OBVIOUS
<1>1. widget \in Running /\ Init /\ Alerts!Init /\ Growing!Init /\ Picker!Init /\ Space!Init
      /\ Pie!Init /\ Styles!Init
  BY DEF WidgetsInit
<1>2. IInv /\ Dialog!IInv
  BY <1>1, InitIInv, DialogInit, DialogConstants, Dialog!InitIInv
<1>3. ScrollInv /\ FixedInv /\ PickerInv
  BY <1>1, ScrollInit, PickerInit
<1>4. SpaceInv /\ PieInv /\ StylesInv
  BY <1>1, PickersAssumption, SpaceInit, PieInit, StylesInit
<1>. QED
  BY <1>1, <1>2, <1>3, <1>4 DEF WidgetsInv

LEMMA WidgetsNextStep == WidgetsInv /\ [WidgetsNext]_widgetVars => WidgetsInv'
<1> SUFFICES ASSUME WidgetsInv, [WidgetsNext]_widgetVars
             PROVE  WidgetsInv'
  OBVIOUS
<1>1. /\ UNCHANGED widget
      /\ [Next]_vars /\ [Alerts!Next]_dialogs /\ [Growing!Next]_panel
      /\ [Picker!Next]_picker /\ [Space!Next]_space /\ [Pie!Next]_pie /\ [Styles!Next]_styles
      /\ widget = "fixedPanel" => content' = content
  BY WidgetsStep DEF WidgetsInv
<1>2. IInv'
  BY <1>1, NextIInv DEF WidgetsInv
<1>3. Dialog!IInv'
  BY <1>1, DialogConstants, DialogStep, Dialog!NextIInv DEF WidgetsInv
<1>4. ScrollInv' /\ (widget = "fixedPanel" => FixedInv')
  BY <1>1, ScrollNext DEF WidgetsInv
<1>5. PickerInv' /\ SpaceInv'
  BY <1>1, PickerNext, SpaceNext DEF WidgetsInv
<1>6. PieInv' /\ StylesInv'
  BY <1>1, PieNext, StylesNext DEF WidgetsInv
<1>. QED
  BY <1>1, <1>2, <1>3, <1>4, <1>5, <1>6 DEF WidgetsInv

LEMMA WidgetsInductive == WidgetsSpec => []WidgetsInv
BY WidgetsInitially, WidgetsNextStep, PTL DEF WidgetsSpec

(* What was proved of the notices alone holds on the pages: a page is a        *)
(* behaviour of them, whatever the other plugins are.                          *)
THEOREM NoticesAsAlone == WidgetsSpec => Spec
<1>1. WidgetsInit => Init
  BY DEF WidgetsInit
<1>2. WidgetsInv /\ [WidgetsNext]_widgetVars => [Next]_vars
  BY WidgetsStep DEF WidgetsInv
<1>. QED
  BY WidgetsInductive, <1>1, <1>2, PTL DEF WidgetsSpec, Spec

(* Every variable of every plugin keeps its type.                              *)
THEOREM WidgetsTypes == WidgetsSpec => []WidgetsTypeOK
<1>1. ASSUME WidgetsInv
      PROVE  WidgetsTypeOK
  <2>1. widget \in Widgets
    BY <1>1, RunningAssumption DEF WidgetsInv
  <2>2. TypeOK /\ Alerts!TypeOK /\ Growing!TypeOK
    BY <1>1, DialogInvImplies DEF WidgetsInv, IInv, ScrollInv
  <2>3. Picker!TypeOK /\ Space!TypeOK
    BY <1>1, PickerTypes DEF WidgetsInv, SpaceInv, Space!TypeOK
  <2>4. Pie!TypeOK /\ Styles!TypeOK
    BY <1>1, PieInvImplies, StylesInvImplies DEF WidgetsInv
  <2>. QED
    BY <2>1, <2>2, <2>3, <2>4 DEF WidgetsTypeOK
<1>. QED
  BY WidgetsInductive, <1>1, PTL

(* For any dialogs that follow each other in any order: one at a time is up    *)
(* and covers the page, and it is answered once.                               *)
THEOREM DialogsStayAnswered == WidgetsSpec => DialogsAreAnswered
<1>1. WidgetsInv => Alerts!CoveredWhileAsking
  BY DialogInvImplies DEF WidgetsInv
<1>2. WidgetsInv /\ [WidgetsNext]_widgetVars
        => [\A d \in Dialogs :
              answer'[d] # answer[d] => answer[d] = NoAnswer /\ d \in container]_(Alerts!vars)
  BY WidgetsStep, AnswersOf DEF WidgetsInv
<1>3. WidgetsInv /\ [WidgetsNext]_widgetVars
        => [\A d \in Dialogs :
              answer'[d] # answer[d] /\ FollowUp[d] \in Dialogs \ opened
                 => container' = {FollowUp[d]} /\ overlay' = 1]_(Alerts!vars)
  BY WidgetsStep, AnswersOf DEF WidgetsInv
<1>. QED
  BY WidgetsInductive, <1>1, <1>2, <1>3, PTL
  DEF WidgetsSpec, DialogsAreAnswered, Alerts!AnsweredOnceWhileUp, Alerts!FollowUpIsShown

(* While no script touches the option, the resize handler is bound once for a  *)
(* dialog that is up, and keeps it in the middle of any window.                *)
THEOREM DialogsStayCentred == ASSUME ~MayToggle PROVE WidgetsSpec => DialogsAreCentred
<1>1. WidgetsInv => Alerts!HandlerFollowsDialog
  BY DialogInvImplies DEF WidgetsInv
<1>2. WidgetsInv /\ [WidgetsNext]_widgetVars
        => [container' # {} /\ (container' # container \/ window' # window)
              => top' = Alerts!TopFor(window') /\ top' >= 0]_(Alerts!vars)
  BY WidgetsStep, CentredOf DEF WidgetsInv
<1>. QED
  BY WidgetsInductive, <1>1, <1>2, PTL DEF WidgetsSpec, DialogsAreCentred, Alerts!Centred

(* For any panel and any content that does not get shorter: the bar stays in   *)
(* the panel, no timer takes it from the mouse that has it, none is missing    *)
(* when the mouse has left, and only drags, and a wheel over a panel without   *)
(* its bar, part it from a content that does not grow.                         *)
THEOREM BarStaysConsistent == WidgetsSpec => BarIsConsistent
<1>1. WidgetsInv => Growing!BarInPanel /\ Growing!HideIsDue
  BY DEF WidgetsInv, ScrollInv
<1>2. WidgetsInv /\ [WidgetsNext]_widgetVars
        => [Growing!InUse /\ barVisible /\ ~barFading => barVisible' /\ ~barFading']_(Growing!vars)
  BY WidgetsStep, UsedBarStays DEF WidgetsInv
<1>3. WidgetsInv /\ [WidgetsNext]_widgetVars
        => [widget = "fixedPanel" => Fixed!KeepsInStep]_widgetVars
  BY FixedStaysInStep DEF WidgetsInv, WidgetsNext, On
<1>. QED
  BY WidgetsInductive, <1>1, <1>2, <1>3, PTL
  DEF WidgetsSpec, BarIsConsistent, Growing!BarInUseStays

(* For any number of pickers: only keys part the fields of one from its color, *)
(* the swatches are right, a click outside hides what a click has shown, and   *)
(* no drag outlives the others.                                                *)
THEOREM PickersStayConsistent == WidgetsSpec => PickersAreConsistent
<1>1. WidgetsInv => Picker!SwatchesAgree /\ Picker!ShownCanBeHidden
  BY DEF WidgetsInv, PickerInv, ColorsInv, HandlersInv
<1>2. WidgetsInv /\ [WidgetsNext]_widgetVars
        => [drags # {} /\ ~(drags \subseteq drags') => drags' = {}]_(Picker!vars)
  BY WidgetsStep, DragsEndTogether DEF WidgetsInv, Picker!vars, picker
<1>3. WidgetsInv /\ [WidgetsNext]_widgetVars
        => [\A p \in Pickers :
              Picker!Agrees(p) /\ ~Picker!Agrees(p)' =>
                 (\E g \in Picker!Groups : Picker!TypeIn(p, g))
                    \/ (\E c \in Colors : Picker!KeyUp(p, c))]_(Picker!vars)
  BY WidgetsStep, KeysPart DEF WidgetsInv
<1>. QED
  BY WidgetsInductive, <1>1, <1>2, <1>3, PTL
  DEF WidgetsSpec, PickersAreConsistent, Picker!NothingSticks, Picker!OnlyKeysPart

(* For any series, options and canvas: the slices are the series, the pie is   *)
(* in the canvas, what is not is said, and the lights follow the pointer.      *)
THEOREM PieStaysConsistent == WidgetsSpec => []PieIsConsistent
<1>1. WidgetsInv => PieIsConsistent
  BY PieInvImplies DEF WidgetsInv
<1>. QED
  BY WidgetsInductive, <1>1, PTL

(* For any sheets, queries and windows, and replies in any order or none: a    *)
(* parse goes on only while a reply is due, the lists cached are whole, and    *)
(* the styles added are those of the window.                                   *)
THEOREM StylesStayFitting == WidgetsSpec => []StylesFitWindow
<1>1. WidgetsInv => StylesFitWindow
  BY StylesInvImplies DEF WidgetsInv
<1>. QED
  BY WidgetsInductive, <1>1, PTL
=============================================================================
