----------------------------- MODULE ColorPicker -----------------------------
(***************************************************************************)
(* colorpicker.js: what the pickers of a page show and what the document   *)
(* does for them. A picker shows its color in three groups of fields and   *)
(* in a swatch, and the color it had before in another. Dragging in a      *)
(* picker binds handlers to the document, and so does showing one; the     *)
(* handlers of all pickers are unbound together. How one group of fields   *)
(* follows from another is in ColorSpace: here a color is a name, a group  *)
(* was last filled with the values of a color, and one field may show what *)
(* the user has typed instead. The option livePreview is on, as it is by   *)
(* default and in every page.                                              *)
(***************************************************************************)
EXTENDS Integers, FiniteSets

CONSTANTS
    Pickers,
    Flat,      \* the pickers that are part of the page
    FromInput, \* the ones of an input: its value is taken when they are shown,
               \* and a submit hides them (#colorpicker in elements.js)
    Colors,
    ByScript,  \* does a script call ColorPickerShow?
    MaxDrags   \* bound: drags that go on, all but one with a lost mouseup

PickerAssumption ==
    /\ Flat \subseteq Pickers /\ FromInput \subseteq Pickers \ Flat
    /\ ByScript \in BOOLEAN /\ MaxDrags \in Nat

VARIABLES
    color, origColor,          \* of each picker
    newColor, currentColor,    \* of each picker: its two swatches
    fields,    \* of each picker and group: the color it was last filled with
    editing,   \* the field that has been typed in since it has the focus, if any:
               \* its picker and group
    shown,     \* the pickers that can be seen
    hides,     \* the pickers with hide bound to the mousedown of the document
    drags      \* the drags with handlers bound to its mousemove and mouseup

state == <<color, origColor, newColor, currentColor, fields>>
vars == <<state, editing, shown, hides, drags>>

Groups == {"hex", "rgb", "hsb"}

\* What can be dragged: the hue, the selector, the arrows of a field.
Kinds == {"hue", "selector", "rgb", "hsb"}

TypeOK ==
    /\ \A f \in {color, origColor, newColor, currentColor} : f \in [Pickers -> Colors]
    /\ fields \in [Pickers -> [Groups -> Colors]]
    /\ editing \subseteq Pickers \X Groups /\ Cardinality(editing) <= 1
    /\ Flat \subseteq shown /\ shown \subseteq Pickers
    /\ hides \subseteq Pickers \ Flat /\ drags \subseteq Pickers \X Kinds

Init ==
    /\ color \in [Pickers -> Colors]
    /\ origColor = color /\ newColor = color /\ currentColor = color
    /\ fields = [p \in Pickers |-> [g \in Groups |-> color[p]]]
    /\ editing = {} /\ shown = Flat /\ hides = {} /\ drags = {}
-----------------------------------------------------------------------------
\* fillRGBFields, fillHexFields, fillHSBFields with a color.
Filled(c) == [g \in Groups |-> c]

\* A field a script fills is as good as just focused, whatever was typed in it.
Refilled(filled) == editing' = editing \ filled

\* change: the fields of picker p are read as c, and the swatch shows it.
Read(p, c) ==
    /\ color' = [color EXCEPT ![p] = c]
    /\ newColor' = [newColor EXCEPT ![p] = c]
    /\ UNCHANGED <<origColor, currentColor>>

\* change with an event: all fields of p are filled with the color read.
Changed(p, c) ==
    /\ Read(p, c)
    /\ fields' = [fields EXCEPT ![p] = Filled(c)]
    /\ Refilled({p} \X Groups)

\* The user types in a field.
TypeIn(p, g) ==
    /\ p \in shown /\ editing = {}
    /\ editing' = {<<p, g>>}
    /\ UNCHANGED <<state, shown, hides, drags>>

\* keyDown: a key that is not a letter too many was released in a field, which is
\* read: what was typed, or whole numbers where the field has fractions (a Tab
\* that has come from another field does that). No field is filled.
KeyUp(p, c) ==
    /\ p \in shown /\ editing \subseteq {p} \X Groups
    /\ Read(p, c)
    /\ UNCHANGED <<fields, editing, shown, hides, drags>>

\* change: the field was left with another value than it had; it is read again.
Change(p, c) ==
    /\ \E g \in Groups : <<p, g>> \in editing
    /\ Changed(p, c)
    /\ UNCHANGED <<shown, hides, drags>>

\* It was left with the value it had when it got the focus, and nothing is called.
Leave ==
    /\ editing # {} /\ editing' = {}
    /\ UNCHANGED <<state, shown, hides, drags>>

\* hide, for each picker it is bound for: a mousedown that is not in the picker
\* hides it, and unbinds hide for all of them.
Press(where) ==
    /\ shown' = shown \ (hides \ where)
    /\ hides' = IF hides \subseteq where THEN hides ELSE {}

\* A mousedown in no picker, or in one that can be seen.
Mousedown(where) ==
    /\ where \subseteq shown /\ Cardinality(where) <= 1
    /\ Press(where)
    /\ UNCHANGED <<state, editing, drags>>

\* downHue, downSelector, downIncrement; the mousedown goes on to the document.
\* The field typed in is left after that, or later when it keeps the focus.
Down(p, k) ==
    /\ p \in shown
    /\ drags' = drags \union {<<p, k>>} /\ Cardinality(drags') <= MaxDrags
    /\ Press({p})
    /\ UNCHANGED <<state, editing>>

Dragged(p) == \E k \in Kinds : <<p, k>> \in drags

\* moveHue, moveSelector, moveIncrement, of every drag that is bound: the field
\* is set, the fields are read as c[p] and filled.
Mousemove(c) ==
    /\ drags # {}
    /\ color' = [p \in Pickers |-> IF Dragged(p) THEN c[p] ELSE color[p]]
    /\ newColor' = [p \in Pickers |-> IF Dragged(p) THEN c[p] ELSE newColor[p]]
    /\ fields' = [p \in Pickers |-> IF Dragged(p) THEN Filled(c[p]) ELSE fields[p]]
    /\ Refilled({p \in Pickers : Dragged(p)} \X Groups)
    /\ UNCHANGED <<origColor, currentColor, shown, hides, drags>>

\* The drags that are bound after handlers of these kinds have run: each unbinds
\* its kind, of every picker.
StillBound(kinds) == {d \in drags : d[2] \notin kinds}

\* upHue and upSelector fill the fields but those of their own group with the
\* color of the picker; upIncrement reads them once more first: clicked without a
\* move, an arrow may still change the color, as a field shows fractions that are
\* not read.
Mouseup(c) ==
    /\ drags # {}
    /\ drags' = StillBound({d[2] : d \in drags})
    /\ LET arrow(p) == \E k \in {"rgb", "hsb"} : <<p, k>> \in drags
           filled(p, g) == Dragged(p) /\ (arrow(p) \/ g # "hsb")
       IN  /\ color' = [p \in Pickers |-> IF arrow(p) THEN c[p] ELSE color[p]]
           /\ newColor' = [p \in Pickers |-> IF arrow(p) THEN c[p] ELSE newColor[p]]
           /\ fields' = [p \in Pickers |-> [g \in Groups |->
                            IF filled(p, g) THEN color'[p] ELSE fields[p][g]]]
           /\ Refilled({f \in editing : filled(f[1], f[2])})
    /\ UNCHANGED <<origColor, currentColor, shown, hides>>

\* clickSubmit, and its onSubmit.
ClickSubmit(p) ==
    /\ p \in shown
    /\ origColor' = [origColor EXCEPT ![p] = color[p]]
    /\ currentColor' = [currentColor EXCEPT ![p] = color[p]]
    /\ shown' = shown \ ({p} \intersect FromInput)
    /\ UNCHANGED <<color, newColor, fields, editing, hides, drags>>

\* Mutant: the fields for hue, saturation and brightness are not filled.
RestoreOnlyRGB(p) ==
    /\ p \in shown
    /\ Read(p, origColor[p])
    /\ fields' = [fields EXCEPT ![p]["hex"] = origColor[p], ![p]["rgb"] = origColor[p]]
    /\ UNCHANGED <<editing, shown, hides, drags>>

\* restoreOriginal: a click on the color it had before.
RestoreOriginal(p) ==
    /\ p \in shown
    /\ Changed(p, origColor[p])
    /\ UNCHANGED <<shown, hides, drags>>

\* setColor: ColorPickerSetColor, for each key in the input of a picker.
SetColorTo(p, c) ==
    /\ color' = [color EXCEPT ![p] = c] /\ newColor' = [newColor EXCEPT ![p] = c]
    /\ origColor' = [origColor EXCEPT ![p] = c]
    /\ currentColor' = [currentColor EXCEPT ![p] = c]
    /\ fields' = [fields EXCEPT ![p] = Filled(c)]
    /\ Refilled({p} \X Groups)

SetColor(p, c) ==
    /\ p \in FromInput
    /\ SetColorTo(p, c)
    /\ UNCHANGED <<shown, hides, drags>>

\* show: onBeforeShow may take the color of the input, then the picker can be
\* seen and hide is bound. The mousedown of the click came first; a script that
\* calls ColorPickerShow has none.
Show(p, c, clicked) ==
    /\ p \notin Flat
    /\ clicked \/ ByScript
    /\ shown' = {p} \union (IF clicked THEN shown \ hides ELSE shown)
    /\ hides' = {p} \union (IF clicked THEN {} ELSE hides)
    /\ IF p \in FromInput THEN SetColorTo(p, c) ELSE UNCHANGED <<state, editing>>
    /\ UNCHANGED drags

Next ==
    \/ \E p \in Pickers, c \in Colors :
          \/ KeyUp(p, c) \/ Change(p, c) \/ SetColor(p, c)
          \/ \E clicked \in BOOLEAN : Show(p, c, clicked)
    \/ \E p \in Pickers :
          \/ ClickSubmit(p) \/ RestoreOriginal(p)
          \/ \E g \in Groups : TypeIn(p, g)
          \/ \E k \in Kinds : Down(p, k)
    \/ Leave
    \/ \E where \in SUBSET Pickers : Mousedown(where)
    \/ \E c \in [Pickers -> Colors] : Mousemove(c) \/ Mouseup(c)

Spec == Init /\ [][Next]_vars
-----------------------------------------------------------------------------
\* The swatches of a picker are its color and the one a click brings back.
SwatchesAgree ==
    \A p \in Pickers : currentColor[p] = origColor[p] /\ newColor[p] = color[p]

\* All fields of a picker show its color.
Agrees(p) == fields[p] = Filled(color[p]) /\ \A g \in Groups : <<p, g>> \notin editing

\* Only keys, in a field of a picker, part its fields from its color: no drag of
\* any picker, no click, no script and no field that is left does, in whatever
\* order they come.
OnlyKeysPart ==
    [][\A p \in Pickers :
         Agrees(p) /\ ~Agrees(p)' =>
            (\E g \in Groups : TypeIn(p, g)) \/ (\E c \in Colors : KeyUp(p, c))]_vars

\* A mouseup ends every drag, also one whose own mouseup was lost outside the
\* window and one in another picker: no picker sticks to the mouse.
NothingSticks ==
    [][drags # {} /\ ~(drags \subseteq drags') => drags' = {}]_vars

\* A picker that a click has shown can be hidden by a click outside it, whatever
\* pickers were shown, submitted and hidden before.
ShownCanBeHidden == shown \ Flat \subseteq hides
=============================================================================
