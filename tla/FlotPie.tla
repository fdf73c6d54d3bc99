------------------------------ MODULE FlotPie -------------------------------
(***************************************************************************)
(* plugins/jquery.flot.pie.js: the values of a plot become slices, draw()  *)
(* tries smaller and smaller pies until the labels are inside the canvas,  *)
(* and the slices under the pointer are lit on the overlay.                *)
(*                                                                         *)
(* Flot itself is external: it calls processDatapoints for every series    *)
(* when data is set, draw for every drawing, and drawOverlay some time     *)
(* after triggerRedrawOverlay. A slice's angle and percentage are its      *)
(* value over the total: only the value is kept, and whether they were     *)
(* computed. How large a label is is not known here: draw takes the first  *)
(* attempt whose labels all fit.                                           *)
(***************************************************************************)
EXTENDS Integers, SequencesExt, FiniteSetsExt

CONSTANTS
    Charts,          \* the lists of values a page may set
    NoNumber,        \* a value that parseFloat does not read; for offsetLeft 'auto'
    Options,         \* the options a pie may have, see Option
    LegendWidths,    \* the widths a legend may have
    Width, Height,   \* of the canvas
    RedrawAttempts,  \* the most attempts of a draw()
    MaxErrors,       \* bound: error messages on the page
    MaxSets          \* bound: times the page sets the data again

\* combine.threshold and label.threshold, in percent; label.show; legend.show and
\* whether its position has a "w"; offset.left; the tilt is tilt[1] / tilt[2]; and
\* grid.hoverable. grid.clickable is on.
Option == [threshold : Int, labelThreshold : Int, labelShow : {"auto", "yes", "no"},
           legendShow : BOOLEAN, west : BOOLEAN, offsetLeft : Int \union {NoNumber},
           tilt : Nat \X (Nat \ {0}), hoverable : BOOLEAN]

\* A page has no negative values in its pies.
PieAssumption ==
    /\ NoNumber \notin Int
    /\ Charts \subseteq Seq(Nat \union {NoNumber}) /\ Options \subseteq Option
    /\ LegendWidths \subseteq Nat /\ Width \in Nat /\ Height \in Nat
    /\ RedrawAttempts \in Nat \ {0} /\ MaxErrors \in Nat /\ MaxSets \in Nat

VARIABLES
    options,     \* of the plot
    slices,      \* the plot's data: records [id, of, value, known]
    processed,   \* the hook has combined the data
    given,       \* the values last set, and
    sets,        \* how often they were set again
    center,      \* twice centerLeft and
    radius,      \* twice maxRadius, as setupPie leaves them
    attempts,    \* of the last draw(); 0 before the first
    inside,      \* the labels of its last attempt were inside the canvas
    labels,      \* the slices whose labels are on the page
    errors,      \* the error messages on the page
    over,        \* the slice the pointer was last seen on, or NoSlice: by a move,
                 \* or by a click where moves are not listened to
    highlights,  \* the plugin's list of records [slice, auto]
    overlay,     \* the slices lit on the page
    stale        \* the overlay is due to be drawn again

data == <<slices, processed, given, sets>>
picture == <<center, radius, attempts, inside, labels, errors>>
lights == <<highlights, overlay, stale>>
vars == <<options, data, picture, over, lights>>

NoSlice == <<>>
Events == {"plothover", "plotclick"}
Lit == {h.slice : h \in ToSet(highlights)}

Number(v) == IF v = NoNumber THEN 0 ELSE v

\* The slices of the values of setting s as flot makes them: not yet measured.
Raw(values, s) ==
    [i \in 1 .. Len(values) |->
        [id |-> <<s, i>>, of |-> {i}, value |-> Number(values[i]), known |-> FALSE]]

\* The sum of the values in these places, and of all.
SumOf(values, places) ==
    LET sum[n \in 0 .. Len(values)] ==
            IF n = 0 THEN 0
            ELSE sum[n - 1] + IF n \in places THEN Number(values[n]) ELSE 0
    IN  sum[Len(values)]
Sum(values) == SumOf(values, DOMAIN values)

TypeOK ==
    /\ options \in Options /\ given \in Charts /\ processed \in BOOLEAN /\ sets \in 0 .. MaxSets
    /\ \A s \in ToSet(slices) : s.of \subseteq 1 .. Len(given) /\ s.value \in 0 .. Sum(given)
    /\ attempts \in 0 .. RedrawAttempts /\ inside \in BOOLEAN
    /\ labels \subseteq (0 .. sets) \X (Nat \ {0})
    /\ errors \in 0 .. MaxErrors /\ stale \in BOOLEAN
    /\ \A h \in ToSet(highlights) : h.auto \in Events

-----------------------------------------------------------------------------
\* combine: the slices above the threshold in their order, then one of all the
\* others, each measured. (Over a total of zero nothing is below it.)
Combine(values, s) ==
    LET small(i) == Sum(values) > 0
                    /\ Number(values[i]) * 100 <= options.threshold * Sum(values)
        others   == {i \in DOMAIN values : small(i)}
        newdata[n \in 0 .. Len(values)] ==
            IF n = 0 THEN <<>>
            ELSE IF small(n) THEN newdata[n - 1]
                 ELSE Append(newdata[n - 1], [of |-> {n}, value |-> Number(values[n])])
        parts ==
            newdata[Len(values)]
              \o IF others = {} THEN <<>>
                 ELSE <<[of |-> others, value |-> SumOf(values, others)]>>
    IN  [i \in DOMAIN parts |-> [id |-> <<s, i>>, of |-> parts[i].of,
                                value |-> parts[i].value, known |-> TRUE]]

\* The plot is made with its first data, which may be none: the hook runs for
\* a series only.
Init ==
    /\ options \in Options /\ given \in Charts
    /\ slices = Combine(given, 0)
    /\ processed = (given # <<>>)
    /\ sets = 0
    /\ center = 0 /\ radius = 0 /\ attempts = 0
    /\ inside = TRUE /\ labels = {} /\ errors = 0
    /\ over = NoSlice /\ highlights = <<>> /\ overlay = {} /\ stale = FALSE

\* The page sets the data again. The hook combines it the first time only.
SetData(values) ==
    /\ sets < MaxSets
    /\ sets' = sets + 1 /\ given' = values
    /\ slices' = IF processed THEN Raw(values, sets + 1) ELSE Combine(values, sets + 1)
    /\ processed' = (processed \/ values # <<>>)
    /\ UNCHANGED <<options, picture, over, lights>>

-----------------------------------------------------------------------------
MaxRadius == LET high == (Height * options.tilt[2]) \div options.tilt[1]
             IN IF options.tilt[1] = 0 \/ Width < high THEN Width ELSE high

\* setupPie: beside the legend or at the offset, but with the whole pie inside.
Center(legend) ==
    LET left == IF options.offsetLeft # NoNumber THEN Width + 2 * options.offsetLeft
                ELSE IF options.west THEN Width + legend ELSE Width - legend
    IN IF left < MaxRadius THEN MaxRadius
       ELSE IF left > 2 * Width - MaxRadius THEN 2 * Width - MaxRadius ELSE left

\* drawLabels: the slices that get a label.
Labelled ==
    IF options.labelShow = "yes" \/ (options.labelShow = "auto" /\ ~options.legendShow)
    THEN {s.id : s \in {x \in ToSet(slices) :
             /\ x.known /\ x.value > 0
             /\ x.value * 100 >= options.labelThreshold * Sum(given)}}
    ELSE {}

\* draw(): the pie is drawn up to RedrawAttempts times, each smaller than the
\* one before, until all labels are inside, for which attempt number fits is
\* the first to do. At the last attempt it is given up.
Draw(fits, legend) ==
    /\ processed \* otherwise there is no target yet
    /\ center' = Center(legend) /\ radius' = MaxRadius
    /\ attempts' = IF Labelled = {} THEN 1 ELSE Min({fits, RedrawAttempts})
    /\ inside' = (Labelled = {} \/ fits <= RedrawAttempts)
    /\ IF attempts' >= RedrawAttempts
       THEN /\ errors < MaxErrors
            /\ errors' = errors + 1 /\ labels' = {}
       ELSE errors' = errors /\ labels' = Labelled
    /\ UNCHANGED <<options, data, over, lights>>

-----------------------------------------------------------------------------
\* findNearbySlice: a slice that has an angle, or none.
Nearby == {s.id : s \in {x \in ToSet(slices) : x.known /\ x.value > 0}} \union {NoSlice}

\* Mutant: the light of the slice left stays.
ClearedNone(list, event, s) == list

\* The lights of this kind of event go, but for the one of slice s. A removal
\* makes the loop skip the entry after it.
Cleared(list, event, s) ==
    LET loop[n \in 0 .. Len(list)] ==
            IF n = 0 THEN [kept |-> <<>>, skip |-> FALSE]
            ELSE IF ~loop[n - 1].skip /\ list[n].auto = event /\ list[n].slice # s
                 THEN [kept |-> loop[n - 1].kept, skip |-> TRUE]
                 ELSE [kept |-> Append(loop[n - 1].kept, list[n]), skip |-> FALSE]
    IN  loop[Len(list)].kept

\* triggerClickHoverEvent: the old lights of the event go and slice s is lit,
\* unless it is. grid.autoHighlight is on, as it is by default.
Light(event, s) ==
    LET kept == Cleared(highlights, event, s)
        new  == s # NoSlice /\ \A h \in ToSet(kept) : h.slice # s
    IN /\ highlights' = IF new THEN Append(kept, [slice |-> s, auto |-> event]) ELSE kept
       /\ stale' = (stale \/ kept # highlights \/ new)
       /\ UNCHANGED overlay

MouseMove(s) ==
    /\ attempts > 0 /\ s \in Nearby /\ options.hoverable
    /\ over' = s
    /\ Light("plothover", s)
    /\ UNCHANGED <<options, data, picture>>

\* A click is where the pointer is, if its moves are listened to; the slice there
\* may be of older data.
ClickPie(s) ==
    /\ attempts > 0 /\ s \in Nearby
    /\ options.hoverable => s = IF over \in Nearby THEN over ELSE NoSlice
    /\ over' = IF options.hoverable THEN over ELSE s
    /\ Light("plotclick", s)
    /\ UNCHANGED <<options, data, picture>>

\* drawOverlay, from flot's timer.
DrawOverlay ==
    /\ stale
    /\ overlay' = Lit
    /\ stale' = FALSE
    /\ UNCHANGED <<options, data, picture, over, highlights>>

Next ==
    \/ \E values \in Charts : SetData(values)
    \/ \E fits \in 1 .. RedrawAttempts + 1, legend \in LegendWidths : Draw(fits, legend)
    \/ \E s \in Nearby : MouseMove(s) \/ ClickPie(s)
    \/ DrawOverlay

Spec == Init /\ [][Next]_vars

-----------------------------------------------------------------------------
\* Once measured, the slices are the series again: each value is in exactly one
\* slice, whose value is the sum of its own, and only the last one may be a
\* heap of values too small for a slice of their own.
SlicesAreTheSeries ==
    (\A s \in ToSet(slices) : s.known) =>
        /\ UNION {s.of : s \in ToSet(slices)} = 1 .. Len(given)
        /\ \A i, j \in DOMAIN slices : i # j => slices[i].of \intersect slices[j].of = {}
        /\ \A s \in ToSet(slices) : s.value = SumOf(given, s.of)
        /\ \A i \in 1 .. Len(slices) - 1 :
              slices[i].value * 100 > options.threshold * Sum(given) \/ Sum(given) = 0

\* The pie is never drawn over an edge of the canvas, wherever the legend is.
PieInCanvas == attempts > 0 => center >= radius /\ center + radius <= 2 * Width

\* Labels that are outside the canvas are not left there without a word.
OutsideIsSaid == ~inside => labels = {} /\ errors > 0

\* The slice the pointer was last seen on is lit, once, and no other: no click
\* beside the moves leaves a light of its own, and none is forgotten in the list,
\* whose loop removes from what it walks over.
PointerIsLit == Lit = {over} \ {NoSlice} /\ Len(highlights) <= 1

\* What is lit on the page is the list, once no redrawing is due.
OverlayIsCurrent == ~stale => overlay = Lit
=============================================================================
