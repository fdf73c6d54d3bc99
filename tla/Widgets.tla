------------------------------- MODULE Widgets -------------------------------
(***************************************************************************)
(* The plugins of the pages. They know nothing of each other: a behaviour  *)
(* is about one of them, which the constant-for-good variable widget       *)
(* names, and the others stay as they were initialised.                    *)
(***************************************************************************)
EXTENDS JGrowl, Integers

CONSTANTS
    Running,                                            \* the plugins to look at
    Dialogs, Type, FollowUp, Windows, Height, Offset, MayToggle, NoDialog, NoAnswer,
                                                        \* of AlertDialogs
    Panel, MinBar, WheelStep, Contents, Places, PageTops, Changes, MaxOrphans,
                                                        \* of SlimScroll
    Pickers, Flat, FromInput, Colors, MaxDrags,         \* of ColorPicker
    Samples, NearRGB, NearHSB,                          \* of ColorSpace
    Charts, NoNumber, Options, LegendWidths, CanvasWidth, CanvasHeight, MaxErrors, MaxSets,
                                                        \* of FlotPie
    Links, InPage, Scripted, Query, Device, UnitOf, NoValue, ScrollBar, Thresholds, Late, Widths,
    MaxResizes
                                                        \* of MediaQueries

\* The panel is there twice: with a content that changes and with one that does not.
Widgets == {"notices", "dialogs", "panel", "fixedPanel", "picker", "colors", "pie", "styles"}

VARIABLES
    widget,
    container, overlay, handlers, reposition, window, top, opened, answer,  \* AlertDialogs
    content, height, barTop, scroll, barVisible, barFading, pointer, exit, dragging, queued,
    orphans,
                                                                            \* SlimScroll
    color, origColor, newColor, currentColor, fields, editing, shown, hides, drags,
                                                                            \* ColorPicker
    rgb, hsb,                                                               \* ColorSpace
    options, slices, processed, given, sets, center, radius, attempts, inside, labels, errors,
    over, highlights, lit, stale,                                           \* FlotPie
    ready, phase, request, waiting, elements, parsed, lists, asked, added, page,
    width, barred, seen, threshold, timer, resizes                          \* MediaQueries

dialogs == <<container, overlay, handlers, reposition, window, top, opened, answer>>
panel == <<content, height, barTop, scroll, barVisible, barFading, pointer, exit, dragging,
           queued, orphans>>
picker == <<color, origColor, newColor, currentColor, fields, editing, shown, hides, drags>>
space == <<rgb, hsb>>
pie == <<options, slices, processed, given, sets, center, radius, attempts, inside, labels,
         errors, over, highlights, lit, stale>>
styles == <<ready, phase, request, waiting, elements, parsed, lists, asked, added, page,
            width, barred, seen, threshold, timer, resizes>>
widgetVars == <<widget, vars, dialogs, panel, picker, space, pie, styles>>

Alerts == INSTANCE AlertDialogs

Growing == INSTANCE SlimScroll
             WITH top <- barTop, visible <- barVisible, fading <- barFading, mouse <- pointer
Fixed == INSTANCE SlimScroll
           WITH Changes <- {},
                top <- barTop, visible <- barVisible, fading <- barFading, mouse <- pointer

\* No script of the pages calls ColorPickerShow.
Picker == INSTANCE ColorPicker WITH ByScript <- FALSE

Space == INSTANCE ColorSpace

Pie == INSTANCE FlotPie
         WITH Width <- CanvasWidth, Height <- CanvasHeight, RedrawAttempts <- 10, overlay <- lit

Styles == INSTANCE MediaQueries

ASSUME RunningAssumption == Running \subseteq Widgets
ASSUME DialogsAssumption == Alerts!AlertsAssumption
ASSUME PanelAssumption == Growing!SlimScrollAssumption
\* jquery.slimscroll.js:199 computes with the height the bar had before the
\* content became shorter: the bar may then reach out of the panel.
ASSUME NoShrinking == "shrink" \notin Changes
ASSUME PickersAssumption == Picker!PickerAssumption /\ Space!ColorSpaceAssumption
ASSUME PiesAssumption == Pie!PieAssumption
ASSUME StylesAssumption == Styles!SheetsAssumption /\ Styles!SizesAssumption
-----------------------------------------------------------------------------
\* One state of every plugin the behaviour is not about.
Some(S) == CHOOSE x \in S : TRUE

WidgetsInit ==
    /\ widget \in Running
    /\ Init
    /\ (widget # "dialogs" => window = Some(Windows)) /\ Alerts!Init
    /\ (widget \notin {"panel", "fixedPanel"} => content = Some(Contents)) /\ Growing!Init
    /\ Picker!Init
    /\ widget # "picker" => \A p, q \in Pickers : color[p] = color[q]
    /\ (widget # "colors" => rgb = Some([r : Samples, g : Samples, b : Samples])) /\ Space!Init
    /\ (widget # "pie" => options = Some(Options) /\ given = Some(Charts)) /\ Pie!Init
    /\ (widget # "styles" => width = Some(Widths) /\ barred = FALSE /\ threshold = Some(Thresholds))
    /\ Styles!Init

\* Only what belongs to this plugin changes.
Others(variables, here) == IF widget \in here THEN TRUE ELSE UNCHANGED variables

On(this) ==
    /\ widget = this /\ UNCHANGED widget
    /\ Others(vars, {"notices"}) /\ Others(dialogs, {"dialogs"})
    /\ Others(panel, {"panel", "fixedPanel"})
    /\ Others(picker, {"picker"}) /\ Others(space, {"colors"})
    /\ Others(pie, {"pie"}) /\ Others(styles, {"styles"})

WidgetsNext ==
    \/ On("notices") /\ Next
    \/ On("dialogs") /\ Alerts!Next
    \/ On("panel") /\ Growing!Next
    \/ On("fixedPanel") /\ Fixed!Next
    \/ On("picker") /\ Picker!Next
    \/ On("colors") /\ Space!Next
    \/ On("pie") /\ Pie!Next
    \/ On("styles") /\ Styles!Next

WidgetsSpec == WidgetsInit /\ [][WidgetsNext]_widgetVars

\* The fairness of the plugins; nothing of a plugin that stays as it was
\* initialised is enabled but the style sheets.
WidgetsFairSpec ==
    /\ WidgetsSpec
    /\ Fairness /\ Growing!Fairness
    /\ widget = "styles" => Styles!Fairness

-----------------------------------------------------------------------------
\* The types of every plugin.
WidgetsTypeOK ==
    /\ widget \in Widgets
    /\ TypeOK /\ Alerts!TypeOK /\ Growing!TypeOK /\ Picker!TypeOK /\ Space!TypeOK
    /\ Pie!TypeOK /\ Styles!TypeOK

\* In the end every message has been shown and is gone, and "close all" with
\* it (jquery.jgrowl.js); the container is neither shut down nor held.
NoticesComeAndGo == MessagesAppear /\ LivesEnd /\ CloserLeaves

\* A dialog (jquery.alerts.js) is answered once, while it is up; the one its
\* callback opens is there after it; and the page is covered exactly while
\* there is one.
DialogsAreAnswered ==
    /\ []Alerts!CoveredWhileAsking
    /\ Alerts!AnsweredOnceWhileUp
    /\ Alerts!FollowUpIsShown

\* The resize handler (jquery.alerts.js) is bound once while a dialog is up, and
\* only then; the dialog is in the middle when it comes up and after a resize.
DialogsAreCentred == []Alerts!HandlerFollowsDialog /\ Alerts!Centred

\* The scroll bar (jquery.slimscroll.js) stays in the panel; no timer takes it
\* from the mouse that has it, and none is missing when the mouse has left; and it
\* is where the content is, but for drags and a wheel without it, as long as the
\* content does not grow.
BarIsConsistent ==
    /\ []Growing!BarInPanel /\ []Growing!HideIsDue
    /\ Growing!BarInUseStays
    /\ [][widget = "fixedPanel" => Fixed!KeepsInStep]_widgetVars

\* Color pickers (colorpicker.js): only keys part the fields of one from its
\* color, its swatches are right, and a click outside hides one that a click has
\* shown.
PickersAreConsistent ==
    /\ []Picker!SwatchesAgree /\ []Picker!ShownCanBeHidden
    /\ Picker!OnlyKeysPart /\ Picker!NothingSticks

\* Reading a color (colorpicker.js) keeps it, up to rounding, and makes none
\* brighter nor tints a grey.
ColorsAreKept == Space!OneReadIsNear /\ Space!NeverBrighter

\* The pie (jquery.flot.pie.js): its slices are the values of the series,
\* combined or not; it is inside its canvas, or a message says that it is not.
\* The slice under the pointer is lit and one other at most, and the overlay
\* shows it once it is drawn.
PieIsConsistent ==
    /\ Pie!SlicesAreTheSeries /\ Pie!PieInCanvas
    /\ Pie!OutsideIsSaid /\ Pie!PointerIsLit /\ Pie!OverlayIsCurrent

\* Style sheets (css3-mediaqueries.js): a parse goes on only while a reply is
\* due, the lists cached are those of every sheet parsed, and the styles added
\* are those of the window, or of one that hardly differs.
StylesFitWindow ==
    /\ Styles!ParseWaitsForReply /\ Styles!CacheIsWhole /\ Styles!AddedAsWindow

\* What waits for a timer or a reply gets there: the scroll bar the mouse has
\* left goes, the page comes back to the screen, and its styles become those of
\* the window (jquery.slimscroll.js, css3-mediaqueries.js).
TimersGetThere ==
    /\ Growing!BarGoes
    /\ widget = "styles" => Styles!PageComesBack
    /\ Styles!StylesFollowWindow
=============================================================================
