---------------------------- MODULE AlertDialogs ----------------------------
(***************************************************************************)
(* jquery.alerts.js: jAlert, jConfirm and jPrompt with their overlay, the  *)
(* resize handler that keeps the dialog centred, and the callbacks, which  *)
(* may open the next dialog (custom/elements.js does).                     *)
(***************************************************************************)
EXTENDS Integers, FiniteSets

CONSTANTS
    Dialogs,    \* the dialogs of a page, each shown at most once
    Type,       \* of each dialog: "alert", "confirm" or "prompt"
    FollowUp,   \* of each dialog: what its callback opens, or NoDialog
    Windows,    \* the heights of the window, in pixels
    Height,     \* of the dialog: outerHeight
    Offset,     \* verticalOffset: -75
    MayToggle,  \* do scripts write $.alerts.repositionOnResize?
    NoDialog, NoAnswer

AlertsAssumption ==
    /\ Type \in [Dialogs -> {"alert", "confirm", "prompt"}]
    /\ FollowUp \in [Dialogs -> Dialogs \union {NoDialog}]
    /\ Windows \subseteq Nat /\ Height \in Nat /\ Offset \in Int
    /\ MayToggle \in BOOLEAN
    /\ NoDialog \notin Dialogs

VARIABLES
    container,   \* the dialogs with a #popup_container in the page
    overlay,     \* how many #popup_overlay there are
    handlers,    \* how often _reposition is bound to the resize of the window
    reposition,  \* repositionOnResize
    window, top, \* height of the window, top of the container
    opened,      \* the dialogs shown so far
    answer       \* what the callback of each got, or NoAnswer

vars == <<container, overlay, handlers, reposition, window, top, opened, answer>>

\* true, false, null, and the text of a prompt.
Answers(t) ==
    CASE t = "alert"   -> {"true"}
      [] t = "confirm" -> {"true", "false"}
      [] t = "prompt"  -> {"text", "null"}

TypeOK ==
    /\ container \subseteq Dialogs
    /\ overlay \in Nat /\ handlers \in Nat
    /\ reposition \in BOOLEAN
    /\ window \in Windows /\ top \in Int
    /\ opened \subseteq Dialogs
    /\ \A d \in Dialogs : answer[d] \in Answers(Type[d]) \union {NoAnswer}

Init ==
    /\ container = {} /\ overlay = 0 /\ handlers = 0
    /\ reposition = TRUE
    /\ window \in Windows /\ top = 0
    /\ opened = {}
    /\ answer = [d \in Dialogs |-> NoAnswer]
-----------------------------------------------------------------------------
\* Mutant: no lower limit.
TopUnlimited(h) == h \div 2 - Height \div 2 + Offset

\* _reposition: centred, moved by the offset, but never above the window.
TopFor(h) ==
    LET t == h \div 2 - Height \div 2 + Offset IN IF t < 0 THEN 0 ELSE t

\* _maintainPosition, which does nothing while the option is off: unbind takes
\* every binding of _reposition and no other handler.
Bound(on, n) ==
    IF ~reposition THEN n ELSE IF on THEN n + 1 ELSE 0

\* _hide: container, overlay and handler of whatever dialog there is.
Hide ==
    /\ container' = {}
    /\ overlay' = 0
    /\ handlers' = Bound(FALSE, handlers)
    /\ UNCHANGED <<top, opened>>

\* _show: the dialog that is up goes first, without an answer.
Show(d) ==
    /\ container' = {d}
    /\ overlay' = 1
    /\ top' = TopFor(window)
    /\ handlers' = Bound(TRUE, Bound(FALSE, handlers))
    /\ opened' = opened \union {d}

\* jAlert, jConfirm, jPrompt: from a handler, a timer or a reply of the server,
\* whether a dialog is up or not.
Call(d) ==
    /\ d \notin opened
    /\ Show(d)
    /\ UNCHANGED <<reposition, window, answer>>

\* Mutant: the callback, then _hide.
PressLate(d, a) ==
    /\ answer' = [answer EXCEPT ![d] = a]
    /\ container' = {} /\ overlay' = 0
    /\ handlers' = Bound(FALSE, handlers)
    /\ opened' = opened \union ({FollowUp[d]} \ {NoDialog})
    /\ UNCHANGED <<reposition, window, top>>

\* OK and Cancel: _hide, then the callback, which may show the next dialog.
Press(d, a) ==
    /\ answer' = [answer EXCEPT ![d] = a]
    /\ IF FollowUp[d] \in Dialogs \ opened THEN Show(FollowUp[d]) ELSE Hide
    /\ UNCHANGED <<reposition, window>>

Ok(d) ==
    /\ d \in container
    /\ Press(d, IF Type[d] = "prompt" THEN "text" ELSE "true")

Cancel(d) ==
    /\ d \in container /\ Type[d] # "alert"
    /\ Press(d, IF Type[d] = "prompt" THEN "null" ELSE "false")

\* Enter and Escape while a button or the input has the focus. Enter is OK also
\* on the Cancel button; Escape closes an alert.
Enter(d) == Ok(d)

Escape(d) == IF Type[d] = "alert" THEN Ok(d) ELSE Cancel(d)

\* The window is resized: the handlers that are bound run.
Resize(h) ==
    /\ h # window
    /\ window' = h
    /\ top' = IF handlers > 0 /\ container # {} THEN TopFor(h) ELSE top
    /\ UNCHANGED <<container, overlay, handlers, reposition, opened, answer>>

\* The dialog is draggable by its title.
Drag(t) ==
    /\ container # {} /\ t # top
    /\ top' = t
    /\ UNCHANGED <<container, overlay, handlers, reposition, window, opened, answer>>

\* A script writes $.alerts.repositionOnResize.
Toggle ==
    /\ MayToggle
    /\ reposition' = ~reposition
    /\ UNCHANGED <<container, overlay, handlers, window, top, opened, answer>>

Next ==
    \/ \E d \in Dialogs : Call(d) \/ Ok(d) \/ Cancel(d) \/ Enter(d) \/ Escape(d)
    \/ \E h \in Windows : Resize(h) \/ Drag(h)
    \/ Toggle

Spec == Init /\ [][Next]_vars
-----------------------------------------------------------------------------
\* There is one dialog or none, and the page is covered exactly while there is
\* one: no dialog that replaces another, and none that is opened by a callback,
\* leaves an overlay behind or loses its own.
CoveredWhileAsking ==
    /\ Cardinality(container) <= 1
    /\ overlay = Cardinality(container)

\* A dialog whose callback opens another is followed by that one: taking down
\* the first does not take down the second.
FollowUpIsShown ==
    [][\A d \in Dialogs :
          answer'[d] # answer[d] /\ FollowUp[d] \in Dialogs \ opened
              => container' = {FollowUp[d]} /\ overlay' = 1]_vars

\* The dialog that is up is asked and the ones that are gone are not: each is
\* answered at most once, while it is up, and never after it was replaced.
AnsweredOnceWhileUp ==
    [][\A d \in Dialogs :
          answer'[d] # answer[d] => answer[d] = NoAnswer /\ d \in container]_vars

\* While no script changes the option, the resize handler is bound exactly as
\* long as a dialog is up, and once.
HandlerFollowsDialog == handlers = Cardinality(container)

\* Wherever it was dragged, a dialog is back in the middle and in sight when the
\* window changes, and one that comes up is there from the start.
Centred ==
    [][container' # {} /\ (container' # container \/ window' # window)
          => top' = TopFor(window') /\ top' >= 0]_vars
=============================================================================
