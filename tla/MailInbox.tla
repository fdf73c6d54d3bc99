----------------------------- MODULE MailInbox ------------------------------
(***************************************************************************)
(* custom/messages.js: the checkboxes of the inbox, the tools that show    *)
(* while messages are selected, and the drop-down among those tools. Each  *)
(* box runs its handlers in the order they were bound; then the click      *)
(* bubbles to the document, which closes every drop-down.                  *)
(***************************************************************************)
EXTENDS Integers, FiniteSets

CONSTANTS
    Rows,       \* the messages
    Headers,    \* the boxes in the header and the footer that check all
    Dropdowns   \* the drop-downs of the page

ASSUME MailInboxAssumption == Rows # {} /\ Rows \intersect Headers = {}

VARIABLES
    checked,    \* the boxes that are checked
    selected,   \* the rows of class selected
    starred,    \* the rows of class starred
    tools,      \* the trash icon and the other tools are shown
    open        \* the drop-downs that are open

vars == <<checked, selected, starred, tools, open>>

TypeOK ==
    /\ checked \subseteq Rows \union Headers
    /\ selected \subseteq Rows /\ starred \subseteq Rows
    /\ tools \in BOOLEAN /\ open \subseteq Dropdowns

\* The page as it is served: nothing checked, the tools hidden by the style sheet.
Init ==
    /\ checked = {} /\ selected = {} /\ starred \in {{}, Rows}
    /\ tools = FALSE /\ open = {}

-----------------------------------------------------------------------------
\* Mutant: the tools are hidden whichever row is unchecked.
ClickToolsAlways(b, now) ==
    tools' = (b \in now)

\* The handler of each box, with the boxes checked by now: unchecked, it hides
\* the tools unless a row is left; checked, it shows them.
ClickTools(b, now) ==
    tools' = IF b \in now THEN TRUE ELSE tools /\ now \intersect Rows # {}

\* Mutant: the rows of the header and the footer are marked, too.
CheckAllMarksHeads(h) ==
    /\ h \in Headers
    /\ checked' = IF h \in checked THEN {} ELSE Rows \union Headers
    /\ selected' = checked'
    /\ ClickTools(h, checked')
    /\ open' = {}
    /\ UNCHANGED starred

\* A header box: it checks or unchecks every box of the table and marks the rows.
CheckAll(h) ==
    /\ h \in Headers
    /\ checked' = IF h \in checked THEN {} ELSE Rows \union Headers
    /\ selected' = IF h \in checked THEN {} ELSE Rows
    /\ ClickTools(h, checked')
    /\ open' = {}
    /\ UNCHANGED starred

\* The box of a row.
Check(r) ==
    /\ r \in Rows
    /\ checked' = IF r \in checked THEN checked \ {r} ELSE checked \union {r}
    /\ selected' = IF r \in checked THEN selected \ {r} ELSE selected \union {r}
    /\ ClickTools(r, checked')
    /\ open' = {}
    /\ UNCHANGED starred

\* A star. It is a link in the row, and its click bubbles, too.
Star(r) ==
    /\ starred' = IF r \in starred THEN starred \ {r} ELSE starred \union {r}
    /\ open' = {}
    /\ UNCHANGED <<checked, selected, tools>>

\* The label of a drop-down, if it is shown; the click stops here, so that the
\* others stay open.
ClickLabel(d) ==
    /\ tools
    /\ open' = IF d \in open THEN open \ {d} ELSE open \union {d}
    /\ UNCHANGED <<checked, selected, starred, tools>>

Elsewhere ==
    /\ open' = {}
    /\ UNCHANGED <<checked, selected, starred, tools>>

Next ==
    \/ \E h \in Headers : CheckAll(h)
    \/ \E r \in Rows : Check(r) \/ Star(r)
    \/ \E d \in Dropdowns : ClickLabel(d)
    \/ Elsewhere

Spec == Init /\ [][Next]_vars

-----------------------------------------------------------------------------
\* The tools are shown exactly while a message is selected, whichever boxes it
\* was selected and deselected with.
ToolsIffSelected == tools <=> selected # {}

\* A row is marked exactly when its box is checked.
MarkedIsChecked == selected = checked \intersect Rows

\* No list stays open when the label that closes it is hidden.
OpenHasLabel == open # {} => tools

\* What the page shows of the selection is that of the boxes: the marks of the
\* rows, the tools for them, and the lists of the tools, whichever boxes the
\* messages were selected and deselected with.
InboxFollowsBoxes == MarkedIsChecked /\ ToolsIffSelected /\ OpenHasLabel
=============================================================================
