----------------------------- MODULE Pagination -----------------------------
(***************************************************************************)
(* custom/elements.js: the pagination bar. Its li are first, previous, one *)
(* per page, next and last; a click on one runs the handler of every link  *)
(* and then the one of its own.                                            *)
(***************************************************************************)
EXTENDS Integers, FiniteSets

CONSTANT Bars   \* the numbers of pages the bars have

PaginationAssumption == Bars \subseteq Nat \ {0}

VARIABLES
    pages,     \* how many pages this bar has
    current,   \* the pages whose link has the class current
    disabled   \* the buttons whose link has the class disable

vars == <<pages, current, disabled>>

Buttons == {"first", "previous", "next", "last"}
Forward == {"next", "last"}
Backward == {"first", "previous"}

TypeOK ==
    /\ pages \in Bars
    /\ current \subseteq 1 .. pages /\ disabled \subseteq Buttons

\* The bar as the page is served, as in index.html: on the first page, which in
\* a bar of one page is the last, too.
Init ==
    /\ pages \in Bars
    /\ current = {1}
    /\ disabled = IF pages = 1 THEN Buttons ELSE Backward
-----------------------------------------------------------------------------
\* A click on a page: it is current, and the buttons are disabled at the ends.
Page(p) ==
    /\ p \in 1 .. pages
    /\ current' = {p}
    /\ disabled' = (IF p = pages THEN Forward ELSE {})
                       \union (IF p = 1 THEN Backward ELSE {})
    /\ UNCHANGED pages

\* Mutant: the way back stays shut.
NextOneWay ==
    /\ current' = IF "next" \notin disabled /\ pages \notin current
                  THEN {p + 1 : p \in current} ELSE current
    /\ disabled' = disabled \union (IF pages \in current' THEN Forward ELSE {})
    /\ UNCHANGED pages

\* A click on next: one page on, unless it is disabled or at the last page.
NextPage ==
    /\ current' = IF "next" \notin disabled /\ pages \notin current
                  THEN {p + 1 : p \in current} ELSE current
    /\ disabled' = (disabled \ (IF 1 \in current' THEN {} ELSE Backward))
                       \union (IF pages \in current' THEN Forward ELSE {})
    /\ UNCHANGED pages

\* A click on previous.
PreviousPage ==
    /\ current' = IF "previous" \notin disabled /\ 1 \notin current
                  THEN {p - 1 : p \in current} ELSE current
    /\ disabled' = (disabled \ (IF pages \in current' THEN {} ELSE Forward))
                       \union (IF 1 \in current' THEN Backward ELSE {})
    /\ UNCHANGED pages

\* A click on last, disabled or not.
LastPage ==
    /\ current' = {pages}
    /\ disabled' = (disabled \union Forward) \ Backward
    /\ UNCHANGED pages

\* A click on first.
FirstPage ==
    /\ current' = {1}
    /\ disabled' = (disabled \union Backward) \ Forward
    /\ UNCHANGED pages

Next ==
    \/ \E p \in 1 .. pages : Page(p)
    \/ NextPage \/ PreviousPage \/ LastPage \/ FirstPage

Spec == Init /\ [][Next]_vars
-----------------------------------------------------------------------------
\* However it got there, the bar has one current page.
OneCurrent == Cardinality(current) = 1

\* "disable next and last button when active page is the last page", "disable
\* first and previous button when active page is the first page": and they work
\* on every other page.
DisabledAtTheEnds ==
    disabled = (IF pages \in current THEN Forward ELSE {})
                   \union (IF 1 \in current THEN Backward ELSE {})
=============================================================================
