------------------------------ MODULE QuickView ------------------------------
(***************************************************************************)
(* custom/tables.js: the rows of a table with check boxes, their deletion, *)
(* and the quick view that is fetched from the server and put in place of  *)
(* a row. A click inserts an empty, hidden row; the reply fills and shows  *)
(* it. Posts are asynchronous and answered in any order.                   *)
(***************************************************************************)
EXTENDS TableRows

CONSTANTS
    Rows,      \* the rows of the table, in their order
    MaxPosts,  \* bound: how often a quick view is asked for
    Patient    \* does the user wait for a reply before the next quick view?

QuickViewAssumption ==
    /\ Rows \in Seq(Range(Rows)) /\ IsInjective(Rows) /\ Range(Rows) \intersect Nat = {}
    /\ MaxPosts \in Nat /\ Patient \in BOOLEAN

Row == Range(Rows)

\* A quick view is named by the number of the post that fills it.
View == 1 .. MaxPosts

VARIABLES
    table,     \* the tr elements of the table: rows and quick views
    from,      \* of each post so far: the row that was clicked
    pending,   \* the posts without a reply
    shown,     \* the quick views that are not hidden
    filled,    \* the quick views with their data
    hidden,    \* the rows of class hiderow
    forced,    \* the rows that a fadeIn gave a display of their own
    leaving,   \* the rows that fade out, and the quick views that shrink
    checked,   \* the rows with a checked box
    selected   \* the rows of class selected

quick == <<table, from, pending, shown, filled, hidden, forced>>
vars == <<quick, leaving, checked, selected>>

Present == Range(table)
Sees(r) == r \in Present /\ (r \notin hidden \/ r \in forced)

TypeOK ==
    /\ IsInjective(table) /\ Present \subseteq Row \union View
    /\ from \in Seq(Row) /\ pending \subseteq DOMAIN from
    /\ shown \subseteq View /\ filled \subseteq DOMAIN from \ pending
    /\ leaving \subseteq Row \union View
    /\ hidden \union forced \union checked \union selected \subseteq Row

Init ==
    /\ table = Rows /\ from = <<>>
    /\ pending = {} /\ shown = {} /\ filled = {}
    /\ hidden = {} /\ forced = {} /\ leaving = {}
    /\ checked = {} /\ selected = {}
-----------------------------------------------------------------------------
\* A click on a.toggle: the quick view that is open goes, the rows that are
\* hidden come back, an empty hidden one is inserted and its data is asked for.
Toggle(r) ==
    /\ Sees(r) /\ Len(from) < MaxPosts
    /\ Patient => pending = {}
    /\ LET rest == Without(table, View)
           new == Len(from) + 1
       IN  /\ table' = InsertAfter(rest, r, new)
           /\ from' = Append(from, r)
           /\ pending' = pending \union {new}
    /\ hidden' = {}
    /\ UNCHANGED <<shown, filled, forced, leaving, checked, selected>>

\* Mutant: the new row is never shown.
ReplyUnseen(k) ==
    /\ k \in pending
    /\ pending' = pending \ {k} /\ filled' = filled \union {k}
    /\ hidden' = hidden \union ({from[k]} \intersect Present)
    /\ UNCHANGED <<shown, forced, table, from, leaving, checked, selected>>

\* The reply fills its own quick view, wherever that is by now; what it shows
\* is whatever comes after the row, and the row is hidden. fadeIn gives an
\* element that its class hides a display of its own.
Reply(k) ==
    /\ k \in pending
    /\ pending' = pending \ {k} /\ filled' = filled \union {k}
    /\ shown' = shown \union (After(table, from[k]) \intersect View)
    /\ forced' = forced \union (After(table, from[k]) \intersect hidden)
    /\ hidden' = hidden \union ({from[k]} \intersect Present)
    /\ UNCHANGED <<table, from, leaving, checked, selected>>

\* Cancel and submit in a quick view: it shrinks.
Cancel(k) ==
    /\ k \in Present \intersect shown \intersect filled
    /\ leaving' = leaving \union {k}
    /\ UNCHANGED <<quick, checked, selected>>

\* It has shrunk: the row before it comes back, and it is removed.
Shrunk(k) ==
    /\ k \in leaving
    /\ leaving' = leaving \ {k}
    /\ hidden' = {r \in hidden : k \notin After(table, r)}
    /\ table' = Without(table, {k})
    /\ UNCHANGED <<from, pending, shown, filled, forced, checked, selected>>

\* a.delete, after "Continue delete?".
Delete(r) ==
    /\ Sees(r)
    /\ leaving' = leaving \union {r}
    /\ UNCHANGED <<quick, checked, selected>>

\* .deletebutton: the checked rows, also one that is hidden by its quick view.
DeleteSelected ==
    /\ checked # {}
    /\ leaving' = leaving \union checked
    /\ UNCHANGED <<quick, checked, selected>>

\* fadeOut is over: the row is removed, its quick view is not.
FadedOut(r) ==
    /\ r \in leaving
    /\ leaving' = leaving \ {r}
    /\ table' = Without(table, {r})
    /\ hidden' = hidden \ {r} /\ forced' = forced \ {r}
    /\ checked' = checked \ {r} /\ selected' = selected \ {r}
    /\ UNCHANGED <<from, pending, shown, filled>>

\* .checkall in the header or the footer: every box of the body.
CheckAll(on) ==
    /\ checked' = IF on THEN Row \intersect Present ELSE {}
    /\ selected' = checked'
    /\ UNCHANGED <<quick, leaving>>

\* The box of one row.
Check(r) ==
    /\ Sees(r)
    /\ checked' = (checked \ {r}) \union ({r} \ checked)
    /\ selected' = IF r \in checked' THEN selected \union {r} ELSE selected \ {r}
    /\ UNCHANGED <<quick, leaving>>

Next ==
    \/ \E r \in Row : Toggle(r) \/ Delete(r) \/ FadedOut(r) \/ Check(r)
    \/ \E k \in View : Reply(k) \/ Cancel(k) \/ Shrunk(k)
    \/ DeleteSelected
    \/ \E on \in BOOLEAN : CheckAll(on)

Spec == Init /\ [][Next]_vars
-----------------------------------------------------------------------------
\* However the clicks and the replies are mixed, the table has at most one
\* quick view.
AtMostOneView == Cardinality(Present \intersect View) <= 1

\* A row looks selected exactly while its box is checked, also when rows are
\* checked one by one after all were, or deleted in between.
SelectedIsChecked == selected = checked

\* When the replies are all in, in whatever order, the quick view that is there
\* is the one asked for last; it is shown with its data and right below its
\* row, unless that row was deleted.
LastClickWins ==
    pending = {} =>
        \A k \in Present \intersect View :
            /\ k = Len(from) /\ k \in filled
            /\ from[k] \in Present => k \in shown \intersect After(table, from[k])

\* "hide this row to look like replacing the newly inserted row": a row that is
\* hidden has its quick view, shown, in its place.
HiddenIsReplaced ==
    \A r \in hidden \ forced : After(table, r) \subseteq shown /\ After(table, r) # {}
=============================================================================
