------------------------------ MODULE SideMenu ------------------------------
(***************************************************************************)
(* The menu at the left of a page (custom/general.js): its sub menus slide *)
(* open on a click, the menu collapses to icons, and then its sub menus    *)
(* come up under the mouse with the text of their item as a label. The     *)
(* menu of a small device is collapsed when the page is loaded.            *)
(***************************************************************************)
EXTENDS Integers, Sequences, FiniteSets

CONSTANTS
    Entries,  \* the entries with a sub menu
    Sub,      \* of each: the li of its sub menu, never empty
    Label,    \* the li a collapsed menu inserts
    Nobody    \* no entry is under the mouse

MenuAssumption ==
    /\ Entries # {} /\ Nobody \notin Entries
    /\ Sub = [e \in Entries |-> Sub[e]]
    /\ \A e \in Entries :
         /\ Sub[e] \in Seq({Sub[e][i] : i \in DOMAIN Sub[e]}) /\ Len(Sub[e]) > 0
         /\ \A i \in DOMAIN Sub[e] : Sub[e][i] # Label

\* The menus the pages have: class vernav or vernav2, with icons or without.
Kinds == {"vernav", "vernav iconmenu", "vernav2 iconmenu"}

VARIABLES
    kind,       \* the classes of this page's menu
    toggled,    \* has .togglemenu the class togglemenu_collapsed?
    coll,       \* has the menu the class menucoll or menucoll2?
    body,       \* has the body the class withmenucoll or withmenucoll2?
    margin,     \* has .centercontent a margin of its own?
    items,      \* of each entry: the li of its sub menu
    display,    \* of each sub menu: "shown", "hidden", "up" or "down"
    mouse       \* the entry the mouse is on, or Nobody

slides == <<display, mouse>>
vars == <<kind, toggled, coll, body, margin, items, slides>>

Icons == kind # "vernav"

TypeOK ==
    /\ kind \in Kinds
    /\ toggled \in BOOLEAN /\ coll \in BOOLEAN /\ body \in BOOLEAN
    /\ margin \in BOOLEAN
    /\ \A e \in Entries : Len(items[e]) \in Len(Sub[e]) .. Len(Sub[e]) + 1
    /\ display \in [Entries -> {"shown", "hidden", "up", "down"}]
    /\ mouse \in Entries \union {Nobody}
-----------------------------------------------------------------------------
\* The text of the entry, before the first li of its sub menu.
Labelled(it) == [e \in Entries |-> <<Label>> \o it[e]]

\* The first li of every sub menu goes.
Unlabelled(it) == [e \in Entries |-> Tail(it[e])]

\* The page is ready; on a small device the menu is collapsed. A vernav menu
\* without icons gets the margin and the class of the body only.
Init ==
    /\ kind \in Kinds
    /\ \E small \in BOOLEAN :
         /\ coll = (small /\ Icons) /\ body = small /\ margin = small
         /\ toggled = (small /\ Icons)
         /\ items = IF small /\ Icons THEN Labelled(Sub) ELSE Sub
    /\ display = [e \in Entries |-> "hidden"] /\ mouse = Nobody

\* show() does not stop a slide that is on its way up.
Show(d) == IF d = "up" THEN "up" ELSE "shown"

\* Mutant: the body keeps its class.
ExpandNarrow ==
    /\ toggled /\ toggled' = FALSE
    /\ coll' = FALSE
    /\ display' = IF Icons THEN display ELSE [e \in Entries |-> Show(display[e])]
    /\ items' = IF Icons THEN Unlabelled(items) ELSE items
    /\ UNCHANGED <<kind, body, margin, mouse>>

\* .togglemenu, collapsed: expands. The mouse is on the button.
Expand ==
    /\ toggled /\ toggled' = FALSE /\ mouse = Nobody
    /\ body' = FALSE /\ coll' = FALSE
    /\ display' = IF Icons THEN display ELSE [e \in Entries |-> Show(display[e])]
    /\ items' = IF Icons THEN Unlabelled(items) ELSE items
    /\ UNCHANGED <<kind, margin, mouse>>

\* .togglemenu: collapses.
Collapse ==
    /\ ~toggled /\ toggled' = TRUE /\ mouse = Nobody
    /\ body' = TRUE /\ coll' = TRUE
    /\ display' = IF Icons THEN display ELSE [e \in Entries |-> "hidden"]
    /\ items' = IF Icons THEN Labelled(items) ELSE items
    /\ UNCHANGED <<kind, margin, mouse>>

\* A click on the link of an entry: a sub menu that can be seen, also one that
\* slides, slides up; one that cannot slides down after all others went up. In
\* a collapsed menu nothing slides down.
Click(e) ==
    /\ mouse # Nobody => mouse = e
    /\ IF display[e] # "hidden"
       THEN display' = IF coll THEN display ELSE [display EXCEPT ![e] = "up"]
       ELSE display' = [f \in Entries |->
                          IF f = e THEN IF coll THEN "hidden" ELSE "down"
                          ELSE IF display[f] = "hidden" THEN "hidden" ELSE "up"]
    /\ UNCHANGED <<kind, toggled, coll, body, margin, items, mouse>>

\* A slide is over.
Slid(e) ==
    /\ display[e] \in {"up", "down"}
    /\ display' = [display EXCEPT ![e] = IF @ = "up" THEN "hidden" ELSE "shown"]
    /\ UNCHANGED <<kind, toggled, coll, body, margin, items, mouse>>

\* The mouse comes to an entry of a collapsed menu and leaves it.
Enter(e) ==
    /\ mouse = Nobody /\ mouse' = e
    /\ display' = IF coll THEN [display EXCEPT ![e] = Show(@)] ELSE display
    /\ UNCHANGED <<kind, toggled, coll, body, margin, items>>

Leave ==
    /\ mouse # Nobody /\ mouse' = Nobody
    /\ display' = IF coll THEN [display EXCEPT ![mouse] = "hidden"] ELSE display
    /\ UNCHANGED <<kind, toggled, coll, body, margin, items>>

\* The window gets wide: the margin of a small device goes.
Widen ==
    /\ margin' = FALSE
    /\ UNCHANGED <<kind, toggled, coll, body, items, slides>>

Next ==
    \/ Expand \/ Collapse \/ Leave \/ Widen
    \/ \E e \in Entries : Click(e) \/ Slid(e) \/ Enter(e)

Spec == Init /\ [][Next]_vars
-----------------------------------------------------------------------------
\* Collapsed and expanded any number of times, by the page or by the user, a
\* sub menu has its own li in their order, and a label before them exactly
\* while the menu is collapsed to icons.
SubMenusAreWhole ==
    items = IF coll /\ Icons THEN Labelled(Sub) ELSE Sub

\* The button acts on its own mark: it is that of the menu, and the page leaves
\* the room that menu needs. A small device's page without icons starts with the
\* room of a collapsed menu, until the button is used.
ButtonKnowsMenu == toggled = coll /\ (Icons => body = coll)

\* An expanded menu with icons shows one sub menu at most, also after it was
\* collapsed with one open and the mouse went over others.
OneOpen ==
    Icons /\ ~coll => Cardinality({e \in Entries : display[e] \in {"shown", "down"}}) <= 1
=============================================================================
