----------------------------- MODULE Responsive -----------------------------
(***************************************************************************)
(* What the scripts of the pages rearrange when the window is resized: the *)
(* search box (custom/general.js), the products (custom/productlist.js),   *)
(* the shortcuts (custom/dashboard.js) and the title of the calendar       *)
(* (custom/calendar.js). Each handler looks at the page to see what was    *)
(* done before, and runs on every resize.                                  *)
(***************************************************************************)
EXTENDS Integers, Sequences, FiniteSets

CONSTANTS
    Widths,     \* the widths of the window
    Products,   \* how many products and how many shortcuts there are
    Months      \* the months the calendar can show

ResponsiveAssumption ==
    /\ Widths \subseteq Nat /\ Products \in Nat /\ Months # {}

VARIABLES
    width,      \* of the window
    wrappers,   \* how many .searchinner are around the search form
    icons,      \* how many .searchicon and .searchcancel there are
    products,   \* the classes of each product
    shortcuts,  \* the classes of each shortcut
    titles,     \* the text of each h3.calTitle
    month       \* what the calendar shows

vars == <<width, wrappers, icons, products, shortcuts, titles, month>>

Classes == [1 .. Products -> SUBSET {"one_third", "one_half", "last"}]

TypeOK ==
    /\ width \in Widths
    /\ wrappers \in 0 .. 1 /\ icons \in {0, 2}
    /\ products \in Classes /\ shortcuts \in Classes
    /\ titles \in Seq(Months) /\ month \in Months
-----------------------------------------------------------------------------
Has(c, cl) == \E i \in DOMAIN c : cl \in c[i]

NoClass == [i \in 1 .. Products |-> {}]

\* Every li of class cl, each n-th one the last of its line.
Columns(n, cl) ==
    [i \in 1 .. Products |-> IF i % n = 0 THEN {cl, "last"} ELSE {cl}]

\* reposSearch: one wrapper and two icons in a narrow window; unwrap takes one
\* wrapper, remove every icon.
Search(w, n, k) ==
    IF w < 520
    THEN IF n = 0 THEN <<1, k + 2>> ELSE <<n, k>>
    ELSE IF n > 0 THEN <<n - 1, 0>> ELSE <<n, k>>

\* Mutant: looks for the class, but leaves the other one.
ProductListAdds(w, c) ==
    LET half == IF Has(c, "one_half") THEN c ELSE Columns(2, "one_half")
    IN  IF w < 480
        THEN IF w < 400 THEN NoClass ELSE half
        ELSE IF Has(c, "one_third") THEN c
             ELSE [i \in DOMAIN c |-> c[i] \union Columns(3, "one_third")[i]]

\* rearrangelist: two columns below 480, none below 400, three otherwise.
ProductList(w, c) ==
    LET half == IF Has(c, "one_half") THEN c ELSE Columns(2, "one_half")
    IN  IF w < 480
        THEN IF w < 400 THEN NoClass ELSE half
        ELSE IF Has(c, "one_third") THEN c ELSE Columns(3, "one_third")

\* rearrangeShortcuts: two columns below 430, no class otherwise.
Shortcuts(w, c) ==
    IF w < 430
    THEN IF Has(c, "one_half") THEN c ELSE Columns(2, "one_half")
    ELSE IF Has(c, "one_half") THEN NoClass ELSE c

\* reposTitle: the title of a narrow window, which hides the calendar's own, is
\* the month the calendar shows when the window gets narrow; it is not renewed.
TitlesFor(w, t, m) ==
    IF w < 450 THEN IF t = <<>> THEN <<m>> ELSE t ELSE <<>>

\* The handlers run once when the page is ready, on the page as it is served.
Init ==
    /\ width \in Widths
    /\ wrappers = Search(width, 0, 0)[1] /\ icons = Search(width, 0, 0)[2]
    /\ products = ProductList(width, NoClass)
    /\ shortcuts = Shortcuts(width, NoClass)
    /\ month \in Months /\ titles = TitlesFor(width, <<>>, month)

\* The browser resizes the window in steps, and runs the handlers on each.
Resize(w) ==
    /\ width' = w
    /\ wrappers' = Search(w, wrappers, icons)[1]
    /\ icons' = Search(w, wrappers, icons)[2]
    /\ products' = ProductList(w, products)
    /\ shortcuts' = Shortcuts(w, shortcuts)
    /\ titles' = TitlesFor(w, titles, month)
    /\ UNCHANGED month

\* The calendar shows another month.
Turn(m) ==
    /\ month' = m
    /\ UNCHANGED <<width, wrappers, icons, products, shortcuts, titles>>

Next ==
    \/ \E w \in Widths : Resize(w)
    \/ \E m \in Months : Turn(m)

Spec == Init /\ [][Next]_vars
-----------------------------------------------------------------------------
\* Whatever the window was resized to in between, the page is the one that is
\* laid out when it is loaded in the window as it is now.
AsIfJustLoaded ==
    /\ <<wrappers, icons>> = Search(width, 0, 0)
    /\ products = ProductList(width, NoClass)
    /\ shortcuts = Shortcuts(width, NoClass)
    /\ Len(titles) = Len(TitlesFor(width, <<>>, month))
=============================================================================
