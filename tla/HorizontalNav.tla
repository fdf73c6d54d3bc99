---------------------------- MODULE HorizontalNav ----------------------------
(***************************************************************************)
(* The horizontal menu of a page: a click on an item shows a part of the   *)
(* page or fetches one from the server (custom/general.js); in a narrow    *)
(* window the items from the third on are moved into a menu of their own   *)
(* (custom/blog.js).                                                       *)
(***************************************************************************)
EXTENDS Integers, SequencesExt

CONSTANTS
    Items,     \* the items of .hornav, in their order; the first is current
    Target,    \* of each item: its href; items may share one
    Widths,    \* the widths of the window
    MaxPosts,  \* bound: how often the server is asked
    InOrder,   \* does the server reply in the order it is asked?
    More,      \* the item that holds the others
    Nothing    \* no item

NavAssumption ==
    /\ Items \in Seq(Range(Items)) /\ Len(Items) > 1
    /\ More \notin Range(Items) /\ Nothing \notin Range(Items)
    /\ Widths \subseteq Nat /\ MaxPosts \in Nat
    /\ InOrder \in BOOLEAN

Item == Range(Items)

VARIABLES
    inline,     \* are the parts in the page, or fetched?
    width,      \* of the window
    shortened,  \* has .hornav the class shortened?
    bar,        \* the li in .hornav
    more,       \* the li in the ul of li.more
    open,       \* can that ul be seen?
    current,    \* the item of class current, More or Nothing
    content,    \* what the page shows: the target of an item
    posts,      \* how often the server was asked
    pending     \* the targets asked for and not yet there, oldest first

menu == <<shortened, bar, more>>
vars == <<inline, width, menu, open, current, content, posts, pending>>

TypeOK ==
    /\ inline \in BOOLEAN
    /\ width \in Widths /\ shortened \in BOOLEAN /\ open \in BOOLEAN
    /\ bar \in Seq(Item \union {More}) /\ more \in Seq(Item)
    /\ (open \/ more # <<>>) => Contains(bar, More)
    /\ current \in Item \union {More, Nothing}
    /\ content \in {Target[i] : i \in Item}
    /\ pending \in Seq({Target[i] : i \in Item}) /\ Len(pending) <= posts
-----------------------------------------------------------------------------
\* The li that stay in .hornav, and the ones that go into li.more.
Shorten(b) == <<SubSeq(b, 1, 2), SubSeq(b, 3, Len(b))>>

\* shortenedTab(): the class, the li in .hornav and in li.more for a width.
MenuFor(w, short, b, m) ==
    CASE w < 450 /\ ~short -> <<TRUE, Append(Shorten(b)[1], More), Shorten(b)[2]>>
      [] w >= 450 /\ short -> <<FALSE, RemoveFirst(b, More) \o m, <<>>>>
      [] OTHER -> <<short, b, m>>

\* The page is ready: the first item is current, its part is there.
Init ==
    /\ inline \in BOOLEAN /\ width \in Widths
    /\ LET m == MenuFor(width, FALSE, Items, <<>>)
       IN  shortened = m[1] /\ bar = m[2] /\ more = m[3]
    /\ open = FALSE
    /\ current = Items[1] /\ content = Target[Items[1]]
    /\ posts = 0 /\ pending = <<>>

\* What the user can click on.
Visible(i) == Contains(bar, i) \/ (open /\ Contains(more, i))

\* A click on an item: it becomes current; one that is not in li.more shuts that.
Click(i) ==
    /\ Visible(i)
    /\ open' = (open /\ Contains(more, i))
    /\ current' = i
    /\ IF ~inline
       THEN /\ posts < MaxPosts /\ posts' = posts + 1
            /\ pending' = Append(pending, Target[i])
            /\ UNCHANGED content
       ELSE /\ content' = Target[i]
            /\ UNCHANGED <<posts, pending>>
    /\ UNCHANGED <<inline, width, menu>>

\* A reply fills the page, whatever is current by now.
Reply(k) ==
    /\ k \in DOMAIN pending /\ (InOrder => k = 1)
    /\ content' = pending[k]
    /\ pending' = RemoveAt(pending, k)
    /\ UNCHANGED <<inline, width, menu, open, current, posts>>

\* A click on li.more: opens it and takes the mark, or shuts it.
ClickMore ==
    /\ Contains(bar, More)
    /\ open' = ~open
    /\ current' = IF open THEN current ELSE More
    /\ UNCHANGED <<inline, width, menu, content, posts, pending>>

\* The window changes; if li.more goes, its mark goes with it.
Resize(w) ==
    /\ w # width /\ width' = w
    /\ LET m == MenuFor(w, shortened, bar, more)
       IN  shortened' = m[1] /\ bar' = m[2] /\ more' = m[3]
    /\ open' = (open /\ Contains(bar', More))
    /\ current' = IF current = More /\ ~Contains(bar', More) THEN Nothing ELSE current
    /\ UNCHANGED <<inline, content, posts, pending>>

Next ==
    \/ \E i \in Item : Click(i)
    \/ \E k \in DOMAIN pending : Reply(k)
    \/ ClickMore
    \/ \E w \in Widths : Resize(w)

Spec == Init /\ [][Next]_vars
-----------------------------------------------------------------------------
\* However the window was resized, every item is in the menu once and in its
\* order, and the menu is short exactly in a narrow window: "checked to prevent
\* running multiple times when resizing windows".
MenuIsWhole ==
    /\ RemoveFirst(bar, More) \o more = Items
    /\ shortened = (width < 450) /\ shortened = Contains(bar, More)

\* "set as current menu": when the server owes nothing, the page shows the part
\* of the item that is marked.
CurrentIsShown ==
    pending = <<>> /\ current \in Item => content = Target[current]
=============================================================================
