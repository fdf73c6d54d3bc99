------------------------------- MODULE Pages -------------------------------
(***************************************************************************)
(* The scripts of the pages. A browser shows one page at a time: the        *)
(* constant-for-good variable page says which script runs in a behaviour,  *)
(* and what belongs to the others stays as it is when their page is        *)
(* loaded.                                                                 *)
(***************************************************************************)
EXTENDS MailInbox, Sequences

CONSTANTS
    EagerPosts, WaitingPosts, OutsidePosts,            \* bounds of HeaderBoxes
    Items, Target, NavWidths, NavPosts, More,          \* of HorizontalNav
    Entries, Sub, Label,                               \* of SideMenu
    Widths, Products, Months,                          \* of Responsive
    TableRows, TablePosts,                             \* of QuickView
    Posts, MaxViews,                                   \* of BlogPosts
    Bars,                                              \* of Pagination
    Series, Indices,                                   \* of ChartTip
    None                                               \* no item, entry, question or point

\* The header: of a user who clicks at any time, of one who waits for the
\* server, and of one who waits and shuts the box from outside. The table: of a
\* user who clicks at any time and of one who waits.
HeaderPages == {"header", "headerWaiting", "headerOutside"}
TablePages == {"table", "tableWaiting"}
KindsOfPages == HeaderPages \union TablePages
                    \union {"menuBar", "sideMenu", "layout", "blog", "inbox", "pagination", "chart"}

VARIABLES
    page,
    drop, active, boxes, posts, pending,                            \* HeaderBoxes
    inline, navWidth, shortened, bar, more, navOpen, item, content, asks, due,
                                                                    \* HorizontalNav
    kind, toggled, coll, body, margin, items, display, mouse,       \* SideMenu
    width, wrappers, icons, products, shortcuts, titles, month,     \* Responsive
    table, from, unanswered, shown, filled, hidden, forced, leaving, rowsChecked, rowsSelected,
                                                                    \* QuickView
    loaded, list, of, awaited, seen, asked, fading, boxed,          \* BlogPosts
    pages, current, disabled,                                       \* Pagination
    near, previousPoint, tips, clicked                              \* ChartTip

header == <<drop, active, boxes, posts, pending>>
nav == <<inline, navWidth, shortened, bar, more, navOpen, item, content, asks, due>>
menu == <<kind, toggled, coll, body, margin, items, display, mouse>>
layout == <<width, wrappers, icons, products, shortcuts, titles, month>>
quick == <<table, from, unanswered, shown, filled, hidden, forced, leaving, rowsChecked,
           rowsSelected>>
blog == <<loaded, list, of, awaited, seen, asked, fading, boxed>>
bars == <<pages, current, disabled>>
chart == <<near, previousPoint, tips, clicked>>
pageVars == <<page, vars, header, nav, menu, layout, quick, blog, bars, chart>>

Eager == INSTANCE HeaderBoxes WITH MaxPosts <- EagerPosts, Patient <- FALSE, BellShuts <- TRUE
Waiting == INSTANCE HeaderBoxes WITH MaxPosts <- WaitingPosts, Patient <- TRUE, BellShuts <- TRUE
Outside == INSTANCE HeaderBoxes WITH MaxPosts <- OutsidePosts, Patient <- TRUE, BellShuts <- FALSE

\* The server replies in the order it is asked.
Nav == INSTANCE HorizontalNav
         WITH Widths <- NavWidths, MaxPosts <- NavPosts, InOrder <- TRUE, Nothing <- None,
              width <- navWidth, open <- navOpen, current <- item, posts <- asks, pending <- due

Menu == INSTANCE SideMenu WITH Nobody <- None

Layout == INSTANCE Responsive

Quick == INSTANCE QuickView
           WITH Rows <- TableRows, MaxPosts <- TablePosts, Patient <- FALSE,
                pending <- unanswered, checked <- rowsChecked, selected <- rowsSelected
Slow == INSTANCE QuickView
          WITH Rows <- TableRows, MaxPosts <- TablePosts, Patient <- TRUE,
               pending <- unanswered, checked <- rowsChecked, selected <- rowsSelected

Blog == INSTANCE BlogPosts
          WITH Nobody <- None, table <- list, from <- of,
               pending <- awaited, shown <- seen, checked <- boxed

Bar == INSTANCE Pagination

Chart == INSTANCE ChartTip WITH Nothing <- None

ASSUME HeadersAssumption ==
    Eager!HeaderAssumption /\ Waiting!HeaderAssumption /\ Outside!HeaderAssumption
ASSUME MenusAssumption == Nav!NavAssumption /\ Menu!MenuAssumption
ASSUME LayoutAssumption == Layout!ResponsiveAssumption
ASSUME ListsAssumption ==
    Quick!QuickViewAssumption /\ Slow!QuickViewAssumption /\ Blog!BlogAssumption
ASSUME BarAssumption == Bar!PaginationAssumption
\* The bars of the pages: index.html has one of five pages.
ASSUME SeveralPages == 1 \notin Bars
ASSUME ChartAssumption == Chart!ChartTipAssumption
-----------------------------------------------------------------------------
\* One state of every script that does not run.
Some(S) == CHOOSE x \in S : TRUE

PagesInit ==
    /\ page \in KindsOfPages
    /\ Eager!Init
    /\ Nav!Init /\ (page # "menuBar" => inline /\ navWidth = Some(NavWidths))
    /\ Menu!Init /\ (page # "sideMenu" => kind = "vernav" /\ ~body)
    /\ Layout!Init /\ (page # "layout" => width = Some(Widths) /\ month = Some(Months))
    /\ Quick!Init
    /\ Blog!Init
    /\ Init /\ (page # "inbox" => starred = {})
    /\ Bar!Init /\ (page # "pagination" => pages = Some(Bars))
    /\ Chart!Init

\* Only what belongs to the scripts of this page changes.
Others(variables, here) == IF page \in here THEN TRUE ELSE UNCHANGED variables

On(here) ==
    /\ page \in here /\ UNCHANGED page
    /\ Others(header, HeaderPages) /\ Others(nav, {"menuBar"}) /\ Others(menu, {"sideMenu"})
    /\ Others(layout, {"layout"}) /\ Others(quick, TablePages) /\ Others(blog, {"blog"})
    /\ Others(vars, {"inbox"}) /\ Others(bars, {"pagination"}) /\ Others(chart, {"chart"})

PagesNext ==
    \/ On({"header"}) /\ Eager!Next
    \/ On({"headerWaiting"}) /\ Waiting!Next
    \/ On({"headerOutside"}) /\ Outside!Next
    \/ On({"menuBar"}) /\ Nav!Next
    \/ On({"sideMenu"}) /\ Menu!Next
    \/ On({"layout"}) /\ Layout!Next
    \/ On({"table"}) /\ Quick!Next
    \/ On({"tableWaiting"}) /\ Slow!Next
    \/ On({"blog"}) /\ Blog!Next
    \/ On({"inbox"}) /\ Next
    \/ On({"pagination"}) /\ Bar!Next
    \/ On({"chart"}) /\ Chart!Next

PagesSpec == PagesInit /\ [][PagesNext]_pageVars
-----------------------------------------------------------------------------
\* The types of every script: what the handlers of custom/*.js keep in the page.
PagesTypeOK ==
    /\ page \in KindsOfPages
    /\ Outside!TypeOK /\ Nav!TypeOK /\ Menu!TypeOK /\ Layout!TypeOK /\ Quick!TypeOK
    /\ Blog!TypeOK /\ TypeOK /\ Bar!TypeOK /\ Chart!TypeOK

\* The header (general.js): the mark of .userinfo agrees with its drop down;
\* for a user who waits for the server there is a box or the drop down, never
\* both; and for one who shuts the box from outside its tab is its list.
HeaderTakesTurns ==
    /\ Eager!DropIsMarked
    /\ page # "header" => Waiting!OneBoxAtATime
    /\ page = "headerOutside" => Outside!TabShowsItsList

\* The menus (blog.js, general.js): through every resize the menu bar keeps its
\* items and their order and shows the part of the current one; the side menu
\* keeps the entries of every sub menu, labelled while it is collapsed, opens
\* one at a time, and its button knows whether it is collapsed.
NavigationIsWhole ==
    /\ Nav!MenuIsWhole /\ Nav!CurrentIsShown
    /\ Menu!SubMenusAreWhole /\ Menu!ButtonKnowsMenu /\ Menu!OneOpen

\* A page that was resized is laid out as one just loaded (productlist.js and others).
AsIfJustLoaded == Layout!AsIfJustLoaded

\* The table (tables.js): however clicks and replies are mixed there is one
\* quick view at most, and in the end the one asked for last, below its row; a
\* row is marked exactly while its box is checked; and for a user who waits a
\* row is only hidden while its quick view stands in its place.
TableIsConsistent ==
    /\ Quick!AtMostOneView /\ Quick!LastClickWins /\ Quick!SelectedIsChecked
    /\ page = "tableWaiting" => Slow!HiddenIsReplaced

\* The list of posts (blog.js): one quick view is seen, below its post, however
\* replies come in; a post that is deleted takes its own along; and checking
\* all posts leaves the boxes of the forms alone.
BlogIsConsistent ==
    /\ []Blog!OneViewBelowItsPost
    /\ Blog!ViewGoesWithPost
    /\ Blog!FormsAreKept

\* A pagination bar (elements.js) has one current page, and its buttons are
\* disabled at the ends and nowhere else.
PaginationKnowsEnds == Bar!OneCurrent /\ Bar!DisabledAtTheEnds

\* The tooltip is that of the position the pointer is at (dashboard.js).
TipFollowsPointer == Chart!TipFollowsPointer
=============================================================================
