----------------------------- MODULE PagesProofs -----------------------------
(***************************************************************************)
(* Proofs about Pages, for any messages, menus, rows, posts, windows and   *)
(* charts. Each script has an inductive invariant of its own; a step of    *)
(* one page is a step or a stutter of every script.                        *)
(***************************************************************************)
EXTENDS Pages, FiniteSetTheorems, SequenceTheorems, WellFoundedInduction, TLAPS

-----------------------------------------------------------------------------
(* Sets with one element at most *)

LEMMA AtMostOne ==
    ASSUME NEW S, \A x, y \in S : x = y
    PROVE  Cardinality(S) \in Nat /\ Cardinality(S) <= 1
<1>1. CASE S = {}
  BY <1>1, FS_EmptySet
<1>2. CASE S # {}
  <2>1. PICK x : S = {x}
    BY <1>2
  <2>. QED
    BY <2>1, FS_Singleton
<1>. QED
  BY <1>1, <1>2

(* Sequences: the empty one, one that gets another element, and one with the  *)
(* elements changed in their places.                                          *)
LEMMA EmptySequence == DOMAIN <<>> = {} /\ Len(<<>>) = 0 /\ \A S : <<>> \in Seq(S)
OBVIOUS

LEMMA LongerSequence ==
    ASSUME NEW S, NEW s \in Seq(S), NEW e \in S
    PROVE  /\ Len(s) \in Nat /\ DOMAIN s = 1..Len(s)
           /\ Append(s, e) \in Seq(S) /\ Len(Append(s, e)) = Len(s) + 1
           /\ DOMAIN Append(s, e) = 1..Len(s) + 1
           /\ Append(s, e)[Len(s) + 1] = e
           /\ \A i \in 1..Len(s) : Append(s, e)[i] = s[i]
OBVIOUS

LEMMA ChangedSequence ==
    ASSUME NEW S, NEW s \in Seq(S), NEW t, t = [i \in DOMAIN s |-> t[i]],
           \A i \in DOMAIN s : t[i] \in S
    PROVE  t \in Seq(S) /\ Len(t) = Len(s) /\ DOMAIN t = DOMAIN s
<1>1. t \in [1..Len(s) -> S]
  OBVIOUS
<1>. QED
  BY <1>1

-----------------------------------------------------------------------------
(* The inbox *)

\* The properties need one another: a drop-down is open only where the tools
\* are, and the tools follow from the rows because these follow from the boxes.
InboxInv == TypeOK /\ MarkedIsChecked /\ ToolsIffSelected /\ OpenHasLabel

LEMMA InboxInit == Init => InboxInv
BY DEF Init, InboxInv, TypeOK, MarkedIsChecked, ToolsIffSelected, OpenHasLabel

(* A click on a box in the header or the footer: all rows or none. *)
LEMMA InboxCheckAll ==
    ASSUME InboxInv, NEW h \in Headers, CheckAll(h)
    PROVE  InboxInv'
<1> USE MailInboxAssumption DEF InboxInv, TypeOK, MarkedIsChecked, ToolsIffSelected, OpenHasLabel
<1>1. CASE h \in checked
  <2>1. checked' = {} /\ selected' = {} /\ open' = {} /\ starred' = starred
    BY <1>1 DEF CheckAll
  <2>2. tools' = FALSE
    BY <1>1, <2>1 DEF CheckAll, ClickTools
  <2>. QED
    BY <2>1, <2>2
<1>2. CASE h \notin checked
  <2>1. /\ checked' = Rows \union Headers /\ selected' = Rows
        /\ open' = {} /\ starred' = starred
    BY <1>2 DEF CheckAll
  <2>2. tools' = TRUE
    BY <1>2, <2>1 DEF CheckAll, ClickTools
  <2>. QED
    BY <2>1, <2>2
<1>. QED
  BY <1>1, <1>2

(* A click on the box of a row: the tools go with the last row. *)
LEMMA InboxCheck ==
    ASSUME InboxInv, NEW r \in Rows, Check(r)
    PROVE  InboxInv'
<1> USE MailInboxAssumption DEF InboxInv, TypeOK, MarkedIsChecked, ToolsIffSelected, OpenHasLabel
<1>1. open' = {} /\ starred' = starred
  BY DEF Check
<1>2. CASE r \in checked
  <2>1. checked' = checked \ {r} /\ selected' = selected \ {r}
    BY <1>2 DEF Check
  <2>2. r \in selected /\ tools = TRUE
    BY <1>2
  <2>3. tools' = (checked' \intersect Rows # {})
    BY <2>1, <2>2 DEF Check, ClickTools
  <2>. QED
    BY <1>1, <2>1, <2>3
<1>3. CASE r \notin checked
  <2>1. checked' = checked \union {r} /\ selected' = selected \union {r}
    BY <1>3 DEF Check
  <2>2. tools' = TRUE
    BY <2>1 DEF Check, ClickTools
  <2>. QED
    BY <1>1, <2>1, <2>2
<1>. QED
  BY <1>2, <1>3

LEMMA InboxNext == InboxInv /\ [Next]_vars => InboxInv'
<1> SUFFICES ASSUME InboxInv, [Next]_vars
             PROVE  InboxInv'
  OBVIOUS
<1>1. ASSUME NEW h \in Headers, CheckAll(h)
      PROVE  InboxInv'
  BY <1>1, InboxCheckAll
<1>2. ASSUME NEW r \in Rows, Check(r)
      PROVE  InboxInv'
  BY <1>2, InboxCheck
<1> USE MailInboxAssumption DEF InboxInv, TypeOK, MarkedIsChecked, ToolsIffSelected, OpenHasLabel
<1>3. ASSUME NEW r \in Rows, Star(r)
      PROVE  InboxInv'
  BY <1>3 DEF Star
<1>4. ASSUME NEW d \in Dropdowns, ClickLabel(d)
      PROVE  InboxInv'
  BY <1>4 DEF ClickLabel
<1>5. CASE Elsewhere
  BY <1>5 DEF Elsewhere
<1>6. CASE UNCHANGED vars
  BY <1>6 DEF vars
<1>. QED
  BY <1>1, <1>2, <1>3, <1>4, <1>5, <1>6 DEF Next

LEMMA InboxInductive == Spec => []InboxInv
BY InboxInit, InboxNext, PTL DEF Spec

(* Every variable of the inbox keeps its type. *)
THEOREM InboxTypes == Spec => []TypeOK
<1>1. InboxInv => TypeOK
  BY DEF InboxInv
<1>. QED
  BY InboxInductive, <1>1, PTL

(* The tools are shown exactly while a message is selected, however many    *)
(* messages and header boxes there are and whichever of them were clicked.  *)
THEOREM ToolsFollowSelection == Spec => []ToolsIffSelected
<1>1. InboxInv => ToolsIffSelected
  BY DEF InboxInv
<1>. QED
  BY InboxInductive, <1>1, PTL

-----------------------------------------------------------------------------
(* The pagination bar *)

\* The current page is one page of the bar.
BarInv == Bar!TypeOK /\ Bar!DisabledAtTheEnds /\ \E p \in 1..pages : current = {p}

LEMMA BarInit == Bar!Init => BarInv
<1> SUFFICES ASSUME Bar!Init
             PROVE  BarInv
  OBVIOUS
<1>1. pages \in Nat \ {0} /\ current = {1}
  BY BarAssumption DEF Bar!Init, Bar!PaginationAssumption
<1>. QED
  BY <1>1 DEF Bar!Init, BarInv, Bar!TypeOK, Bar!DisabledAtTheEnds, Bar!Buttons, Bar!Forward,
       Bar!Backward

(* In a bar of several pages the first is not the last. *)
LEMMA BarNext == BarInv /\ [Bar!Next]_bars => BarInv'
<1> SUFFICES ASSUME BarInv, [Bar!Next]_bars
             PROVE  BarInv'
  OBVIOUS
<1> USE DEF BarInv, Bar!TypeOK, Bar!DisabledAtTheEnds, Bar!Buttons, Bar!Forward, Bar!Backward
<1>1. pages \in Nat /\ pages > 1
  BY BarAssumption, SeveralPages DEF Bar!PaginationAssumption
<1>2. PICK p \in 1..pages : current = {p}
  OBVIOUS
<1>3. ASSUME NEW q \in 1..pages, Bar!Page(q)
      PROVE  BarInv'
  BY <1>1, <1>3 DEF Bar!Page
<1>4. CASE Bar!NextPage
  <2>1. CASE p = pages
    <3>1. current' = current /\ pages' = pages
      BY <1>2, <1>4, <2>1 DEF Bar!NextPage
    <3>. QED
      BY <1>1, <1>2, <1>4, <2>1, <3>1 DEF Bar!NextPage
  <2>2. CASE p # pages
    <3>1. current' = {p + 1} /\ pages' = pages
      BY <1>1, <1>2, <1>4, <2>2 DEF Bar!NextPage
    <3>2. p + 1 \in 1..pages /\ p + 1 # 1
      BY <1>1, <2>2
    <3>. QED
      BY <1>1, <1>2, <1>4, <2>2, <3>1, <3>2 DEF Bar!NextPage
  <2>. QED
    BY <2>1, <2>2
<1>5. CASE Bar!PreviousPage
  <2>1. CASE p = 1
    <3>1. current' = current /\ pages' = pages
      BY <1>2, <1>5, <2>1 DEF Bar!PreviousPage
    <3>. QED
      BY <1>1, <1>2, <1>5, <2>1, <3>1 DEF Bar!PreviousPage
  <2>2. CASE p # 1
    <3>1. current' = {p - 1} /\ pages' = pages
      BY <1>1, <1>2, <1>5, <2>2 DEF Bar!PreviousPage
    <3>2. p - 1 \in 1..pages /\ p - 1 # pages
      BY <1>1, <2>2
    <3>. QED
      BY <1>1, <1>2, <1>5, <2>2, <3>1, <3>2 DEF Bar!PreviousPage
  <2>. QED
    BY <2>1, <2>2
<1>6. CASE Bar!LastPage
  BY <1>1, <1>2, <1>6 DEF Bar!LastPage
<1>7. CASE Bar!FirstPage
  BY <1>1, <1>2, <1>7 DEF Bar!FirstPage
<1>8. CASE UNCHANGED bars
  BY <1>8 DEF bars
<1>. QED
  BY <1>3, <1>4, <1>5, <1>6, <1>7, <1>8 DEF Bar!Next

LEMMA BarInvImplies == BarInv => Bar!TypeOK /\ PaginationKnowsEnds
<1>1. \A S : Bar!Cardinality(S) = Cardinality(S)
  BY DEF Bar!Cardinality, Cardinality
<1>. QED
  BY <1>1, FS_Singleton DEF BarInv, PaginationKnowsEnds, Bar!OneCurrent

-----------------------------------------------------------------------------
(* The tooltip of a chart *)

\* The position remembered is that of the point the pointer is near.
ChartInv ==
    /\ Chart!TypeOK /\ TipFollowsPointer
    /\ previousPoint = IF near = None THEN None ELSE near[2]

LEMMA ChartInit == Chart!Init => ChartInv
BY DEF Chart!Init, ChartInv, Chart!TypeOK, TipFollowsPointer, Chart!TipFollowsPointer

LEMMA ChartNext == ChartInv /\ [Chart!Next]_chart => ChartInv'
<1> SUFFICES ASSUME ChartInv, [Chart!Next]_chart
             PROVE  ChartInv'
  OBVIOUS
<1> USE DEF ChartInv, Chart!TypeOK, Chart!Points, TipFollowsPointer, Chart!TipFollowsPointer
<1>1. None \notin Series \X Indices /\ None \notin Indices
  BY ChartAssumption DEF Chart!ChartTipAssumption
<1>2. ASSUME NEW point \in Chart!Points, Chart!Hover(point)
      PROVE  ChartInv'
  <2>1. point[1] \in Series /\ point[2] \in Indices /\ point = <<point[1], point[2]>>
    OBVIOUS
  <2>2. near' = point /\ near' # None /\ clicked' = clicked
    BY <1>1, <1>2 DEF Chart!Hover
  <2>3. CASE point[2] = previousPoint
    <3>1. near # None /\ near[2] = point[2]
      BY <1>1, <2>1, <2>3
    <3>. QED
      BY <1>2, <2>1, <2>2, <2>3, <3>1 DEF Chart!Hover
  <2>4. CASE point[2] # previousPoint
    BY <1>2, <2>1, <2>2, <2>4 DEF Chart!Hover
  <2>. QED
    BY <2>3, <2>4
<1>3. CASE Chart!Leave
  BY <1>3 DEF Chart!Leave
<1>4. CASE Chart!ClickPoint
  BY <1>4 DEF Chart!ClickPoint
<1>5. CASE UNCHANGED chart
  BY <1>5 DEF chart
<1>. QED
  BY <1>2, <1>3, <1>4, <1>5 DEF Chart!Next

-----------------------------------------------------------------------------
(* The layout *)

LayoutInv == Layout!TypeOK /\ AsIfJustLoaded

\* The arrangements there are: no column, two and three.
LEMMA Arrangements ==
    /\ ~Layout!Has(Layout!NoClass, "one_half") /\ ~Layout!Has(Layout!NoClass, "one_third")
    /\ ~Layout!Has(Layout!Columns(2, "one_half"), "one_third")
    /\ ~Layout!Has(Layout!Columns(3, "one_third"), "one_half")
    /\ Layout!Has(Layout!Columns(2, "one_half"), "one_half") \/ Products = 0
    /\ Layout!Has(Layout!Columns(3, "one_third"), "one_third") \/ Products = 0
    /\ Products = 0 => /\ Layout!Columns(2, "one_half") = Layout!NoClass
                       /\ Layout!Columns(3, "one_third") = Layout!NoClass
<1>1. Products \in Nat
  BY LayoutAssumption DEF Layout!ResponsiveAssumption
<1>2. ASSUME Products # 0
      PROVE  1 \in 1..Products
  BY <1>1, <1>2
<1>. QED
  BY <1>1, <1>2 DEF Layout!Has, Layout!NoClass, Layout!Columns

LEMMA ArrangementTypes ==
    /\ Layout!NoClass \in Layout!Classes
    /\ Layout!Columns(2, "one_half") \in Layout!Classes
    /\ Layout!Columns(3, "one_third") \in Layout!Classes
BY DEF Layout!NoClass, Layout!Columns, Layout!Classes

\* Each handler, run on the page another width has left.
LEMMA ProductListAgain ==
    ASSUME NEW v \in Nat, NEW w \in Nat
    PROVE  Layout!ProductList(w, Layout!ProductList(v, Layout!NoClass))
             = Layout!ProductList(w, Layout!NoClass)
BY Arrangements DEF Layout!ProductList

LEMMA ShortcutsAgain ==
    ASSUME NEW v \in Nat, NEW w \in Nat
    PROVE  Layout!Shortcuts(w, Layout!Shortcuts(v, Layout!NoClass))
             = Layout!Shortcuts(w, Layout!NoClass)
BY Arrangements DEF Layout!Shortcuts

LEMMA LayoutTypes ==
    ASSUME NEW w \in Nat
    PROVE  /\ Layout!ProductList(w, Layout!NoClass) \in Layout!Classes
           /\ Layout!Shortcuts(w, Layout!NoClass) \in Layout!Classes
BY Arrangements, ArrangementTypes DEF Layout!ProductList, Layout!Shortcuts

LEMMA LayoutInit == Layout!Init => LayoutInv
<1> SUFFICES ASSUME Layout!Init
             PROVE  LayoutInv
  OBVIOUS
<1>1. width \in Nat
  BY LayoutAssumption DEF Layout!Init, Layout!ResponsiveAssumption
<1>. QED
  BY <1>1, LayoutTypes DEF Layout!Init, LayoutInv, Layout!TypeOK, AsIfJustLoaded,
       Layout!AsIfJustLoaded, Layout!Search, Layout!TitlesFor

LEMMA LayoutNext == LayoutInv /\ [Layout!Next]_layout => LayoutInv'
<1> SUFFICES ASSUME LayoutInv, [Layout!Next]_layout
             PROVE  LayoutInv'
  OBVIOUS
<1> USE DEF LayoutInv, Layout!TypeOK, AsIfJustLoaded, Layout!AsIfJustLoaded
<1>1. ASSUME NEW w \in Widths, Layout!Resize(w)
      PROVE  LayoutInv'
  <2>1. width \in Nat /\ w \in Nat /\ width' = w /\ month' = month
    BY <1>1, LayoutAssumption DEF Layout!ResponsiveAssumption, Layout!Resize
  <2>2. /\ products' = Layout!ProductList(w, Layout!NoClass) /\ products' \in Layout!Classes
        /\ shortcuts' = Layout!Shortcuts(w, Layout!NoClass) /\ shortcuts' \in Layout!Classes
    BY <1>1, <2>1, ProductListAgain, ShortcutsAgain, LayoutTypes DEF Layout!Resize
  <2>3. <<wrappers', icons'>> = Layout!Search(w, 0, 0)
        /\ wrappers' \in 0..1 /\ icons' \in {0, 2}
    BY <1>1, <2>1 DEF Layout!Resize, Layout!Search
  <2>4. titles' \in Seq(Months) /\ Len(titles') = Len(Layout!TitlesFor(w, <<>>, month))
    <3>1. titles \in Seq(Months) /\ month \in Months /\ titles' = Layout!TitlesFor(w, titles, month)
      BY <1>1 DEF Layout!Resize
    <3>2. \A t : Len(<<t>>) = 1
      OBVIOUS
    <3>3. titles = <<>> \/ Len(titles) = 1
      BY <3>1 DEF Layout!TitlesFor
    <3>4. CASE w >= 450
      <4>1. titles' = <<>> /\ Layout!TitlesFor(w, <<>>, month) = <<>>
        BY <2>1, <3>1, <3>4 DEF Layout!TitlesFor
      <4>. QED
        BY <4>1
    <3>5. CASE w < 450 /\ titles = <<>>
      <4>1. titles' = <<month>> /\ Layout!TitlesFor(w, <<>>, month) = <<month>>
        BY <3>1, <3>5 DEF Layout!TitlesFor
      <4>. QED
        BY <3>1, <4>1
    <3>6. CASE w < 450 /\ titles # <<>>
      <4>1. titles' = titles /\ Layout!TitlesFor(w, <<>>, month) = <<month>>
        BY <3>1, <3>6 DEF Layout!TitlesFor
      <4>. QED
        BY <3>1, <3>2, <3>3, <3>6, <4>1
    <3>. QED
      BY <2>1, <3>4, <3>5, <3>6
  <2>. QED
    BY <1>1, <2>1, <2>2, <2>3, <2>4
<1>2. ASSUME NEW m \in Months, Layout!Turn(m)
      PROVE  LayoutInv'
  BY <1>2 DEF Layout!Turn, Layout!TitlesFor
<1>3. CASE UNCHANGED layout
  BY <1>3 DEF layout
<1>. QED
  BY <1>1, <1>2, <1>3 DEF Layout!Next

-----------------------------------------------------------------------------
(* The header *)

\* What a step does to the header, on whichever page: the clicks on .userinfo
\* and on the bell of a user who waits for the server, or of one who does not.
HeaderClick ==
    /\ page # "header" => pending = 0
    /\ \/ Eager!UserInfo
       \/ /\ ~Eager!Seen
          /\ posts' = posts + 1 /\ pending' = pending + 1
          /\ drop' = FALSE /\ active' = FALSE
          /\ UNCHANGED boxes
       \/ /\ page # "headerOutside" /\ Eager!Seen
          /\ boxes' = [i \in DOMAIN boxes |-> [boxes[i] EXCEPT !.seen = FALSE]]
          /\ UNCHANGED <<drop, active, posts, pending>>

HeaderStep ==
    \/ HeaderClick \/ Eager!Reply
    \/ \E target \in Eager!Targets : Eager!Document(target)
    \/ \E i \in DOMAIN boxes, t \in Eager!Tabs : Eager!Tab(i, t)

LEMMA EagerStep == page = "header" /\ Eager!Next => HeaderStep
BY DEF Eager!Next, Eager!UserInfo, Eager!Bell, HeaderStep, HeaderClick

LEMMA WaitingStep == page = "headerWaiting" /\ Waiting!Next => HeaderStep
<1> SUFFICES ASSUME page = "headerWaiting", Waiting!Next
             PROVE  HeaderStep
  OBVIOUS
<1>1. CASE Waiting!UserInfo \/ Waiting!Bell
  BY <1>1 DEF Waiting!UserInfo, Waiting!Bell, Waiting!Seen, Eager!UserInfo, Eager!Seen,
       HeaderStep, HeaderClick
<1>2. CASE Waiting!Reply
  BY <1>2 DEF Waiting!Reply, Waiting!NewBox, Eager!Reply, Eager!NewBox, HeaderStep
<1>3. ASSUME NEW target \in Waiting!Targets, Waiting!Document(target)
      PROVE  HeaderStep
  BY <1>3 DEF Waiting!Document, Waiting!Seen, Waiting!Targets, Eager!Document, Eager!Seen,
       Eager!Targets, HeaderStep
<1>4. ASSUME NEW i \in DOMAIN boxes, NEW t \in Waiting!Tabs, Waiting!Tab(i, t)
      PROVE  HeaderStep
  BY <1>4 DEF Waiting!Tab, Waiting!Tabs, Eager!Tab, Eager!Tabs, HeaderStep
<1>. QED
  BY <1>1, <1>2, <1>3, <1>4 DEF Waiting!Next

LEMMA OutsideStep == page = "headerOutside" /\ Outside!Next => HeaderStep
<1> SUFFICES ASSUME page = "headerOutside", Outside!Next
             PROVE  HeaderStep
  OBVIOUS
<1>1. CASE Outside!UserInfo \/ Outside!Bell
  BY <1>1 DEF Outside!UserInfo, Outside!Bell, Outside!Seen, Eager!UserInfo, Eager!Seen,
       HeaderStep, HeaderClick
<1>2. CASE Outside!Reply
  BY <1>2 DEF Outside!Reply, Outside!NewBox, Eager!Reply, Eager!NewBox, HeaderStep
<1>3. ASSUME NEW target \in Outside!Targets, Outside!Document(target)
      PROVE  HeaderStep
  BY <1>3 DEF Outside!Document, Outside!Seen, Outside!Targets, Eager!Document, Eager!Seen,
       Eager!Targets, HeaderStep
<1>4. ASSUME NEW i \in DOMAIN boxes, NEW t \in Outside!Tabs, Outside!Tab(i, t)
      PROVE  HeaderStep
  BY <1>4 DEF Outside!Tab, Outside!Tabs, Eager!Tab, Eager!Tabs, HeaderStep
<1>. QED
  BY <1>1, <1>2, <1>3, <1>4 DEF Outside!Next

\* For a user who waits: while a box can be seen or was asked for there is no
\* other and no drop down.
TakesTurns ==
    /\ \A i, j \in DOMAIN boxes : boxes[i].seen /\ boxes[j].seen => i = j
    /\ Eager!Seen => pending = 0 /\ ~drop
    /\ pending # 0 => pending = 1 /\ ~drop

\* For one who shuts the box from outside no box is in the page unseen.
ListsOfTabs ==
    \A i \in DOMAIN boxes : boxes[i].seen /\ boxes[i].list = {boxes[i].tab}

HeaderTypes ==
    /\ drop \in BOOLEAN /\ active = drop
    /\ boxes \in Seq(Eager!Box) /\ posts \in Nat
    /\ pending \in Nat /\ Len(boxes) + pending <= posts

HeaderInv ==
    /\ HeaderTypes
    /\ page # "header" => TakesTurns
    /\ page = "headerOutside" => ListsOfTabs

LEMMA HeaderInit == Eager!Init => HeaderInv
<1> SUFFICES ASSUME Eager!Init
             PROVE  HeaderInv
  OBVIOUS
<1>1. boxes \in Seq(Eager!Box) /\ Len(boxes) = 0 /\ DOMAIN boxes = {}
  BY EmptySequence DEF Eager!Init
<1>2. TakesTurns /\ ListsOfTabs
  BY <1>1 DEF Eager!Init, TakesTurns, ListsOfTabs, Eager!Seen
<1>3. drop \in BOOLEAN /\ active = drop
  BY DEF Eager!Init
<1>4. HeaderTypes
  BY <1>1, <1>3 DEF Eager!Init, HeaderTypes
<1>. QED
  BY <1>2, <1>4 DEF HeaderInv

LEMMA HeaderTypesNext == HeaderTypes /\ HeaderStep => HeaderTypes'
<1> SUFFICES ASSUME HeaderTypes, HeaderStep
             PROVE  HeaderTypes'
  OBVIOUS
<1> USE DEF HeaderTypes
<1>0. Len(boxes) \in Nat
  OBVIOUS
<1>1. CASE HeaderClick
  <2>1. CASE Eager!UserInfo
    BY <1>0, <2>1, EmptySequence DEF Eager!UserInfo
  <2>2. CASE /\ posts' = posts + 1 /\ pending' = pending + 1
             /\ drop' = FALSE /\ active' = FALSE
             /\ UNCHANGED boxes
    <3>1. drop' \in BOOLEAN /\ active' = drop'
      BY <2>2
    <3>. QED
      BY <1>0, <2>2, <3>1
  <2>3. CASE /\ boxes' = [i \in DOMAIN boxes |-> [boxes[i] EXCEPT !.seen = FALSE]]
             /\ UNCHANGED <<drop, active, posts, pending>>
    <3>1. \A b \in Eager!Box : [b EXCEPT !.seen = FALSE] \in Eager!Box
      BY DEF Eager!Box
    <3>2. boxes' \in Seq(Eager!Box) /\ Len(boxes') = Len(boxes)
      <4>1. \A i \in DOMAIN boxes : boxes[i] \in Eager!Box
        OBVIOUS
      <4>2. boxes' = [i \in DOMAIN boxes |-> boxes'[i]]
        BY <2>3
      <4>3. \A i \in DOMAIN boxes : boxes'[i] \in Eager!Box
        BY <2>3, <3>1, <4>1
      <4>. QED
        BY <4>2, <4>3, ChangedSequence
    <3>. QED
      BY <1>0, <2>3, <3>2
  <2>. QED
    BY <1>1, <2>1, <2>2, <2>3 DEF HeaderClick
<1>2. CASE Eager!Reply
  <2>1. Eager!NewBox \in Eager!Box
    BY DEF Eager!NewBox, Eager!Box, Eager!Tabs
  <2>. QED
    BY <1>0, <1>2, <2>1 DEF Eager!Reply
<1>3. ASSUME NEW target \in Eager!Targets, Eager!Document(target)
      PROVE  HeaderTypes'
  <2>1. boxes' = <<>> \/ boxes' = boxes
    BY <1>3 DEF Eager!Document
  <2>. QED
    BY <1>0, <1>3, <2>1 DEF Eager!Document
<1>4. ASSUME NEW i \in DOMAIN boxes, NEW t \in Eager!Tabs, Eager!Tab(i, t)
      PROVE  HeaderTypes'
  <2>1. \A b \in Eager!Box : b.list \in SUBSET Eager!Tabs
    BY DEF Eager!Box
  <2>2. \A j \in DOMAIN boxes : boxes[j] \in Eager!Box
    OBVIOUS
  <2>3. boxes' = [j \in DOMAIN boxes |-> boxes'[j]]
    BY <1>4 DEF Eager!Tab
  <2>4. \A j \in DOMAIN boxes : boxes'[j] \in Eager!Box
    <3> SUFFICES ASSUME NEW j \in DOMAIN boxes
                 PROVE  boxes'[j] \in Eager!Box
      OBVIOUS
    <3> DEFINE u == IF j = i THEN t ELSE "none"
               l == IF j = 1 THEN {t} ELSE boxes[j].list
    <3>1. boxes[j] \in Eager!Box
      BY <2>2
    <3>2. boxes[j].seen \in BOOLEAN
      BY <3>1 DEF Eager!Box
    <3>3. boxes'[j] = [seen |-> boxes[j].seen, tab |-> u, list |-> l]
      BY <1>4, <3>1 DEF Eager!Tab, Eager!Box
    <3>4. u \in Eager!Tabs \union {"none"} /\ l \in SUBSET Eager!Tabs
      BY <2>1, <2>2
    <3> HIDE DEF u, l
    <3>. QED
      BY <3>2, <3>3, <3>4 DEF Eager!Box
  <2>5. boxes' \in Seq(Eager!Box) /\ Len(boxes') = Len(boxes)
    BY <2>3, <2>4, ChangedSequence
  <2>. QED
    BY <1>0, <1>4, <2>5 DEF Eager!Tab
<1>. QED
  BY <1>1, <1>2, <1>3, <1>4 DEF HeaderStep

LEMMA TakesTurnsNext ==
    page # "header" /\ HeaderTypes /\ TakesTurns /\ HeaderStep => TakesTurns'
<1> SUFFICES ASSUME page # "header", HeaderTypes, TakesTurns, HeaderStep
             PROVE  TakesTurns'
  OBVIOUS
<1> USE DEF TakesTurns, HeaderTypes, Eager!Seen
<1>1. CASE HeaderClick
  <2>1. CASE Eager!UserInfo
    BY <1>1, <2>1, EmptySequence DEF Eager!UserInfo, HeaderClick
  <2>2. CASE UNCHANGED boxes
    BY <1>1, <2>1, <2>2 DEF HeaderClick
  <2>3. CASE /\ boxes' = [i \in DOMAIN boxes |-> [boxes[i] EXCEPT !.seen = FALSE]]
             /\ UNCHANGED <<drop, active, posts, pending>>
    <3>1. \A i \in DOMAIN boxes' : ~boxes'[i].seen
      <4>1. \A i \in DOMAIN boxes : boxes[i] \in Eager!Box
        OBVIOUS
      <4>2. \A b \in Eager!Box : ~[b EXCEPT !.seen = FALSE].seen
        BY DEF Eager!Box
      <4>. QED
        BY <2>3, <4>1, <4>2
    <3>. QED
      BY <2>3, <3>1
  <2>. QED
    BY <1>1, <2>1, <2>2, <2>3 DEF HeaderClick
<1>2. CASE Eager!Reply
  <2>1. ~Eager!Seen /\ pending' = 0 /\ ~drop'
    BY <1>2 DEF Eager!Reply
  <2>2. \A i \in DOMAIN boxes' : boxes'[i].seen => i = Len(boxes) + 1
    BY <1>2, <2>1 DEF Eager!Reply
  <2>. QED
    BY <2>1, <2>2
<1>3. ASSUME NEW target \in Eager!Targets, Eager!Document(target)
      PROVE  TakesTurns'
  <2>1. boxes' = <<>> \/ boxes' = boxes
    BY <1>3 DEF Eager!Document
  <2>. QED
    BY <1>3, <2>1 DEF Eager!Document
<1>4. ASSUME NEW i \in DOMAIN boxes, NEW t \in Eager!Tabs, Eager!Tab(i, t)
      PROVE  TakesTurns'
  <2>1. DOMAIN boxes' = DOMAIN boxes
    BY <1>4 DEF Eager!Tab
  <2>2. \A j \in DOMAIN boxes : boxes'[j].seen = boxes[j].seen
    <3> SUFFICES ASSUME NEW j \in DOMAIN boxes
                 PROVE  boxes'[j].seen = boxes[j].seen
      OBVIOUS
    <3>1. boxes[j] \in Eager!Box
      OBVIOUS
    <3>. QED
      BY <1>4, <3>1 DEF Eager!Tab, Eager!Box
  <2>. QED
    BY <1>4, <2>1, <2>2 DEF Eager!Tab
<1>. QED
  BY <1>1, <1>2, <1>3, <1>4 DEF HeaderStep

LEMMA ListsOfTabsNext ==
    ASSUME page = "headerOutside", HeaderTypes, TakesTurns, ListsOfTabs, HeaderStep
    PROVE  ListsOfTabs'
<1> USE DEF TakesTurns, HeaderTypes, ListsOfTabs, Eager!Seen
<1>1. CASE HeaderClick
  BY <1>1 DEF HeaderClick, Eager!UserInfo
<1>2. CASE Eager!Reply
  <2>1. boxes = <<>>
    BY <1>2 DEF Eager!Reply
  <2>2. boxes' = <<Eager!NewBox>>
    BY <1>2, <2>1 DEF Eager!Reply
  <2>. QED
    BY <2>2 DEF Eager!NewBox
<1>3. ASSUME NEW target \in Eager!Targets, Eager!Document(target)
      PROVE  ListsOfTabs'
  <2>1. boxes' = <<>> \/ boxes' = boxes
    BY <1>3 DEF Eager!Document
  <2>. QED
    BY <1>3, <2>1 DEF Eager!Document
<1>4. ASSUME NEW i \in DOMAIN boxes, NEW t \in Eager!Tabs, Eager!Tab(i, t)
      PROVE  ListsOfTabs'
  <2>1. i = 1 /\ \A j \in DOMAIN boxes : j = 1
    OBVIOUS
  <2>2. boxes[1] \in Eager!Box /\ boxes[1].seen
    BY <2>1
  <2>3. boxes'[1] = [boxes[1] EXCEPT !.tab = t, !.list = {t}]
    BY <1>4, <2>1 DEF Eager!Tab
  <2>4. boxes'[1].seen /\ boxes'[1].tab = t /\ boxes'[1].list = {t}
    BY <2>2, <2>3 DEF Eager!Box
  <2>5. DOMAIN boxes' = DOMAIN boxes
    BY <1>4 DEF Eager!Tab
  <2>. QED
    BY <2>1, <2>4, <2>5
<1>. QED
  BY <1>1, <1>2, <1>3, <1>4 DEF HeaderStep

LEMMA HeaderNext ==
    ASSUME HeaderInv, UNCHANGED page, HeaderStep \/ UNCHANGED header
    PROVE  HeaderInv'
<1>1. CASE HeaderStep
  BY <1>1, HeaderTypesNext, TakesTurnsNext, ListsOfTabsNext DEF HeaderInv
<1>2. CASE UNCHANGED header
  BY <1>2 DEF HeaderInv, HeaderTypes, TakesTurns, ListsOfTabs, Eager!Seen, header
<1>. QED
  BY <1>1, <1>2

LEMMA HeaderInvImplies == HeaderInv => Outside!TypeOK /\ HeaderTakesTurns
<1> SUFFICES ASSUME HeaderInv
             PROVE  Outside!TypeOK /\ HeaderTakesTurns
  OBVIOUS
<1>1. Outside!TypeOK
  BY DEF HeaderInv, HeaderTypes, Outside!TypeOK, Outside!Box, Outside!Tabs, Eager!Box, Eager!Tabs
<1>2. page # "header" => Waiting!OneBoxAtATime
  <2> SUFFICES ASSUME page # "header"
               PROVE  Waiting!OneBoxAtATime
    OBVIOUS
  <2> DEFINE S == {i \in DOMAIN boxes : boxes[i].seen}
  <2>1. Waiting!SeenCount = Cardinality(S)
    BY DEF Waiting!SeenCount, Waiting!Cardinality, Cardinality
  <2>2. Cardinality(S) \in Nat /\ Cardinality(S) <= 1
    <3>1. \A x, y \in S : x = y
      BY DEF HeaderInv, TakesTurns
    <3>. QED
      BY <3>1, AtMostOne
  <2>3. drop => S = {}
    BY DEF HeaderInv, TakesTurns, Eager!Seen
  <2>4. drop => Cardinality(S) = 0
    BY <2>3, FS_EmptySet
  <2>. QED
    BY <2>1, <2>2, <2>4 DEF Waiting!OneBoxAtATime
<1>. QED
  BY <1>1, <1>2 DEF HeaderInv, HeaderTypes, ListsOfTabs, HeaderTakesTurns, Eager!DropIsMarked,
       Outside!TabShowsItsList

-----------------------------------------------------------------------------
(* The side menu *)

\* Of the sub menus that are open or open up there is one at most; one that came
\* up under the mouse, in a collapsed menu, does not count.
OneOpens ==
    Menu!Icons =>
        \A e, f \in Entries :
            /\ display[e] \in {"shown", "down"} /\ display[f] \in {"shown", "down"}
            /\ coll => e # mouse /\ f # mouse
            => e = f

MenuInv ==
    /\ kind \in Menu!Kinds
    /\ toggled \in BOOLEAN /\ body \in BOOLEAN /\ margin \in BOOLEAN
    /\ display \in [Entries -> {"shown", "hidden", "up", "down"}]
    /\ mouse \in Entries \union {None}
    /\ Menu!SubMenusAreWhole /\ Menu!ButtonKnowsMenu
    /\ OneOpens

(* The label goes as it came: the li of a sub menu are its own again. *)
LEMMA LabelComesAndGoes ==
    /\ Menu!Unlabelled(Menu!Labelled(Sub)) = Sub
    /\ \A e \in Entries : /\ Sub[e] \in Seq({Sub[e][i] : i \in DOMAIN Sub[e]})
                          /\ Len(Sub[e]) \in Nat
                          /\ Len(Menu!Labelled(Sub)[e]) = Len(Sub[e]) + 1
<1>1. \A S, l : \A s \in Seq(S) : Tail(<<l>> \o s) = s /\ Len(<<l>> \o s) = Len(s) + 1
  <2> TAKE S, l
  <2> TAKE s \in Seq(S)
  <2>1. <<l>> \in Seq(S \union {l}) /\ s \in Seq(S \union {l}) /\ Len(<<l>>) = 1
    OBVIOUS
  <2>2. /\ <<l>> \o s \in Seq(S \union {l}) /\ Len(<<l>> \o s) = 1 + Len(s)
        /\ \A i \in 1..1 + Len(s) :
             (<<l>> \o s)[i] = IF i <= 1 THEN <<l>>[i] ELSE s[i - 1]
    BY <2>1, ConcatProperties
  <2>3. Tail(<<l>> \o s) \in Seq(S \union {l}) /\ Len(Tail(<<l>> \o s)) = Len(s)
    BY <2>2
  <2>4. \A i \in 1..Len(s) : Tail(<<l>> \o s)[i] = s[i]
    BY <2>1, <2>2
  <2>. QED
    BY <2>1, <2>2, <2>3, <2>4, SeqEqual
<1>2. \A e \in Entries : Sub[e] \in Seq({Sub[e][i] : i \in DOMAIN Sub[e]})
  BY MenusAssumption DEF Menu!MenuAssumption
<1>3. Sub = [e \in Entries |-> Sub[e]]
  BY MenusAssumption DEF Menu!MenuAssumption
<1>4. \A e \in Entries : Menu!Labelled(Sub)[e] = <<Label>> \o Sub[e]
  BY DEF Menu!Labelled
<1>5. ASSUME NEW e \in Entries
      PROVE  /\ Tail(<<Label>> \o Sub[e]) = Sub[e]
             /\ Len(<<Label>> \o Sub[e]) = Len(Sub[e]) + 1 /\ Len(Sub[e]) \in Nat
  <2> DEFINE s == Sub[e]
             S == {s[i] : i \in DOMAIN s}
  <2>1. s \in Seq(S)
    BY <1>2
  <2>2. Len(s) \in Nat
    BY <2>1
  <2> HIDE DEF s, S
  <2>3. Tail(<<Label>> \o s) = s /\ Len(<<Label>> \o s) = Len(s) + 1
    BY <1>1, <2>1
  <2>. QED
    BY <2>2, <2>3 DEF s
<1>6. Menu!Unlabelled(Menu!Labelled(Sub)) = [e \in Entries |-> Tail(Menu!Labelled(Sub)[e])]
  BY DEF Menu!Unlabelled
<1>7. Menu!Unlabelled(Menu!Labelled(Sub)) = [e \in Entries |-> Sub[e]]
  BY <1>4, <1>5, <1>6
<1>. QED
  BY <1>2, <1>3, <1>4, <1>5, <1>7

LEMMA MenuInit == Menu!Init => MenuInv
BY DEF Menu!Init, MenuInv, OneOpens, Menu!SubMenusAreWhole, Menu!ButtonKnowsMenu, Menu!Icons,
     Menu!Kinds

LEMMA MenuNext == MenuInv /\ [Menu!Next]_menu => MenuInv'
<1> SUFFICES ASSUME MenuInv, [Menu!Next]_menu
             PROVE  MenuInv'
  OBVIOUS
<1>0. None \notin Entries
  BY MenusAssumption DEF Menu!MenuAssumption
<1> USE DEF MenuInv, OneOpens, Menu!SubMenusAreWhole, Menu!ButtonKnowsMenu, Menu!Icons
<1>1. CASE Menu!Expand
  <2>1. CASE kind = "vernav"
    <3>1. items' = items /\ kind' = kind
      BY <1>1, <2>1 DEF Menu!Expand
    <3>2. display' \in [Entries -> {"shown", "hidden", "up", "down"}]
      BY <1>1, <2>1 DEF Menu!Expand, Menu!Show
    <3>. QED
      BY <1>1, <2>1, <3>1, <3>2 DEF Menu!Expand
  <2>2. CASE kind # "vernav"
    <3>1. items = Menu!Labelled(Sub) /\ items' = Sub
      BY <1>1, <2>2, LabelComesAndGoes DEF Menu!Expand
    <3>. QED
      BY <1>0, <1>1, <2>2, <3>1 DEF Menu!Expand
  <2>. QED
    BY <2>1, <2>2
<1>2. CASE Menu!Collapse
  <2>1. CASE kind = "vernav"
    BY <1>2, <2>1 DEF Menu!Collapse
  <2>2. CASE kind # "vernav"
    BY <1>0, <1>2, <2>2 DEF Menu!Collapse
  <2>. QED
    BY <2>1, <2>2
<1>3. CASE Menu!Leave
  BY <1>0, <1>3 DEF Menu!Leave
<1>4. CASE Menu!Widen
  BY <1>4 DEF Menu!Widen, Menu!slides
<1>5. ASSUME NEW e \in Entries, Menu!Click(e)
      PROVE  MenuInv'
  <2>1. CASE display[e] # "hidden"
    BY <1>5, <2>1 DEF Menu!Click
  <2>2. CASE display[e] = "hidden"
    <3>1. display' \in [Entries -> {"shown", "hidden", "up", "down"}]
      BY <1>5, <2>2 DEF Menu!Click
    <3>2. \A f \in Entries : display'[f] \in {"shown", "down"} => f = e
      BY <1>5, <2>2 DEF Menu!Click
    <3>. QED
      BY <1>5, <3>1, <3>2 DEF Menu!Click
  <2>. QED
    BY <2>1, <2>2
<1>6. ASSUME NEW e \in Entries, Menu!Slid(e)
      PROVE  MenuInv'
  BY <1>6 DEF Menu!Slid
<1>7. ASSUME NEW e \in Entries, Menu!Enter(e)
      PROVE  MenuInv'
  BY <1>0, <1>7 DEF Menu!Enter, Menu!Show
<1>8. CASE UNCHANGED menu
  BY <1>8 DEF menu
<1>. QED
  BY <1>1, <1>2, <1>3, <1>4, <1>5, <1>6, <1>7, <1>8 DEF Menu!Next

LEMMA MenuInvImplies ==
    MenuInv => Menu!TypeOK /\ Menu!SubMenusAreWhole /\ Menu!ButtonKnowsMenu /\ Menu!OneOpen
<1> SUFFICES ASSUME MenuInv
             PROVE  Menu!TypeOK /\ Menu!OneOpen
  BY DEF MenuInv
<1>1. \A e \in Entries : Len(items[e]) \in Len(Sub[e]) .. Len(Sub[e]) + 1
  <2>1. items = Menu!Labelled(Sub) \/ items = Sub
    BY DEF MenuInv, Menu!SubMenusAreWhole
  <2> SUFFICES ASSUME NEW e \in Entries
               PROVE  Len(items[e]) \in Len(Sub[e]) .. Len(Sub[e]) + 1
    OBVIOUS
  <2>2. Len(items[e]) = Len(Sub[e]) + 1 \/ Len(items[e]) = Len(Sub[e])
    BY <2>1, LabelComesAndGoes
  <2>3. Len(Sub[e]) \in Nat
    BY LabelComesAndGoes
  <2>. QED
    BY <2>2, <2>3
<1>2. Menu!TypeOK
  BY <1>1 DEF MenuInv, Menu!TypeOK, Menu!ButtonKnowsMenu
<1>3. ASSUME Menu!Icons /\ ~coll
      PROVE  Cardinality({e \in Entries : display[e] \in {"shown", "down"}}) <= 1
  <2>1. \A e, f \in {e \in Entries : display[e] \in {"shown", "down"}} : e = f
    BY <1>3 DEF MenuInv, OneOpens
  <2>. QED
    BY <2>1, AtMostOne
<1>4. \A S : Menu!Cardinality(S) = Cardinality(S)
  BY DEF Menu!Cardinality, Cardinality
<1>. QED
  BY <1>2, <1>3, <1>4 DEF Menu!OneOpen

-----------------------------------------------------------------------------
(* The menu bar *)

LEMMA RemoveTheOnly ==
    ASSUME NEW S, NEW s \in Seq(S), NEW e, NEW k \in 1..Len(s), s[k] = e,
           \A i \in 1..Len(s) : s[i] = e => i = k
    PROVE  Nav!RemoveFirst(s, e) = Nav!RemoveAt(s, k)
<1>1. {i \in 1..Len(s) : s[i] = e} = {k}
  OBVIOUS
<1>2. Nav!Min({k}) = k
  BY DEF Nav!Min
<1>3. Nav!SelectInSeq(s, LAMBDA v : v = e) = k
  BY <1>1, <1>2 DEF Nav!SelectInSeq
<1>. QED
  BY <1>3 DEF Nav!RemoveFirst

ShortBar == Append(SubSeq(Items, 1, 2), More)
TheRest == SubSeq(Items, 3, Len(Items))

\* The two forms of the menu, and the way from one to the other and back.
LEMMA TwoForms ==
    /\ Items \in Seq(Nav!Item) /\ More \notin Nav!Item
    /\ ShortBar \in Seq(Nav!Item \union {More}) /\ TheRest \in Seq(Nav!Item)
    /\ Nav!Contains(ShortBar, More) /\ ~Nav!Contains(Items, More)
    /\ Nav!RemoveFirst(ShortBar, More) \o TheRest = Items
    /\ Nav!RemoveFirst(Items, More) \o <<>> = Items
    /\ Items[1] \in Nav!Item
<1> DEFINE n == Len(Items)
<1>1. /\ Items \in Seq(Nav!Item) /\ n \in Nat /\ n > 1
      /\ More \notin Nav!Item
      /\ \A i \in 1..n : Items[i] \in Nav!Item
  BY MenusAssumption DEF Nav!NavAssumption, Nav!Item, Nav!Range
<1>2. /\ SubSeq(Items, 1, 2) \in Seq(Nav!Item) /\ Len(SubSeq(Items, 1, 2)) = 2
      /\ \A i \in 1..2 : SubSeq(Items, 1, 2)[i] = Items[i]
  BY <1>1
<1>3. /\ TheRest \in Seq(Nav!Item) /\ Len(TheRest) = n - 2
      /\ \A i \in 1..n - 2 : TheRest[i] = Items[i + 2]
  <2>1. \A i \in 3..n : Items[i] \in Nav!Item
    BY <1>1
  <2>. QED
    <3>1. /\ TheRest \in Seq(Nav!Item) /\ Len(TheRest) = IF 3 <= n THEN n - 3 + 1 ELSE 0
          /\ \A i \in 1..n - 3 + 1 : TheRest[i] = Items[3 + i - 1]
      BY <1>1, <2>1, SubSeqProperties DEF TheRest
    <3>. HIDE DEF n
    <3>2. n - 3 + 1 = n - 2 /\ (3 <= n \/ n - 2 = 0) /\ \A i \in 1..n - 2 : 3 + i - 1 = i + 2
      BY <1>1
    <3>. QED
      BY <1>1, <3>1, <3>2
<1> HIDE DEF n
<1>4. /\ ShortBar \in Seq(Nav!Item \union {More}) /\ Len(ShortBar) = 3
      /\ ShortBar[1] = Items[1] /\ ShortBar[2] = Items[2] /\ ShortBar[3] = More
  <2>1. SubSeq(Items, 1, 2) \in Seq(Nav!Item \union {More}) /\ More \in Nav!Item \union {More}
    BY <1>2
  <2>. QED
    BY <1>2, <2>1, LongerSequence DEF ShortBar
<1>5. Nav!Contains(ShortBar, More) /\ ~Nav!Contains(Items, More)
  BY <1>1, <1>4 DEF Nav!Contains, n
<1>6. Nav!RemoveFirst(ShortBar, More) \o TheRest = Items
  <2>1. \A i \in 1..3 : ShortBar[i] = More => i = 3
    BY <1>1, <1>4
  <2>2. Nav!RemoveFirst(ShortBar, More) = SubSeq(ShortBar, 1, 3 - 1) \o SubSeq(ShortBar, 3 + 1, 3)
    <3> HIDE DEF ShortBar
    <3>1. 3 \in 1..Len(ShortBar) /\ \A i \in 1..Len(ShortBar) : ShortBar[i] = More => i = 3
      BY <1>4, <2>1
    <3>2. Nav!RemoveFirst(ShortBar, More) = Nav!RemoveAt(ShortBar, 3)
      BY <1>4, <3>1, RemoveTheOnly
    <3>. QED
      BY <1>4, <3>2 DEF Nav!RemoveAt
  <2>3. SubSeq(ShortBar, 1, 3 - 1) = SubSeq(Items, 1, 2)
    BY <1>2, <1>4
  <2>4. SubSeq(ShortBar, 3 + 1, 3) = <<>>
    BY <1>4
  <2>5. SubSeq(Items, 1, 2) \o <<>> = SubSeq(Items, 1, 2)
    BY <1>2
  <2>6. SubSeq(Items, 1, 2) \o TheRest \in Seq(Nav!Item) /\ Len(SubSeq(Items, 1, 2) \o TheRest) = n
    BY <1>1, <1>2, <1>3
  <2>7. \A i \in 1..n : (SubSeq(Items, 1, 2) \o TheRest)[i] = Items[i]
    BY <1>1, <1>2, <1>3
  <2>8. SubSeq(Items, 1, 2) \o TheRest = Items
    BY <1>1, <2>6, <2>7, SeqEqual DEF n
  <2>. QED
    BY <2>2, <2>3, <2>4, <2>5, <2>8
<1>7. Nav!RemoveFirst(Items, More) \o <<>> = Items
  BY <1>1, <1>5 DEF Nav!RemoveFirst, Nav!Contains
<1>. QED
  BY <1>1, <1>3, <1>4, <1>5, <1>6, <1>7

\* The form of the menu: the class of .hornav, its li and those of li.more.
FormIs(short, b, m) ==
    /\ short \in BOOLEAN
    /\ short => b = ShortBar /\ m = TheRest
    /\ ~short => b = Items /\ m = <<>>

NavInv ==
    /\ inline \in BOOLEAN /\ navWidth \in NavWidths /\ navOpen \in BOOLEAN
    /\ shortened = (navWidth < 450)
    /\ FormIs(shortened, bar, more)
    /\ navOpen => shortened
    /\ item \in Nav!Item \union {More, None}
    /\ content \in {Target[i] : i \in Nav!Item}
    /\ due \in Seq({Target[i] : i \in Nav!Item}) /\ asks \in Nat /\ Len(due) <= asks
    /\ inline => due = <<>>
    /\ item \in Nav!Item => Target[item] = IF due = <<>> THEN content ELSE due[Len(due)]

\* The menu for a width, from either form.
LEMMA MenuForWidth ==
    ASSUME NEW w \in Nat, NEW short, NEW b, NEW m, FormIs(short, b, m)
    PROVE  LET result == Nav!MenuFor(w, short, b, m)
           IN  result[1] = (w < 450) /\ FormIs(result[1], result[2], result[3])
<1> DEFINE result == Nav!MenuFor(w, short, b, m)
<1>1. CASE w < 450 /\ ~short
  <2>1. result = <<TRUE, Append(SubSeq(Items, 1, 2), More), SubSeq(Items, 3, Len(Items))>>
    BY <1>1 DEF Nav!MenuFor, Nav!Shorten, FormIs
  <2>2. result = <<TRUE, ShortBar, TheRest>>
    BY <2>1 DEF ShortBar, TheRest
  <2>3. result[1] = TRUE /\ result[2] = ShortBar /\ result[3] = TheRest
    BY <2>2
  <2>4. FormIs(TRUE, ShortBar, TheRest)
    BY DEF FormIs
  <2>. QED
    <3>1. (w < 450) = TRUE
      BY <1>1
    <3>. QED
      BY <2>3, <2>4, <3>1
<1>2. CASE w >= 450 /\ short
  <2>1. result = <<FALSE, Nav!RemoveFirst(ShortBar, More) \o TheRest, <<>>>>
    BY <1>2 DEF Nav!MenuFor, FormIs
  <2>2. result = <<FALSE, Items, <<>>>>
    BY <2>1, TwoForms
  <2>3. result[1] = FALSE /\ result[2] = Items /\ result[3] = <<>>
    BY <2>2
  <2>4. FormIs(FALSE, Items, <<>>)
    BY DEF FormIs
  <2>. QED
    <3>1. (w < 450) = FALSE
      BY <1>2
    <3>. QED
      BY <2>3, <2>4, <3>1
<1>3. CASE ~(w < 450 /\ ~short) /\ ~(w >= 450 /\ short)
  <2>1. result = <<short, b, m>> /\ short = (w < 450)
    BY <1>3 DEF Nav!MenuFor, FormIs
  <2>. QED
    BY <2>1
<1>. QED
  BY <1>1, <1>2, <1>3

LEMMA NavInit == Nav!Init => NavInv
<1> SUFFICES ASSUME Nav!Init
             PROVE  NavInv
  OBVIOUS
<1>1. navWidth \in NavWidths /\ navWidth \in Nat
  BY MenusAssumption DEF Nav!Init, Nav!NavAssumption
<1> DEFINE m == Nav!MenuFor(navWidth, FALSE, Items, <<>>)
<1>2. m[1] = (navWidth < 450) /\ FormIs(m[1], m[2], m[3])
  <2>1. FormIs(FALSE, Items, <<>>)
    BY DEF FormIs
  <2>. QED
    BY <1>1, <2>1, MenuForWidth
<1>3. shortened = m[1] /\ bar = m[2] /\ more = m[3]
  BY DEF Nav!Init
<1> HIDE DEF m
<1>4. shortened = (navWidth < 450) /\ FormIs(shortened, bar, more)
  BY <1>2, <1>3
<1>5. /\ inline \in BOOLEAN /\ navOpen \in BOOLEAN /\ ~navOpen
      /\ item = Items[1] /\ content = Target[Items[1]] /\ asks = 0 /\ due = <<>>
  BY DEF Nav!Init
<1>6. due \in Seq({Target[i] : i \in Nav!Item}) /\ Len(due) = 0
  BY <1>5, EmptySequence
<1>. QED
  BY <1>1, <1>4, <1>5, <1>6, TwoForms DEF NavInv

LEMMA NavNext == NavInv /\ [Nav!Next]_nav => NavInv'
<1> SUFFICES ASSUME NavInv, [Nav!Next]_nav
             PROVE  NavInv'
  OBVIOUS
<1> DEFINE T == {Target[i] : i \in Nav!Item}
<1> USE DEF NavInv
<1>0. due \in Seq(T) /\ Len(due) \in Nat
  OBVIOUS
<1>1. ASSUME NEW i \in Nav!Item, Nav!Click(i)
      PROVE  NavInv'
  <2>1. /\ UNCHANGED <<inline, navWidth, shortened, bar, more>>
        /\ item' = i /\ navOpen' \in BOOLEAN /\ (navOpen' => navOpen) /\ Target[i] \in T
    BY <1>1 DEF Nav!Click, Nav!menu
  <2>2. CASE inline
    BY <1>1, <2>1, <2>2 DEF Nav!Click
  <2>3. CASE ~inline
    <3>1. asks' = asks + 1 /\ due' = Append(due, Target[i]) /\ content' = content
      BY <1>1, <2>3 DEF Nav!Click
    <3>2. due' \in Seq(T) /\ Len(due') = Len(due) + 1 /\ due'[Len(due')] = Target[i]
      BY <1>0, <2>1, <3>1, LongerSequence
    <3>. QED
      BY <1>0, <2>1, <2>3, <3>1, <3>2, EmptySequence
  <2>. QED
    BY <2>2, <2>3
<1>2. ASSUME NEW k \in DOMAIN due, Nav!Reply(k)
      PROVE  NavInv'
  <2>1. /\ UNCHANGED <<inline, navWidth, shortened, bar, more, navOpen, item, asks>>
        /\ content' = due[1] /\ due' = SubSeq(due, 1, 0) \o SubSeq(due, 2, Len(due))
    BY <1>2 DEF Nav!Reply, Nav!menu, Nav!RemoveAt
  <2>2. Len(due) > 0 /\ due[1] \in T /\ ~inline /\ due # <<>>
    BY <1>2
  <2>3. due' = SubSeq(due, 2, Len(due))
    BY <1>0, <2>1
  <2>4. due' \in Seq(T) /\ Len(due') = Len(due) - 1 /\ \A j \in 1..Len(due) - 1 : due'[j] = due[j + 1]
    <3>1. \A j \in 2..Len(due) : due[j] \in T
      BY <1>0
    <3>2. /\ due' \in Seq(T) /\ Len(due') = IF 2 <= Len(due) THEN Len(due) - 2 + 1 ELSE 0
          /\ \A j \in 1..Len(due) - 2 + 1 : due'[j] = due[2 + j - 1]
      BY <1>0, <2>3, <3>1, SubSeqProperties
    <3>3. /\ \A j \in 1..Len(due) - 1 : 2 + j - 1 = j + 1 /\ j \in 1..Len(due) - 2 + 1
          /\ (IF 2 <= Len(due) THEN Len(due) - 2 + 1 ELSE 0) = Len(due) - 1
      <4> DEFINE n == Len(due)
      <4>1. n \in Nat /\ n > 0
        BY <1>0, <2>2
      <4> HIDE DEF n
      <4>2. /\ \A j \in 1..n - 1 : 2 + j - 1 = j + 1 /\ j \in 1..n - 2 + 1
            /\ (IF 2 <= n THEN n - 2 + 1 ELSE 0) = n - 1
        BY <4>1
      <4>. QED
        BY <4>2 DEF n
    <3>. QED
      BY <2>2, <3>2, <3>3
  <2>5. CASE Len(due) = 1
    <3>1. due' = <<>>
      BY <2>4, <2>5
    <3>. QED
      BY <1>0, <2>1, <2>2, <2>4, <2>5, <3>1
  <2>6. CASE Len(due) # 1
    <3>1. due' # <<>> /\ due'[Len(due')] = due[Len(due)]
      BY <1>0, <2>2, <2>4, <2>6
    <3>. QED
      BY <1>0, <2>1, <2>2, <2>4, <3>1
  <2>. QED
    BY <2>5, <2>6
<1>3. CASE Nav!ClickMore
  <2>1. shortened
    BY <1>3, TwoForms DEF Nav!ClickMore, FormIs
  <2>. QED
    BY <1>3, <2>1, TwoForms DEF Nav!ClickMore, Nav!menu
<1>4. ASSUME NEW w \in NavWidths, Nav!Resize(w)
      PROVE  NavInv'
  <2>1. w \in Nat /\ navWidth \in Nat
    BY MenusAssumption DEF Nav!NavAssumption
  <2> DEFINE m == Nav!MenuFor(w, shortened, bar, more)
  <2>2. m[1] = (w < 450) /\ FormIs(m[1], m[2], m[3])
    <3>1. FormIs(shortened, bar, more)
      OBVIOUS
    <3> HIDE DEF NavInv
    <3>. QED
      BY <2>1, <3>1, MenuForWidth
  <2>3. navWidth' = w /\ shortened' = m[1] /\ bar' = m[2] /\ more' = m[3]
    BY <1>4 DEF Nav!Resize
  <2> HIDE DEF m
  <2>4. navWidth' = w /\ shortened' = (w < 450) /\ FormIs(shortened', bar', more')
    BY <2>2, <2>3
  <2>5. navOpen' \in BOOLEAN /\ (navOpen' => shortened')
    BY <1>4, <2>4, TwoForms DEF Nav!Resize, FormIs
  <2>6. item' \in {item, None} /\ UNCHANGED <<inline, content, asks, due>>
    BY <1>4 DEF Nav!Resize
  <2>7. None \notin Nav!Item
    BY MenusAssumption DEF Nav!NavAssumption, Nav!Item
  <2>. QED
    BY <2>4, <2>5, <2>6, <2>7
<1>5. CASE UNCHANGED nav
  BY <1>5 DEF nav
<1>. QED
  BY <1>1, <1>2, <1>3, <1>4, <1>5 DEF Nav!Next

LEMMA NavInvImplies ==
    NavInv => Nav!TypeOK /\ Nav!MenuIsWhole /\ Nav!CurrentIsShown
<1> SUFFICES ASSUME NavInv
             PROVE  Nav!TypeOK /\ Nav!MenuIsWhole /\ Nav!CurrentIsShown
  OBVIOUS
<1>1. CASE shortened
  <2>1. bar = ShortBar /\ more = TheRest
    BY <1>1 DEF NavInv, FormIs
  <2>. QED
    BY <1>1, <2>1, TwoForms DEF NavInv, Nav!TypeOK, Nav!MenuIsWhole, Nav!CurrentIsShown
<1>2. CASE ~shortened
  <2>1. bar = Items /\ more = <<>>
    BY <1>2 DEF NavInv, FormIs
  <2>2. Items \in Seq(Nav!Item \union {More}) /\ <<>> \in Seq(Nav!Item)
    BY TwoForms, EmptySequence
  <2>3. Nav!MenuIsWhole
    <3>1. shortened = FALSE /\ Nav!Contains(bar, More) = FALSE
      BY <1>2, <2>1, TwoForms DEF NavInv, FormIs, Nav!Contains
    <3>2. Nav!RemoveFirst(bar, More) \o more = Items /\ shortened = (navWidth < 450)
      BY <2>1, TwoForms DEF NavInv
    <3>. QED
      BY <3>1, <3>2 DEF Nav!MenuIsWhole
  <2>. QED
    BY <1>2, <2>1, <2>2, <2>3, TwoForms DEF NavInv, Nav!TypeOK, Nav!CurrentIsShown
<1>. QED
  BY <1>1, <1>2 DEF NavInv, FormIs

-----------------------------------------------------------------------------
(* Induction, in the form of a minimal counterexample *)

LessThan == {p \in Nat \X Nat : p[1] < p[2]}

LEMMA LessThanIsWellFounded == IsWellFoundedOn(LessThan, Nat)
<1> SUFFICES ASSUME NEW f \in [Nat -> Nat], \A n \in Nat : <<f[n + 1], f[n]>> \in LessThan
             PROVE  FALSE
  BY DEF IsWellFoundedOn
<1>. QED
  BY NatLessThanWellFounded, SMT DEF IsWellFoundedOn, OpToRel, LessThan

LEMMA SetInduction ==
    ASSUME NEW S, 0 \in S, \A n \in Nat : n \in S => n + 1 \in S
    PROVE  Nat \subseteq S
<1> SUFFICES ASSUME Nat \ S # {}
             PROVE  FALSE
  OBVIOUS
<1>1. PICK x \in Nat \ S : \A y \in Nat \ S : <<y, x>> \notin LessThan
  BY WFMin, LessThanIsWellFounded
<1>2. x # 0 /\ x - 1 \in Nat /\ x - 1 < x
  BY <1>1
<1>3. x - 1 \in S
  BY <1>1, <1>2 DEF LessThan
<1>. QED
  BY <1>1, <1>2, <1>3

-----------------------------------------------------------------------------
(* The rows of a table *)

\* The elements of the first n that remove() of S keeps, as Without builds them.
IsKept(t, S, kept, n) ==
    kept = [i \in 0..n |-> IF i = 0 THEN <<>>
                           ELSE IF t[i] \in S THEN kept[i - 1] ELSE Append(kept[i - 1], t[i])]

LEMMA KeptExists ==
    ASSUME NEW t, NEW S
    PROVE  \A n \in Nat : \E kept : IsKept(t, S, kept, n)
<1> DEFINE M == {n \in Nat : \E kept : IsKept(t, S, kept, n)}
<1>1. 0 \in M
  <2> DEFINE k0 == [i \in 0..0 |-> <<>>]
  <2>1. IsKept(t, S, k0, 0)
    BY DEF IsKept
  <2>. QED
    BY <2>1
<1>2. ASSUME NEW n \in Nat, n \in M
      PROVE  n + 1 \in M
  <2>1. PICK kept : IsKept(t, S, kept, n)
    BY <1>2
  <2> DEFINE last == IF t[n + 1] \in S THEN kept[n] ELSE Append(kept[n], t[n + 1])
             longer == [i \in 0..n + 1 |-> IF i = n + 1 THEN last ELSE kept[i]]
  <2>2. DOMAIN longer = 0..n + 1 /\ \A i \in 0..n : longer[i] = kept[i]
    OBVIOUS
  <2>3. longer[n + 1] = last
    OBVIOUS
  <2>4. \A i \in 0..n : kept[i] = IF i = 0 THEN <<>>
                                  ELSE IF t[i] \in S THEN kept[i - 1] ELSE Append(kept[i - 1], t[i])
    BY <2>1 DEF IsKept
  <2>5. longer = [i \in 0..n + 1 |-> longer[i]]
    OBVIOUS
  <2> HIDE DEF longer
  <2>6. ASSUME NEW i \in 0..n + 1
        PROVE  longer[i] = IF i = 0 THEN <<>>
                           ELSE IF t[i] \in S THEN longer[i - 1] ELSE Append(longer[i - 1], t[i])
    <3>1. CASE i = n + 1
      <4>1. i # 0 /\ i - 1 = n /\ n \in 0..n
        BY <3>1
      <4>. QED
        BY <2>2, <2>3, <3>1, <4>1
    <3>2. CASE i # n + 1
      <4>1. i \in 0..n /\ (i # 0 => i - 1 \in 0..n)
        BY <3>2
      <4>. QED
        BY <2>2, <2>4, <4>1
    <3>. QED
      BY <3>1, <3>2
  <2>7. IsKept(t, S, longer, n + 1)
    BY <2>5, <2>6 DEF IsKept
  <2>. QED
    BY <2>7
<1> HIDE DEF M
<1>3. Nat \subseteq M
  BY <1>1, <1>2, SetInduction
<1>. QED
  BY <1>3 DEF M

\* What is kept of the first n elements: they are those outside S, each once,
\* neighbours stay neighbours, and the last one stays the last.
Kept(t, S, K, n) ==
    /\ {K[j] : j \in DOMAIN K} = {t[i] : i \in 1..n} \ S
    /\ \A i, j \in DOMAIN K : K[i] = K[j] => i = j
    /\ \A i \in 2..n : t[i - 1] \notin S /\ t[i] \notin S
                         => \E j \in 2..Len(K) : K[j - 1] = t[i - 1] /\ K[j] = t[i]
    /\ n > 0 /\ t[n] \notin S => Len(K) > 0 /\ K[Len(K)] = t[n]

LEMMA KeptStep ==
    ASSUME NEW X, NEW t \in Seq(X), \A i, j \in DOMAIN t : t[i] = t[j] => i = j,
           NEW S, NEW n \in Nat, n < Len(t), NEW K \in Seq(X), Kept(t, S, K, n)
    PROVE  LET L == IF t[n + 1] \in S THEN K ELSE Append(K, t[n + 1])
           IN  L \in Seq(X) /\ Kept(t, S, L, n + 1)
<1> DEFINE L == IF t[n + 1] \in S THEN K ELSE Append(K, t[n + 1])
<1> USE DEF Kept
<1>0. /\ n + 1 \in DOMAIN t /\ t[n + 1] \in X /\ DOMAIN t = 1..Len(t) /\ Len(t) \in Nat
      /\ {t[i] : i \in 1..n + 1} = {t[i] : i \in 1..n} \union {t[n + 1]}
      /\ DOMAIN K = 1..Len(K) /\ Len(K) \in Nat
  OBVIOUS
<1>1. CASE t[n + 1] \in S
  <2>1. L = K
    BY <1>1
  <2>2. {K[j] : j \in DOMAIN K} = {t[i] : i \in 1..n + 1} \ S
    BY <1>0, <1>1
  <2>3. \A i \in 2..n + 1 : t[i] \notin S => i \in 2..n
    BY <1>1
  <2>. QED
    BY <1>1, <2>1, <2>2, <2>3
<1>2. CASE t[n + 1] \notin S
  <2>1. /\ L \in Seq(X) /\ Len(L) = Len(K) + 1 /\ DOMAIN L = 1..Len(K) + 1
        /\ L[Len(K) + 1] = t[n + 1] /\ \A i \in 1..Len(K) : L[i] = K[i]
    BY <1>0, <1>2, LongerSequence
  <2> HIDE DEF L
  <2>2. {L[j] : j \in DOMAIN L} = {K[j] : j \in DOMAIN K} \union {t[n + 1]}
    BY <1>0, <2>1
  <2>3. t[n + 1] \notin {t[i] : i \in 1..n}
    <3>1. ASSUME NEW i \in 1..n
          PROVE  t[n + 1] # t[i]
      <4>1. i \in DOMAIN t /\ i # n + 1
        BY <1>0
      <4>. QED
        BY <1>0, <4>1
    <3>. QED
      BY <3>1
  <2>4. \A j \in DOMAIN K : K[j] # t[n + 1]
    BY <2>3
  <2>5. \A i, j \in DOMAIN L : L[i] = L[j] => i = j
    BY <1>0, <2>1, <2>4
  <2>6. ASSUME NEW i \in 2..n + 1, t[i - 1] \notin S, t[i] \notin S
        PROVE  \E j \in 2..Len(L) : L[j - 1] = t[i - 1] /\ L[j] = t[i]
    <3>1. CASE i = n + 1
      <4>1. n > 0 /\ i - 1 = n /\ t[n] \notin S
        BY <2>6, <3>1
      <4>2. Len(K) > 0 /\ K[Len(K)] = t[n]
        BY <4>1
      <4>3. /\ Len(L) \in 2..Len(L) /\ Len(L) - 1 = Len(K) /\ Len(K) \in 1..Len(K)
        BY <1>0, <2>1, <4>2
      <4>. QED
        BY <2>1, <3>1, <4>1, <4>2, <4>3
    <3>2. CASE i # n + 1
      <4>1. i \in 2..n
        BY <3>2
      <4>2. PICK j \in 2..Len(K) : K[j - 1] = t[i - 1] /\ K[j] = t[i]
        BY <2>6, <4>1
      <4>3. j \in 2..Len(L) /\ j \in 1..Len(K) /\ j - 1 \in 1..Len(K)
        BY <1>0, <2>1
      <4>. QED
        BY <2>1, <4>2, <4>3
    <3>. QED
      BY <3>1, <3>2
  <2>7. Len(L) > 0 /\ L[Len(L)] = t[n + 1]
    BY <1>0, <2>1
  <2>8. {L[j] : j \in DOMAIN L} = {t[i] : i \in 1..n + 1} \ S
    BY <1>0, <1>2, <2>2
  <2>. QED
    BY <2>1, <2>5, <2>6, <2>7, <2>8 DEF L
<1>. QED
  BY <1>1, <1>2

LEMMA WithoutIsKept ==
    ASSUME NEW X, NEW t \in Seq(X), \A i, j \in DOMAIN t : t[i] = t[j] => i = j, NEW S
    PROVE  Quick!Without(t, S) \in Seq(X) /\ Kept(t, S, Quick!Without(t, S), Len(t))
<1> DEFINE kept == CHOOSE k : IsKept(t, S, k, Len(t))
<1>1. Len(t) \in Nat
  OBVIOUS
<1>2. IsKept(t, S, kept, Len(t))
  BY <1>1, KeptExists
<1>3. Quick!Without(t, S) = kept[Len(t)]
  BY DEF Quick!Without, IsKept
<1> HIDE DEF kept
<1>4. \A i \in 0..Len(t) :
        kept[i] = IF i = 0 THEN <<>>
                  ELSE IF t[i] \in S THEN kept[i - 1] ELSE Append(kept[i - 1], t[i])
  BY <1>2 DEF IsKept
<1> DEFINE M == {n \in Nat : n <= Len(t) => kept[n] \in Seq(X) /\ Kept(t, S, kept[n], n)}
<1>5. 0 \in M
  <2>1. 0 \in 0..Len(t) /\ kept[0] = <<>>
    BY <1>1, <1>4
  <2>2. kept[0] \in Seq(X) /\ DOMAIN kept[0] = {}
    BY <2>1, EmptySequence
  <2>. QED
    BY <2>2 DEF Kept
<1>6. ASSUME NEW n \in Nat, n \in M
      PROVE  n + 1 \in M
  <2> SUFFICES ASSUME n + 1 <= Len(t)
               PROVE  kept[n + 1] \in Seq(X) /\ Kept(t, S, kept[n + 1], n + 1)
    OBVIOUS
  <2>1. n <= Len(t) /\ n < Len(t)
    BY <1>1
  <2>2. kept[n] \in Seq(X) /\ Kept(t, S, kept[n], n)
    BY <1>6, <2>1
  <2>3. n + 1 \in 0..Len(t) /\ n + 1 # 0 /\ (n + 1) - 1 = n
    BY <1>1
  <2>4. kept[n + 1] = IF t[n + 1] \in S THEN kept[n] ELSE Append(kept[n], t[n + 1])
    BY <1>4, <2>3
  <2>. QED
    BY <2>1, <2>2, <2>4, KeptStep
<1> HIDE DEF M
<1>7. Len(t) \in M
  BY <1>1, <1>5, <1>6, SetInduction
<1>8. kept[Len(t)] \in Seq(X) /\ Kept(t, S, kept[Len(t)], Len(t))
  BY <1>1, <1>7 DEF M
<1>. QED
  BY <1>3, <1>8

\* A table: its rows are of X, each is there once.
Table(t, X) == t \in Seq(X) /\ Quick!IsInjective(t)

\* At most one row follows a row.
LEMMA AfterIsOne ==
    ASSUME NEW X, NEW t, Table(t, X), NEW e
    PROVE  /\ \A f, g \in Quick!After(t, e) : f = g
           /\ Quick!After(t, e) \subseteq Quick!Range(t)
           /\ Quick!After(t, e) # {} => e \in Quick!Range(t)
<1>1. t \in Seq(X) /\ \A i, j \in DOMAIN t : t[i] = t[j] => i = j
  BY DEF Table, Quick!IsInjective
<1>2. ASSUME NEW i \in DOMAIN t, i > 1
      PROVE  i \in Int /\ i - 1 \in DOMAIN t
  BY <1>1, <1>2
<1>. QED
  BY <1>1, <1>2 DEF Quick!After, Quick!Range

\* remove(): what is left stays once, and neighbours that are left stay neighbours.
LEMMA WithoutRows ==
    ASSUME NEW X, NEW t, Table(t, X), NEW S
    PROVE  /\ Table(Quick!Without(t, S), X)
           /\ Quick!Range(Quick!Without(t, S)) = Quick!Range(t) \ S
           /\ \A e, f : e \notin S /\ f \notin S /\ f \in Quick!After(t, e)
                          => f \in Quick!After(Quick!Without(t, S), e)
<1> DEFINE W == Quick!Without(t, S)
<1>1. t \in Seq(X) /\ \A i, j \in DOMAIN t : t[i] = t[j] => i = j
  BY DEF Table, Quick!IsInjective
<1>2. W \in Seq(X) /\ Kept(t, S, W, Len(t))
  BY <1>1, WithoutIsKept
<1> HIDE DEF W
<1>3. Table(W, X)
  BY <1>2 DEF Kept, Table, Quick!IsInjective
<1>4. Quick!Range(W) = Quick!Range(t) \ S
  <2>1. Quick!Range(W) = {t[i] : i \in 1..Len(t)} \ S
    BY <1>2 DEF Kept, Quick!Range
  <2>2. DOMAIN t = 1..Len(t)
    BY <1>1
  <2>. QED
    BY <2>1, <2>2 DEF Quick!Range
<1>5. ASSUME NEW e, NEW f, e \notin S, f \notin S, f \in Quick!After(t, e)
      PROVE  f \in Quick!After(W, e)
  <2>1. PICK i \in DOMAIN t : i > 1 /\ t[i - 1] = e /\ t[i] = f
    BY <1>5 DEF Quick!After
  <2>2. i \in 2..Len(t)
    BY <1>1, <2>1
  <2>3. PICK j \in 2..Len(W) : W[j - 1] = e /\ W[j] = f
    BY <1>2, <1>5, <2>1, <2>2 DEF Kept
  <2>4. j \in DOMAIN W /\ j > 1
    BY <1>2
  <2>. QED
    BY <2>3, <2>4 DEF Quick!After
<1>. QED
  BY <1>3, <1>4, <1>5 DEF W

\* after(): the new row is there once, right below the row it was put after.
LEMMA InsertedRow ==
    ASSUME NEW X, NEW t, Table(t, X), NEW e \in Quick!Range(t),
           NEW new \in X, new \notin Quick!Range(t)
    PROVE  /\ Table(Quick!InsertAfter(t, e, new), X)
           /\ Quick!Range(Quick!InsertAfter(t, e, new)) = Quick!Range(t) \union {new}
           /\ new \in Quick!After(Quick!InsertAfter(t, e, new), e)
<1> DEFINE I == Quick!InsertAfter(t, e, new)
           p == Quick!Place(t, e)
           n == Len(t)
<1>1. /\ t \in Seq(X) /\ n \in Nat /\ DOMAIN t = 1..n
      /\ \A i \in 1..n : t[i] \in X /\ t[i] # new
      /\ \A i, j \in 1..n : t[i] = t[j] => i = j
  BY DEF Table, Quick!IsInjective, Quick!Range
<1>2. p \in 1..n /\ t[p] = e
  <2>1. \E i \in DOMAIN t : t[i] = e
    BY DEF Quick!Range
  <2>. QED
    BY <1>1, <2>1 DEF Quick!Place
<1>3. I = SubSeq(t, 1, (p + 1) - 1) \o <<new>> \o SubSeq(t, p + 1, n)
  BY DEF Quick!InsertAfter, Quick!InsertAt
<1> HIDE DEF I, p, n
<1>4. (p + 1) - 1 = p
  BY <1>2
<1> DEFINE A == SubSeq(t, 1, p)
           B == SubSeq(t, p + 1, n)
<1>5. A \in Seq(X) /\ Len(A) = p /\ \A i \in 1..p : A[i] = t[i]
  <2>1. \A i \in 1..p : t[i] \in X
    BY <1>1, <1>2
  <2>2. /\ A \in Seq(X) /\ Len(A) = IF 1 <= p THEN p - 1 + 1 ELSE 0
        /\ \A i \in 1..p - 1 + 1 : A[i] = t[1 + i - 1]
    BY <1>2, <2>1, SubSeqProperties
  <2> HIDE DEF A
  <2>3. p - 1 + 1 = p /\ 1 <= p /\ \A i \in 1..p : 1 + i - 1 = i
    BY <1>1, <1>2
  <2>. QED
    BY <2>2, <2>3
<1>6. B \in Seq(X) /\ Len(B) = n - p /\ \A i \in 1..n - p : B[i] = t[p + i]
  <2>1. \A i \in p + 1..n : t[i] \in X
    BY <1>1, <1>2
  <2>2. /\ B \in Seq(X) /\ Len(B) = IF p + 1 <= n THEN n - (p + 1) + 1 ELSE 0
        /\ \A i \in 1..n - (p + 1) + 1 : B[i] = t[(p + 1) + i - 1]
    BY <1>1, <1>2, <2>1, SubSeqProperties
  <2> HIDE DEF B
  <2>3. /\ n - (p + 1) + 1 = n - p /\ (p + 1 <= n \/ n - p = 0)
        /\ \A i \in 1..n - p : (p + 1) + i - 1 = p + i
    BY <1>1, <1>2
  <2>. QED
    BY <2>2, <2>3
<1> HIDE DEF A, B
<1>7. <<new>> \in Seq(X) /\ Len(<<new>>) = 1 /\ <<new>>[1] = new
  OBVIOUS
<1> DEFINE C == A \o <<new>>
<1>8. /\ C \in Seq(X) /\ Len(C) = p + 1
      /\ \A i \in 1..p : C[i] = t[i]
      /\ C[p + 1] = new
  <2>1. /\ C \in Seq(X) /\ Len(C) = Len(A) + Len(<<new>>)
        /\ \A i \in 1..Len(A) + Len(<<new>>) :
             C[i] = IF i <= Len(A) THEN A[i] ELSE <<new>>[i - Len(A)]
    BY <1>5, <1>7, ConcatProperties
  <2> HIDE DEF C
  <2>. QED
    BY <1>2, <1>5, <1>7, <2>1
<1> HIDE DEF C
<1>9. I = C \o B
  BY <1>3, <1>4 DEF A, B, C
<1>10. /\ I \in Seq(X) /\ Len(I) = n + 1
       /\ \A i \in 1..p : I[i] = t[i]
       /\ I[p + 1] = new
       /\ \A i \in p + 2..n + 1 : I[i] = t[i - 1]
  <2>1. /\ I \in Seq(X) /\ Len(I) = Len(C) + Len(B)
        /\ \A i \in 1..Len(C) + Len(B) :
             I[i] = IF i <= Len(C) THEN C[i] ELSE B[i - Len(C)]
    BY <1>6, <1>8, <1>9, ConcatProperties
  <2>2. Len(C) + Len(B) = n + 1
    BY <1>1, <1>2, <1>6, <1>8
  <2>3. \A i \in p + 2..n + 1 :
          i - (p + 1) \in 1..n - p /\ p + (i - (p + 1)) = i - 1 /\ ~(i <= p + 1) /\ i \in 1..n + 1
    BY <1>1, <1>2
  <2>4. \A i \in p + 2..n + 1 : I[i] = t[i - 1]
    BY <1>6, <1>8, <2>1, <2>2, <2>3
  <2>5. \A i \in 1..p + 1 : i \in 1..n + 1 /\ i <= p + 1
    BY <1>1, <1>2
  <2>6. p + 1 \in 1..p + 1 /\ \A i \in 1..p : i \in 1..p + 1
    BY <1>2
  <2>. QED
    BY <1>8, <2>1, <2>2, <2>4, <2>5, <2>6
<1>11. DOMAIN I = 1..n + 1
  BY <1>10
<1>12. \A i, j \in DOMAIN I : I[i] = I[j] => i = j
  <2> SUFFICES ASSUME NEW i \in 1..n + 1, NEW j \in 1..n + 1, I[i] = I[j]
               PROVE  i = j
    BY <1>11
  <2> DEFINE q(k) == IF k <= p THEN k ELSE k - 1
  <2>1. \A k \in 1..n + 1 : k # p + 1 => q(k) \in 1..n /\ I[k] = t[q(k)]
    BY <1>1, <1>2, <1>10
  <2>2. CASE i = p + 1 \/ j = p + 1
    BY <1>1, <1>10, <2>1, <2>2
  <2>3. CASE i # p + 1 /\ j # p + 1
    <3>1. q(i) = q(j)
      BY <1>1, <2>1, <2>3
    <3>. QED
      BY <1>2, <2>3, <3>1
  <2>. QED
    BY <2>2, <2>3
<1>13. Quick!Range(I) = Quick!Range(t) \union {new}
  <2>1. \A k \in 1..n : \E i \in 1..n + 1 : I[i] = t[k]
    <3> TAKE k \in 1..n
    <3>1. CASE k <= p
      BY <1>1, <1>2, <1>10, <3>1
    <3>2. CASE ~(k <= p)
      <4>1. k + 1 \in p + 2..n + 1 /\ (k + 1) - 1 = k /\ k + 1 \in 1..n + 1
        BY <1>1, <1>2, <3>2
      <4>. QED
        BY <1>10, <4>1
    <3>. QED
      BY <3>1, <3>2
  <2>2. \A i \in 1..n + 1 : I[i] = new \/ \E k \in 1..n : I[i] = t[k]
    <3> TAKE i \in 1..n + 1
    <3>1. CASE i <= p
      BY <1>1, <1>2, <1>10, <3>1
    <3>2. CASE i = p + 1
      BY <1>10, <3>2
    <3>3. CASE i > p + 1
      <4>1. i \in p + 2..n + 1 /\ i - 1 \in 1..n
        BY <1>1, <1>2, <3>3
      <4>. QED
        BY <1>10, <4>1
    <3>. QED
      BY <1>2, <3>1, <3>2, <3>3
  <2>3. p + 1 \in 1..n + 1
    BY <1>1, <1>2
  <2>4. Quick!Range(I) = {I[i] : i \in 1..n + 1} /\ Quick!Range(t) = {t[k] : k \in 1..n}
    BY <1>1, <1>11 DEF Quick!Range
  <2>5. I[p + 1] = new
    BY <1>10
  <2>. QED
    BY <2>1, <2>2, <2>3, <2>4, <2>5
<1>14. new \in Quick!After(I, e)
  <2>1. p + 1 \in DOMAIN I /\ p + 1 > 1 /\ I[(p + 1) - 1] = e /\ I[p + 1] = new
    BY <1>1, <1>2, <1>4, <1>10, <1>11
  <2>. QED
    BY <2>1 DEF Quick!After
<1>15. Table(I, X)
  BY <1>10, <1>12 DEF Table, Quick!IsInjective
<1>. QED
  BY <1>13, <1>14, <1>15 DEF I

-----------------------------------------------------------------------------
(* The quick views of the table *)

\* What a step does to the table: the user of one page waits for a reply before
\* the next quick view.
TableStep ==
    \/ \E r \in Quick!Row : Quick!Toggle(r) /\ (page = "tableWaiting" => unanswered = {})
    \/ \E r \in Quick!Row : Quick!Delete(r) \/ Quick!FadedOut(r) \/ Quick!Check(r)
    \/ \E k \in Quick!View : Quick!Reply(k) \/ Quick!Cancel(k) \/ Quick!Shrunk(k)
    \/ Quick!DeleteSelected
    \/ \E on \in BOOLEAN : Quick!CheckAll(on)

LEMMA QuickStep == page = "table" /\ Quick!Next => TableStep
BY DEF Quick!Next, TableStep

LEMMA SlowOperators ==
    /\ Slow!Row = Quick!Row /\ Slow!View = Quick!View /\ Slow!Present = Quick!Present
    /\ \A t, S : Slow!Without(t, S) = Quick!Without(t, S)
    /\ \A t, e : Slow!After(t, e) = Quick!After(t, e)
    /\ \A t, e, new : Slow!InsertAfter(t, e, new) = Quick!InsertAfter(t, e, new)
    /\ \A r : Slow!Sees(r) = Quick!Sees(r)
BY DEF Slow!Row, Quick!Row, Slow!View, Quick!View, Slow!Present, Quick!Present, Slow!Range,
       Quick!Range, Slow!Without, Quick!Without, Slow!After, Quick!After, Slow!InsertAfter,
       Quick!InsertAfter, Slow!Place, Quick!Place, Slow!InsertAt, Quick!InsertAt, Slow!Sees,
       Quick!Sees

LEMMA SlowStep == page = "tableWaiting" /\ Slow!Next => TableStep
<1> SUFFICES ASSUME page = "tableWaiting", Slow!Next
             PROVE  TableStep
  OBVIOUS
<1> USE SlowOperators DEF Slow!quick, Quick!quick
<1>1. ASSUME NEW r \in Slow!Row, Slow!Toggle(r)
      PROVE  TableStep
  <2>1. Quick!Toggle(r) /\ unanswered = {}
    BY <1>1 DEF Slow!Toggle, Quick!Toggle
  <2>. QED
    BY <2>1 DEF TableStep
<1>2. ASSUME NEW r \in Slow!Row, Slow!Delete(r) \/ Slow!FadedOut(r) \/ Slow!Check(r)
      PROVE  TableStep
  <2>1. Quick!Delete(r) \/ Quick!FadedOut(r) \/ Quick!Check(r)
    BY <1>2 DEF Slow!Delete, Slow!FadedOut, Slow!Check, Quick!Delete, Quick!FadedOut, Quick!Check
  <2>. QED
    BY <2>1 DEF TableStep
<1>3. ASSUME NEW k \in Slow!View, Slow!Reply(k) \/ Slow!Cancel(k) \/ Slow!Shrunk(k)
      PROVE  TableStep
  <2>1. Quick!Reply(k) \/ Quick!Cancel(k) \/ Quick!Shrunk(k)
    BY <1>3 DEF Slow!Reply, Slow!Cancel, Slow!Shrunk, Quick!Reply, Quick!Cancel, Quick!Shrunk
  <2>. QED
    BY <2>1 DEF TableStep
<1>4. CASE Slow!DeleteSelected
  BY <1>4 DEF Slow!DeleteSelected, Quick!DeleteSelected, TableStep
<1>5. ASSUME NEW on \in BOOLEAN, Slow!CheckAll(on)
      PROVE  TableStep
  <2>1. Quick!CheckAll(on)
    BY <1>5 DEF Slow!CheckAll, Quick!CheckAll
  <2>. QED
    BY <2>1 DEF TableStep
<1>. QED
  BY <1>1, <1>2, <1>3, <1>4, <1>5 DEF Slow!Next

TableTypes ==
    /\ Table(table, Quick!Row \union Quick!View)
    /\ from \in Seq(Quick!Row) /\ Len(from) <= TablePosts
    /\ unanswered \subseteq DOMAIN from
    /\ shown \subseteq Quick!View /\ filled \subseteq DOMAIN from \ unanswered
    /\ leaving \subseteq Quick!Row \union filled
    /\ hidden \union forced \union rowsChecked \union rowsSelected \subseteq Quick!Row

\* A quick view in the table is the one asked for last, below its row; once it
\* was answered it has its data and is shown, unless its row went before.
ViewsArePlaced ==
    \A k \in Quick!Present \intersect Quick!View :
        /\ k = Len(from)
        /\ from[k] \in Quick!Present => k \in Quick!After(table, from[k])
        /\ k \notin unanswered =>
             k \in filled /\ (from[k] \in Quick!Present => k \in shown)

\* For a user who waits the reply finds its quick view, and no row hidden.
WaitsForView ==
    /\ unanswered \subseteq {Len(from)} \intersect Quick!Present
    /\ unanswered # {} => hidden = {}
    /\ \A r \in hidden : \E k \in shown : k \in Quick!After(table, r)

QuickInv ==
    /\ TableTypes /\ ViewsArePlaced /\ rowsSelected = rowsChecked
    /\ page = "tableWaiting" => WaitsForView

LEMMA TableAssumptions ==
    /\ TableRows \in Seq(Quick!Row) /\ Quick!IsInjective(TableRows)
    /\ Quick!Range(TableRows) = Quick!Row /\ TablePosts \in Nat
    /\ Quick!Row \intersect Quick!View = {}
BY ListsAssumption DEF Quick!QuickViewAssumption, Quick!Row, Quick!View

LEMMA QuickInit == Quick!Init => QuickInv
<1> SUFFICES ASSUME Quick!Init
             PROVE  QuickInv
  OBVIOUS
<1>1. TableRows \in Seq(Quick!Row \union Quick!View)
  BY TableAssumptions
<1>2. from \in Seq(Quick!Row) /\ Len(from) = 0
  BY EmptySequence DEF Quick!Init
<1>3. Quick!Present \intersect Quick!View = {}
  BY TableAssumptions DEF Quick!Init, Quick!Present
<1>. QED
  BY <1>1, <1>2, <1>3, TableAssumptions
  DEF Quick!Init, QuickInv, TableTypes, Table, ViewsArePlaced, WaitsForView

LEMMA TableTypesNext == TableTypes /\ TableStep => TableTypes'
<1> SUFFICES ASSUME TableTypes, TableStep
             PROVE  TableTypes'
  OBVIOUS
<1> USE DEF TableTypes
<1>0. /\ Len(from) \in Nat /\ DOMAIN from = 1..Len(from) /\ DOMAIN from \subseteq Quick!View
      /\ \A k \in DOMAIN from : from[k] \in Quick!Row
  BY TableAssumptions DEF Quick!View
<1>1. ASSUME NEW r \in Quick!Row, Quick!Toggle(r)
      PROVE  TableTypes'
  <2> DEFINE rest == Quick!Without(table, Quick!View)
             new == Len(from) + 1
  <2>1. /\ r \in Quick!Present /\ Len(from) < TablePosts
        /\ table' = Quick!InsertAfter(rest, r, new)
        /\ from' = Append(from, r) /\ unanswered' = unanswered \union {new}
        /\ hidden' = {}
        /\ UNCHANGED <<shown, filled, forced, leaving, rowsChecked, rowsSelected>>
    BY <1>1 DEF Quick!Toggle, Quick!Sees
  <2>2. new \in Quick!View
    BY <1>0, <2>1, TableAssumptions DEF Quick!View
  <2>3. /\ Table(rest, Quick!Row \union Quick!View)
        /\ Quick!Range(rest) = Quick!Present \ Quick!View
    BY WithoutRows DEF Quick!Present
  <2> HIDE DEF rest
  <2>4. r \in Quick!Range(rest) /\ new \notin Quick!Range(rest)
    BY <2>1, <2>2, <2>3, TableAssumptions
  <2>5. Table(table', Quick!Row \union Quick!View)
    BY <2>1, <2>2, <2>3, <2>4, InsertedRow
  <2>6. from' \in Seq(Quick!Row) /\ Len(from') = new /\ DOMAIN from' = 1..new
    BY <2>1, LongerSequence
  <2>7. Len(from') <= TablePosts
    BY <1>0, <2>1, <2>6, TableAssumptions
  <2>8. DOMAIN from' = DOMAIN from \union {new} /\ new \notin DOMAIN from
    BY <1>0, <2>6
  <2>. QED
    BY <2>1, <2>5, <2>6, <2>7, <2>8
<1>2. ASSUME NEW r \in Quick!Row, Quick!Delete(r) \/ Quick!FadedOut(r) \/ Quick!Check(r)
      PROVE  TableTypes'
  <2>1. CASE Quick!Delete(r)
    BY <2>1 DEF Quick!Delete, Quick!quick
  <2>2. CASE Quick!FadedOut(r)
    <3>1. Table(table', Quick!Row \union Quick!View)
      BY <2>2, WithoutRows DEF Quick!FadedOut
    <3>. QED
      BY <2>2, <3>1 DEF Quick!FadedOut
  <2>3. CASE Quick!Check(r)
    BY <2>3 DEF Quick!Check, Quick!quick
  <2>. QED
    BY <1>2, <2>1, <2>2, <2>3
<1>3. ASSUME NEW k \in Quick!View, Quick!Reply(k)
      PROVE  TableTypes'
  BY <1>0, <1>3 DEF Quick!Reply
<1>4. ASSUME NEW k \in Quick!View, Quick!Cancel(k)
      PROVE  TableTypes'
  BY <1>4 DEF Quick!Cancel, Quick!quick
<1>5. ASSUME NEW k \in Quick!View, Quick!Shrunk(k)
      PROVE  TableTypes'
  <2>1. Table(table', Quick!Row \union Quick!View)
    BY <1>5, WithoutRows DEF Quick!Shrunk
  <2>. QED
    BY <1>5, <2>1 DEF Quick!Shrunk
<1>6. CASE Quick!DeleteSelected
  BY <1>6 DEF Quick!DeleteSelected, Quick!quick
<1>7. ASSUME NEW on \in BOOLEAN, Quick!CheckAll(on)
      PROVE  TableTypes'
  BY <1>7 DEF Quick!CheckAll, Quick!quick
<1>. QED
  BY <1>1, <1>2, <1>3, <1>4, <1>5, <1>6, <1>7 DEF TableStep

\* Rows or quick views that go leave the others where they are.
LEMMA ViewsStay ==
    ASSUME TableTypes, ViewsArePlaced, NEW S, table' = Quick!Without(table, S),
           UNCHANGED <<from, unanswered, shown, filled>>
    PROVE  ViewsArePlaced'
<1>1. /\ Quick!Present' = Quick!Present \ S
      /\ \A e, f : e \notin S /\ f \notin S /\ f \in Quick!After(table, e)
                     => f \in Quick!After(table', e)
  BY WithoutRows DEF TableTypes, Quick!Present
<1>. QED
  BY <1>1 DEF ViewsArePlaced

\* The quick view of a click is the only one, below its row.
LEMMA ViewIsInserted ==
    ASSUME TableTypes, NEW r \in Quick!Row, Quick!Toggle(r)
    PROVE  /\ ViewsArePlaced'
           /\ Len(from') = Len(from) + 1 /\ Len(from) + 1 \in Quick!Present'
           /\ unanswered' = unanswered \union {Len(from) + 1}
<1> DEFINE rest == Quick!Without(table, Quick!View)
           new == Len(from) + 1
<1>1. /\ r \in Quick!Present /\ Len(from) < TablePosts
      /\ table' = Quick!InsertAfter(rest, r, new)
      /\ from' = Append(from, r) /\ unanswered' = unanswered \union {new}
  BY DEF Quick!Toggle, Quick!Sees
<1>2. new \in Quick!View
  BY <1>1, TableAssumptions DEF Quick!View, TableTypes
<1>3. /\ Table(rest, Quick!Row \union Quick!View)
      /\ Quick!Range(rest) = Quick!Present \ Quick!View
  BY WithoutRows DEF Quick!Present, TableTypes
<1> HIDE DEF rest
<1>4. r \in Quick!Range(rest) /\ new \notin Quick!Range(rest)
  BY <1>1, <1>2, <1>3, TableAssumptions
<1>5. /\ Quick!Present' = (Quick!Present \ Quick!View) \union {new}
      /\ new \in Quick!After(table', r)
  BY <1>1, <1>2, <1>3, <1>4, InsertedRow DEF Quick!Present
<1>6. Len(from') = new /\ from'[new] = r
  BY <1>1, LongerSequence DEF TableTypes
<1>7. \A k \in (Quick!Present \intersect Quick!View)' : k = new
  BY <1>5 DEF Quick!View
<1>8. new \in unanswered'
  BY <1>1
<1>9. ViewsArePlaced'
  BY <1>5, <1>6, <1>7, <1>8 DEF ViewsArePlaced
<1>. QED
  BY <1>1, <1>5, <1>6, <1>9

LEMMA ViewsArePlacedNext == TableTypes /\ ViewsArePlaced /\ TableStep => ViewsArePlaced'
<1> SUFFICES ASSUME TableTypes, ViewsArePlaced, TableStep
             PROVE  ViewsArePlaced'
  OBVIOUS
<1>1. ASSUME NEW r \in Quick!Row, Quick!Toggle(r)
      PROVE  ViewsArePlaced'
  BY <1>1, ViewIsInserted
<1>2. ASSUME NEW r \in Quick!Row, Quick!FadedOut(r)
      PROVE  ViewsArePlaced'
  BY <1>2, ViewsStay DEF Quick!FadedOut
<1>3. ASSUME NEW k \in Quick!View, Quick!Shrunk(k)
      PROVE  ViewsArePlaced'
  BY <1>3, ViewsStay DEF Quick!Shrunk
<1>4. ASSUME NEW k \in Quick!View, Quick!Reply(k)
      PROVE  ViewsArePlaced'
  BY <1>4 DEF Quick!Reply, ViewsArePlaced, Quick!Present, Quick!View
<1>5. CASE UNCHANGED <<table, from, unanswered, shown, filled>>
  BY <1>5 DEF ViewsArePlaced, Quick!Present
<1>. QED
  BY <1>1, <1>2, <1>3, <1>4, <1>5
  DEF TableStep, Quick!quick, Quick!Delete, Quick!Check, Quick!Cancel, Quick!DeleteSelected,
      Quick!CheckAll

LEMMA MarksNext == TableTypes /\ rowsSelected = rowsChecked /\ TableStep => rowsSelected' = rowsChecked'
<1> SUFFICES ASSUME TableTypes, rowsSelected = rowsChecked, TableStep
             PROVE  rowsSelected' = rowsChecked'
  OBVIOUS
<1>1. ASSUME NEW r \in Quick!Row, Quick!FadedOut(r)
      PROVE  rowsSelected' = rowsChecked'
  BY <1>1 DEF Quick!FadedOut
<1>2. ASSUME NEW r \in Quick!Row, Quick!Check(r)
      PROVE  rowsSelected' = rowsChecked'
  BY <1>2 DEF Quick!Check
<1>3. ASSUME NEW on \in BOOLEAN, Quick!CheckAll(on)
      PROVE  rowsSelected' = rowsChecked'
  BY <1>3 DEF Quick!CheckAll
<1>. QED
  BY <1>1, <1>2, <1>3
  DEF TableStep, Quick!Toggle, Quick!Reply, Quick!Shrunk, Quick!Delete, Quick!Cancel,
      Quick!DeleteSelected

LEMMA WaitsForViewNext ==
    ASSUME page = "tableWaiting", TableTypes, ViewsArePlaced, WaitsForView, TableStep
    PROVE  WaitsForView'
<1> USE DEF WaitsForView
<1>0. Quick!Row \intersect Quick!View = {} /\ filled \intersect unanswered = {}
  BY TableAssumptions DEF TableTypes
<1>1. ASSUME NEW r \in Quick!Row, Quick!Toggle(r), unanswered = {}
      PROVE  WaitsForView'
  <2>1. hidden' = {}
    BY <1>1 DEF Quick!Toggle
  <2>. QED
    BY <1>1, <2>1, ViewIsInserted
<1>2. ASSUME NEW r \in Quick!Row, Quick!FadedOut(r)
      PROVE  WaitsForView'
  <2>1. /\ Quick!Present' = Quick!Present \ {r}
        /\ \A e, f : e # r /\ f # r /\ f \in Quick!After(table, e) => f \in Quick!After(table', e)
    BY <1>2, WithoutRows DEF Quick!FadedOut, TableTypes, Quick!Present
  <2>2. unanswered \subseteq Quick!View /\ shown \subseteq Quick!View
    BY TableAssumptions DEF TableTypes, Quick!View
  <2>. QED
    BY <1>0, <1>2, <2>1, <2>2 DEF Quick!FadedOut
<1>3. ASSUME NEW k \in Quick!View, Quick!Shrunk(k)
      PROVE  WaitsForView'
  <2>1. /\ Quick!Present' = Quick!Present \ {k}
        /\ \A e, f : e # k /\ f # k /\ f \in Quick!After(table, e) => f \in Quick!After(table', e)
    BY <1>3, WithoutRows DEF Quick!Shrunk, TableTypes, Quick!Present
  <2>2. k \notin unanswered
    BY <1>0, <1>3 DEF TableTypes, Quick!Shrunk
  <2>3. k \notin hidden
    BY <1>0 DEF TableTypes
  <2>. QED
    BY <1>3, <2>1, <2>2, <2>3 DEF Quick!Shrunk
<1>4. ASSUME NEW k \in Quick!View, Quick!Reply(k)
      PROVE  WaitsForView'
  <2>1. k = Len(from) /\ k \in Quick!Present /\ hidden = {}
    BY <1>4 DEF Quick!Reply
  <2>2. from[k] \in Quick!Present => k \in Quick!After(table, from[k])
    BY <2>1 DEF ViewsArePlaced
  <2>3. hidden' = {from[k]} \intersect Quick!Present
    BY <1>4, <2>1 DEF Quick!Reply
  <2>4. from[k] \in Quick!Present => k \in shown'
    BY <1>4, <2>2 DEF Quick!Reply
  <2>5. unanswered' = {} /\ table' = table
    BY <1>4 DEF Quick!Reply
  <2>. QED
    BY <2>2, <2>3, <2>4, <2>5
<1>5. CASE UNCHANGED <<table, from, unanswered, shown, hidden>>
  BY <1>5 DEF Quick!Present
<1>. QED
  BY <1>1, <1>2, <1>3, <1>4, <1>5
  DEF TableStep, Quick!quick, Quick!Delete, Quick!Check, Quick!Cancel, Quick!DeleteSelected,
      Quick!CheckAll

LEMMA QuickNext ==
    ASSUME QuickInv, UNCHANGED page, TableStep \/ UNCHANGED quick
    PROVE  QuickInv'
<1>1. CASE TableStep
  BY <1>1, TableTypesNext, ViewsArePlacedNext, MarksNext, WaitsForViewNext DEF QuickInv
<1>2. CASE UNCHANGED quick
  BY <1>2 DEF quick, QuickInv, TableTypes, ViewsArePlaced, WaitsForView, Quick!Present
<1>. QED
  BY <1>1, <1>2

LEMMA QuickInvImplies == QuickInv => Quick!TypeOK /\ TableIsConsistent
<1> SUFFICES ASSUME QuickInv
             PROVE  Quick!TypeOK /\ TableIsConsistent
  OBVIOUS
<1>1. Quick!TypeOK
  <2>1. Quick!Present \subseteq Quick!Row \union Quick!View
    BY DEF QuickInv, TableTypes, Table, Quick!Present, Quick!Range
  <2>2. DOMAIN from \subseteq Quick!View
    BY TableAssumptions DEF QuickInv, TableTypes, Quick!View
  <2>. QED
    BY <2>1, <2>2 DEF QuickInv, TableTypes, Table, Quick!TypeOK
<1>2. Quick!AtMostOneView
  <2> DEFINE V == Quick!Present \intersect Quick!View
  <2>1. \A x, y \in V : x = y
    BY DEF QuickInv, ViewsArePlaced
  <2>2. Quick!Cardinality(V) = Cardinality(V)
    BY DEF Quick!Cardinality, Cardinality, Quick!IsFiniteSet, IsFiniteSet
  <2> HIDE DEF V
  <2>3. Cardinality(V) <= 1
    BY <2>1, AtMostOne
  <2>. QED
    BY <2>2, <2>3 DEF Quick!AtMostOneView, V
<1>3. Quick!LastClickWins
  BY DEF QuickInv, ViewsArePlaced, Quick!LastClickWins
<1>4. page = "tableWaiting" => Slow!HiddenIsReplaced
  <2> SUFFICES ASSUME page = "tableWaiting", NEW r \in hidden
               PROVE  Quick!After(table, r) \subseteq shown /\ Quick!After(table, r) # {}
    BY SlowOperators DEF Slow!HiddenIsReplaced
  <2>1. PICK k \in shown : k \in Quick!After(table, r)
    BY DEF QuickInv, WaitsForView
  <2>2. \A f, g \in Quick!After(table, r) : f = g
    BY AfterIsOne DEF QuickInv, TableTypes
  <2>. QED
    BY <2>1, <2>2
<1>. QED
  BY <1>1, <1>2, <1>3, <1>4 DEF QuickInv, TableIsConsistent, Quick!SelectedIsChecked

-----------------------------------------------------------------------------
(* The list of posts *)

\* The rows are changed as those of a table are.
LEMMA BlogOperators ==
    /\ \A t, S : Blog!Without(t, S) = Quick!Without(t, S)
    /\ \A t, e : Blog!After(t, e) = Quick!After(t, e)
    /\ \A t, e, new : Blog!InsertAfter(t, e, new) = Quick!InsertAfter(t, e, new)
    /\ \A t : Blog!Range(t) = Quick!Range(t) /\ Blog!IsInjective(t) = Quick!IsInjective(t)
BY DEF Blog!Without, Quick!Without, Blog!After, Quick!After, Blog!InsertAfter,
       Quick!InsertAfter, Blog!Place, Quick!Place, Blog!InsertAt, Quick!InsertAt, Blog!Range,
       Quick!Range, Blog!IsInjective, Quick!IsInjective

LEMMA BlogAssumptions ==
    /\ Posts \in Seq(Blog!Post) /\ Quick!IsInjective(Posts) /\ Quick!Range(Posts) = Blog!Post
    /\ MaxViews \in Nat /\ Blog!Post \intersect Nat = {} /\ Blog!Post \intersect Blog!View = {}
    /\ None \notin Blog!Post
BY ListsAssumption, BlogOperators DEF Blog!BlogAssumption, Blog!Post, Blog!View

BlogTypes ==
    /\ loaded \in BOOLEAN
    /\ ~loaded => list = <<>> /\ asked = None /\ fading = {}
    /\ Table(list, Blog!Post \union Blog!View)
    /\ of \in Seq(Blog!Post) /\ Len(of) <= MaxViews
    /\ awaited \subseteq DOMAIN of \ Blog!Present
    /\ Blog!Present \subseteq Blog!Post \union DOMAIN of
    /\ seen \subseteq Blog!Present \intersect Blog!View
    /\ asked \in Blog!Post \union {None} /\ fading \subseteq Blog!Post
    /\ boxed \subseteq Blog!Present

\* The quick view that is seen is below its post, while that is there.
OneIsSeen ==
    /\ \A k, l \in seen : k = l
    /\ \A k \in seen : of[k] \in Blog!Present => k \in Blog!After(list, of[k])

BlogInv == BlogTypes /\ OneIsSeen

LEMMA BlogInit == Blog!Init => BlogInv
<1> SUFFICES ASSUME Blog!Init
             PROVE  BlogInv
  OBVIOUS
<1>1. /\ list \in Seq(Blog!Post \union Blog!View) /\ DOMAIN list = {}
      /\ of \in Seq(Blog!Post) /\ Len(of) = 0
  BY EmptySequence DEF Blog!Init
<1>2. Table(list, Blog!Post \union Blog!View) /\ Blog!Present = {}
  BY <1>1 DEF Table, Quick!IsInjective, Blog!Present, Blog!Range
<1>3. BlogTypes
  <2>1. loaded \in BOOLEAN /\ list = <<>> /\ asked = None /\ fading = {}
    BY DEF Blog!Init
  <2>2. awaited = {} /\ seen = {} /\ boxed = {}
    BY DEF Blog!Init
  <2>3. Len(of) <= MaxViews
    BY <1>1, BlogAssumptions
  <2>. QED
    BY <1>1, <1>2, <2>1, <2>2, <2>3 DEF BlogTypes
<1>4. OneIsSeen
  BY DEF Blog!Init, OneIsSeen
<1>. QED
  BY <1>3, <1>4 DEF BlogInv

\* Rows that go take their marks along and leave the others where they are.
LEMMA PostsStay ==
    ASSUME BlogInv, NEW S, list' = Blog!Without(list, S), loaded, UNCHANGED <<loaded, of, awaited>>,
           seen' \subseteq seen \ S, boxed' = boxed \ S,
           asked' \in Blog!Post \union {None}, fading' \subseteq Blog!Post,
           S \intersect Blog!View = {} => seen' = seen
    PROVE  BlogInv'
<1> USE DEF BlogInv, BlogTypes, OneIsSeen
<1>1. /\ Table(list', Blog!Post \union Blog!View)
      /\ Blog!Present' = Blog!Present \ S
      /\ \A e, f : e \notin S /\ f \notin S /\ f \in Blog!After(list, e)
                     => f \in Blog!After(list', e)
  BY WithoutRows, BlogOperators DEF Blog!Present
<1>2. BlogTypes'
  BY <1>1
<1>3. OneIsSeen'
  BY <1>1
<1>. QED
  BY <1>2, <1>3

LEMMA BlogReply ==
    ASSUME BlogInv, NEW k \in Blog!View, Blog!Reply(k)
    PROVE  BlogInv'
<1> USE DEF BlogInv, BlogTypes, OneIsSeen
<1>1. /\ k \in awaited /\ k \notin Blog!Present /\ awaited' = awaited \ {k}
      /\ UNCHANGED <<loaded, of, asked, fading, boxed>>
  BY DEF Blog!Reply
<1>2. CASE of[k] \in Blog!Present
  <2>1. list' = Blog!InsertAfter(list, of[k], k) /\ seen' = {k}
    BY <1>2 DEF Blog!Reply
  <2>2. /\ Table(list', Blog!Post \union Blog!View)
        /\ Blog!Present' = Blog!Present \union {k}
        /\ k \in Blog!After(list', of[k])
    BY <1>1, <1>2, <2>1, InsertedRow, BlogOperators DEF Blog!Present
  <2>3. loaded
    <3>1. ASSUME ~loaded
          PROVE  Blog!Present = {}
      BY <3>1, EmptySequence DEF Blog!Present, Blog!Range
    <3>. QED
      BY <1>2, <3>1
  <2>4. BlogTypes'
    BY <1>1, <2>1, <2>2, <2>3
  <2>5. OneIsSeen'
    BY <1>1, <2>1, <2>2
  <2>. QED
    BY <2>4, <2>5
<1>3. CASE of[k] \notin Blog!Present
  <2>1. list' = list /\ seen' = {}
    BY <1>3 DEF Blog!Reply
  <2>2. Blog!Present' = Blog!Present
    BY <2>1 DEF Blog!Present
  <2>. QED
    BY <1>1, <2>1, <2>2
<1>. QED
  BY <1>2, <1>3

LEMMA BlogNext == BlogInv /\ [Blog!Next]_blog => BlogInv'
<1> SUFFICES ASSUME BlogInv, [Blog!Next]_blog
             PROVE  BlogInv'
  OBVIOUS
<1> USE DEF BlogInv, BlogTypes, OneIsSeen
<1>0. ~loaded => Blog!Present = {}
  BY EmptySequence DEF Blog!Present, Blog!Range
<1>1. CASE Blog!Load
  <2>1. /\ list' = Posts /\ loaded' = TRUE /\ ~loaded
        /\ UNCHANGED <<of, awaited, seen, asked, fading, boxed>>
    BY <1>1 DEF Blog!Load
  <2>2. seen = {} /\ boxed = {}
    BY <1>0, <2>1
  <2>3. Table(list', Blog!Post \union Blog!View) /\ Blog!Present' = Blog!Post
    <3>1. Posts \in Seq(Blog!Post \union Blog!View)
      BY BlogAssumptions
    <3>. QED
      BY <2>1, <3>1, BlogAssumptions, BlogOperators DEF Table, Blog!Present
  <2>4. DOMAIN of \intersect Blog!Post = {}
    BY BlogAssumptions
  <2>. QED
    BY <2>1, <2>2, <2>3, <2>4
<1>2. ASSUME NEW p \in Blog!Post, Blog!QuickView(p)
      PROVE  BlogInv'
  <2> DEFINE new == Len(of) + 1
  <2>1. /\ Len(of) < MaxViews /\ of' = Append(of, p) /\ awaited' = awaited \union {new}
        /\ UNCHANGED <<loaded, list, seen, asked, fading, boxed>>
    BY <1>2 DEF Blog!QuickView
  <2>2. /\ of' \in Seq(Blog!Post) /\ Len(of') = new /\ DOMAIN of' = 1..new
        /\ Len(of) \in Nat /\ DOMAIN of = 1..Len(of)
        /\ \A i \in 1..Len(of) : of'[i] = of[i]
    BY <2>1, LongerSequence
  <2>3. Len(of') <= MaxViews /\ DOMAIN of' = DOMAIN of \union {new} /\ new \notin DOMAIN of
    BY <2>1, <2>2, BlogAssumptions
  <2>4. new \notin Blog!Present
    BY <2>2, <2>3, BlogAssumptions
  <2>5. Blog!Present' = Blog!Present
    BY <2>1 DEF Blog!Present
  <2>6. \A k \in seen : k \in DOMAIN of
    BY BlogAssumptions
  <2>7. BlogTypes'
    BY <2>1, <2>2, <2>3, <2>4, <2>5
  <2>8. OneIsSeen'
    BY <2>1, <2>2, <2>5, <2>6
  <2>. QED
    BY <2>7, <2>8
<1>3. ASSUME NEW p \in Blog!Post, Blog!Delete(p)
      PROVE  BlogInv'
  BY <1>0, <1>3 DEF Blog!Delete, Blog!Clickable, Blog!Present
<1>4. ASSUME NEW p \in Blog!Post, Blog!FadedOut(p)
      PROVE  BlogInv'
  <2>1. CASE loaded
    <3>1. {p} \intersect Blog!View = {} /\ seen \subseteq seen \ {p}
      BY BlogAssumptions
    <3>. HIDE DEF BlogInv
    <3>2. fading' \subseteq Blog!Post /\ asked' \in Blog!Post \union {None}
      BY <1>4 DEF Blog!FadedOut, BlogInv
    <3>3. /\ list' = Blog!Without(list, {p}) /\ UNCHANGED <<loaded, of, awaited, seen>>
          /\ boxed' = boxed \ {p}
      BY <1>4 DEF Blog!FadedOut
    <3>. QED
      BY <2>1, <3>1, <3>2, <3>3, PostsStay
  <2>2. CASE ~loaded
    <3>1. fading = {}
      BY <2>2
    <3>. QED
      BY <1>4, <3>1 DEF Blog!FadedOut
  <2>. QED
    BY <2>1, <2>2
<1>5. ASSUME NEW k \in Blog!View, Blog!Reply(k)
      PROVE  BlogInv'
  BY <1>5, BlogReply
<1>6. ASSUME NEW k \in Blog!View, Blog!Cancel(k)
      PROVE  BlogInv'
  <2>1. loaded
    BY <1>0, <1>6 DEF Blog!Cancel
  <2>2. /\ list' = Blog!Without(list, {k}) /\ UNCHANGED <<loaded, of, awaited, asked, fading>>
        /\ seen' = seen \ {k} /\ boxed' = boxed \ {k}
    BY <1>6 DEF Blog!Cancel
  <2>3. ~({k} \intersect Blog!View = {})
    OBVIOUS
  <2>4. asked' \in Blog!Post \union {None} /\ fading' \subseteq Blog!Post
    BY <2>2
  <2> HIDE DEF BlogInv
  <2>. QED
    BY <2>1, <2>2, <2>3, <2>4, PostsStay
<1>7. ASSUME NEW yes \in BOOLEAN, Blog!Answer(yes)
      PROVE  BlogInv'
  <2>1. CASE ~yes
    BY <1>7, <2>1 DEF Blog!Answer, Blog!Present
  <2>2. CASE yes
    <3> DEFINE below == Blog!After(list, asked) \intersect Blog!View
    <3>1. /\ list' = Blog!Without(list, below) /\ UNCHANGED <<loaded, of, awaited>>
          /\ seen' = seen \ below /\ boxed' = boxed \ below
          /\ asked' = None /\ fading' = fading \union ({asked} \intersect Blog!Present)
          /\ asked # None
      BY <1>7, <2>2 DEF Blog!Answer
    <3>2. asked \in Blog!Post
      BY <3>1
    <3>3. asked' \in Blog!Post \union {None} /\ fading' \subseteq Blog!Post
      BY <3>1, <3>2
    <3>4. CASE loaded
      <4>1. below \intersect Blog!View = {} => seen' = seen
        BY <3>1
      <4> HIDE DEF below, BlogInv
      <4>. QED
        BY <3>1, <3>3, <3>4, <4>1, PostsStay
    <3>5. CASE ~loaded
      <4>1. asked = None
        BY <3>5
      <4>. QED
        BY <3>1, <4>1
    <3>. QED
      BY <3>4, <3>5
  <2>. QED
    BY <2>1, <2>2
<1>8. ASSUME NEW yes \in BOOLEAN, Blog!CheckAll(yes)
      PROVE  BlogInv'
  BY <1>8 DEF Blog!CheckAll, Blog!Present
<1>9. ASSUME NEW e \in Blog!Post \union Blog!View, Blog!Check(e)
      PROVE  BlogInv'
  BY <1>9 DEF Blog!Check, Blog!Clickable, Blog!Present
<1>10. CASE UNCHANGED blog
  BY <1>10 DEF blog, Blog!Present
<1>. QED
  BY <1>1, <1>2, <1>3, <1>4, <1>5, <1>6, <1>7, <1>8, <1>9, <1>10 DEF Blog!Next

\* The quick view that is seen below a post that is deleted goes with it.
LEMMA ViewGoes ==
    BlogInv /\ [Blog!Next]_blog
      => [\A p \in (fading' \ fading) : \A k \in seen' : of[k] # p]_blog
<1> SUFFICES ASSUME BlogInv, Blog!Next, NEW p \in fading' \ fading, NEW k \in seen', of[k] = p
             PROVE  FALSE
  OBVIOUS
<1>1. PICK yes \in BOOLEAN : Blog!Answer(yes)
  BY DEF Blog!Next, Blog!Load, Blog!QuickView, Blog!Delete, Blog!FadedOut, Blog!Reply,
         Blog!Cancel, Blog!CheckAll, Blog!Check
<1>2. yes
  BY <1>1 DEF Blog!Answer
<1>3. p = asked /\ p \in Blog!Present
  BY <1>1, <1>2 DEF Blog!Answer
<1>4. k \in seen /\ k \notin Blog!After(list, asked) \intersect Blog!View
  BY <1>1, <1>2 DEF Blog!Answer
<1>. QED
  BY <1>3, <1>4 DEF BlogInv, BlogTypes, OneIsSeen

\* The boxes that a step changes: those of posts, or the one of a form.
LEMMA FormsStay ==
    BlogInv /\ [Blog!Next]_blog
      => [\A k \in Blog!View :
             (k \in boxed) # (k \in boxed') => boxed' \ {k} = boxed \ {k}]_blog
<1> SUFFICES ASSUME BlogInv, Blog!Next, NEW k \in Blog!View,
                    (k \in boxed) # (k \in boxed')
             PROVE  boxed' \ {k} = boxed \ {k}
  OBVIOUS
<1>0. k \notin Blog!Post /\ ~(k \in boxed <=> k \in boxed')
  BY BlogAssumptions
<1>1. ASSUME NEW p \in Blog!Post, Blog!FadedOut(p)
      PROVE  FALSE
  BY <1>0, <1>1 DEF Blog!FadedOut
<1>2. ASSUME NEW l \in Blog!View, Blog!Cancel(l)
      PROVE  boxed' \ {k} = boxed \ {k}
  BY <1>0, <1>2 DEF Blog!Cancel
<1>3. ASSUME NEW yes \in BOOLEAN, Blog!Answer(yes)
      PROVE  boxed' \ {k} = boxed \ {k}
  <2> DEFINE below == Blog!After(list, asked) \intersect Blog!View
  <2>1. yes /\ boxed' = boxed \ below
    BY <1>3 DEF Blog!Answer
  <2>2. \A f, g \in below : f = g
    BY AfterIsOne, BlogOperators DEF BlogInv, BlogTypes
  <2> HIDE DEF below
  <2>3. below = {k}
    BY <1>0, <2>1, <2>2
  <2>. QED
    BY <2>1, <2>3
<1>4. ASSUME NEW yes \in BOOLEAN, Blog!CheckAll(yes)
      PROVE  FALSE
  BY <1>0, <1>4 DEF Blog!CheckAll
<1>5. ASSUME NEW e \in Blog!Post \union Blog!View, Blog!Check(e)
      PROVE  boxed' \ {k} = boxed \ {k}
  BY <1>0, <1>5 DEF Blog!Check
<1>. QED
  BY <1>0, <1>1, <1>2, <1>3, <1>4, <1>5
  DEF Blog!Next, Blog!Load, Blog!QuickView, Blog!Delete, Blog!Reply

LEMMA BlogInvImplies == BlogInv => Blog!TypeOK /\ Blog!OneViewBelowItsPost
<1> SUFFICES ASSUME BlogInv
             PROVE  Blog!TypeOK /\ Blog!OneViewBelowItsPost
  OBVIOUS
<1>1. Blog!TypeOK
  BY BlogOperators DEF BlogInv, BlogTypes, Table, Blog!TypeOK
<1>2. Blog!Cardinality(seen) <= 1
  <2>1. Blog!Cardinality(seen) = Cardinality(seen)
    BY DEF Blog!Cardinality, Cardinality, Blog!IsFiniteSet, IsFiniteSet
  <2>. QED
    BY <2>1, AtMostOne DEF BlogInv, OneIsSeen
<1>. QED
  BY <1>1, <1>2 DEF BlogInv, OneIsSeen, Blog!OneViewBelowItsPost

-----------------------------------------------------------------------------
(* The page *)

(* A step of the page is a step or a stutter of each of its scripts. *)
LEMMA PageStep ==
    ASSUME [PagesNext]_pageVars
    PROVE  /\ UNCHANGED page
           /\ HeaderStep \/ UNCHANGED header
           /\ [Nav!Next]_nav /\ [Menu!Next]_menu /\ [Layout!Next]_layout
           /\ TableStep \/ UNCHANGED quick
           /\ [Blog!Next]_blog /\ [Next]_vars /\ [Bar!Next]_bars /\ [Chart!Next]_chart
<1> USE DEF On, Others, HeaderPages, TablePages
<1>1. CASE On({"header"}) /\ Eager!Next
  BY <1>1, EagerStep
<1>2. CASE On({"headerWaiting"}) /\ Waiting!Next
  BY <1>2, WaitingStep
<1>3. CASE On({"headerOutside"}) /\ Outside!Next
  BY <1>3, OutsideStep
<1>4. CASE \/ On({"menuBar"}) /\ Nav!Next
           \/ On({"sideMenu"}) /\ Menu!Next
           \/ On({"layout"}) /\ Layout!Next
  BY <1>4
<1>5. CASE \/ On({"table"}) /\ Quick!Next
           \/ On({"tableWaiting"}) /\ Slow!Next
           \/ On({"blog"}) /\ Blog!Next
  BY <1>5, QuickStep, SlowStep
<1>6. CASE \/ On({"inbox"}) /\ Next
           \/ On({"pagination"}) /\ Bar!Next
           \/ On({"chart"}) /\ Chart!Next
  BY <1>6
<1>7. CASE UNCHANGED pageVars
  BY <1>7 DEF pageVars
<1>. QED
  BY <1>1, <1>2, <1>3, <1>4, <1>5, <1>6, <1>7 DEF PagesNext

\* The invariant of a behaviour: every script's, those that do not run included.
PagesInv ==
    /\ page \in KindsOfPages
    /\ HeaderInv /\ NavInv /\ MenuInv /\ LayoutInv /\ QuickInv /\ BlogInv
    /\ InboxInv /\ BarInv /\ ChartInv

LEMMA PagesInitially == PagesInit => PagesInv
BY HeaderInit, NavInit, MenuInit, LayoutInit, QuickInit, BlogInit, InboxInit, BarInit, ChartInit
DEF PagesInit, PagesInv

LEMMA PagesNextStep == PagesInv /\ [PagesNext]_pageVars => PagesInv'
<1> SUFFICES ASSUME PagesInv, [PagesNext]_pageVars
             PROVE  PagesInv'
  OBVIOUS
<1>1. /\ UNCHANGED page
      /\ HeaderStep \/ UNCHANGED header
      /\ [Nav!Next]_nav /\ [Menu!Next]_menu /\ [Layout!Next]_layout
      /\ TableStep \/ UNCHANGED quick
      /\ [Blog!Next]_blog /\ [Next]_vars /\ [Bar!Next]_bars /\ [Chart!Next]_chart
  BY PageStep
<1>2. HeaderInv' /\ QuickInv'
  BY <1>1, HeaderNext, QuickNext DEF PagesInv
<1>3. NavInv' /\ MenuInv' /\ LayoutInv'
  BY <1>1, NavNext, MenuNext, LayoutNext DEF PagesInv
<1>4. BlogInv' /\ InboxInv' /\ BarInv' /\ ChartInv'
  BY <1>1, BlogNext, InboxNext, BarNext, ChartNext DEF PagesInv
<1>. QED
  BY <1>1, <1>2, <1>3, <1>4 DEF PagesInv

LEMMA PagesInductive == PagesSpec => []PagesInv
BY PagesInitially, PagesNextStep, PTL DEF PagesSpec

(* Every variable of every script keeps its type, on every page.             *)
THEOREM PagesTypes == PagesSpec => []PagesTypeOK
<1>1. PagesInv => PagesTypeOK
  BY HeaderInvImplies, NavInvImplies, MenuInvImplies, QuickInvImplies, BlogInvImplies,
     BarInvImplies
  DEF PagesInv, PagesTypeOK, LayoutInv, InboxInv, ChartInv
<1>. QED
  BY PagesInductive, <1>1, PTL

(* The mark of .userinfo agrees with its drop down; for a user who waits for  *)
(* the server there is a box or the drop down, never both, and for one who    *)
(* shuts the box from outside its tab is its list, after any number of clicks *)
(* and replies.                                                               *)
THEOREM HeaderIsConsistent == PagesSpec => []HeaderTakesTurns
<1>1. PagesInv => HeaderTakesTurns
  BY HeaderInvImplies DEF PagesInv
<1>. QED
  BY PagesInductive, <1>1, PTL

(* Any menu bar keeps its items and their order through any sequence of widths, *)
(* and shows the part of its current item whatever the server owes; any side    *)
(* menu keeps its sub menus, its labels, one open, and its button's mark.       *)
THEOREM NavigationStaysWhole == PagesSpec => []NavigationIsWhole
<1>1. PagesInv => NavigationIsWhole
  BY NavInvImplies, MenuInvImplies DEF PagesInv, NavigationIsWhole
<1>. QED
  BY PagesInductive, <1>1, PTL

(* A page that was resized to a width, through whichever others, is laid out  *)
(* as one that was loaded at that width.                                      *)
THEOREM ResizedAsLoaded == PagesSpec => []AsIfJustLoaded
<1>1. PagesInv => AsIfJustLoaded
  BY DEF PagesInv, LayoutInv
<1>. QED
  BY PagesInductive, <1>1, PTL

(* For any table: however clicks and replies are mixed there is one quick view *)
(* at most, in the end the one asked for last, below its row; marks and boxes  *)
(* agree; and no row is hidden without its quick view for a user who waits.    *)
THEOREM TableStaysConsistent == PagesSpec => []TableIsConsistent
<1>1. PagesInv => TableIsConsistent
  BY QuickInvImplies DEF PagesInv
<1>. QED
  BY PagesInductive, <1>1, PTL

(* For any list of posts: one quick view is seen, below its post; it goes with *)
(* its post; and checking all posts leaves the boxes of the forms alone.       *)
THEOREM PostsStayConsistent == PagesSpec => BlogIsConsistent
<1>1. PagesInv => Blog!OneViewBelowItsPost
  BY BlogInvImplies DEF PagesInv
<1>2. PagesInv /\ [PagesNext]_pageVars
        => [\A p \in (fading' \ fading) : \A k \in seen' : of[k] # p]_(Blog!vars)
  BY PageStep, ViewGoes DEF PagesInv, Blog!vars, blog
<1>3. PagesInv /\ [PagesNext]_pageVars
        => [\A k \in Blog!View :
               (k \in boxed) # (k \in boxed') => boxed' \ {k} = boxed \ {k}]_(Blog!vars)
  BY PageStep, FormsStay DEF PagesInv, Blog!vars, blog
<1>. QED
  BY PagesInductive, <1>1, <1>2, <1>3, PTL
  DEF PagesSpec, BlogIsConsistent, Blog!ViewGoesWithPost, Blog!FormsAreKept

(* Marks, tools and lists of the inbox follow its boxes.                      *)
THEOREM InboxIsConsistent == PagesSpec => []InboxFollowsBoxes
<1>1. PagesInv => InboxFollowsBoxes
  BY DEF PagesInv, InboxInv, InboxFollowsBoxes
<1>. QED
  BY PagesInductive, <1>1, PTL

(* A bar of several pages, however many, has one current page, and its        *)
(* buttons are disabled at its ends and nowhere else.                         *)
THEOREM BarsKnowEnds == PagesSpec => []PaginationKnowsEnds
<1>1. PagesInv => PaginationKnowsEnds
  BY BarInvImplies DEF PagesInv
<1>. QED
  BY PagesInductive, <1>1, PTL

(* The tooltip is that of the position the pointer is at, in any chart.       *)
THEOREM TipsFollowPointer == PagesSpec => []TipFollowsPointer
<1>1. PagesInv => TipFollowsPointer
  BY DEF PagesInv, ChartInv
<1>. QED
  BY PagesInductive, <1>1, PTL
=============================================================================
