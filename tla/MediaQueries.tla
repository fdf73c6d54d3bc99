---------------------------- MODULE MediaQueries ----------------------------
(***************************************************************************)
(* plugins/css3-mediaqueries.js, for browsers without media queries. The   *)
(* page is moved off the screen, the style sheets are fetched and parsed,  *)
(* and the media lists that match the window are added as styles of their  *)
(* own; then the page comes back. A resized window is tested again half a  *)
(* second later, and a style a script adds is tested when it is parsed.    *)
(*                                                                         *)
(* A sheet is one media list: a set of queries [exps, not], where an       *)
(* expression is [of, rel, value, unit]. Where the code keeps sheets in a   *)
(* list, the model keeps their set: a style added during a parse is parsed *)
(* by it and once more by its callback, and may be in a list twice.        *)
(* Fetching, the DOM and the timers are the browser's.                     *)
(***************************************************************************)
EXTENDS Integers, FiniteSets

CONSTANTS
    Links,       \* the style sheets the page links to
    InPage,      \* its style elements
    Scripted,    \* the styles its scripts add
    Query,       \* the media list of each of them: Query[s] is a set of queries
    Device,      \* Device[f]: what the screen has of feature f, besides "width"
    UnitOf,      \* UnitOf[f]: the unit feature f is given in
    NoValue,     \* the value of an expression without one
    ScrollBar,   \* the width of a scroll bar
    Thresholds,  \* how little a window may change without a new test: 0, and in
                 \* Internet Explorer the width of a scroll bar
    Late,        \* a reply may take more than five seconds
    Widths,      \* the widths of the window
    MaxResizes   \* bound: how often it is resized

Test == "test"   \* the callback that tests all lists

Sheets == Links \union InPage \union Scripted

SheetsAssumption ==
    /\ Links \intersect InPage = {} /\ Links \intersect Scripted = {}
    /\ InPage \intersect Scripted = {} /\ Test \notin Scripted
    /\ IsFiniteSet(Links) /\ IsFiniteSet(InPage) /\ IsFiniteSet(Scripted)
SizesAssumption ==
    /\ ScrollBar \in Nat /\ Thresholds \subseteq {0, ScrollBar}
    /\ Widths \subseteq Nat /\ (\A w \in Widths : w > ScrollBar)
    /\ MaxResizes \in Nat

VARIABLES
    ready,     \* the document is complete, the listeners are there
    phase,     \* of the parse: "none", "parsing" or "parsed"
    request,   \* per link: "none", "sent", "overdue", "text", "failed" or "lost"
    waiting,   \* the callbacks that wait for the parse: Test or a scripted style
    elements,  \* the style elements in the document
    parsed,    \* the sheets parsed
    lists,     \* the media lists cached from them, once asked for
    asked,     \* they have been
    added,     \* the sheets whose lists are added as styles
    page,      \* "off" the screen, "due" to come back, or "shown"
    width,     \* of the window
    barred,    \* has the page a scroll bar?
    seen,      \* the width remembered at the last resize that counted
    threshold, \* the one of this browser, which does not change
    timer,     \* a test is due after a resize
    resizes

files == <<ready, phase, request, waiting, elements>>
styles == <<parsed, lists, asked, added>>
window == <<width, barred, seen, threshold, timer, resizes>>
vars == <<files, styles, page, window>>

TypeOK ==
    /\ ready \in BOOLEAN /\ phase \in {"none", "parsing", "parsed"}
    /\ request \in [Links -> {"none", "sent", "overdue", "text", "failed", "lost"}]
    /\ waiting \subseteq Scripted \union {Test}
    /\ InPage \subseteq elements /\ elements \subseteq InPage \union Scripted
    /\ parsed \subseteq Sheets /\ added \subseteq parsed /\ lists \subseteq parsed
    /\ asked \in BOOLEAN
    /\ page \in {"off", "due", "shown"}
    /\ width \in Widths /\ barred \in BOOLEAN /\ threshold \in Thresholds
    /\ seen \in Widths \union {w - ScrollBar : w \in Widths} /\ timer \in BOOLEAN
    /\ resizes \in 0 .. MaxResizes

\* What the page has of the window, which is what its queries are about.
Client == IF barred THEN width - ScrollBar ELSE width

\* getViewportWidth, which a resize is measured by: innerWidth, and clientWidth in
\* Internet Explorer, which has no innerWidth as long as it needs this plugin.
Viewport == IF threshold = 0 THEN width ELSE Client

\* The script has run, the page is not yet complete.
Init ==
    /\ ready = FALSE /\ phase = "none" /\ request = [l \in Links |-> "none"]
    /\ waiting = {} /\ elements = InPage
    /\ parsed = {} /\ lists = {} /\ asked = FALSE /\ added = {}
    /\ page = "off"
    /\ width \in Widths /\ barred \in BOOLEAN /\ threshold \in Thresholds
    /\ seen = Viewport /\ timer = FALSE /\ resizes = 0

-----------------------------------------------------------------------------
\* Is expression e true in a page of width w? The value has to be of the
\* feature's unit; max- is below the value, not up to it; and a number without
\* a unit is compared as text, so that it equals nothing.
Feature(e, w) ==
    LET have == IF e.of = "width" THEN w ELSE Device[e.of]
    IN IF e.value = NoValue THEN have > 0
       ELSE /\ e.unit = UnitOf[e.of]
            /\ \/ e.rel = "min" /\ have >= e.value
               \/ e.rel = "max" /\ have < e.value
               \/ e.rel = "is" /\ have = e.value /\ e.unit # "number"

\* A query of no expressions is left to the browser.
QueryHolds(q, w) == q.exps # {} /\ (q.not # \A e \in q.exps : Feature(e, w))

Matches(s, w) == \E q \in Query[s] : QueryHolds(q, w)

\* The sheets in list whose queries match now: these are added as styles.
Matching(list) == {s \in list : Matches(s, Client)}

\* A test tells its listener, which brings the page back a moment later.
PageAfterTest == IF page = "off" THEN "due" ELSE page

\* Mutant: a style is not put among those parsed.
CallBacksUnparsed(sheets, kept, cbs) ==
    LET scripts == cbs \ {Test}
    IN /\ parsed' = sheets
       /\ asked' = (asked \/ Test \in cbs)
       /\ lists' = CASE asked -> lists \union scripts
                    [] ~asked /\ Test \in cbs -> sheets \union scripts
                    [] OTHER -> lists
       /\ added' = kept \union (IF Test \in cbs THEN Matching(lists') ELSE {})
                        \union (IF ready THEN Matching(scripts) ELSE {})
       /\ page' = IF ready \/ cbs = {Test} THEN PageAfterTest ELSE page

\* The callbacks after the parse of these sheets; kept are the styles added
\* before. A scripted style is parsed, put beside the lists that are cached,
\* and tested alone, if the listener for it is there. The test asks for all
\* lists, which are cached from then on. It waits only after the listener has
\* been added: in whatever order they run, each style has been tested.
CallBacks(sheets, kept, cbs) ==
    LET scripts == cbs \ {Test}
    IN /\ parsed' = sheets \union scripts
       /\ asked' = (asked \/ Test \in cbs)
       /\ lists' = CASE asked -> lists \union scripts
                    [] ~asked /\ Test \in cbs -> sheets \union scripts
                    [] OTHER -> lists
       /\ added' = kept \union (IF Test \in cbs THEN Matching(lists') ELSE {})
                        \union (IF ready THEN Matching(scripts) ELSE {})
       /\ page' = IF ready \/ cbs = {Test} THEN PageAfterTest ELSE page

\* All replies are in: the links with a text and every style element in the
\* document are parsed, and the callbacks run.
Finish(req, cbs, els) ==
    /\ phase' = "parsed"
    /\ CallBacks({l \in Links : req[l] = "text"} \union els, added, cbs)

\* cssHelper.parsed(cb): at once, after the parse under way, or after the one
\* it starts by asking for every link.
Parsed(cb, els, kept) ==
    CASE phase = "parsed" ->
            /\ CallBacks(parsed, kept, {cb})
            /\ UNCHANGED <<phase, request, waiting>>
      [] phase = "parsing" ->
            /\ waiting' = waiting \union {cb}
            /\ added' = kept
            /\ UNCHANGED <<phase, request, parsed, lists, asked, page>>
      [] OTHER ->
            /\ waiting' = waiting \union {cb}
            /\ request' = [l \in Links |-> "sent"]
            /\ IF Links = {} THEN Finish(request', waiting', els)
               ELSE /\ phase' = "parsing" /\ UNCHANGED <<styles, page>>

\* The document is complete: the listeners are added, all lists are tested.
Ready ==
    /\ ~ready
    /\ ready' = TRUE
    /\ Parsed(Test, elements, added)
    /\ UNCHANGED <<elements, window>>

-----------------------------------------------------------------------------
Unanswered(req) == {l \in Links : req[l] \in {"sent", "overdue", "lost"}}

\* Mutant: a failed request is not counted.
ReplyUncounted(l, ok) ==
    /\ request[l] = "sent"
    /\ request' = [request EXCEPT ![l] = IF ok THEN "text" ELSE "failed"]
    /\ IF Unanswered(request') = {} /\ ok
       THEN Finish(request', waiting, elements)
       ELSE UNCHANGED <<phase, styles, page>>
    /\ UNCHANGED <<ready, waiting, elements, window>>

\* A reply within five seconds, with the sheet or an error.
Reply(l, ok) ==
    /\ request[l] = "sent"
    /\ request' = [request EXCEPT ![l] = IF ok THEN "text" ELSE "failed"]
    /\ IF Unanswered(request') = {}
       THEN Finish(request', waiting, elements)
       ELSE UNCHANGED <<phase, styles, page>>
    /\ UNCHANGED <<ready, waiting, elements, window>>

\* After five seconds the reply is not waited for any more.
Overdue(l) ==
    /\ Late /\ request[l] = "sent"
    /\ request' = [request EXCEPT ![l] = "overdue"]
    /\ UNCHANGED <<ready, phase, waiting, elements, styles, page, window>>

\* It comes nevertheless, and neither callback is called.
LateReply(l) ==
    /\ request[l] = "overdue"
    /\ request' = [request EXCEPT ![l] = "lost"]
    /\ UNCHANGED <<ready, phase, waiting, elements, styles, page, window>>

\* The listener's timer brings the page back.
ShowPage ==
    /\ page = "due"
    /\ page' = "shown"
    /\ UNCHANGED <<files, styles, window>>

\* A script adds a style, to be parsed.
AddStyle(s) ==
    /\ s \in Scripted \ elements
    /\ elements' = elements \union {s}
    /\ Parsed(s, elements', added)
    /\ UNCHANGED <<ready, window>>

\* The handler of a resize: when the window has changed enough the timer starts
\* anew.
OnResize ==
    LET counts == Viewport' - seen > threshold \/ seen - Viewport' > threshold
    IN  /\ timer' = (timer \/ counts)
        /\ seen' = IF counts THEN Viewport' ELSE seen

\* The window is resized.
Resize(w) ==
    /\ ready /\ resizes < MaxResizes /\ w \in Widths \ {width}
    /\ width' = w /\ resizes' = resizes + 1
    /\ UNCHANGED <<files, styles, page, barred, threshold>>
    /\ OnResize

\* The page gets too long for the window or short enough, be it by the styles that
\* were added: a scroll bar comes or goes. Only Internet Explorer tells.
Overflow ==
    /\ ready /\ barred' = ~barred
    /\ UNCHANGED <<files, styles, page, width, threshold, resizes>>
    /\ IF threshold = 0 THEN UNCHANGED <<seen, timer>> ELSE OnResize

\* Mutant: the styles of the last test stay.
TimerKeeps ==
    /\ timer
    /\ timer' = FALSE
    /\ Parsed(Test, elements, added)
    /\ UNCHANGED <<ready, elements, width, barred, seen, threshold, resizes>>

\* Half a second after the last resize that counted, the styles added are
\* removed and all lists are tested again.
Timer ==
    /\ timer
    /\ timer' = FALSE
    /\ Parsed(Test, elements, {})
    /\ UNCHANGED <<ready, elements, width, barred, seen, threshold, resizes>>

Next ==
    \/ Ready
    \/ \E l \in Links : (\E ok \in BOOLEAN : Reply(l, ok)) \/ Overdue(l) \/ LateReply(l)
    \/ ShowPage
    \/ \E s \in Scripted : AddStyle(s)
    \/ \E w \in Widths : Resize(w)
    \/ Overflow
    \/ Timer

Spec == Init /\ [][Next]_vars

\* The document completes, requests are answered and timers fire.
Fairness ==
    /\ WF_vars(Ready) /\ WF_vars(ShowPage) /\ WF_vars(Timer)
    /\ \A l \in Links : WF_vars(\E ok \in BOOLEAN : Reply(l, ok))

FairSpec == Spec /\ Fairness

-----------------------------------------------------------------------------
\* No parse waits for nothing: as long as it goes on a reply is missing, one
\* that was in time to be counted or one that will not be.
ParseWaitsForReply == phase = "parsing" => Unanswered(request) # {}

\* The lists cached are those of all sheets parsed, whatever was parsed after
\* they were first asked for.
CacheIsWhole == asked => lists = parsed

\* With no test to come, each sheet is added or not as it should be in the page
\* as it is, in one with or without the scroll bar, or, in Internet Explorer, in
\* one that differs by what two small resizes may do.
AddedAsWindow ==
    ready /\ ~timer /\ phase = "parsed" =>
        \A s \in parsed :
            \E w \in IF threshold = 0 THEN {width - ScrollBar, width}
                   ELSE Client - 2 * threshold .. Client + 2 * threshold :
                s \in added <=> Matches(s, w)

\* The page comes back, if no reply is late.
PageComesBack == <>(page = "shown")

\* Once the window is left alone its styles are those of its width, with or
\* without a scroll bar, but where small changes do not count.
StylesFollowWindow ==
    threshold = 0 =>
        <>[](\A s \in parsed : \E w \in {width - ScrollBar, width} :
                 s \in added <=> Matches(s, w))
=============================================================================
