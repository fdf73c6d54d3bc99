------------------------------ MODULE BlogPosts ------------------------------
(***************************************************************************)
(* custom/blog.js: the list of posts, loaded once; the quick view that is  *)
(* inserted when the server has replied; the deletion of a post, which     *)
(* asks with jConfirm (AlertDialogs) while replies keep coming in; and the *)
(* box that checks all posts.                                              *)
(***************************************************************************)
EXTENDS TableRows

CONSTANTS
    Posts,     \* the posts of ajax/blog/allposts.html, in their order
    MaxViews,  \* bound: how often a quick view is asked for
    Nobody     \* no question is up

BlogAssumption ==
    /\ Posts \in Seq(Range(Posts)) /\ IsInjective(Posts) /\ Range(Posts) \intersect Nat = {}
    /\ MaxViews \in Nat /\ Nobody \notin Range(Posts)

Post == Range(Posts)

\* A quick view is named by the number of the request for it.
View == 1 .. MaxViews

VARIABLES
    loaded,   \* has the list come?
    table,    \* the rows: posts and quick views, or <<>> before
    from,     \* of each request so far: the post it is for
    pending,  \* the requests without a reply
    shown,    \* the quick views that are not hidden
    asked,    \* the post whose deletion jConfirm asks about, or Nobody
    fading,   \* the posts that fade out
    checked   \* the posts and the quick views with a checked box

vars == <<loaded, table, from, pending, shown, asked, fading, checked>>

Present == Range(table)

TypeOK ==
    /\ loaded \in BOOLEAN
    /\ IsInjective(table) /\ Present \subseteq Post \union DOMAIN from
    /\ from \in Seq(Post) /\ pending \subseteq DOMAIN from
    /\ shown \subseteq Present \intersect View
    /\ asked \in Post \union {Nobody} /\ fading \subseteq Post
    /\ checked \subseteq Present

Init ==
    /\ loaded = FALSE /\ table = <<>>
    /\ from = <<>> /\ pending = {} /\ shown = {}
    /\ asked = Nobody /\ fading = {} /\ checked = {}
-----------------------------------------------------------------------------
\* What is clicked on: a row that is there, while no question covers the page.
Clickable(e) == e \in Present /\ asked = Nobody

\* The first post of the page: the list.
Load ==
    /\ ~loaded /\ loaded' = TRUE
    /\ table' = Posts
    /\ UNCHANGED <<from, pending, shown, asked, fading, checked>>

QuickView(p) ==
    /\ p \in Post /\ Clickable(p) /\ Len(from) < MaxViews
    /\ from' = Append(from, p)
    /\ pending' = pending \union {Len(from) + 1}
    /\ UNCHANGED <<loaded, table, shown, asked, fading, checked>>

\* The reply: a new quick view below its post, every other one is hidden. If
\* the post is gone nothing is inserted, and the others are hidden all the same.
Reply(k) ==
    /\ k \in pending /\ pending' = pending \ {k}
    /\ IF from[k] \in Present
       THEN /\ table' = InsertAfter(table, from[k], k)
            /\ shown' = {k}
       ELSE UNCHANGED table /\ shown' = {}
    /\ UNCHANGED <<loaded, from, asked, fading, checked>>

\* The cancel button of a quick view.
Cancel(k) ==
    /\ k \in shown /\ Clickable(k)
    /\ table' = Without(table, {k})
    /\ shown' = shown \ {k}
    /\ checked' = checked \ {k}
    /\ UNCHANGED <<loaded, from, pending, asked, fading>>

\* The delete link: jConfirm.
Delete(p) ==
    /\ p \in Post /\ Clickable(p)
    /\ asked' = p
    /\ UNCHANGED <<loaded, table, from, pending, shown, fading, checked>>

\* Mutant: the quick view stays.
AnswerPost(yes) ==
    /\ asked # Nobody /\ asked' = Nobody
    /\ fading' = IF yes THEN fading \union {asked} ELSE fading
    /\ UNCHANGED <<loaded, table, from, pending, shown, checked>>

\* The answer, some replies later: the row after the post goes, if it is a
\* quick view, and the post starts to fade.
Answer(yes) ==
    /\ asked # Nobody /\ asked' = Nobody
    /\ IF yes
       THEN LET below == After(table, asked) \intersect View
            IN  /\ table' = Without(table, below)
                /\ shown' = shown \ below /\ checked' = checked \ below
                /\ fading' = fading \union ({asked} \intersect Present)
       ELSE UNCHANGED <<table, shown, checked, fading>>
    /\ UNCHANGED <<loaded, from, pending>>

FadedOut(p) ==
    /\ p \in fading /\ fading' = fading \ {p}
    /\ table' = Without(table, {p})
    /\ checked' = checked \ {p}
    /\ UNCHANGED <<loaded, from, pending, shown, asked>>

\* .checkall: every box but those in a quick view.
CheckAll(on) ==
    /\ asked = Nobody
    /\ checked' = (checked \ Post) \union (IF on THEN Present \ View ELSE {})
    /\ UNCHANGED <<loaded, table, from, pending, shown, asked, fading>>

\* One box, of a post or in the form of a quick view.
Check(e) ==
    /\ Clickable(e) /\ (e \in View => e \in shown)
    /\ checked' = (checked \ {e}) \union ({e} \ checked)
    /\ UNCHANGED <<loaded, table, from, pending, shown, asked, fading>>

Next ==
    \/ Load
    \/ \E p \in Post : QuickView(p) \/ Delete(p) \/ FadedOut(p)
    \/ \E k \in View : Reply(k) \/ Cancel(k)
    \/ \E yes \in BOOLEAN : Answer(yes) \/ CheckAll(yes)
    \/ \E e \in Post \union View : Check(e)

Spec == Init /\ [][Next]_vars
-----------------------------------------------------------------------------
\* However the replies come in, one quick view at most is to be seen, and it is
\* right below its post, unless that was deleted.
OneViewBelowItsPost ==
    /\ Cardinality(shown) <= 1
    /\ \A k \in shown : from[k] \in Present => k \in After(table, from[k])

\* When a post is deleted its quick view is gone with it, although it may have
\* come in while the question was up, as may a second one for the same post.
ViewGoesWithPost ==
    [][\A p \in (fading' \ fading) : \A k \in shown' : from[k] # p]_vars

\* The box in the form of a quick view changes on its own or goes with the form:
\* (un)checking all posts leaves it as it is.
FormsAreKept ==
    [][\A k \in View :
          (k \in checked) # (k \in checked') => checked' \ {k} = checked \ {k}]_vars
=============================================================================
