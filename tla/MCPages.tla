------------------------------ MODULE MCPages ------------------------------
(* Small instances of Pages for TLC. *)
EXTENDS Pages

CONSTANTS r1, r2, p1, p2

\* As in index.html, two items share a part.
MCItems == <<"i1", "i2", "i3", "i4">>
MCTarget == [i1 |-> "part1", i2 |-> "part2", i3 |-> "part3", i4 |-> "part3"]

\* The entries of index.html with a sub menu, of different lengths.
MCSub == [forms |-> <<"basic", "wizard">>, error |-> <<"notfound">>,
          addons |-> <<"newsfeed", "profile", "gallery">>]
MCEntries == DOMAIN MCSub

MCTableRows == <<r1, r2>>
MCPosts == <<p1, p2>>
=============================================================================
