----------------------------- MODULE TableRows -----------------------------
(***************************************************************************)
(* The rows of a table as jQuery changes them for custom/tables.js and     *)
(* custom/blog.js: a table is the sequence of its tr elements.             *)
(***************************************************************************)
EXTENDS Integers, FiniteSets, SequencesExt

\* next(): the element after e, if e is in the table and not the last.
After(t, e) == {t[i] : i \in {j \in DOMAIN t : j > 1 /\ t[j - 1] = e}}

\* remove(): the elements of S go, the others keep their order.
Without(t, S) ==
    LET kept[n \in 0 .. Len(t)] ==
            IF n = 0 THEN <<>>
            ELSE IF t[n] \in S THEN kept[n - 1] ELSE Append(kept[n - 1], t[n])
    IN  kept[Len(t)]

Place(t, e) == CHOOSE i \in DOMAIN t : t[i] = e

\* after(): a new element right behind e, which is there.
InsertAfter(t, e, new) == InsertAt(t, Place(t, e) + 1, new)
=============================================================================
