---------------------------- MODULE AtomicCache ----------------------------
(***************************************************************************)
(* What LocalCacheService promises its callers: a map whose entries carry  *)
(* an expiry date, and whose operations look atomic.  There is no lock     *)
(* here, no half-done call and no background task: an entry appears in one *)
(* step, disappears in one step, and a lookup is answered from the map and *)
(* the clock of one single instant.  LocalCache implements this module.    *)
(***************************************************************************)
EXTENDS Integers

CONSTANTS
    Threads,  \* the callers
    Keys,     \* the cache keys
    Values,   \* the cached objects
    Nil       \* Java's null: no entry, no question, no answer

VARIABLES
    now,      \* the wall clock
    entries,  \* entries[k]: the entry of key k, or Nil
    asked,    \* asked[t]: the key thread t is waiting for, or Nil
    answer    \* answer[t]: what the last lookup of t returned, or Nil

vars == <<now, entries, asked, answer>>

Entry == [value : Values, expire : Int]

\* The value a lookup of k must return at this instant.
Current(k) ==
    IF entries[k] # Nil /\ entries[k].expire > now
    THEN entries[k].value
    ELSE Nil

Init ==
    /\ now = 0
    /\ entries = [k \in Keys |-> Nil]
    /\ asked = [t \in Threads |-> Nil]
    /\ answer = [t \in Threads |-> Nil]

Put(k) ==
    /\ entries'[k] \in Entry
    /\ entries' = [entries EXCEPT ![k] = entries'[k]]
    /\ UNCHANGED <<now, asked, answer>>

Remove(k) ==
    /\ entries' = [entries EXCEPT ![k] = Nil]
    /\ UNCHANGED <<now, asked, answer>>

Ask(t, k) ==
    /\ asked[t] = Nil
    /\ asked' = [asked EXCEPT ![t] = k]
    /\ answer' = [answer EXCEPT ![t] = Nil]
    /\ UNCHANGED <<now, entries>>

\* The linearization point of a lookup.
Answer(t) ==
    /\ asked[t] # Nil
    /\ answer' = [answer EXCEPT ![t] = Current(asked[t])]
    /\ asked' = [asked EXCEPT ![t] = Nil]
    /\ UNCHANGED <<now, entries>>

Clock ==
    /\ now' \in Int
    /\ UNCHANGED <<entries, asked, answer>>

Next ==
    \/ \E k \in Keys : Put(k) \/ Remove(k)
    \/ \E t \in Threads, k \in Keys : Ask(t, k)
    \/ \E t \in Threads : Answer(t)
    \/ Clock

Spec == Init /\ [][Next]_vars
=============================================================================
