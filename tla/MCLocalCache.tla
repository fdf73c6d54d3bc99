---------------------------- MODULE MCLocalCache ----------------------------
(* Small instances of LocalCache for TLC. *)
EXTENDS LocalCache, TLC

\* Callers, keys and values are interchangeable; sound for safety only.
Symmetry == Permutations(Threads) \union Permutations(Keys) \union Permutations(Values)

\* A clock that only moves forward, and one that may be set back by one unit.
Monotone == {}
OneBack == {1}

TtlZeroAndOne == {0, 1}
=============================================================================
