------------------------------- MODULE Tables -------------------------------
(***************************************************************************)
(* The std::unordered_map tables of the components, as partial functions, *)
(* and the unsigned 64-bit arithmetic of their counters.  Word stands for  *)
(* 2^64; only subtractions may wrap, the bounds of every model keep sums   *)
(* below Word.                                                             *)
(***************************************************************************)
EXTENDS Integers

CONSTANT Word

ASSUME WordAssumption == Word \in Nat \ {0}

\* A table that was just constructed.
EmptyTable == [k \in {} |-> 0]

\* table[k] = v : inserts, or silently overwrites the entry already there.
Put(table, k, v) == [x \in DOMAIN table \cup {k} |-> IF x = k THEN v ELSE table[x]]

\* uint64_t a - b.
Minus(a, b) == IF b <= a THEN a - b ELSE (a - b) + Word
=============================================================================
