------------------------------ MODULE StableSort ------------------------------
(* Sorting as the standard library of Rust does it in the fixtures: slices   *)
(* of integers, and slices of values by an integer key.  Equal keys stay in  *)
(* the order they had.  Written with ranks, so that it can be reasoned about *)
(* without recursion.                                                        *)
EXTENDS Integers, FiniteSets

\* The integers in S by their keys: the k-th of them is the one that has k - 1
\* others before it.
StableOrder(S, key) ==
    LET before(j, i) == key[j] < key[i] \/ (key[j] = key[i] /\ j < i)
    IN  [k \in 1 .. Cardinality(S) |->
            CHOOSE i \in S : Cardinality({j \in S : before(j, i)}) = k - 1]

\* The sequence s of integers, sorted.
Ascending(s) == [k \in DOMAIN s |-> s[StableOrder(DOMAIN s, s)[k]]]
=============================================================================
