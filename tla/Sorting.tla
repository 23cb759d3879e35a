------------------------------ MODULE Sorting ------------------------------
(***************************************************************************)
(* list.sort(key=...) and list comprehensions with an if, for the lists    *)
(* the models index by position: which elements come out, and in what      *)
(* order.  A key is a pair of numbers, compared as Python compares tuples. *)
(***************************************************************************)
EXTENDS Integers, FiniteSets

KeyBefore(a, b) == a[1] < b[1] \/ (a[1] = b[1] /\ a[2] < b[2])

\* The elements of I by ascending key; the keys of different elements differ.
SortedBy(I, key) ==
    [n \in 1..Cardinality(I) |->
        CHOOSE i \in I : Cardinality({j \in I : ~KeyBefore(key[i], key[j])}) = n]

\* The elements of s at the positions I, in the order of s.
Picks(s, I) ==
    LET order == SortedBy(I, [i \in I |-> <<0, i>>])
    IN [n \in DOMAIN order |-> s[order[n]]]
=============================================================================
