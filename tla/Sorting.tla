------------------------------ MODULE Sorting -------------------------------
(***************************************************************************)
(* The sorts of the code, of distinct elements by a total order. The order *)
(* is a set of pairs, so that it can be reasoned about.                    *)
(***************************************************************************)
EXTENDS Integers, Sequences, FiniteSets

\* The elements of a finite set, each at its place.
Ranked(S, before) ==
    [i \in 1 .. Cardinality(S) |->
         CHOOSE x \in S : Cardinality({y \in S : <<y, x>> \in before}) = i - 1]

\* What makes an order total on a set.
TotalOn(S, before) ==
    /\ \A x \in S : <<x, x>> \notin before
    /\ \A x, y \in S : x # y => <<x, y>> \in before \/ <<y, x>> \in before
    /\ \A x, y, z \in S : <<x, y>> \in before /\ <<y, z>> \in before => <<x, z>> \in before

\* s lists the elements of S, each of them once, in the order.
Lists(s, S, before) ==
    /\ s \in Seq(S) /\ Len(s) = Cardinality(S)
    /\ \A x \in S : \E i \in 1 .. Len(s) : s[i] = x
    /\ \A i, j \in 1 .. Len(s) : i < j => <<s[i], s[j]>> \in before
=============================================================================
