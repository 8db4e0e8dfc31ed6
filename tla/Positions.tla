------------------------------- MODULE Positions -------------------------------
(***************************************************************************)
(* Loops over a sequence that keep or skip elements, as functions of the   *)
(* positions they keep.  Nothing here is recursive but Chain, so that      *)
(* theorems can be proved about the modules that use it.                   *)
(***************************************************************************)
EXTENDS Integers, Sequences, FiniteSets

\* How many of the positions P are at most i.
Rank(P, i) == Cardinality({j \in P : j <= i})

\* The k-th of the positions P.
Nth(P, k) == CHOOSE i \in P : Rank(P, i) = k

\* The elements of s at the positions P, in their order.
Pick(s, P) == [k \in 1 .. Cardinality(P) |-> s[Nth(P, k)]]

\* A scan of the positions 1 .. n: it takes piece[i] and goes on at next[i] > i.
Chain(n, piece, next) ==
    LET from[i \in 1 .. n + 1] == IF i > n THEN <<>> ELSE piece[i] \o from[next[i]]
    IN  from[1]

=============================================================================
