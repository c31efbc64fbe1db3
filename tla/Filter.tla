------------------------------- MODULE Filter -------------------------------
(***************************************************************************)
(* A sequence with only some of its elements (Rust's retain and filter),   *)
(* defined by their positions and not recursively, so that it can be       *)
(* reasoned about.                                                         *)
(***************************************************************************)
EXTENDS Naturals, FiniteSets

\* The n-th smallest of a set of positions.
Nth(positions, n) == CHOOSE i \in positions : Cardinality({j \in positions : j <= i}) = n

Picked(s, positions) == [n \in 1 .. Cardinality(positions) |-> s[Nth(positions, n)]]

=============================================================================
