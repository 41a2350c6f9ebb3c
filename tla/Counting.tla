------------------------------ MODULE Counting ------------------------------
(***************************************************************************)
(* What the proofs take from the theory of finite sets, as formulas that   *)
(* their lemmas assume.  Each proof module shows at its end that they hold.*)
(***************************************************************************)
EXTENDS Integers, FiniteSets

\* The parts of a finite set are counted: a part that gains or loses a member counts one more
\* or one less, and only the empty part counts nothing.
Counts(whole) ==
  /\ Cardinality({}) = 0
  /\ \A x : Cardinality({x}) = 1
  /\ \A S \in SUBSET whole :
       /\ Cardinality(S) \in Nat
       /\ Cardinality(S) = 0 => S = {}
       /\ \A x \in S : Cardinality(S \ {x}) = Cardinality(S) - 1
       /\ \A x \in whole \ S : Cardinality(S \cup {x}) = Cardinality(S) + 1

\* The positions of a list are counted: there are n up to n, and some of them are at most as many.
CountsPositions ==
  /\ \A n \in Nat : Cardinality(1..n) = n
  /\ \A n \in Nat : \A S \in SUBSET (1..n) : Cardinality(S) \in 0..n

=============================================================================
