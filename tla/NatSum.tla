------------------------------- MODULE NatSum -------------------------------
(***************************************************************************)
(* The sum of a function from a finite set to the natural numbers.  The    *)
(* sum is the number of unit pieces the function counts out: one pair      *)
(* <<x, k>> for every k from 1 to f[x].  Stated with Cardinality instead   *)
(* of recursion, what an update does to a sum follows from the library's   *)
(* theorems on finite sets, with no induction over the data.               *)
(***************************************************************************)
EXTENDS Naturals, FiniteSets

\* The unit pieces at x, when f assigns n to x.
Column(x, n) == {x} \X (1..n)

\* All unit pieces f counts out.
Units(f) == UNION {Column(x, f[x]) : x \in DOMAIN f}

Total(f) == Cardinality(Units(f))
=============================================================================
