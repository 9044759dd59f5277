-------------------------------- MODULE Sums --------------------------------
(***************************************************************************)
(* The sum of a function over a finite set, one element at a time.  It is  *)
(* a recursive function, so that TLC evaluates it and SumTheorems can say  *)
(* what it computes.                                                       *)
(***************************************************************************)
EXTENDS Integers, FiniteSets

SumOver(f, S) ==
  LET sum[T \in SUBSET S] ==
        IF T = {} THEN 0
        ELSE LET x == CHOOSE x \in T : TRUE IN f[x] + sum[T \ {x}]
  IN  sum[S]
=============================================================================
