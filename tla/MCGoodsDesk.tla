------------------------------ MODULE MCGoodsDesk -----------------------------
(* Instances of GoodsDesk for model checking. *)
EXTENDS GoodsDesk, TLC

CONSTANTS d1, d2, p1, p2, o1, o2

\* One order of two lines, one of a single line.
TwoOrders ==
  o1 :> (p1 :> 2 @@ p2 :> 1) @@ o2 :> (p1 :> 1 @@ p2 :> 0)

\* Part of a line; all of the first order; more than was ordered.
SomeDeliveries == {p1 :> 1, p1 :> 2 @@ p2 :> 1}

DeskSymmetry == Permutations(Desks)
===============================================================================
