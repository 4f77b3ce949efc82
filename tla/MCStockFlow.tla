----------------------------- MODULE MCStockFlow ------------------------------
(* Instances of StockFlow for model checking. *)
EXTENDS StockFlow

CONSTANTS p1, p2, s1, s2

OneProduct  == {p1}
TwoProducts == {p1, p2}
OneSale     == {s1}
TwoSales    == {s1, s2}
===============================================================================
