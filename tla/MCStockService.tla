--------------------------- MODULE MCStockService ---------------------------
(* Instances of StockService for TLC.                                      *)
EXTENDS StockService, TLC

CONSTANTS o1, o2, apple, bread, t1, t2

\* Every order may reserve every item, one unit each.
SingleUnits == [order : Orders, item : Items, qty : {1}]

\* Requests repeated with another quantity, or with none.
Quantities == [order : Orders, item : Items, qty : 0 .. 2]

OneEach == [i \in Items |-> 1]
TwoEach == [i \in Items |-> 2]

ThreadSymmetry == Permutations({t1, t2})
=============================================================================
