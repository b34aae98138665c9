---------------------------- MODULE MCOrderSaga -----------------------------
(* Instances of OrderSaga for TLC.                                         *)
EXTENDS OrderSaga

CONSTANTS ann, apple, bread, k1

OneEach == [i \in Items |-> 1]
OneApiece == [i \in Items |-> 1]
TwoOfOpening == [s \in Students |-> 2]
OneAppleTwoBreads == [i \in Items |-> IF i = apple THEN 1 ELSE 2]
ThreeOfOpening == [s \in Students |-> 3]

Asks(k, lines) == [student |-> ann, key |-> k, lines |-> lines]
Of(i) == [item |-> i, qty |-> 1]

\* Ann wants an apple; an apple and two breads; an apple, and an apple.
AnnsOrders ==
  {Asks(k1, <<Of(apple)>>), Asks(None, <<Of(apple)>>),
   Asks(k1, <<Of(apple), [item |-> bread, qty |-> 2]>>), Asks(None, <<Of(apple), Of(apple)>>)}

\* Only the first, sent again and again.
AnnsRetries == {Asks(k1, <<Of(apple)>>)}
=============================================================================
