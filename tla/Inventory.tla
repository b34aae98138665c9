----------------------------- MODULE Inventory ------------------------------
(***************************************************************************)
(* What the stock service promises, without threads, locks, transactions   *)
(* or clocks: units of an item move, in one step, from the shelf to a hold *)
(* of one order, and from there either to the order for good or, all of    *)
(* them, back to the shelf.                                                *)
(***************************************************************************)
EXTENDS Integers, FiniteSets, FiniteSetsExt

CONSTANTS Orders, Items, Stocked

VARIABLES
  shelf,   \* units of each item that can still be promised
  hold     \* what each order has been promised of each item

Holds == Orders \X Items
Nothing == [state |-> "none", qty |-> 0]
HeldBy(o) == {k \in Holds : k[1] = o /\ hold[k].state = "held"}

Init ==
  /\ shelf = Stocked
  /\ hold = [k \in Holds |-> Nothing]

\* At most one promise per order and item, never of more than there is.
Promise(k, n) ==
  /\ hold[k] = Nothing
  /\ n \in 1 .. shelf[k[2]]
  /\ shelf' = [shelf EXCEPT ![k[2]] = @ - n]
  /\ hold' = [hold EXCEPT ![k] = [state |-> "held", qty |-> n]]

\* An order is sold everything it holds, at once.
Sell(o) ==
  /\ HeldBy(o) # {}
  /\ hold' = [k \in Holds |-> IF k \in HeldBy(o) THEN [hold[k] EXCEPT !.state = "sold"]
                                                 ELSE hold[k]]
  /\ UNCHANGED shelf

\* The holds S end and all their units are back on the shelf.
PutBack(S) ==
  /\ S # {}
  /\ \A k \in S : hold[k].state = "held"
  /\ hold' = [k \in Holds |-> IF k \in S THEN [hold[k] EXCEPT !.state = "back"]
                                         ELSE hold[k]]
  /\ shelf' = [i \in Items |->
       shelf[i] + MapThenSumSet(LAMBDA k : hold[k].qty, {k \in S : k[2] = i})]

Next ==
  \/ \E k \in Holds : \E n \in 1 .. shelf[k[2]] : Promise(k, n)
  \/ \E o \in Orders : Sell(o)
  \/ \E S \in SUBSET Holds : PutBack(S)

Spec == Init /\ [][Next]_<<shelf, hold>>
=============================================================================
