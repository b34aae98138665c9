------------------------------ MODULE MCWallet ------------------------------
(* An instance of Wallet for TLC: what the students own, owe and order.    *)
EXTENDS Wallet

CONSTANTS ann, bob, t1, t2, o1, u1, u2

OneOfOpening == [s \in Students |-> 1]
AnnsOrders == [o \in Orders |-> ann]
TotalOfTwo == [o \in Orders |-> 2]
=============================================================================
