------------------------------ MODULE Accounts ------------------------------
(***************************************************************************)
(* What the wallet promises, without requests, locks or transactions: an   *)
(* account changes by one booking at a time, which records the balance     *)
(* before and after, is made once for each top-up and each order, and      *)
(* never overdraws the account.                                            *)
(***************************************************************************)
EXTENDS Integers, Sequences

CONSTANTS Students, Refs, Amounts, Opening

VARIABLES
  balance,   \* of each student
  ledger,    \* the bookings of each student
  booked     \* the top-ups and orders booked so far

vars == <<balance, ledger, booked>>

Init ==
  /\ balance = Opening
  /\ ledger = [s \in Students |-> <<>>]
  /\ booked = {}

Book(s, direction, n, after, ref) ==
  /\ balance' = [balance EXCEPT ![s] = after]
  /\ ledger' = [ledger EXCEPT ![s] = Append(@,
       [direction |-> direction, amount |-> n, before |-> balance[s],
        after |-> after, ref |-> ref])]
  /\ booked' = booked \cup {ref}

Credit(s, n, ref) == Book(s, "CREDIT", n, balance[s] + n, ref)

Debit(s, n, ref) ==
  /\ balance[s] >= n
  /\ Book(s, "DEBIT", n, balance[s] - n, ref)

Next ==
  \E s \in Students, n \in Amounts, ref \in Refs \ booked :
    Credit(s, n, ref) \/ Debit(s, n, ref)

Spec == Init /\ [][Next]_vars
=============================================================================
