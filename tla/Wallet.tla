------------------------------- MODULE Wallet -------------------------------
(***************************************************************************)
(* The students' accounts: top-ups, which the order gateway and the        *)
(* payment service both create and settle with the same statements, and    *)
(* POST /payments/process, which debits an account for an order.           *)
(*                                                                         *)
(* Every request is one PostgreSQL transaction at READ COMMITTED; a step   *)
(* is one statement that takes a lock, together with the statements before *)
(* the next one.  The variables are what is committed; what a transaction  *)
(* has locked follows from its statement and its request.                  *)
(***************************************************************************)
EXTENDS Integers, Sequences, FiniteSets

CONSTANTS
  Students,
  Topups,        \* topup ids to be drawn by uuid4
  Orders,        \* orders in the orders table
  Keys,          \* values of the Idempotency-Key header
  Amounts,       \* amounts of top-ups
  Threads,       \* threads of the two services' request pools
  None,          \* no student, no top-up or order, no key
  Opening,       \* students.account_balance before the first request
  Customer,      \* orders.student_id
  Total,         \* orders.total_amount
  MaxFaults      \* bound on lost connections and restarts

ASSUME WalletAssumption ==
  /\ Amounts \subseteq Nat \ {0}
  /\ Opening \in [Students -> Nat]
  /\ Customer \in [Orders -> Students]
  /\ Total \in [Orders -> Nat \ {0}]
  /\ MaxFaults \in Nat
  /\ Topups \cap Orders = {}
  /\ None \notin Students \cup Topups \cup Orders \cup Keys

VARIABLES
  balance,       \* students.account_balance
  ledger,        \* wallet_transactions of each student, by id
  topup,         \* wallet_topups
  paid,          \* orders with a row in payments (UNIQUE order_id)
  cancelled,     \* orders with status CANCELLED
  pc,            \* the next statement of each thread
  req,           \* what each thread is asked for, and has looked up
  seen,          \* account_balance as read under the row lock
  faults

tables == <<balance, ledger, topup, paid, cancelled>>
threads == <<pc, req, seen>>
vars == <<tables, threads, faults>>

NoTopup == [status |-> "none", student |-> None, amount |-> 0, key |-> None]
NoReq == [kind |-> "none", ref |-> None, student |-> None, amount |-> 0,
          key |-> None, flag |-> FALSE]

Init ==
  /\ balance = Opening
  /\ ledger = [s \in Students |-> <<>>]
  /\ topup = [id \in Topups |-> NoTopup]
  /\ paid = {}
  /\ cancelled = {}
  /\ pc = [t \in Threads |-> "idle"]
  /\ req = [t \in Threads |-> NoReq]
  /\ seen = [t \in Threads |-> 0]
  /\ faults = 0

-----------------------------------------------------------------------------
(* Row locks.  A transaction that has inserted a top-up holds the key-share *)
(* lock of its foreign key on the student's row until it ends; FOR UPDATE   *)
(* conflicts with it.                                                       *)

HasRow(t, ref) == pc[t] \in {"student", "credit", "debit"} /\ req[t].ref = ref
HasStudent(t, s) == pc[t] \in {"credit", "debit"} /\ req[t].student = s
HasShare(t, s) ==
  pc[t] \in {"student", "credit"} /\ req[t].kind = "topup" /\ req[t].student = s

\* Mutant: the top-up is read without FOR UPDATE.
RowFreeUnlocked(t, ref) == TRUE

RowFree(t, ref) == \A u \in Threads \ {t} : ~HasRow(u, ref)

\* Mutant: the balance is read without FOR UPDATE.
StudentFreeUnlocked(t, s) == TRUE

\* Mutant: the top-up is settled on a connection of its own, which waits for
\* the one that has inserted it.
StudentFreeOnce(t, s) == \A u \in Threads : ~HasStudent(u, s) /\ ~HasShare(u, s)

StudentFree(t, s) ==
  \A u \in Threads \ {t} : ~HasStudent(u, s) /\ ~HasShare(u, s)

\* The unique index makes an INSERT wait for the transaction that has
\* inserted the same key.
KeyFree(t, s, k) ==
  \A u \in Threads \ {t} : HasShare(u, s) => k = None \/ req[u].key # k

Topped(s, k) == \E id \in Topups : topup[id].student = s /\ topup[id].key = k

\* Mutant: no unique index on (student_id, idempotency_key).
KeyUnchecked(s, k) == FALSE

KeyTaken(s, k) == k # None /\ Topped(s, k)

-----------------------------------------------------------------------------

Reply(t) ==
  /\ pc' = [pc EXCEPT ![t] = "idle"]
  /\ req' = [req EXCEPT ![t] = NoReq]
  /\ seen' = [seen EXCEPT ![t] = 0]

Goto(t, l) == pc' = [pc EXCEPT ![t] = l]

Fault == faults < MaxFaults /\ faults' = faults + 1

Entry(t, direction, after) ==
  [direction |-> direction, amount |-> req[t].amount, before |-> seen[t],
   after |-> after, ref |-> req[t].ref]

\* UPDATE students and INSERT INTO wallet_transactions.
Book(t, direction, new, after) ==
  LET s == req[t].student IN
  /\ balance' = [balance EXCEPT ![s] = new]
  /\ ledger' = [ledger EXCEPT ![s] = Append(@, Entry(t, direction, after))]

\* Mutant: the balance is not compared.
CoveredUnchecked(s, n) == TRUE

Covered(s, n) == balance[s] >= n

\* SELECT account_balance ... FOR UPDATE, the last lock of every transaction.
\* A payment the balance does not cover is refused.
LockStudent(t) ==
  LET s == req[t].student IN
  /\ pc[t] = "student"
  /\ StudentFree(t, s)
  /\ IF req[t].kind = "pay" /\ ~Covered(s, req[t].amount)
     THEN Reply(t)
     ELSE /\ Goto(t, IF req[t].kind = "pay" THEN "debit" ELSE "credit")
          /\ seen' = [seen EXCEPT ![t] = balance[s]]
          /\ UNCHANGED req
  /\ UNCHANGED <<tables, faults>>

-----------------------------------------------------------------------------
(* POST /api/wallet/topups and POST /wallet/topups/mock                    *)

\* The bound on top-ups: an id is left for every request that is served.
IdsLeft ==
  Cardinality({t \in Threads : req[t].kind = "topup"})
    < Cardinality({id \in Topups : topup[id].status = "none"})

\* flag: demo mode, which settles the top-up in the same transaction.
CallTopup(t, s, n, k, demo) ==
  /\ pc[t] = "idle"
  /\ IdsLeft \/ KeyTaken(s, k)
  /\ Goto(t, IF k = None THEN "insert" ELSE "replay")
  /\ req' = [req EXCEPT ![t] = [kind |-> "topup", ref |-> None, student |-> s,
                                amount |-> n, key |-> k, flag |-> demo]]
  /\ UNCHANGED <<tables, seen, faults>>

\* A top-up of this student with this key is answered again.
FindReplay(t) ==
  /\ pc[t] = "replay"
  /\ IF Topped(req[t].student, req[t].key)
     THEN Reply(t)
     ELSE Goto(t, "insert") /\ UNCHANGED <<req, seen>>
  /\ UNCHANGED <<tables, faults>>

\* In normal mode the INSERT is committed at once; it fails on a key that
\* another request has committed since the SELECT.
InsertTopup(t) ==
  LET s == req[t].student
      k == req[t].key IN
  /\ pc[t] = "insert"
  /\ \A u \in Threads \ {t} : ~HasStudent(u, s)
  /\ KeyFree(t, s, k)
  /\ IF KeyTaken(s, k)
     THEN Reply(t) /\ UNCHANGED topup
     ELSE \E id \in Topups :
            /\ topup[id].status = "none"
            /\ RowFree(t, id)
            /\ IF req[t].flag
               THEN /\ req' = [req EXCEPT ![t].ref = id]
                    /\ Goto(t, "student")
                    /\ UNCHANGED <<topup, seen>>
               ELSE /\ topup' = [topup EXCEPT ![id] =
                         [status |-> "PENDING", student |-> s,
                          amount |-> req[t].amount, key |-> k]]
                    /\ Reply(t)
  /\ UNCHANGED <<balance, ledger, paid, cancelled, faults>>

-----------------------------------------------------------------------------
(* POST .../wallet/webhook/{provider} of both services, and                *)
(* POST /api/admin/wallet/topups/{id}/review                               *)

\* flag: SUCCESS, or approve.
CallSettle(t, id, ok) ==
  /\ pc[t] = "idle"
  /\ topup[id].status # "none"
  /\ Goto(t, "settle")
  /\ req' = [req EXCEPT ![t] = [NoReq EXCEPT !.kind = "settle", !.ref = id, !.flag = ok]]
  /\ UNCHANGED <<tables, seen, faults>>

\* SELECT ... FOR UPDATE.  What is settled already is answered again.
LockTopup(t) ==
  LET id == req[t].ref IN
  /\ pc[t] = "settle"
  /\ RowFree(t, id)
  /\ \/ /\ topup[id].status = "PENDING" /\ req[t].flag
        /\ req' = [req EXCEPT ![t].student = topup[id].student,
                              ![t].amount = topup[id].amount,
                              ![t].key = topup[id].key]
        /\ Goto(t, "student")
        /\ UNCHANGED <<topup, seen>>
     \/ /\ topup[id].status = "PENDING" /\ ~req[t].flag
        /\ topup' = [topup EXCEPT ![id].status = "FAILED"]
        /\ Reply(t)
     \/ /\ topup[id].status # "PENDING"
        /\ Reply(t)
        /\ UNCHANGED topup
  /\ UNCHANGED <<balance, ledger, paid, cancelled, faults>>

\* Mutant: the top-up is credited and stays pending.
StaysPending == "PENDING"

Settled == "COMPLETED"

\* The new balance is written from the one read under the lock; COMMIT.
Credit(t) ==
  LET after == seen[t] + req[t].amount IN
  /\ pc[t] = "credit"
  /\ Book(t, "CREDIT", after, after)
  /\ topup' = [topup EXCEPT ![req[t].ref] =
       [status |-> Settled, student |-> req[t].student,
        amount |-> req[t].amount, key |-> req[t].key]]
  /\ Reply(t)
  /\ UNCHANGED <<paid, cancelled, faults>>

-----------------------------------------------------------------------------
(* POST /payments/process                                                  *)

CallPay(t, o) ==
  /\ pc[t] = "idle"
  /\ Goto(t, "existing")
  /\ req' = [req EXCEPT ![t] = [NoReq EXCEPT !.kind = "pay", !.ref = o,
                                             !.student = Customer[o], !.amount = Total[o]]]
  /\ UNCHANGED <<tables, seen, faults>>

\* A payment of this order is answered again.
FindPayment(t) ==
  /\ pc[t] = "existing"
  /\ IF req[t].ref \in paid
     THEN Reply(t)
     ELSE Goto(t, "order") /\ UNCHANGED <<req, seen>>
  /\ UNCHANGED <<tables, faults>>

\* Mutant: the status of the order is not looked at.
PayableUnchecked(o) == TRUE

Payable(o) == o \notin cancelled

\* SELECT ... FROM orders ... FOR UPDATE
LockOrder(t) ==
  /\ pc[t] = "order"
  /\ RowFree(t, req[t].ref)
  /\ IF Payable(req[t].ref)
     THEN Goto(t, "student") /\ UNCHANGED <<req, seen>>
     ELSE Reply(t)
  /\ UNCHANGED <<tables, faults>>

\* Mutant: payments.order_id is not unique.
PaymentUnchecked(o) == TRUE

PaymentUnique(o) == o \notin paid

\* UPDATE, both INSERTs and COMMIT.  The payment's INSERT fails if another
\* request has paid the order since the first SELECT, and takes the debit
\* with it.
Debit(t) ==
  LET s == req[t].student IN
  /\ pc[t] = "debit"
  /\ IF PaymentUnique(req[t].ref)
     THEN /\ Book(t, "DEBIT", balance[s] - req[t].amount, seen[t] - req[t].amount)
          /\ paid' = paid \cup {req[t].ref}
     ELSE UNCHANGED <<balance, ledger, paid>>
  /\ Reply(t)
  /\ UNCHANGED <<topup, cancelled, faults>>

-----------------------------------------------------------------------------

\* u keeps t from the student's row.
Blocks(u, t) ==
  /\ pc[t] = "student" /\ u # t
  /\ HasStudent(u, req[t].student) \/ HasShare(u, req[t].student)

\* PostgreSQL aborts a transaction of a cycle of waits: two demo top-ups of
\* one student, each with the key share that the other waits for.
DeadlockVictim(t) ==
  /\ \E C \in SUBSET Threads :
       /\ t \in C
       /\ \A u \in C : (\E v \in C : Blocks(v, u)) /\ (\E v \in C : Blocks(u, v))
  /\ Reply(t)
  /\ UNCHANGED <<tables, faults>>

\* The connection breaks before the COMMIT: the transaction is rolled back.
ConnectionLost(t) ==
  /\ pc[t] # "idle"
  /\ Fault
  /\ Reply(t)
  /\ UNCHANGED tables

\* The services die and are started again.
Restart ==
  /\ Fault
  /\ pc' = [t \in Threads |-> "idle"]
  /\ req' = [t \in Threads |-> NoReq]
  /\ seen' = [t \in Threads |-> 0]
  /\ UNCHANGED tables

\* The gateway gives up on an order: UPDATE orders SET status = 'CANCELLED'.
MarkCancelled(o) ==
  /\ \A t \in Threads : ~HasRow(t, o)
  /\ cancelled' = cancelled \cup {o}
  /\ UNCHANGED <<balance, ledger, topup, paid, threads, faults>>

Topup(t) == FindReplay(t) \/ InsertTopup(t)
Settle(t) == LockTopup(t) \/ Credit(t)
Pay(t) == FindPayment(t) \/ LockOrder(t) \/ Debit(t)
Step(t) == Topup(t) \/ Settle(t) \/ Pay(t) \/ LockStudent(t)

Next ==
  \/ \E t \in Threads :
       \/ \E s \in Students : \E n \in Amounts : \E k \in Keys \cup {None} :
            \E demo \in BOOLEAN : CallTopup(t, s, n, k, demo)
       \/ \E id \in Topups : \E ok \in BOOLEAN : CallSettle(t, id, ok)
       \/ \E o \in Orders : CallPay(t, o)
       \/ Step(t)
       \/ DeadlockVictim(t) \/ ConnectionLost(t)
  \/ \E o \in Orders : MarkCancelled(o)
  \/ Restart

\* PostgreSQL queues the waiters of a row, so none is passed over for ever,
\* and it breaks cycles of waits.
Fairness ==
  /\ \A t \in Threads : SF_vars(Step(t))
  /\ WF_vars(\E t \in Threads : DeadlockVictim(t))

Spec == Init /\ [][Next]_vars
FairSpec == Spec /\ Fairness

-----------------------------------------------------------------------------
(* Properties                                                              *)

Entries == [direction : {"CREDIT", "DEBIT"}, amount : Nat \ {0}, before : Nat,
            after : Nat, ref : Topups \cup Orders]

\* Every variable has its type; in particular no balance is ever negative.
TypeOK ==
  /\ balance \in [Students -> Nat]
  /\ ledger \in [Students -> Seq(Entries)]
  /\ topup \in [Topups -> [status : {"none", "PENDING", "COMPLETED", "FAILED"},
                           student : Students \cup {None}, amount : Nat,
                           key : Keys \cup {None}]]
  /\ paid \subseteq Orders
  /\ cancelled \subseteq Orders
  /\ pc \in [Threads -> {"idle", "replay", "insert", "settle", "student", "credit",
                         "existing", "order", "debit"}]
  /\ req \in [Threads -> [kind : {"none", "topup", "settle", "pay"},
                          ref : Topups \cup Orders \cup {None},
                          student : Students \cup {None}, amount : Nat,
                          key : Keys \cup {None}, flag : BOOLEAN]]
  /\ seen \in [Threads -> Nat]
  /\ faults \in 0 .. MaxFaults

Signed(e) == IF e.direction = "CREDIT" THEN e.amount ELSE -e.amount

\* The ledger accounts for the balance: each entry starts from the balance
\* the entry before has left, the first from the opening balance, and the
\* last has left the balance the student has.  Top-ups write a balance they
\* have read, payments subtract from the one there is.
LedgerChains ==
  \A s \in Students :
    LET L == ledger[s] IN
    /\ \A n \in 1 .. Len(L) :
         /\ L[n].before = IF n = 1 THEN Opening[s] ELSE L[n - 1].after
         /\ L[n].after = L[n].before + Signed(L[n])
    /\ balance[s] = IF L = <<>> THEN Opening[s] ELSE L[Len(L)].after

Booked(s) == {ledger[s][n].ref : n \in 1 .. Len(ledger[s])}

\* A top-up is credited to its student when it is completed and an order
\* debited to its customer when it is paid, each once, whatever webhooks,
\* reviews and repeated requests have come for it.
BookedOnce ==
  /\ \A s \in Students :
       Booked(s) = {id \in Topups : topup[id].status = "COMPLETED" /\ topup[id].student = s}
                     \cup {o \in paid : Customer[o] = s}
  /\ \A s \in Students : \A m, n \in 1 .. Len(ledger[s]) :
       ledger[s][m].ref = ledger[s][n].ref => m = n

\* A student's request repeated with its key makes one top-up, also when both
\* requests are being served at the same time.
OneTopupPerKey ==
  \A id, jd \in Topups :
    topup[id].key # None /\ topup[id].key = topup[jd].key
      /\ topup[id].student = topup[jd].student => id = jd

\* A cancelled order is not debited any more: the payment looks at the status
\* under the lock of the row, and keeps the lock until it has paid.
CancelledNotDebited ==
  [][\A o \in Orders : o \in paid' \ paid => o \notin cancelled]_<<paid, cancelled>>

\* What has been settled stays as it is.
SettledForGood ==
  [][\A id \in Topups :
       /\ topup[id].status \in {"COMPLETED", "FAILED"} => topup'[id] = topup[id]
       /\ topup[id].status # "none" => /\ topup'[id].student = topup[id].student
                                       /\ topup'[id].amount = topup[id].amount]_topup

\* Every request is answered: no transactions wait for each other for ever.
RequestsAnswered ==
  \A t \in Threads : pc[t] # "idle" ~> pc[t] = "idle"

\* A booking is a completed top-up or a payment.
Account == INSTANCE Accounts WITH
  Refs <- Topups \cup Orders,
  Amounts <- Amounts \cup {Total[o] : o \in Orders},
  booked <- {id \in Topups : topup[id].status = "COMPLETED"} \cup paid

\* However the statements of two services' requests interleave, the accounts
\* change by one atomic booking at a time.
ImplementsAccounts == Account!Spec
=============================================================================
