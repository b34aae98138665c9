---------------------------- MODULE WalletProofs ----------------------------
(***************************************************************************)
(* What the statements of concurrent top-ups, settlements and payments     *)
(* keep true, for any number of students, requests and orders.             *)
(***************************************************************************)
EXTENDS Wallet, TLAPS

(* The inductive invariant.  A transaction is known by its next statement: *)
(* what it has been asked for, what it has found in the rows it has locked *)
(* and what no other transaction can hold at the same time.                *)

Labels == {"idle", "replay", "insert", "settle", "student", "credit",
           "existing", "order", "debit"}
HasARow == {"student", "credit", "debit"}
HasBalance == {"credit", "debit"}

\* Each statement belongs to one kind of request.
Asked(t) ==
  /\ pc[t] \in {"replay", "insert"} =>
       /\ req[t].kind = "topup" /\ req[t].student \in Students /\ req[t].amount \in Amounts
  /\ pc[t] = "settle" => req[t].kind = "settle" /\ req[t].ref \in Topups
  /\ pc[t] \in {"existing", "order", "debit"} => req[t].kind = "pay"
  /\ pc[t] = "student" => req[t].kind \in {"topup", "settle", "pay"}
  /\ pc[t] = "credit" => req[t].kind \in {"topup", "settle"}
  /\ pc[t] # "idle" /\ req[t].kind = "pay" =>
       /\ req[t].ref \in Orders
       /\ req[t].student = Customer[req[t].ref]
       /\ req[t].amount = Total[req[t].ref]

\* The request has an id of its own, and its key is not taken.
BacksTopup(t) ==
  /\ req[t].ref \in Topups /\ topup[req[t].ref].status = "none"
  /\ req[t].student \in Students /\ req[t].amount \in Amounts
  /\ ~KeyTaken(req[t].student, req[t].key)

\* The request has looked up a pending top-up.
BacksSettle(t) ==
  LET id == req[t].ref IN
  /\ id \in Topups /\ topup[id].status = "PENDING"
  /\ req[t].student = topup[id].student
  /\ req[t].amount = topup[id].amount
  /\ req[t].key = topup[id].key

\* What a transaction has found under its locks is still there.
Backed(t) ==
  /\ pc[t] \in HasARow =>
       /\ req[t].kind = "topup" => BacksTopup(t)
       /\ req[t].kind = "settle" => BacksSettle(t)
       /\ req[t].kind = "pay" => req[t].ref \notin cancelled
  /\ pc[t] \in HasBalance => seen[t] = balance[req[t].student]
  /\ pc[t] = "debit" => seen[t] >= req[t].amount

\* Two transactions have no row, no balance and no key in common.
Apart(t, u) ==
  /\ pc[t] \in HasARow /\ pc[u] \in HasARow => req[t].ref # req[u].ref
  /\ pc[t] \in HasBalance =>
       ~HasStudent(u, req[t].student) /\ ~HasShare(u, req[t].student)
  /\ pc[u] \in HasBalance =>
       ~HasStudent(t, req[u].student) /\ ~HasShare(t, req[u].student)
  /\ HasShare(t, req[t].student) /\ HasShare(u, req[t].student) =>
       req[t].key = None \/ req[t].key # req[u].key

TopupsShaped ==
  \A id \in Topups :
    /\ topup[id].status = "none" => topup[id] = NoTopup
    /\ topup[id].status # "none" => topup[id].student \in Students /\ topup[id].amount \in Amounts

IInv ==
  /\ TypeOK
  /\ \A t \in Threads : Asked(t)
  /\ \A t \in Threads : Backed(t)
  /\ \A t, u \in Threads : t # u => Apart(t, u)
  /\ TopupsShaped
  /\ OneTopupPerKey
  /\ LedgerChains
  /\ BookedOnce

-----------------------------------------------------------------------------
(* Steps of one thread                                                     *)

Requests == [kind : {"none", "topup", "settle", "pay"},
             ref : Topups \cup Orders \cup {None}, student : Students \cup {None},
             amount : Nat, key : Keys \cup {None}, flag : BOOLEAN]

Rows == [status : {"none", "PENDING", "COMPLETED", "FAILED"},
         student : Students \cup {None}, amount : Nat, key : Keys \cup {None}]

\* The statement of one thread; the others stay where they are.
Moved(t) ==
  /\ pc' \in [Threads -> Labels]
  /\ req' \in [Threads -> Requests]
  /\ seen' \in [Threads -> Nat]
  /\ \A u \in Threads \ {t} : pc'[u] = pc[u] /\ req'[u] = req[u] /\ seen'[u] = seen[u]

LEMMA InitInvariant == Init => IInv
<1> SUFFICES ASSUME Init PROVE IInv
  OBVIOUS
<1>1. TypeOK
  <2>1. ledger \in [Students -> Seq(Entries)]
    BY DEF Init
  <2>2. topup \in [Topups -> Rows]
    BY DEF Init, Rows, NoTopup
  <2>3. req \in [Threads -> Requests]
    BY DEF Init, Requests, NoReq
  <2> QED
    BY WalletAssumption, <2>1, <2>2, <2>3 DEF Init, TypeOK, Rows, Requests
<1>2. TopupsShaped /\ OneTopupPerKey
  BY DEF Init, TopupsShaped, OneTopupPerKey, NoTopup
<1>3. LedgerChains
  BY DEF Init, LedgerChains
<1>4. BookedOnce
  BY DEF Init, BookedOnce, Booked, NoTopup
<1>5. (\A t \in Threads : Asked(t) /\ Backed(t)) /\ \A t, u \in Threads : Apart(t, u)
  BY DEF Init, Asked, Backed, Apart, HasStudent, HasShare, HasARow, HasBalance
<1> QED
  BY <1>1, <1>2, <1>3, <1>4, <1>5 DEF IInv

\* What the other threads have been asked for and have locked does not change.
LEMMA MovedThreads ==
  ASSUME IInv, NEW t \in Threads, Moved(t), Asked(t)',
         \A u \in Threads \ {t} : Apart(t, u)'
  PROVE  (\A u \in Threads : Asked(u)') /\ (\A u, v \in Threads : u # v => Apart(u, v)')
<1>1. \A u \in Threads : Asked(u)'
  BY DEF IInv, Moved, Asked
<1>2. ASSUME NEW u \in Threads, NEW v \in Threads, u # v PROVE Apart(u, v)'
  <2>1. CASE u = t
    BY <1>2, <2>1
  <2>2. CASE v = t
    <3>1. Apart(v, u)'
      BY <1>2, <2>2
    <3> QED
      BY <3>1 DEF Apart, HasStudent, HasShare
  <2>3. CASE u # t /\ v # t
    <3>1. Apart(u, v)
      BY <1>2 DEF IInv
    <3> QED
      BY <1>2, <2>3, <3>1 DEF Moved, Apart, HasStudent, HasShare
  <2> QED
    BY <2>1, <2>2, <2>3
<1> QED
  BY <1>1, <1>2

\* A step that changes no table keeps the invariant if the thread that makes
\* it is in order.
LEMMA MoveKeeps ==
  ASSUME IInv, NEW t \in Threads, Moved(t), UNCHANGED tables, faults' \in 0 .. MaxFaults,
         Asked(t)', Backed(t)', \A u \in Threads \ {t} : Apart(t, u)'
  PROVE  IInv'
<1>1. TypeOK'
  BY DEF IInv, TypeOK, tables, Moved, Requests, Labels
<1>2. \A u \in Threads : Backed(u)'
  <2> SUFFICES ASSUME NEW u \in Threads, u # t PROVE Backed(u)'
    OBVIOUS
  <2>1. Backed(u)
    BY DEF IInv
  <2> QED
    BY <2>1 DEF Moved, tables, Backed, BacksTopup, BacksSettle, KeyTaken, Topped
<1>3. TopupsShaped' /\ OneTopupPerKey' /\ LedgerChains' /\ BookedOnce'
  BY DEF IInv, tables, TopupsShaped, OneTopupPerKey, LedgerChains, BookedOnce, Booked, Signed
<1> QED
  BY MovedThreads, <1>1, <1>2, <1>3 DEF IInv

\* A thread that has answered holds nothing.
LEMMA Answered ==
  ASSUME IInv, NEW t \in Threads, Reply(t)
  PROVE  /\ Moved(t) /\ pc'[t] = "idle"
         /\ Asked(t)' /\ Backed(t)' /\ \A u \in Threads \ {t} : Apart(t, u)'
<1>1. pc' \in [Threads -> Labels] /\ seen' \in [Threads -> Nat] /\ pc'[t] = "idle"
  BY DEF IInv, TypeOK, Reply, Labels
<1>2. NoReq \in Requests
  BY DEF NoReq, Requests
<1>3. req' \in [Threads -> Requests]
  BY <1>2 DEF IInv, TypeOK, Reply, Requests
<1>4. Moved(t)
  BY <1>1, <1>3 DEF IInv, TypeOK, Reply, Moved
<1> QED
  BY <1>1, <1>4 DEF Asked, Backed, Apart, HasStudent, HasShare, HasARow, HasBalance

LEMMA ReplyKeeps ==
  ASSUME IInv, NEW t \in Threads, Reply(t), UNCHANGED tables, faults' \in 0 .. MaxFaults
  PROVE  IInv'
  BY Answered, MoveKeeps

-----------------------------------------------------------------------------
(* The statements that take locks and change no table                      *)

LEMMA CallTopupKeeps ==
  ASSUME IInv, NEW t \in Threads, NEW s \in Students, NEW n \in Amounts,
         NEW k \in Keys \cup {None}, NEW demo \in BOOLEAN, CallTopup(t, s, n, k, demo)
  PROVE  IInv'
<1> DEFINE r == [kind |-> "topup", ref |-> None, student |-> s,
                 amount |-> n, key |-> k, flag |-> demo]
<1>1. r \in Requests
  BY WalletAssumption DEF Requests
<1>2. req' \in [Threads -> Requests] /\ req'[t] = r
  BY <1>1 DEF CallTopup, IInv, TypeOK, Requests
<1>3. pc' \in [Threads -> Labels] /\ pc'[t] \in {"insert", "replay"}
  BY DEF CallTopup, Goto, IInv, TypeOK, Labels
<1>4. Moved(t)
  BY <1>2, <1>3 DEF CallTopup, Goto, IInv, TypeOK, Moved
<1>5. r.kind = "topup" /\ r.student = s /\ r.amount = n
  OBVIOUS
<1>6. Asked(t)' /\ Backed(t)' /\ \A u \in Threads \ {t} : Apart(t, u)'
  BY <1>2, <1>3, <1>5, WalletAssumption
     DEF Asked, Backed, Apart, HasStudent, HasShare, HasARow, HasBalance
<1> QED
  BY <1>4, <1>6, MoveKeeps DEF CallTopup, IInv, TypeOK

LEMMA CallSettleKeeps ==
  ASSUME IInv, NEW t \in Threads, NEW id \in Topups, NEW ok \in BOOLEAN, CallSettle(t, id, ok)
  PROVE  IInv'
<1>1. PICK r : r = [NoReq EXCEPT !.kind = "settle", !.ref = id, !.flag = ok]
  OBVIOUS
<1>2. r \in Requests /\ r.kind = "settle" /\ r.ref = id
  BY <1>1 DEF Requests, NoReq
<1>3. req' \in [Threads -> Requests] /\ req'[t] = r
  BY <1>1, <1>2 DEF CallSettle, IInv, TypeOK, Requests
<1>4. pc' \in [Threads -> Labels] /\ pc'[t] = "settle"
  BY DEF CallSettle, Goto, IInv, TypeOK, Labels
<1>5. Moved(t)
  BY <1>3, <1>4 DEF CallSettle, Goto, IInv, TypeOK, Moved
<1>6. Asked(t)' /\ Backed(t)' /\ \A u \in Threads \ {t} : Apart(t, u)'
  BY <1>2, <1>3, <1>4 DEF Asked, Backed, Apart, HasStudent, HasShare, HasARow, HasBalance
<1> QED
  BY <1>5, <1>6, MoveKeeps DEF CallSettle, IInv, TypeOK

LEMMA CallPayKeeps ==
  ASSUME IInv, NEW t \in Threads, NEW o \in Orders, CallPay(t, o)
  PROVE  IInv'
<1>1. PICK r : r = [NoReq EXCEPT !.kind = "pay", !.ref = o,
                                 !.student = Customer[o], !.amount = Total[o]]
  OBVIOUS
<1>2. r \in Requests /\ r.kind = "pay" /\ r.ref = o
        /\ r.student = Customer[o] /\ r.amount = Total[o]
  BY <1>1, WalletAssumption DEF Requests, NoReq
<1>3. req' \in [Threads -> Requests] /\ req'[t] = r
  BY <1>1, <1>2 DEF CallPay, IInv, TypeOK, Requests
<1>4. pc' \in [Threads -> Labels] /\ pc'[t] = "existing"
  BY DEF CallPay, Goto, IInv, TypeOK, Labels
<1>5. Moved(t)
  BY <1>3, <1>4 DEF CallPay, Goto, IInv, TypeOK, Moved
<1>6. Asked(t)' /\ Backed(t)' /\ \A u \in Threads \ {t} : Apart(t, u)'
  BY <1>2, <1>3, <1>4 DEF Asked, Backed, Apart, HasStudent, HasShare, HasARow, HasBalance
<1> QED
  BY <1>5, <1>6, MoveKeeps DEF CallPay, IInv, TypeOK

\* A statement that only moves on to the next one, with the request it has.
LEMMA GoOn ==
  ASSUME IInv, NEW t \in Threads, NEW l \in Labels, Goto(t, l), UNCHANGED <<req, seen>>
  PROVE  Moved(t) /\ pc'[t] = l /\ req'[t] = req[t] /\ seen'[t] = seen[t]
  BY DEF IInv, TypeOK, Goto, Moved, Labels, Requests

LEMMA FindReplayKeeps ==
  ASSUME IInv, NEW t \in Threads, FindReplay(t)
  PROVE  IInv'
<1>1. CASE Topped(req[t].student, req[t].key)
  BY <1>1, ReplyKeeps DEF FindReplay, IInv, TypeOK
<1>2. CASE ~Topped(req[t].student, req[t].key)
  <2>1. Moved(t) /\ pc'[t] = "insert" /\ req'[t] = req[t]
    BY <1>2, GoOn DEF FindReplay, Labels
  <2>2. Asked(t)
    BY DEF IInv
  <2>3. Asked(t)' /\ Backed(t)' /\ \A u \in Threads \ {t} : Apart(t, u)'
    BY <2>1, <2>2 DEF FindReplay, Asked, Backed, Apart, HasStudent, HasShare, HasARow, HasBalance
  <2> QED
    BY <2>1, <2>3, MoveKeeps DEF FindReplay, IInv, TypeOK
<1> QED
  BY <1>1, <1>2

LEMMA FindPaymentKeeps ==
  ASSUME IInv, NEW t \in Threads, FindPayment(t)
  PROVE  IInv'
<1>1. CASE req[t].ref \in paid
  BY <1>1, ReplyKeeps DEF FindPayment, IInv, TypeOK
<1>2. CASE req[t].ref \notin paid
  <2>1. Moved(t) /\ pc'[t] = "order" /\ req'[t] = req[t]
    BY <1>2, GoOn DEF FindPayment, Labels
  <2>2. Asked(t)
    BY DEF IInv
  <2>3. Asked(t)' /\ Backed(t)' /\ \A u \in Threads \ {t} : Apart(t, u)'
    BY <2>1, <2>2 DEF FindPayment, Asked, Backed, Apart, HasStudent, HasShare, HasARow, HasBalance
  <2> QED
    BY <2>1, <2>3, MoveKeeps DEF FindPayment, IInv, TypeOK
<1> QED
  BY <1>1, <1>2

\* The row of the order is locked, and the order is not cancelled.
LEMMA LockOrderKeeps ==
  ASSUME IInv, NEW t \in Threads, LockOrder(t)
  PROVE  IInv'
<1>1. CASE ~Payable(req[t].ref)
  BY <1>1, ReplyKeeps DEF LockOrder, IInv, TypeOK
<1>2. CASE Payable(req[t].ref)
  <2>1. Moved(t) /\ pc'[t] = "student" /\ req'[t] = req[t]
    BY <1>2, GoOn DEF LockOrder, Labels
  <2>2. Asked(t)
    BY DEF IInv
  <2>3. Asked(t)' /\ Backed(t)'
    BY <1>2, <2>1, <2>2
       DEF LockOrder, Asked, Backed, HasARow, HasBalance, Payable, tables
  <2>4. ASSUME NEW u \in Threads \ {t} PROVE Apart(t, u)'
    <3>1. ~HasRow(u, req[t].ref) /\ pc'[u] = pc[u] /\ req'[u] = req[u]
      BY <2>1 DEF LockOrder, RowFree, Moved
    <3> QED
      BY <2>1, <2>2, <3>1
         DEF LockOrder, Asked, Apart, HasRow, HasStudent, HasShare, HasARow, HasBalance
  <2> QED
    BY <2>1, <2>3, <2>4, MoveKeeps DEF LockOrder, IInv, TypeOK
<1> QED
  BY <1>1, <1>2

\* The balance that is read stays what it is until the transaction ends.
LEMMA LockStudentKeeps ==
  ASSUME IInv, NEW t \in Threads, LockStudent(t)
  PROVE  IInv'
<1>1. CASE req[t].kind = "pay" /\ ~Covered(req[t].student, req[t].amount)
  BY <1>1, ReplyKeeps DEF LockStudent, IInv, TypeOK
<1>2. CASE ~(req[t].kind = "pay" /\ ~Covered(req[t].student, req[t].amount))
  <2>1. Asked(t) /\ Backed(t) /\ pc[t] = "student"
    BY DEF IInv, LockStudent
  <2>2. req[t].student \in Students
    BY <2>1, WalletAssumption DEF Asked, Backed, BacksTopup, BacksSettle, HasARow, IInv, TopupsShaped
  <2>3. balance[req[t].student] \in Nat
    BY <2>2 DEF IInv, TypeOK
  <2>4. /\ req' = req
        /\ pc' = [pc EXCEPT ![t] = IF req[t].kind = "pay" THEN "debit" ELSE "credit"]
        /\ seen' = [seen EXCEPT ![t] = balance[req[t].student]]
    BY <1>2 DEF LockStudent, Goto
  <2>5. Moved(t) /\ req'[t] = req[t] /\ seen'[t] = balance[req[t].student]
    BY <2>3, <2>4 DEF IInv, TypeOK, Moved, Labels, Requests
  <2>6. pc'[t] = IF req[t].kind = "pay" THEN "debit" ELSE "credit"
    BY <2>4 DEF IInv, TypeOK
  <2>7. Asked(t)'
    BY <2>1, <2>5, <2>6 DEF Asked
  <2>8. Backed(t)'
    <3>1. req[t].kind = "pay" => balance[req[t].student] >= req[t].amount
      BY <1>2 DEF Covered
    <3> QED
      BY <2>1, <2>5, <2>6, <3>1
         DEF LockStudent, tables, Backed, BacksTopup, BacksSettle, KeyTaken, Topped, HasARow
  <2>9. ASSUME NEW u \in Threads \ {t} PROVE Apart(t, u)'
    <3>1. ~HasStudent(u, req[t].student) /\ ~HasShare(u, req[t].student)
      BY DEF LockStudent, StudentFree
    <3>2. Apart(t, u) /\ pc'[u] = pc[u] /\ req'[u] = req[u]
      BY <2>5 DEF IInv, Moved
    <3> QED
      BY <2>1, <2>5, <2>6, <3>1, <3>2
         DEF Apart, HasStudent, HasShare, HasARow, HasBalance
  <2> QED
    BY <2>5, <2>7, <2>8, <2>9, MoveKeeps DEF LockStudent, IInv, TypeOK
<1> QED
  BY <1>1, <1>2

-----------------------------------------------------------------------------
(* The statements that change a table                                      *)

\* What only the accounts decide.
LEMMA LedgersKept ==
  ASSUME IInv, balance' = balance, ledger' = ledger, paid' = paid, TypeOK',
         \A id \in Topups : topup[id].status = "COMPLETED" \/ topup'[id].status = "COMPLETED"
                              => topup'[id] = topup[id]
  PROVE  LedgerChains' /\ BookedOnce'
<1>1. LedgerChains'
  BY DEF IInv, LedgerChains, Signed
<1>2. \A s \in Students :
        {id \in Topups : topup'[id].status = "COMPLETED" /\ topup'[id].student = s}
          = {id \in Topups : topup[id].status = "COMPLETED" /\ topup[id].student = s}
  OBVIOUS
<1>3. BookedOnce'
  BY <1>2 DEF IInv, BookedOnce, Booked
<1> QED
  BY <1>1, <1>3

\* A transaction that answers: the others must find what they have found, and
\* the tables must be in order.
LEMMA ReplyBacked ==
  ASSUME IInv, NEW t \in Threads, Reply(t), TypeOK',
         \A u \in Threads \ {t} : Backed(u)',
         TopupsShaped', OneTopupPerKey', LedgerChains', BookedOnce'
  PROVE  IInv'
<1>1. /\ Moved(t) /\ Asked(t)' /\ Backed(t)'
      /\ \A u \in Threads \ {t} : Apart(t, u)'
  BY Answered
<1>2. (\A u \in Threads : Asked(u)') /\ (\A u, v \in Threads : u # v => Apart(u, v)')
  BY <1>1, MovedThreads
<1> QED
  BY <1>1, <1>2 DEF IInv

\* A new row, whose key no other row has and no other request is inserting.
LEMMA InsertRowKeeps ==
  ASSUME IInv, NEW t \in Threads, pc[t] = "insert", Reply(t), NEW id \in Topups,
         topup[id].status = "none", RowFree(t, id),
         KeyFree(t, req[t].student, req[t].key), ~KeyTaken(req[t].student, req[t].key),
         topup' = [topup EXCEPT ![id] = [status |-> "PENDING", student |-> req[t].student,
                                         amount |-> req[t].amount, key |-> req[t].key]],
         UNCHANGED <<balance, ledger, paid, cancelled, faults>>
  PROVE  IInv'
<1> DEFINE s == req[t].student
           k == req[t].key
           row == [status |-> "PENDING", student |-> s, amount |-> req[t].amount, key |-> k]
<1>1. Asked(t) /\ req[t] \in Requests
  BY DEF IInv, TypeOK, Requests
<1>2. s \in Students /\ req[t].amount \in Amounts /\ k \in Keys \cup {None}
        /\ req[t].amount \in Nat
  BY <1>1, WalletAssumption DEF Asked, Requests
<1>3. row \in Rows /\ topup \in [Topups -> Rows]
  BY <1>2 DEF IInv, TypeOK, Rows
<1>4. topup' \in [Topups -> Rows] /\ topup'[id] = row
        /\ \A jd \in Topups \ {id} : topup'[jd] = topup[jd]
  BY <1>3
<1>5. /\ topup'[id].status = "PENDING" /\ topup'[id].student = s
      /\ topup'[id].amount = req[t].amount /\ topup'[id].key = k
  BY <1>4
<1> HIDE DEF row
<1>6. TypeOK'
  BY <1>4, Answered DEF Moved, IInv, TypeOK, Rows, Requests, Labels
<1>7. LedgerChains' /\ BookedOnce'
  BY <1>4, <1>5, <1>6, LedgersKept
<1>8. TopupsShaped'
  BY <1>2, <1>4, <1>5 DEF IInv, TopupsShaped, NoTopup
<1>9. OneTopupPerKey'
  BY <1>2, <1>4, <1>5 DEF IInv, OneTopupPerKey, KeyTaken, Topped
<1>10. ASSUME NEW u \in Threads \ {t} PROVE Backed(u)'
  <2>1. Backed(u) /\ pc'[u] = pc[u] /\ req'[u] = req[u] /\ seen'[u] = seen[u]
    BY Answered DEF IInv, Moved
  <2>2. pc[u] \in HasARow => req[u].ref # id
    BY DEF RowFree, HasRow, HasARow
  <2>3. ASSUME pc[u] \in HasARow, req[u].kind = "topup" PROVE BacksTopup(u)'
    <3>1. pc[u] # "debit"
      BY <2>3 DEF IInv, Asked
    <3>2. req[u].student = s => k = None \/ req[u].key # k
      BY <2>3, <3>1 DEF KeyFree, HasShare, HasARow
    <3>3. ~(req[u].key # None /\ topup'[id].student = req[u].student
              /\ topup'[id].key = req[u].key)
      BY <1>5, <3>2
    <3> QED
      BY <1>4, <2>1, <2>2, <2>3, <3>3 DEF Backed, BacksTopup, KeyTaken, Topped
  <2>4. ASSUME pc[u] \in HasARow, req[u].kind = "settle" PROVE BacksSettle(u)'
    BY <1>4, <2>1, <2>2, <2>4 DEF Backed, BacksSettle
  <2> QED
    BY <2>1, <2>3, <2>4 DEF Backed
<1> QED
  BY <1>6, <1>7, <1>8, <1>9, <1>10, ReplyBacked

\* A demo request has its row, which only it can see.
LEMMA InsertOwnKeeps ==
  ASSUME IInv, NEW t \in Threads, pc[t] = "insert", NEW id \in Topups,
         topup[id].status = "none", RowFree(t, id),
         \A u \in Threads \ {t} : ~HasStudent(u, req[t].student),
         KeyFree(t, req[t].student, req[t].key), ~KeyTaken(req[t].student, req[t].key),
         req' = [req EXCEPT ![t].ref = id], Goto(t, "student"),
         UNCHANGED <<tables, seen, faults>>
  PROVE  IInv'
<1>1. PICK r : r = [req[t] EXCEPT !.ref = id]
  OBVIOUS
<1>2. Asked(t) /\ req[t] \in Requests
  BY DEF IInv, TypeOK, Requests
<1>3. /\ r \in Requests /\ r.ref = id /\ r.kind = "topup"
      /\ r.student = req[t].student /\ r.amount = req[t].amount /\ r.key = req[t].key
  BY <1>1, <1>2 DEF Asked, Requests
<1>4. req' \in [Threads -> Requests] /\ req'[t] = r
        /\ \A u \in Threads \ {t} : req'[u] = req[u]
  BY <1>1, <1>3 DEF IInv, TypeOK, Requests
<1>5. pc' \in [Threads -> Labels] /\ pc'[t] = "student"
  BY DEF Goto, IInv, TypeOK, Labels
<1>6. Moved(t)
  BY <1>4, <1>5 DEF Goto, IInv, TypeOK, Moved
<1>7. Asked(t)'
  BY <1>3, <1>4, <1>5 DEF Asked
<1>8. Backed(t)'
  BY <1>2, <1>3, <1>4, <1>5
     DEF Asked, Backed, BacksTopup, KeyTaken, Topped, HasARow, HasBalance, tables
<1>9. ASSUME NEW u \in Threads \ {t} PROVE Apart(t, u)'
  <2>1. pc'[u] = pc[u] /\ req'[u] = req[u]
    BY <1>6 DEF Moved
  <2>2. pc[u] \in HasARow => req[u].ref # id
    BY DEF RowFree, HasRow, HasARow
  <2>3. ~HasStudent(u, r.student)
    BY <1>3
  <2>4. HasShare(u, r.student) => r.key = None \/ req[u].key # r.key
    BY <1>3 DEF KeyFree
  <2> QED
    BY <1>3, <1>4, <1>5, <2>1, <2>2, <2>3, <2>4
       DEF Apart, HasStudent, HasShare, HasARow, HasBalance
<1> QED
  BY <1>6, <1>7, <1>8, <1>9, MoveKeeps DEF IInv, TypeOK

LEMMA InsertTopupKeeps ==
  ASSUME IInv, NEW t \in Threads, InsertTopup(t)
  PROVE  IInv'
<1>1. CASE KeyTaken(req[t].student, req[t].key)
  BY <1>1, ReplyKeeps DEF InsertTopup, IInv, TypeOK, tables
<1>2. CASE ~KeyTaken(req[t].student, req[t].key)
  <2>1. PICK id \in Topups :
          /\ topup[id].status = "none"
          /\ RowFree(t, id)
          /\ IF req[t].flag
             THEN /\ req' = [req EXCEPT ![t].ref = id]
                  /\ Goto(t, "student")
                  /\ UNCHANGED <<topup, seen>>
             ELSE /\ topup' = [topup EXCEPT ![id] =
                       [status |-> "PENDING", student |-> req[t].student,
                        amount |-> req[t].amount, key |-> req[t].key]]
                  /\ Reply(t)
    BY <1>2 DEF InsertTopup
  <2>2. CASE req[t].flag
    BY <1>2, <2>1, <2>2, InsertOwnKeeps DEF InsertTopup, tables
  <2>3. CASE ~req[t].flag
    BY <1>2, <2>1, <2>3, InsertRowKeeps DEF InsertTopup
  <2> QED
    BY <2>2, <2>3
<1> QED
  BY <1>1, <1>2

\* What is settled is answered again, what is rejected has failed for good,
\* and what is approved is held until it is credited.
LEMMA LockTopupKeeps ==
  ASSUME IInv, NEW t \in Threads, LockTopup(t)
  PROVE  IInv'
<1> DEFINE id == req[t].ref
<1>1. Asked(t) /\ id \in Topups /\ topup[id] \in Rows /\ req[t] \in Requests
        /\ req[t].kind = "settle"
  BY DEF IInv, LockTopup, Asked, TypeOK, Rows, Requests
<1>2. CASE topup[id].status = "PENDING" /\ req[t].flag
  <2>1. PICK r : r = [req[t] EXCEPT !.student = topup[id].student,
                                    !.amount = topup[id].amount, !.key = topup[id].key]
    OBVIOUS
  <2>2. /\ r \in Requests /\ r.kind = "settle" /\ r.ref = id
        /\ r.student = topup[id].student /\ r.amount = topup[id].amount
        /\ r.key = topup[id].key
    BY <1>1, <2>1 DEF Requests, Rows
  <2>3. /\ req' = [req EXCEPT ![t].student = topup[id].student,
                              ![t].amount = topup[id].amount, ![t].key = topup[id].key]
        /\ pc' = [pc EXCEPT ![t] = "student"]
        /\ UNCHANGED <<topup, seen>>
    BY <1>2 DEF LockTopup, Goto
  <2>4. req' \in [Threads -> Requests] /\ req'[t] = r
          /\ \A u \in Threads \ {t} : req'[u] = req[u]
    BY <2>1, <2>2, <2>3, ZenonT(60) DEF IInv, TypeOK, Requests
  <2>5. Moved(t) /\ pc'[t] = "student"
    BY <2>3, <2>4 DEF IInv, TypeOK, Moved, Labels
  <2>6. Asked(t)'
    BY <2>2, <2>4, <2>5 DEF Asked
  <2>7. Backed(t)'
    <3>1. req'[t].kind = "settle" /\ req'[t].ref = id
      BY <2>2, <2>4
    <3>2. BacksSettle(t)'
      BY <1>1, <1>2, <2>2, <2>3, <2>4, <3>1 DEF BacksSettle
    <3>3. pc'[t] \notin HasBalance /\ pc'[t] # "debit"
      BY <2>5 DEF HasBalance
    <3> QED
      BY <3>1, <3>2, <3>3 DEF Backed
  <2>8. ASSUME NEW u \in Threads \ {t} PROVE Apart(t, u)'
    <3>1. ~HasRow(u, id) /\ pc'[u] = pc[u] /\ req'[u] = req[u] /\ Apart(t, u)
      BY <2>5 DEF LockTopup, RowFree, Moved, IInv
    <3> QED
      BY <2>2, <2>4, <2>5, <3>1
         DEF Apart, HasRow, HasStudent, HasShare, HasARow, HasBalance
  <2> QED
    BY <2>3, <2>5, <2>6, <2>7, <2>8, MoveKeeps DEF LockTopup, IInv, TypeOK, tables
<1>3. CASE topup[id].status = "PENDING" /\ ~req[t].flag
  <2>1. PICK row : row = [topup[id] EXCEPT !.status = "FAILED"]
    OBVIOUS
  <2>2. /\ row \in Rows /\ row.status = "FAILED" /\ row.student = topup[id].student
        /\ row.amount = topup[id].amount /\ row.key = topup[id].key
    BY <1>1, <2>1 DEF Rows
  <2>3. topup' = [topup EXCEPT ![id].status = "FAILED"] /\ Reply(t)
    BY <1>3 DEF LockTopup
  <2>4. topup' \in [Topups -> Rows] /\ topup'[id] = row
          /\ \A jd \in Topups \ {id} : topup'[jd] = topup[jd]
    <3>1. topup' = [topup EXCEPT ![id] = row]
      BY <2>1, <2>3
    <3>2. topup \in [Topups -> Rows]
      BY DEF IInv, TypeOK, Rows
    <3> QED
      BY <1>1, <2>2, <3>1, <3>2
  <2>5. TypeOK'
    BY <2>3, <2>4, Answered DEF LockTopup, Moved, IInv, TypeOK, Rows, Requests, Labels
  <2>6. TopupsShaped' /\ OneTopupPerKey'
    BY <1>3, <2>2, <2>4 DEF IInv, TopupsShaped, OneTopupPerKey
  <2>7. LedgerChains' /\ BookedOnce'
    BY <1>3, <2>2, <2>4, <2>5, LedgersKept DEF LockTopup
  <2>8. ASSUME NEW u \in Threads \ {t} PROVE Backed(u)'
    <3>1. Backed(u) /\ pc'[u] = pc[u] /\ req'[u] = req[u] /\ seen'[u] = seen[u]
      BY <2>3, Answered DEF IInv, Moved
    <3>2. pc[u] \in HasARow => req[u].ref # id
      BY DEF LockTopup, RowFree, HasRow, HasARow
    <3>3. \A key, s : KeyTaken(s, key)' => KeyTaken(s, key)
      BY <1>1, <2>2, <2>4 DEF KeyTaken, Topped
    <3>4. pc[u] \in HasARow /\ req[u].ref \in Topups => topup'[req[u].ref] = topup[req[u].ref]
      BY <2>4, <3>2
    <3>5. pc[u] \in HasARow => /\ BacksTopup(u) => BacksTopup(u)'
                               /\ BacksSettle(u) => BacksSettle(u)'
      BY <3>1, <3>3, <3>4 DEF BacksTopup, BacksSettle
    <3> QED
      BY <3>1, <3>5 DEF LockTopup, Backed
  <2> QED
    BY <2>3, <2>5, <2>6, <2>7, <2>8, ReplyBacked
<1>4. CASE topup[id].status # "PENDING"
  BY <1>4, ReplyKeeps DEF LockTopup, IInv, TypeOK, tables
<1> QED
  BY <1>2, <1>3, <1>4

-----------------------------------------------------------------------------
(* Bookings                                                                *)

\* A booking of something not booked yet, from the balance there is.
LEMMA LedgerGrows ==
  ASSUME IInv, NEW s \in Students, NEW e \in Entries,
         e.before = balance[s], e.after = e.before + Signed(e), e.ref \notin Booked(s),
         balance' = [balance EXCEPT ![s] = e.after],
         ledger' = [ledger EXCEPT ![s] = Append(ledger[s], e)]
  PROVE  /\ balance' \in [Students -> Nat] /\ ledger' \in [Students -> Seq(Entries)]
         /\ LedgerChains'
         /\ \A r \in Students : Booked(r)' = IF r = s THEN Booked(s) \cup {e.ref} ELSE Booked(r)
         /\ \A r \in Students : \A m, n \in 1 .. Len(ledger'[r]) :
              ledger'[r][m].ref = ledger'[r][n].ref => m = n
<1> DEFINE L == ledger[s]
           N == ledger'[s]
<1>1. balance \in [Students -> Nat] /\ ledger \in [Students -> Seq(Entries)] /\ e.after \in Nat
  BY DEF IInv, TypeOK, Entries
<1>2. L \in Seq(Entries) /\ Append(L, e) \in Seq(Entries)
  BY <1>1
<1>3. balance' \in [Students -> Nat] /\ ledger' \in [Students -> Seq(Entries)]
  BY <1>1, <1>2
<1>4. /\ balance'[s] = e.after /\ N = Append(L, e)
      /\ \A r \in Students \ {s} : balance'[r] = balance[r] /\ ledger'[r] = ledger[r]
  BY <1>1
<1>5. /\ Len(N) = Len(L) + 1 /\ Len(L) \in Nat /\ N[Len(L) + 1] = e
      /\ \A n \in 1 .. Len(L) : N[n] = L[n]
  BY <1>2, <1>4
<1>6. LedgerChains'
  <2>1. ASSUME NEW r \in Students, r # s
        PROVE  /\ \A n \in 1 .. Len(ledger'[r]) :
                    /\ ledger'[r][n].before = IF n = 1 THEN Opening[r] ELSE ledger'[r][n - 1].after
                    /\ ledger'[r][n].after = ledger'[r][n].before + Signed(ledger'[r][n])
               /\ balance'[r] = IF ledger'[r] = <<>> THEN Opening[r]
                                ELSE ledger'[r][Len(ledger'[r])].after
    BY <1>4, <2>1 DEF IInv, LedgerChains
  <2>2. /\ \A n \in 1 .. Len(L) :
             /\ L[n].before = IF n = 1 THEN Opening[s] ELSE L[n - 1].after
             /\ L[n].after = L[n].before + Signed(L[n])
        /\ balance[s] = IF L = <<>> THEN Opening[s] ELSE L[Len(L)].after
    BY DEF IInv, LedgerChains
  <2>3. ASSUME NEW n \in 1 .. Len(N)
        PROVE  /\ N[n].before = IF n = 1 THEN Opening[s] ELSE N[n - 1].after
               /\ N[n].after = N[n].before + Signed(N[n])
    <3>1. CASE n \in 1 .. Len(L)
      <4>1. N[n] = L[n] /\ (n # 1 => N[n - 1] = L[n - 1])
        BY <1>5, <3>1
      <4> QED
        BY <2>2, <3>1, <4>1
    <3>2. CASE n = Len(L) + 1
      <4>1. N[n] = e
        BY <1>5, <3>2
      <4>2. CASE L = <<>>
        BY <1>5, <2>2, <3>2, <4>1, <4>2
      <4>3. CASE L # <<>>
        <5>1. n # 1 /\ Len(L) \in 1 .. Len(L) /\ n - 1 = Len(L)
          BY <1>2, <1>5, <3>2, <4>3
        <5>2. N[n - 1] = L[Len(L)]
          BY <1>5, <5>1
        <5> QED
          BY <2>2, <4>1, <4>3, <5>1, <5>2
      <4> QED
        BY <4>2, <4>3
    <3> QED
      BY <1>5, <3>1, <3>2
  <2>4. balance'[s] = IF N = <<>> THEN Opening[s] ELSE N[Len(N)].after
    BY <1>4, <1>5
  <2> QED
    BY <2>1, <2>3, <2>4 DEF LedgerChains, Signed
<1>7. ASSUME NEW r \in Students
      PROVE  Booked(r)' = IF r = s THEN Booked(s) \cup {e.ref} ELSE Booked(r)
  <2>1. CASE r = s
    <3>1. {N[n].ref : n \in 1 .. Len(N)} = {L[n].ref : n \in 1 .. Len(L)} \cup {e.ref}
      BY <1>5
    <3> QED
      BY <2>1, <3>1 DEF Booked
  <2>2. CASE r # s
    BY <1>4, <2>2 DEF Booked
  <2> QED
    BY <2>1, <2>2
<1>8. ASSUME NEW r \in Students, NEW m \in 1 .. Len(ledger'[r]), NEW n \in 1 .. Len(ledger'[r]),
             ledger'[r][m].ref = ledger'[r][n].ref
      PROVE  m = n
  <2>1. CASE r = s
    <3>1. \A i \in 1 .. Len(L) : L[i].ref # e.ref
      BY DEF Booked
    <3>2. \A i, j \in 1 .. Len(L) : L[i].ref = L[j].ref => i = j
      BY DEF IInv, BookedOnce
    <3>3. \A i \in 1 .. Len(N) : i \in 1 .. Len(L) \/ i = Len(L) + 1
      BY <1>5
    <3> QED
      BY <1>5, <1>8, <2>1, <3>1, <3>2, <3>3
  <2>2. CASE r # s
    <3>1. ledger'[r] = ledger[r]
      BY <1>4, <2>2
    <3> QED
      BY <1>8, <3>1 DEF IInv, BookedOnce
  <2> QED
    BY <2>1, <2>2
<1> QED
  BY <1>3, <1>6, <1>7, <1>8

\* A top-up is credited to its student, from the balance there is.
LEMMA CreditBooks ==
  ASSUME IInv, NEW t \in Threads, Credit(t)
  PROVE  LET s == req[t].student
             n == req[t].amount
             id == req[t].ref IN
         /\ s \in Students /\ n \in Amounts /\ id \in Topups
         /\ topup[id].status \in {"none", "PENDING"}
         /\ balance' = [balance EXCEPT ![s] = balance[s] + n]
         /\ ledger' = [ledger EXCEPT ![s] = Append(ledger[s],
              [direction |-> "CREDIT", amount |-> n, before |-> balance[s],
               after |-> balance[s] + n, ref |-> id])]
<1>1. Asked(t) /\ Backed(t) /\ pc[t] = "credit"
  BY DEF IInv, Credit
<1>2. /\ req[t].student \in Students /\ req[t].amount \in Amounts /\ req[t].ref \in Topups
      /\ topup[req[t].ref].status \in {"none", "PENDING"}
      /\ seen[t] = balance[req[t].student]
  BY <1>1 DEF Asked, Backed, BacksTopup, BacksSettle, HasARow, HasBalance, IInv, TopupsShaped
<1> QED
  BY <1>2 DEF Credit, Book, Entry

\* An order is debited to its customer, from a balance that covers it.
LEMMA DebitBooks ==
  ASSUME IInv, NEW t \in Threads, Debit(t), PaymentUnique(req[t].ref)
  PROVE  LET s == req[t].student
             n == req[t].amount
             o == req[t].ref IN
         /\ o \in Orders /\ s = Customer[o] /\ s \in Students /\ n = Total[o]
         /\ n \in Nat \ {0}
         /\ o \notin paid /\ o \notin cancelled /\ paid' = paid \cup {o}
         /\ balance[s] >= n
         /\ balance' = [balance EXCEPT ![s] = balance[s] - n]
         /\ ledger' = [ledger EXCEPT ![s] = Append(ledger[s],
              [direction |-> "DEBIT", amount |-> n, before |-> balance[s],
               after |-> balance[s] - n, ref |-> o])]
<1>1. Asked(t) /\ Backed(t) /\ pc[t] = "debit"
  BY DEF IInv, Debit
<1>2. /\ req[t].ref \in Orders /\ req[t].student = Customer[req[t].ref]
      /\ req[t].amount = Total[req[t].ref] /\ req[t].ref \notin cancelled
      /\ seen[t] = balance[req[t].student] /\ seen[t] >= req[t].amount
  BY <1>1 DEF Asked, Backed, HasARow, HasBalance
<1>3. req[t].student \in Students /\ req[t].amount \in Nat \ {0}
  BY <1>2, WalletAssumption
<1> QED
  BY <1>2, <1>3 DEF Debit, Book, Entry, PaymentUnique

\* What has not been settled or paid is in nobody's ledger.
LEMMA NotBooked ==
  ASSUME IInv, NEW s \in Students, NEW ref,
         ref \in Topups => topup[ref].status # "COMPLETED",
         ref \notin paid
  PROVE  ref \notin Booked(s)
  BY DEF IInv, BookedOnce

\* The balances of the other transactions are other students'.
LEMMA OthersBalances ==
  ASSUME IInv, NEW t \in Threads, NEW u \in Threads \ {t}, pc[t] \in HasBalance,
         NEW n, balance' = [balance EXCEPT ![req[t].student] = n]
  PROVE  pc[u] \in HasBalance => balance'[req[u].student] = balance[req[u].student]
<1>1. Apart(t, u)
  BY DEF IInv
<1>2. pc[u] \in HasBalance => req[u].student # req[t].student
  BY <1>1 DEF Apart, HasStudent, HasBalance
<1> QED
  BY <1>2 DEF IInv, TypeOK

LEMMA CreditKeeps ==
  ASSUME IInv, NEW t \in Threads, Credit(t)
  PROVE  IInv'
<1> DEFINE s == req[t].student
           n == req[t].amount
           id == req[t].ref
           row == [status |-> "COMPLETED", student |-> s, amount |-> n, key |-> req[t].key]
<1>1. /\ s \in Students /\ n \in Amounts /\ id \in Topups
      /\ topup[id].status \in {"none", "PENDING"}
      /\ balance' = [balance EXCEPT ![s] = balance[s] + n]
      /\ ledger' = [ledger EXCEPT ![s] = Append(ledger[s],
           [direction |-> "CREDIT", amount |-> n, before |-> balance[s],
            after |-> balance[s] + n, ref |-> id])]
  BY CreditBooks
<1>2. n \in Nat \ {0} /\ id \notin Orders /\ balance[s] \in Nat
        /\ req[t].key \in Keys \cup {None}
  BY <1>1, WalletAssumption DEF IInv, TypeOK
<1>3. PICK e : e = [direction |-> "CREDIT", amount |-> n, before |-> balance[s],
                    after |-> balance[s] + n, ref |-> id]
  OBVIOUS
<1>4. e \in Entries /\ e.before = balance[s] /\ e.after = balance[s] + n
        /\ e.ref = id /\ Signed(e) = n
  BY <1>1, <1>2, <1>3 DEF Entries, Signed
<1>5. id \notin Booked(s)
  BY <1>1, <1>2, NotBooked DEF IInv, TypeOK
<1>6. /\ balance' \in [Students -> Nat] /\ ledger' \in [Students -> Seq(Entries)]
      /\ LedgerChains'
      /\ \A r \in Students : Booked(r)' = IF r = s THEN Booked(s) \cup {id} ELSE Booked(r)
      /\ \A r \in Students : \A i, j \in 1 .. Len(ledger'[r]) :
           ledger'[r][i].ref = ledger'[r][j].ref => i = j
  <2>1. /\ e.after = e.before + Signed(e) /\ e.ref \notin Booked(s)
        /\ balance' = [balance EXCEPT ![s] = e.after]
        /\ ledger' = [ledger EXCEPT ![s] = Append(ledger[s], e)]
    BY <1>1, <1>2, <1>3, <1>4, <1>5
  <2>2. s \in Students /\ e \in Entries /\ e.before = balance[s]
    BY <1>1, <1>4
  <2> HIDE DEF s
  <2>3. /\ balance' \in [Students -> Nat] /\ ledger' \in [Students -> Seq(Entries)]
        /\ LedgerChains'
        /\ \A r \in Students : Booked(r)' = IF r = s THEN Booked(s) \cup {e.ref} ELSE Booked(r)
        /\ \A r \in Students : \A i, j \in 1 .. Len(ledger'[r]) :
             ledger'[r][i].ref = ledger'[r][j].ref => i = j
    BY <2>1, <2>2, LedgerGrows
  <2> QED
    BY <1>4, <2>3
<1>7. /\ row \in Rows /\ row.status = "COMPLETED" /\ row.student = s
      /\ row.amount = n /\ row.key = req[t].key
  BY <1>1, <1>2 DEF Rows
<1>8. topup' \in [Topups -> Rows] /\ topup'[id] = row
        /\ \A jd \in Topups \ {id} : topup'[jd] = topup[jd]
  <2>1. topup' = [topup EXCEPT ![id] = row]
    BY DEF Credit, Settled
  <2> HIDE DEF row
  <2> QED
    BY <1>1, <1>7, <2>1 DEF IInv, TypeOK, Rows
<1> HIDE DEF row
<1>9. TypeOK'
  BY <1>6, <1>8, Answered DEF Credit, Moved, IInv, TypeOK, Rows, Requests, Labels
<1>10. TopupsShaped'
  BY <1>1, <1>7, <1>8 DEF IInv, TopupsShaped
<1>11. OneTopupPerKey'
  <2>1. Asked(t) /\ Backed(t) /\ pc[t] = "credit"
    BY DEF IInv, Credit
  <2>2. ASSUME NEW jd \in Topups \ {id}, topup[jd].student = s, topup[jd].key = req[t].key
        PROVE  req[t].key = None
    BY <1>1, <2>1, <2>2
       DEF Asked, Backed, BacksTopup, BacksSettle, KeyTaken, Topped, HasARow, IInv, OneTopupPerKey
  <2> QED
    BY <1>1, <1>7, <1>8, <2>2 DEF IInv, OneTopupPerKey
<1>12. BookedOnce'
  <2>1. ASSUME NEW r \in Students
        PROVE  Booked(r)' = {jd \in Topups : topup'[jd].status = "COMPLETED" /\ topup'[jd].student = r}
                              \cup {o \in paid' : Customer[o] = r}
    <3>1. paid' = paid
      BY DEF Credit
    <3>2. Booked(r) = {jd \in Topups : topup[jd].status = "COMPLETED" /\ topup[jd].student = r}
                        \cup {o \in paid : Customer[o] = r}
      BY DEF IInv, BookedOnce
    <3>3. {jd \in Topups : topup'[jd].status = "COMPLETED" /\ topup'[jd].student = r}
            = {jd \in Topups : topup[jd].status = "COMPLETED" /\ topup[jd].student = r}
                \cup (IF r = s THEN {id} ELSE {})
      BY <1>1, <1>7, <1>8
    <3> QED
      BY <1>6, <3>1, <3>2, <3>3
  <2> QED
    BY <1>6, <2>1 DEF BookedOnce
<1>13. ASSUME NEW u \in Threads \ {t} PROVE Backed(u)'
  <2>1. /\ Backed(u) /\ Apart(t, u) /\ Asked(u)
        /\ pc'[u] = pc[u] /\ req'[u] = req[u] /\ seen'[u] = seen[u]
    BY Answered DEF IInv, Moved, Credit
  <2>2. pc[t] = "credit" /\ cancelled' = cancelled
    BY DEF Credit
  <2>3. pc[u] \in HasARow => req[u].ref # id
    BY <2>1, <2>2 DEF Apart, HasARow
  <2>4. pc[u] \in HasBalance => balance'[req[u].student] = balance[req[u].student]
    BY <1>1, <2>2, OthersBalances DEF HasBalance
  <2>5. ASSUME pc[u] \in HasARow, req[u].kind = "topup" PROVE BacksTopup(u)'
    <3>1. req[u].student # s
      BY <2>1, <2>2, <2>5 DEF Apart, Asked, HasShare, HasARow, HasBalance
    <3> QED
      BY <1>7, <1>8, <2>1, <2>3, <2>5, <3>1 DEF Backed, BacksTopup, KeyTaken, Topped
  <2>6. ASSUME pc[u] \in HasARow, req[u].kind = "settle" PROVE BacksSettle(u)'
    BY <1>8, <2>1, <2>3, <2>6 DEF Backed, BacksSettle
  <2> QED
    BY <2>1, <2>2, <2>4, <2>5, <2>6 DEF Backed
<1> QED
  BY <1>6, <1>9, <1>10, <1>11, <1>12, <1>13, ReplyBacked DEF Credit

LEMMA DebitKeeps ==
  ASSUME IInv, NEW t \in Threads, Debit(t)
  PROVE  IInv'
<1>1. CASE ~PaymentUnique(req[t].ref)
  BY <1>1, ReplyKeeps DEF Debit, IInv, TypeOK, tables
<1>2. CASE PaymentUnique(req[t].ref)
  <2> DEFINE s == req[t].student
             n == req[t].amount
             o == req[t].ref
  <2>1. /\ o \in Orders /\ s = Customer[o] /\ s \in Students /\ n = Total[o] /\ n \in Nat \ {0}
        /\ o \notin paid /\ paid' = paid \cup {o} /\ balance[s] >= n
        /\ balance' = [balance EXCEPT ![s] = balance[s] - n]
        /\ ledger' = [ledger EXCEPT ![s] = Append(ledger[s],
             [direction |-> "DEBIT", amount |-> n, before |-> balance[s],
              after |-> balance[s] - n, ref |-> o])]
    BY <1>2, DebitBooks
  <2>2. o \notin Topups /\ balance[s] \in Nat /\ balance[s] - n \in Nat
    BY <2>1, WalletAssumption DEF IInv, TypeOK
  <2>3. PICK e : e = [direction |-> "DEBIT", amount |-> n, before |-> balance[s],
                      after |-> balance[s] - n, ref |-> o]
    OBVIOUS
  <2>4. e \in Entries /\ e.before = balance[s] /\ e.after = balance[s] - n
          /\ e.ref = o /\ Signed(e) = -n
    BY <2>1, <2>2, <2>3 DEF Entries, Signed
  <2>5. o \notin Booked(s)
    BY <2>1, <2>2, NotBooked
  <2>6. /\ e.after = e.before + Signed(e) /\ e.ref \notin Booked(s)
        /\ balance' = [balance EXCEPT ![s] = e.after]
        /\ ledger' = [ledger EXCEPT ![s] = Append(ledger[s], e)]
    BY <2>1, <2>2, <2>3, <2>4, <2>5
  <2>7. s \in Students /\ e \in Entries /\ e.before = balance[s]
    BY <2>1, <2>4
  <2> HIDE DEF s
  <2>8. /\ balance' \in [Students -> Nat] /\ ledger' \in [Students -> Seq(Entries)]
        /\ LedgerChains'
        /\ \A r \in Students : Booked(r)' = IF r = s THEN Booked(s) \cup {e.ref} ELSE Booked(r)
        /\ \A r \in Students : \A i, j \in 1 .. Len(ledger'[r]) :
             ledger'[r][i].ref = ledger'[r][j].ref => i = j
    BY <2>6, <2>7, LedgerGrows
  <2>9. TypeOK'
    <3>1. Moved(t) /\ UNCHANGED <<topup, cancelled, faults>>
      BY Answered DEF Debit
    <3>2. paid' \subseteq Orders
      BY <2>1 DEF IInv, TypeOK
    <3> QED
      BY <2>8, <3>1, <3>2 DEF Moved, IInv, TypeOK, Requests, Labels
  <2>10. TopupsShaped' /\ OneTopupPerKey'
    BY DEF Debit, IInv, TopupsShaped, OneTopupPerKey
  <2>11. BookedOnce'
    <3>1. ASSUME NEW r \in Students
          PROVE  Booked(r)' = {id \in Topups : topup'[id].status = "COMPLETED" /\ topup'[id].student = r}
                                \cup {p \in paid' : Customer[p] = r}
      <4>1. topup' = topup
        BY DEF Debit
      <4>2. Booked(r) = {id \in Topups : topup[id].status = "COMPLETED" /\ topup[id].student = r}
                          \cup {p \in paid : Customer[p] = r}
        BY DEF IInv, BookedOnce
      <4>3. {p \in paid' : Customer[p] = r}
              = {p \in paid : Customer[p] = r} \cup (IF r = s THEN {o} ELSE {})
        BY <2>1
      <4> QED
        BY <2>4, <2>8, <4>1, <4>2, <4>3
    <3> QED
      BY <2>8, <3>1 DEF BookedOnce
  <2>12. ASSUME NEW u \in Threads \ {t} PROVE Backed(u)'
    <3>1. Backed(u) /\ pc'[u] = pc[u] /\ req'[u] = req[u] /\ seen'[u] = seen[u]
      BY Answered DEF IInv, Moved, Debit
    <3>2. pc[t] = "debit" /\ cancelled' = cancelled /\ topup' = topup
      BY DEF Debit
    <3>3. pc[u] \in HasBalance => balance'[req[u].student] = balance[req[u].student]
      BY <2>1, <3>2, OthersBalances DEF HasBalance, s
    <3> QED
      BY <3>1, <3>2, <3>3 DEF Backed, BacksTopup, BacksSettle, KeyTaken, Topped
  <2> QED
    BY <2>8, <2>9, <2>10, <2>11, <2>12, ReplyBacked DEF Debit
<1> QED
  BY <1>1, <1>2

-----------------------------------------------------------------------------
(* The environment, and every step                                         *)

\* The row of an order some payment holds is not updated.
LEMMA MarkCancelledKeeps ==
  ASSUME IInv, NEW o \in Orders, MarkCancelled(o)
  PROVE  IInv'
<1>1. TypeOK'
  BY DEF MarkCancelled, threads, IInv, TypeOK
<1>2. ASSUME NEW t \in Threads PROVE Asked(t)' /\ Backed(t)'
  <2>1. Asked(t) /\ Backed(t)
    BY DEF IInv
  <2>2. pc[t] \in HasARow => req[t].ref # o
    BY DEF MarkCancelled, HasRow, HasARow
  <2> QED
    BY <2>1, <2>2
       DEF MarkCancelled, threads, Asked, Backed, BacksTopup, BacksSettle, KeyTaken, Topped
<1>3. ASSUME NEW t \in Threads, NEW u \in Threads, t # u PROVE Apart(t, u)'
  BY <1>3 DEF IInv, MarkCancelled, threads, Apart, HasStudent, HasShare
<1>4. TopupsShaped' /\ OneTopupPerKey' /\ LedgerChains' /\ BookedOnce'
  BY DEF MarkCancelled, IInv, TopupsShaped, OneTopupPerKey, LedgerChains, BookedOnce, Booked, Signed
<1> QED
  BY <1>1, <1>2, <1>3, <1>4 DEF IInv

LEMMA RestartKeeps ==
  ASSUME IInv, Restart
  PROVE  IInv'
<1>1. NoReq \in Requests
  BY DEF NoReq, Requests
<1>2. TypeOK'
  BY <1>1, WalletAssumption DEF Restart, Fault, tables, IInv, TypeOK, Requests
<1>3. \A t \in Threads : Asked(t)' /\ Backed(t)'
  BY DEF Restart, Asked, Backed, HasARow, HasBalance, NoReq
<1>4. \A t, u \in Threads : Apart(t, u)'
  BY DEF Restart, Apart, HasStudent, HasShare, HasARow, HasBalance
<1>5. TopupsShaped' /\ OneTopupPerKey' /\ LedgerChains' /\ BookedOnce'
  BY DEF Restart, tables, IInv, TopupsShaped, OneTopupPerKey, LedgerChains, BookedOnce, Booked, Signed
<1> QED
  BY <1>2, <1>3, <1>4, <1>5 DEF IInv

LEMMA StutterKeeps == ASSUME IInv, UNCHANGED vars PROVE IInv'
<1>1. TypeOK'
  BY DEF vars, tables, threads, IInv, TypeOK
<1>2. \A t \in Threads : Asked(t)' /\ Backed(t)'
  BY DEF vars, tables, threads, IInv, Asked, Backed, BacksTopup, BacksSettle, KeyTaken, Topped
<1>3. ASSUME NEW t \in Threads, NEW u \in Threads, t # u PROVE Apart(t, u)'
  BY <1>3 DEF IInv, vars, threads, Apart, HasStudent, HasShare
<1>4. TopupsShaped' /\ OneTopupPerKey' /\ LedgerChains' /\ BookedOnce'
  BY DEF vars, tables, IInv, TopupsShaped, OneTopupPerKey, LedgerChains, BookedOnce, Booked, Signed
<1> QED
  BY <1>1, <1>2, <1>3, <1>4 DEF IInv

LEMMA StepKeeps == IInv /\ [Next]_vars => IInv'
<1> SUFFICES ASSUME IInv, [Next]_vars PROVE IInv'
  OBVIOUS
<1>1. CASE UNCHANGED vars
  BY <1>1, StutterKeeps
<1>2. CASE \E o \in Orders : MarkCancelled(o)
  BY <1>2, MarkCancelledKeeps
<1>3. CASE Restart
  BY <1>3, RestartKeeps
<1>4. ASSUME NEW t \in Threads, Step(t) PROVE IInv'
  <2>1. CASE Topup(t)
    BY <2>1, FindReplayKeeps, InsertTopupKeeps DEF Topup
  <2>2. CASE Settle(t)
    BY <2>2, LockTopupKeeps, CreditKeeps DEF Settle
  <2>3. CASE Pay(t)
    BY <2>3, FindPaymentKeeps, LockOrderKeeps, DebitKeeps DEF Pay
  <2>4. CASE LockStudent(t)
    BY <2>4, LockStudentKeeps
  <2> QED
    BY <1>4, <2>1, <2>2, <2>3, <2>4 DEF Step
<1>5. ASSUME NEW t \in Threads,
             \E s \in Students : \E n \in Amounts : \E k \in Keys \cup {None} :
               \E demo \in BOOLEAN : CallTopup(t, s, n, k, demo)
      PROVE  IInv'
  BY <1>5, CallTopupKeeps
<1>6. ASSUME NEW t \in Threads, \E id \in Topups : \E ok \in BOOLEAN : CallSettle(t, id, ok)
      PROVE  IInv'
  BY <1>6, CallSettleKeeps
<1>7. ASSUME NEW t \in Threads, \E o \in Orders : CallPay(t, o) PROVE IInv'
  BY <1>7, CallPayKeeps
<1>8. ASSUME NEW t \in Threads, DeadlockVictim(t) PROVE IInv'
  BY <1>8, ReplyKeeps DEF DeadlockVictim, IInv, TypeOK
<1>9. ASSUME NEW t \in Threads, ConnectionLost(t) PROVE IInv'
  <2>1. faults' \in 0 .. MaxFaults
    BY <1>9, WalletAssumption DEF ConnectionLost, Fault, IInv, TypeOK
  <2> QED
    BY <1>9, <2>1, ReplyKeeps DEF ConnectionLost
<1> QED
  BY <1>1, <1>2, <1>3, <1>4, <1>5, <1>6, <1>7, <1>8, <1>9 DEF Next

-----------------------------------------------------------------------------
(* Theorems                                                                *)

\* What the statements of both services rely on (locks held, what was read
\* under them, how far ledgers and balances agree) holds after every step.
THEOREM Inductive == Spec => []IInv
<1> QED
  BY InitInvariant, StepKeeps, PTL DEF Spec

\* Every variable keeps its type: no interleaving of top-ups and payments
\* (gateway and payment service) ever makes a balance negative.
THEOREM TypeCorrect == Spec => []TypeOK
<1>1. IInv => TypeOK
  BY DEF IInv
<1> QED
  BY <1>1, Inductive, PTL

\* The ledger accounts for the balance: every row of wallet_transactions
\* starts where the one before has ended, and the last has left the balance,
\* although top-ups write a balance they have read and payments subtract from
\* the one there is.
THEOREM LedgersChain == Spec => []LedgerChains
<1>1. IInv => LedgerChains
  BY DEF IInv
<1> QED
  BY <1>1, Inductive, PTL

\* A top-up is credited when it is completed and an order debited when it is
\* paid, each once, whatever webhooks, reviews and repetitions come
\* (complete_topup of both services, process_payment).
THEOREM EachBookedOnce == Spec => []BookedOnce
<1>1. IInv => BookedOnce
  BY DEF IInv
<1> QED
  BY <1>1, Inductive, PTL

\* A repeated request with the key of the first makes no second top-up, also
\* when both are being served (the SELECT, and the unique index behind it).
THEOREM OnePerKey == Spec => []OneTopupPerKey
<1>1. IInv => OneTopupPerKey
  BY DEF IInv
<1> QED
  BY <1>1, Inductive, PTL

\* process_payment debits no order that the gateway has cancelled: the status
\* it has read under the lock of the row is still there when it pays.
THEOREM NoCancelledDebit == Spec => CancelledNotDebited
<1> DEFINE NotDebited == \A o \in Orders : o \in paid' \ paid => o \notin cancelled
<1>1. IInv /\ [Next]_vars => [NotDebited]_<<paid, cancelled>>
  <2> SUFFICES ASSUME IInv, Next, NEW o \in Orders, o \in paid' \ paid
               PROVE  o \notin cancelled
    BY DEF vars, tables
  <2>1. PICK t \in Threads : Debit(t)
    BY ZenonT(60) DEF Next, Step, Topup, Settle, Pay, CallTopup, CallSettle, CallPay, FindReplay,
           InsertTopup, LockTopup, Credit, FindPayment, LockOrder, LockStudent,
           DeadlockVictim, ConnectionLost, Restart, MarkCancelled, tables
  <2>2. PaymentUnique(req[t].ref)
    BY <2>1 DEF Debit
  <2>3. req[t].ref \notin cancelled /\ paid' = paid \cup {req[t].ref}
    BY <2>1, <2>2, DebitBooks
  <2> QED
    BY <2>3
<1> QED
  BY <1>1, Inductive, PTL DEF Spec, CancelledNotDebited

\* A completed or failed top-up never changes again, and no settlement changes
\* whose it is or how much it is worth.
THEOREM SettledStays == Spec => SettledForGood
<1> DEFINE Stays ==
      \A id \in Topups :
        /\ topup[id].status \in {"COMPLETED", "FAILED"} => topup'[id] = topup[id]
        /\ topup[id].status # "none" => /\ topup'[id].student = topup[id].student
                                        /\ topup'[id].amount = topup[id].amount
<1>1. IInv /\ [Next]_vars => [Stays]_topup
  <2> SUFFICES ASSUME IInv, Next, topup' # topup PROVE Stays
    BY DEF vars, tables
  <2>1. topup \in [Topups -> Rows]
    BY DEF IInv, TypeOK, Rows
  <2>2. PICK t \in Threads : InsertTopup(t) \/ LockTopup(t) \/ Credit(t)
    BY DEF Next, Step, Topup, Settle, Pay, CallTopup, CallSettle, CallPay, FindReplay,
           FindPayment, LockOrder, Debit, LockStudent,
           DeadlockVictim, ConnectionLost, Restart, MarkCancelled, tables
  <2>3. CASE InsertTopup(t)
    <3>1. PICK id \in Topups :
            topup[id].status = "none" /\ \A jd \in Topups \ {id} : topup'[jd] = topup[jd]
      BY <2>1, <2>3 DEF InsertTopup
    <3> QED
      BY <3>1
  <2>4. CASE LockTopup(t)
    <3>1. Asked(t)
      BY DEF IInv
    <3>2. /\ req[t].ref \in Topups /\ topup[req[t].ref].status = "PENDING"
          /\ topup' = [topup EXCEPT ![req[t].ref].status = "FAILED"]
      BY <2>4, <3>1 DEF LockTopup, Asked
    <3>3. PICK row : row = [topup[req[t].ref] EXCEPT !.status = "FAILED"]
      OBVIOUS
    <3>4. row.student = topup[req[t].ref].student /\ row.amount = topup[req[t].ref].amount
      BY <2>1, <3>2, <3>3 DEF Rows
    <3>5. topup' = [topup EXCEPT ![req[t].ref] = row]
      BY <3>2, <3>3
    <3> QED
      BY <2>1, <3>2, <3>4, <3>5
  <2>5. CASE Credit(t)
    <3>1. Asked(t) /\ Backed(t) /\ pc[t] = "credit"
      BY <2>5 DEF IInv, Credit
    <3>2. PICK row : row = [status |-> "COMPLETED", student |-> req[t].student,
                            amount |-> req[t].amount, key |-> req[t].key]
      OBVIOUS
    <3>3. row.student = req[t].student /\ row.amount = req[t].amount
      BY <3>2
    <3>4. topup' = [topup EXCEPT ![req[t].ref] = row]
      BY <2>5, <3>2 DEF Credit, Settled
    <3>5. \/ topup[req[t].ref].status = "none"
          \/ /\ topup[req[t].ref].status = "PENDING"
             /\ req[t].student = topup[req[t].ref].student
             /\ req[t].amount = topup[req[t].ref].amount
      BY <3>1 DEF Asked, Backed, BacksTopup, BacksSettle, HasARow
    <3> QED
      BY <2>1, <3>3, <3>4, <3>5
  <2> QED
    BY <2>2, <2>3, <2>4, <2>5
<1> QED
  BY <1>1, Inductive, PTL DEF Spec, SettledForGood

\* However the statements of concurrent requests interleave, the accounts
\* change as if by one atomic booking at a time: COMMIT of a credit or a debit
\* is a step of Accounts, and every other statement leaves them alone.
THEOREM RefinesAccounts == Spec => ImplementsAccounts
<1> DEFINE Done == {id \in Topups : topup[id].status = "COMPLETED"} \cup paid
<1>1. Init => Account!Init
  BY DEF Init, Account!Init, NoTopup
<1>2. IInv /\ [Next]_vars => [Account!Next]_(Account!vars)
  <2> SUFFICES ASSUME IInv, [Next]_vars PROVE [Account!Next]_(Account!vars)
    OBVIOUS
  <2>1. ASSUME NEW t \in Threads, Credit(t) PROVE Account!Next
    <3> DEFINE s == req[t].student
               n == req[t].amount
               id == req[t].ref
    <3>1. /\ s \in Students /\ n \in Amounts /\ id \in Topups
          /\ topup[id].status \in {"none", "PENDING"}
          /\ balance' = [balance EXCEPT ![s] = balance[s] + n]
          /\ ledger' = [ledger EXCEPT ![s] = Append(ledger[s],
               [direction |-> "CREDIT", amount |-> n, before |-> balance[s],
                after |-> balance[s] + n, ref |-> id])]
      BY <2>1, CreditBooks
    <3>2. id \notin Done
      BY <3>1, WalletAssumption DEF IInv, TypeOK
    <3>3. Done' = Done \cup {id}
      <4>1. paid' = paid /\ topup'[id].status = "COMPLETED"
              /\ \A jd \in Topups \ {id} : topup'[jd] = topup[jd]
        BY <2>1, <3>1 DEF Credit, Settled, IInv, TypeOK
      <4> QED
        BY <3>1, <4>1
    <3>4. PICK a \in Students, k \in Amounts \cup {Total[p] : p \in Orders},
               r \in (Topups \cup Orders) \ Done : a = s /\ k = n /\ r = id
      BY <3>1, <3>2
    <3>5. Account!Credit(a, k, r)
      BY <3>1, <3>3, <3>4 DEF Account!Credit, Account!Book
    <3> QED
      BY <3>4, <3>5 DEF Account!Next
  <2>2. ASSUME NEW t \in Threads, Debit(t), PaymentUnique(req[t].ref) PROVE Account!Next
    <3> DEFINE s == req[t].student
               n == req[t].amount
               o == req[t].ref
    <3>1. /\ o \in Orders /\ s \in Students /\ n = Total[o]
          /\ o \notin paid /\ paid' = paid \cup {o} /\ balance[s] >= n
          /\ balance' = [balance EXCEPT ![s] = balance[s] - n]
          /\ ledger' = [ledger EXCEPT ![s] = Append(ledger[s],
               [direction |-> "DEBIT", amount |-> n, before |-> balance[s],
                after |-> balance[s] - n, ref |-> o])]
      BY <2>2, DebitBooks
    <3>2. o \notin Done /\ topup' = topup
      BY <2>2, <3>1, WalletAssumption DEF Debit
    <3>3. Done' = Done \cup {o}
      BY <3>1, <3>2
    <3>4. PICK a \in Students, k \in Amounts \cup {Total[p] : p \in Orders},
               r \in (Topups \cup Orders) \ Done : a = s /\ k = n /\ r = o
      BY <3>1, <3>2
    <3>5. Account!Debit(a, k, r)
      BY <3>1, <3>3, <3>4 DEF Account!Debit, Account!Book
    <3> QED
      BY <3>4, <3>5 DEF Account!Next
  <2>3. ASSUME NEW t \in Threads, InsertTopup(t) \/ LockTopup(t) PROVE UNCHANGED Account!vars
    <3>1. UNCHANGED <<balance, ledger, paid>>
      BY <2>3 DEF InsertTopup, LockTopup
    <3>2. \A id \in Topups : topup'[id].status = "COMPLETED" <=> topup[id].status = "COMPLETED"
      <4>1. topup \in [Topups -> Rows] /\ Asked(t)
        BY DEF IInv, TypeOK, Rows
      <4>2. CASE InsertTopup(t)
        <5>1. \/ topup' = topup
              \/ \E id \in Topups : /\ topup[id].status = "none"
                                    /\ topup' = [topup EXCEPT ![id] =
                                         [status |-> "PENDING", student |-> req[t].student,
                                          amount |-> req[t].amount, key |-> req[t].key]]
          BY <4>2 DEF InsertTopup
        <5> QED
          BY <4>1, <5>1
      <4>3. CASE LockTopup(t)
        <5>1. \/ topup' = topup
              \/ /\ topup[req[t].ref].status = "PENDING"
                 /\ topup' = [topup EXCEPT ![req[t].ref].status = "FAILED"]
          BY <4>3 DEF LockTopup
        <5>2. req[t].ref \in Topups
          BY <4>1, <4>3 DEF LockTopup, Asked
        <5> QED
          BY <4>1, <5>1, <5>2 DEF Rows
      <4> QED
        BY <2>3, <4>2, <4>3
    <3>3. Done' = Done
      BY <3>1, <3>2
    <3> QED
      BY <3>1, <3>3 DEF Account!vars
  <2>4. CASE UNCHANGED <<balance, ledger, paid, topup>>
    BY <2>4 DEF Account!vars
  <2>5. ASSUME NEW t \in Threads, Debit(t), ~PaymentUnique(req[t].ref)
        PROVE  UNCHANGED <<balance, ledger, paid, topup>>
    BY <2>5 DEF Debit
  <2> QED
    BY <2>1, <2>2, <2>3, <2>4, <2>5
       DEF vars, tables, Next, Step, Topup, Settle, Pay, CallTopup, CallSettle, CallPay, FindReplay,
           FindPayment, LockOrder, LockStudent, DeadlockVictim, ConnectionLost, Restart,
           MarkCancelled
<1> QED
  BY <1>1, <1>2, Inductive, PTL DEF Spec, ImplementsAccounts, Account!Spec
=============================================================================
