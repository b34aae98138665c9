------------------------- MODULE StockServiceProofs -------------------------
(***************************************************************************)
(* The safety of the stock service for any number of orders, items,        *)
(* threads and units, in five parts.                                       *)
(*                                                                         *)
(*   Statements   an inductive invariant that adds to the properties what  *)
(*                each statement of a handler relies on: which rows exist  *)
(*                in which form, what a thread serves at each statement,   *)
(*                and what its transaction has locked and added by then;   *)
(*   Units        none is lost or made up, for which the invariant says    *)
(*                what each open transaction has put back so far and that  *)
(*                a release has locked all its order can still give back;  *)
(*   Refinement   every step is one operation of Inventory or none;        *)
(*   Confirmed    an order the gateway was told is confirmed keeps all its *)
(*                stock, if the gateway is done with every order within    *)
(*                the reservation's time to live.  The two statements of   *)
(*                confirm are not atomic: what saves them is who may       *)
(*                release what.  release is called for an abandoned order  *)
(*                only, the reaper takes expired rows, which belong to     *)
(*                abandoned orders, and no reserve of a confirmed order is *)
(*                in flight;                                               *)
(*   Oversell     none, from Units and Confirmed.                          *)
(***************************************************************************)
EXTENDS StockService, UnitSums, TLAPS

\* A row that does not exist has no content; one that does has units, and is
\* not both confirmed and released.
RowShape ==
  \A k \in Keys :
    /\ reservation[k].status = "none" => reservation[k] = NoRow
    /\ reservation[k].status # "none" => reservation[k].qty > 0
    /\ reservation[k].status = "RELEASED" => ~reservation[k].confirmed

\* What a thread serves while it is at a statement.
CallShape ==
  /\ pc[Reaper] \in {"idle", "restock", "finish"}
  /\ \A t \in Threads :
       /\ pc[t] = "idle" => call[t] = NoCall
       /\ pc[t] \in {"read", "lock", "store", "unlock"} =>
            call[t].order \in Orders /\ call[t].item \in Items /\ call[t].qty > 0
       /\ pc[t] \in {"count", "confirm", "select", "restock", "finish"} =>
            call[t].order \in Orders /\ call[t].item = None

\* What a transaction holds at a statement: nothing outside one; at restock
\* and finish, the items its rows so far were put back to, and no others,
\* have units pending.
TxShape ==
  \A p \in Procs :
    /\ pc[p] \notin {"store", "restock", "finish"} => tx[p] = NoTx
    /\ pc[p] = "store" => tx[p].rows = {}
    /\ pc[p] = "restock" => tx[p].want \in tx[p].todo /\ tx[p].todo \subseteq tx[p].rows
    /\ \A i \in Items : i \notin tx[p].holds => tx[p].pending[i] = 0
    /\ pc[p] \in {"restock", "finish"} =>
         \A i \in tx[p].holds : tx[p].pending[i] > 0

IInv ==
  /\ TypeOK
  /\ RowShape
  /\ CallShape
  /\ TxShape
  /\ TransactionsIsolated
  /\ LockedRowsPending
  /\ AvailabilityFollowsStock

-----------------------------------------------------------------------------

\* The sentinels have their types.
LEMMA Sentinels ==
  /\ NoRow \in Rows
  /\ NoCall \in Calls
  /\ NoTx \in Transactions
  /\ NoTx.holds = {} /\ NoTx.rows = {} /\ NoTx.todo = {}
  /\ NoTx.pending = [i \in Items |-> 0]
BY DEF NoRow, NoCall, NoTx, Rows, Calls, Transactions

\* The initial state: nothing reserved, every thread idle.
LEMMA InitIInv == Init => IInv
<1> SUFFICES ASSUME Init PROVE IInv
  OBVIOUS
<1>1. TypeOK
  BY Sentinels, ConstantsAssumption DEF Init, TypeOK, Procs
<1>2. RowShape
  BY DEF Init, RowShape, NoRow
<1>3. CallShape /\ TxShape
  BY DEF Init, CallShape, TxShape, NoTx, Procs
<1>4. TransactionsIsolated /\ LockedRowsPending
  BY Sentinels DEF Init, TransactionsIsolated, LocksExclusive, SnapshotCurrent,
                   LockedRowsPending, Procs
<1>5. AvailabilityFollowsStock
  BY DEF Init, AvailabilityFollowsStock
<1> QED
  BY <1>1, <1>2, <1>3, <1>4, <1>5 DEF IInv

\* reserve takes or skips the Redis lock.
LEMMA CallReserveIInv ==
  ASSUME IInv, NEW t \in Threads, NEW q \in Requests, CallReserve(t, q)
  PROVE  IInv'
<1> USE DEF IInv
<1>1. /\ q.order \in Orders /\ q.item \in Items /\ q.qty \in Int /\ q.qty > 0
      /\ q \in Calls /\ t # Reaper /\ t \in Procs
  BY ConstantsAssumption DEF Reserving, Calls, Procs, CallReserve
<1>2. /\ pc[t] = "idle" /\ tx[t] = NoTx
      /\ pc' = [pc EXCEPT ![t] = "read"] /\ call' = [call EXCEPT ![t] = q]
      /\ UNCHANGED <<stock, available, byHand, reservation, phase, tx>>
  BY <1>1 DEF CallReserve, tables, TxShape
<1>3. TypeOK'
  <2>1. redisKeys' \subseteq Keys
    BY <1>1 DEF CallReserve, TypeOK, Keys
  <2>2. faults' \in 0 .. MaxFaults
    BY ConstantsAssumption DEF CallReserve, Fault, TypeOK
  <2> QED
    BY <1>1, <1>2, <2>1, <2>2 DEF TypeOK, Procs
<1>4. RowShape' /\ AvailabilityFollowsStock'
  BY <1>2 DEF RowShape, AvailabilityFollowsStock
<1>5. CallShape'
  BY <1>1, <1>2 DEF CallShape, TypeOK, Procs
<1>6. TxShape'
  BY <1>1, <1>2 DEF TxShape, TypeOK, Procs
<1>7. TransactionsIsolated' /\ LockedRowsPending'
  BY <1>1, <1>2 DEF TransactionsIsolated, LocksExclusive, SnapshotCurrent,
                            LockedRowsPending, Unconfirmed, TypeOK, Procs
<1> QED
  BY <1>3, <1>4, <1>5, <1>6, <1>7

\* A step that leaves the tables and the transactions alone preserves what is
\* said of the rows, whatever moves outside a transaction.
LEMMA QuietStep ==
  ASSUME IInv, UNCHANGED <<tables, tx>>,
         \A t \in Threads : pc'[t] = "store" => pc[t] = "store" /\ call'[t] = call[t]
  PROVE  /\ RowShape' /\ AvailabilityFollowsStock'
         /\ TransactionsIsolated' /\ LockedRowsPending'
<1> USE DEF IInv
<1>1. RowShape' /\ AvailabilityFollowsStock' /\ LockedRowsPending'
  BY DEF tables, RowShape, AvailabilityFollowsStock, LockedRowsPending, Unconfirmed
<1>2. TransactionsIsolated'
  BY DEF tables, TransactionsIsolated, LocksExclusive, SnapshotCurrent
<1> QED
  BY <1>1, <1>2

\* The SELECT of reserve.
LEMMA ReadReservationIInv ==
  ASSUME IInv, NEW t \in Threads, ReadReservation(t)
  PROVE  IInv'
<1> USE DEF IInv
<1>1. t # Reaper /\ t \in Procs
  BY ConstantsAssumption DEF Procs
<1>2. \E l \in {"lock", "unlock"} : pc' = [pc EXCEPT ![t] = l]
  BY DEF ReadReservation
<1>3. /\ pc[t] = "read" /\ tx[t] = NoTx
      /\ UNCHANGED <<tables, redisKeys, phase, call, tx, faults>>
  BY <1>1 DEF ReadReservation, TxShape
<1>4. TypeOK'
  BY <1>1, <1>2, <1>3 DEF TypeOK, tables
<1>5. CallShape' /\ TxShape'
  BY <1>1, <1>2, <1>3 DEF CallShape, TxShape, TypeOK, Procs
<1>6. \A u \in Threads : pc'[u] = "store" => pc[u] = "store" /\ call'[u] = call[u]
  BY <1>1, <1>2, <1>3 DEF TypeOK, Procs
<1> QED
  BY <1>3, <1>4, <1>5, <1>6, QuietStep

\* SELECT ... FOR UPDATE of reserve: the quantity read is the committed one,
\* and no other transaction has the row.
LEMMA LockItemIInv ==
  ASSUME IInv, NEW t \in Threads, LockItem(t)
  PROVE  IInv'
<1> USE DEF IInv
<1> DEFINE item == call[t].item
<1>1. t # Reaper /\ t \in Procs
  BY ConstantsAssumption DEF Procs
<1>2. /\ pc[t] = "lock" /\ tx[t] = NoTx /\ item \in Items /\ call[t].qty > 0
      /\ UNCHANGED <<tables, redisKeys, phase, call, faults>>
  BY <1>1 DEF LockItem, TxShape, CallShape
<1>3. CASE OnStock(item, call[t].qty)
  <2>1. /\ pc' = [pc EXCEPT ![t] = "store"]
        /\ tx' = [tx EXCEPT ![t] = [NoTx EXCEPT !.seen = stock[item], !.holds = {item}]]
        /\ stock[item] >= call[t].qty
        /\ \A p \in Procs \ {t} : item \notin tx[p].holds
    BY <1>3 DEF LockItem, OnStock, ItemFree
  <2>2. tx'[t] = [seen |-> stock[item], holds |-> {item}, rows |-> {}, todo |-> {},
                  want |-> None, pending |-> [i \in Items |-> 0]]
    BY <1>1, <1>2, <2>1 DEF TypeOK, NoTx
  <2>3. /\ tx'[t].seen = stock[item] /\ tx'[t].holds = {item} /\ tx'[t].rows = {}
        /\ tx'[t].pending = [i \in Items |-> 0]
        /\ tx'[t] \in Transactions
    <3>1. stock[item] \in Nat /\ {item} \in SUBSET Items
      BY <1>2 DEF TypeOK
    <3>2. tx'[t] \in Transactions
      BY <2>2, <3>1 DEF Transactions
    <3> QED
      BY <2>2, <3>2
  <2>4. \A p \in Procs \ {t} : tx'[p] = tx[p] /\ pc'[p] = pc[p]
    BY <1>1, <2>1 DEF TypeOK
  <2>5. pc'[t] = "store"
    BY <1>1, <2>1 DEF TypeOK
  <2>6. TypeOK'
    BY <1>1, <1>2, <2>1, <2>3, <2>4 DEF TypeOK, tables
  <2>7. RowShape' /\ AvailabilityFollowsStock'
    BY <1>2 DEF RowShape, AvailabilityFollowsStock, tables
  <2>8. CallShape'
    BY <1>1, <1>2, <2>4, <2>5 DEF CallShape, TypeOK, Procs
  <2>9. TxShape'
    BY <1>1, <2>3, <2>4, <2>5 DEF TxShape
  <2>10. LockedRowsPending'
    BY <1>1, <1>2, <2>3, <2>4 DEF LockedRowsPending, Unconfirmed, tables
  <2>11. TransactionsIsolated'
    <3>1. ASSUME NEW p \in Procs, NEW q \in Procs, p # q
          PROVE  /\ tx'[p].holds \cap tx'[q].holds = {}
                 /\ tx'[p].rows \cap tx'[q].rows = {}
      <4>1. CASE p # t /\ q # t
        BY <2>4, <3>1, <4>1 DEF TransactionsIsolated, LocksExclusive
      <4>2. ASSUME NEW r \in Procs \ {t}
            PROVE  /\ {item} \cap tx'[r].holds = {}
                   /\ tx'[t].rows \cap tx'[r].rows = {}
        <5>1. item \notin tx'[r].holds
          BY <2>1, <2>4
        <5> QED
          BY <2>3, <5>1
      <4> QED
        BY <2>3, <3>1, <4>1, <4>2
    <3>2. call[t].qty \in 1 .. stock[item]
      BY <1>2, <2>1 DEF TypeOK, Calls
    <3>3. ASSUME NEW u \in Threads, pc'[u] = "store"
          PROVE  /\ tx'[u].holds = {call'[u].item}
                 /\ tx'[u].seen = stock'[call'[u].item]
                 /\ call'[u].qty \in 1 .. tx'[u].seen
      <4>1. CASE u = t
        BY <1>2, <2>3, <3>2, <4>1 DEF tables
      <4>2. CASE u # t
        BY <1>2, <2>4, <3>3, <4>2 DEF TransactionsIsolated, SnapshotCurrent, tables, Procs
      <4> QED
        BY <4>1, <4>2
    <3> QED
      BY <3>1, <3>3 DEF TransactionsIsolated, LocksExclusive, SnapshotCurrent
  <2> QED
    BY <2>6, <2>7, <2>8, <2>9, <2>10, <2>11
<1>4. CASE ~OnStock(item, call[t].qty)
  <2>1. pc' = [pc EXCEPT ![t] = "unlock"] /\ tx' = tx
    BY <1>4 DEF LockItem
  <2>2. TypeOK'
    BY <1>1, <1>2, <2>1 DEF TypeOK, tables
  <2>3. CallShape' /\ TxShape'
    BY <1>1, <1>2, <2>1 DEF CallShape, TxShape, TypeOK, Procs
  <2>4. \A u \in Threads : pc'[u] = "store" => pc[u] = "store" /\ call'[u] = call[u]
    BY <1>1, <1>2, <2>1 DEF TypeOK, Procs
  <2> QED
    BY <1>2, <2>1, <2>2, <2>3, <2>4, QuietStep
<1> QED
  BY <1>3, <1>4

\* Ending the transaction of p releases its locks and takes none.
LEMMA EndOfTransaction ==
  ASSUME TypeOK, LocksExclusive, NEW p \in Procs, tx' = [tx EXCEPT ![p] = NoTx]
  PROVE  /\ LocksExclusive'
         /\ tx'[p] = NoTx
         /\ \A q \in Procs \ {p} : tx'[q] = tx[q]
         /\ tx' \in [Procs -> Transactions]
<1>1. tx'[p] = NoTx /\ \A q \in Procs \ {p} : tx'[q] = tx[q]
  BY DEF TypeOK
<1>2. NoTx.holds = {} /\ NoTx.rows = {}
  BY Sentinels
<1>3. LocksExclusive'
  BY <1>1, <1>2 DEF LocksExclusive
<1>4. tx' \in [Procs -> Transactions]
  BY Sentinels DEF TypeOK
<1> QED
  BY <1>1, <1>3, <1>4

\* UPDATE, INSERT and COMMIT of reserve: what is left was counted from the
\* committed quantity, so it is not negative and decides the availability.
LEMMA StoreReservationIInv ==
  ASSUME IInv, NEW t \in Threads, StoreReservation(t)
  PROVE  IInv'
<1> USE DEF IInv
<1> DEFINE item == call[t].item
           left == tx[t].seen - call[t].qty
<1>1. t # Reaper /\ t \in Procs
  BY ConstantsAssumption DEF Procs
<1>2. /\ pc[t] = "store" /\ item \in Items /\ call[t].order \in Orders
      /\ Key(t) \in Keys /\ call[t].qty > 0
      /\ tx' = [tx EXCEPT ![t] = NoTx] /\ pc' = [pc EXCEPT ![t] = "unlock"]
      /\ UNCHANGED <<redisKeys, phase, call, faults>>
  BY DEF StoreReservation, CallShape, Key, Keys
<1>3. /\ tx[t].holds = {item} /\ tx[t].seen = stock[item]
      /\ call[t].qty \in Int /\ call[t].qty <= stock[item]
      /\ left \in Nat /\ left = stock[item] - call[t].qty
  BY <1>2 DEF TransactionsIsolated, SnapshotCurrent, TypeOK, Calls
<1>4. /\ LocksExclusive' /\ tx'[t] = NoTx /\ \A q \in Procs \ {t} : tx'[q] = tx[q]
      /\ tx' \in [Procs -> Transactions]
  BY <1>1, <1>2, EndOfTransaction DEF TransactionsIsolated
<1>5. pc'[t] = "unlock" /\ \A q \in Procs \ {t} : pc'[q] = pc[q]
  BY <1>1, <1>2 DEF TypeOK
<1>6. CallShape' /\ TxShape'
  <2>1. CallShape'
    BY <1>1, <1>2, <1>5 DEF CallShape, TypeOK, Procs
  <2>2. TxShape'
    BY <1>1, <1>4, <1>5, Sentinels DEF TxShape
  <2> QED
    BY <2>1, <2>2
<1>7. \A q \in Procs \ {t} : item \notin tx[q].holds
  BY <1>1, <1>3 DEF TransactionsIsolated, LocksExclusive
<1>8. CASE reservation[Key(t)].status = "none"
  <2>1. /\ stock' = [stock EXCEPT ![item] = left]
        /\ available' = [available EXCEPT ![item] = left > 0]
        /\ byHand' = byHand \ {item}
        /\ reservation' = [reservation EXCEPT ![Key(t)] =
             [status |-> "RESERVED", qty |-> call[t].qty,
              confirmed |-> FALSE, expired |-> FALSE]]
    BY <1>8 DEF StoreReservation, InsertSucceeds, StillAvailable
  <2> DEFINE new == [status |-> "RESERVED", qty |-> call[t].qty,
                     confirmed |-> FALSE, expired |-> FALSE]
  <2>2. reservation' = [reservation EXCEPT ![Key(t)] = new]
    BY <2>1
  <2>3. new \in Rows
    BY <1>2, <1>3 DEF Rows
  <2>4. TypeOK'
    <3>1. stock' \in [Items -> Nat] /\ available' \in [Items -> BOOLEAN]
      BY <1>2, <1>3, <2>1 DEF TypeOK
    <3>2. reservation' \in [Keys -> Rows]
      BY <2>2, <2>3 DEF TypeOK
    <3> QED
      BY <1>1, <1>2, <1>4, <2>1, <3>1, <3>2 DEF TypeOK
  <2>5. RowShape'
    BY <1>2, <2>2 DEF RowShape, TypeOK
  <2>6. SnapshotCurrent'
    <3> SUFFICES ASSUME NEW u \in Threads, pc'[u] = "store"
                 PROVE  /\ tx'[u].holds = {call'[u].item}
                        /\ tx'[u].seen = stock'[call'[u].item]
                        /\ call'[u].qty \in 1 .. tx'[u].seen
      BY DEF SnapshotCurrent
    <3>1. u # t /\ u \in Procs /\ pc[u] = "store" /\ tx'[u] = tx[u] /\ call'[u] = call[u]
      BY <1>2, <1>4, <1>5 DEF Procs
    <3>2. call[u].item # item /\ call[u].item \in Items
      BY <1>7, <3>1 DEF TransactionsIsolated, SnapshotCurrent, CallShape
    <3>3. stock'[call[u].item] = stock[call[u].item]
      BY <1>2, <2>1, <3>2 DEF TypeOK
    <3> QED
      BY <3>1, <3>3 DEF TransactionsIsolated, SnapshotCurrent
  <2>7. LockedRowsPending'
    <3>1. \A k \in Keys : Unconfirmed(k) => Unconfirmed(k)'
      BY <1>2, <1>8, <2>2 DEF Unconfirmed, TypeOK
    <3>2. \A p \in Procs : tx'[p].rows \subseteq tx[p].rows /\ tx[p].rows \subseteq Keys
      BY <1>4, Sentinels DEF TypeOK, Transactions
    <3> QED
      BY <3>1, <3>2 DEF LockedRowsPending
  <2>8. AvailabilityFollowsStock'
    BY <1>2, <2>1 DEF AvailabilityFollowsStock, TypeOK
  <2> QED
    BY <1>4, <1>6, <2>4, <2>5, <2>6, <2>7, <2>8 DEF TransactionsIsolated
<1>9. CASE reservation[Key(t)].status # "none"
  <2>1. UNCHANGED tables
    BY <1>9 DEF StoreReservation, InsertSucceeds
  <2>2. TypeOK'
    BY <1>1, <1>2, <1>4, <2>1 DEF TypeOK, tables
  <2>3. RowShape' /\ AvailabilityFollowsStock'
    BY <2>1 DEF RowShape, AvailabilityFollowsStock, tables
  <2>4. SnapshotCurrent'
    BY <1>2, <1>4, <1>5, <2>1 DEF TransactionsIsolated, SnapshotCurrent, tables, Procs
  <2>5. LockedRowsPending'
    BY <1>4, <2>1, Sentinels DEF LockedRowsPending, Unconfirmed, tables
  <2> QED
    BY <1>4, <1>6, <2>2, <2>3, <2>4, <2>5 DEF TransactionsIsolated
<1> QED
  BY <1>8, <1>9

\* A step outside transactions that leaves the tables alone preserves the
\* invariant if its variables keep their types and its calls their shape.
LEMMA QuietStepIInv ==
  ASSUME IInv, UNCHANGED <<tables, tx>>,
         redisKeys' \subseteq Keys, faults' \in 0 .. MaxFaults,
         phase' \in [Orders -> {"ordering", "confirming", "confirmed", "abandoned"}],
         NEW t \in Threads, NEW l \in {"idle", "count", "confirm", "select"},
         pc[t] \notin {"store", "restock", "finish"},
         pc' = [pc EXCEPT ![t] = l],
         call' \in [Threads -> Calls],
         \A u \in Threads : u # t => call'[u] = call[u],
         l = "idle" => call'[t] = NoCall,
         l \in {"count", "confirm", "select"} =>
           call'[t].order \in Orders /\ call'[t].item = None
  PROVE  IInv'
<1> USE DEF IInv
<1>1. t # Reaper /\ t \in Procs
  BY ConstantsAssumption DEF Procs
<1>2. TypeOK'
  BY <1>1 DEF TypeOK, tables
<1>3. CallShape'
  BY <1>1 DEF CallShape, TypeOK, Procs
<1>4. TxShape'
  BY <1>1 DEF TxShape, TypeOK, Procs
<1>5. \A u \in Threads : pc'[u] = "store" => pc[u] = "store" /\ call'[u] = call[u]
  BY <1>1 DEF TypeOK, Procs
<1> QED
  BY <1>2, <1>3, <1>4, <1>5, QuietStep

\* The answer to a request frees its thread.
LEMMA ReplyShape ==
  ASSUME TypeOK, NEW t \in Threads, Reply(t)
  PROVE  /\ pc' = [pc EXCEPT ![t] = "idle"]
         /\ call' \in [Threads -> Calls]
         /\ call'[t] = NoCall
         /\ \A u \in Threads : u # t => call'[u] = call[u]
BY Sentinels DEF Reply, TypeOK

\* The finally clause of reserve.
LEMMA UnlockKeyIInv ==
  ASSUME IInv, NEW t \in Threads, UnlockKey(t)
  PROVE  IInv'
<1>1. TypeOK /\ pc[t] = "unlock" /\ UNCHANGED <<tables, tx>> /\ phase' = phase
  BY DEF UnlockKey, IInv
<1>2. redisKeys' \subseteq Keys /\ faults' \in 0 .. MaxFaults
  BY ConstantsAssumption, <1>1 DEF UnlockKey, TypeOK, Fault
<1>3. Reply(t)
  BY DEF UnlockKey
<1> QED
  BY <1>1, <1>2, <1>3, ReplyShape, QuietStepIInv DEF TypeOK

\* confirm and release are called.
LEMMA CallOrder ==
  ASSUME IInv, NEW t \in Threads, NEW o \in Orders, NEW l \in {"count", "select"},
         pc[t] = "idle",
         pc' = [pc EXCEPT ![t] = l],
         call' = [call EXCEPT ![t] = [NoCall EXCEPT !.order = o]],
         phase' \in [Orders -> {"ordering", "confirming", "confirmed", "abandoned"}],
         UNCHANGED <<tables, redisKeys, tx, faults>>
  PROVE  IInv'
<1>1. TypeOK
  BY DEF IInv
<1>2. call'[t] = [order |-> o, item |-> None, qty |-> 0]
  BY <1>1 DEF TypeOK, NoCall
<1>3. call'[t] \in Calls /\ call'[t].order = o /\ call'[t].item = None
  BY <1>2 DEF Calls
<1>4. call' \in [Threads -> Calls] /\ \A u \in Threads : u # t => call'[u] = call[u]
  BY <1>1, <1>3 DEF TypeOK
<1> QED
  BY <1>1, <1>3, <1>4, QuietStepIInv DEF TypeOK

LEMMA CallConfirmIInv ==
  ASSUME IInv, NEW t \in Threads, NEW o \in Orders, CallConfirm(t, o)
  PROVE  IInv'
<1>1. phase' \in [Orders -> {"ordering", "confirming", "confirmed", "abandoned"}]
  BY DEF IInv, TypeOK, CallConfirm
<1> QED
  BY <1>1, CallOrder DEF CallConfirm

LEMMA CallReleaseIInv ==
  ASSUME IInv, NEW t \in Threads, NEW o \in Orders, CallRelease(t, o)
  PROVE  IInv'
<1>1. phase' \in [Orders -> {"ordering", "confirming", "confirmed", "abandoned"}]
  BY DEF IInv, TypeOK, CallRelease
<1> QED
  BY <1>1, CallOrder DEF CallRelease

\* The gateway's view keeps its type.
LEMMA AcknowledgeType ==
  ASSUME TypeOK, NEW o \in Orders, Acknowledge(o)
  PROVE  phase' \in [Orders -> {"ordering", "confirming", "confirmed", "abandoned"}]
BY DEF TypeOK, Acknowledge

\* The count of confirm.
LEMMA CountReservationsIInv ==
  ASSUME IInv, NEW t \in Threads, CountReservations(t)
  PROVE  IInv'
<1>1. /\ TypeOK /\ pc[t] = "count" /\ UNCHANGED <<tables, redisKeys, tx, faults>>
      /\ call[t].order \in Orders /\ call[t].item = None
  BY DEF IInv, CountReservations, CallShape
<1>2. CASE pc' = [pc EXCEPT ![t] = "confirm"] /\ UNCHANGED <<call, phase>>
  BY <1>1, <1>2, QuietStepIInv DEF TypeOK
<1>3. CASE Reply(t) /\ (Acknowledge(call[t].order) \/ UNCHANGED phase)
  <2>1. phase' \in [Orders -> {"ordering", "confirming", "confirmed", "abandoned"}]
    BY <1>1, <1>3, AcknowledgeType DEF TypeOK
  <2> QED
    BY <1>1, <1>3, <2>1, ReplyShape, QuietStepIInv DEF TypeOK
<1> QED
  BY <1>2, <1>3 DEF CountReservations

\* A Redis key expires.
LEMMA ExpireKeyIInv ==
  ASSUME IInv, NEW k \in Keys, ExpireKey(k)
  PROVE  IInv'
<1> USE DEF IInv
<1>1. /\ UNCHANGED <<tables, phase, pc, call, tx, faults>> /\ redisKeys' \subseteq Keys
  BY DEF ExpireKey, TypeOK
<1>2. TypeOK' /\ CallShape' /\ TxShape'
  BY <1>1 DEF TypeOK, CallShape, TxShape, tables
<1> QED
  BY <1>1, <1>2, QuietStep

\* The gateway drops an order.
LEMMA GiveUpIInv ==
  ASSUME IInv, NEW o \in Orders, GiveUp(o)
  PROVE  IInv'
<1> USE DEF IInv
<1>1. /\ UNCHANGED <<tables, redisKeys, pc, call, tx, faults>>
      /\ phase' \in [Orders -> {"ordering", "confirming", "confirmed", "abandoned"}]
  BY DEF GiveUp, TypeOK
<1>2. TypeOK' /\ CallShape' /\ TxShape'
  BY <1>1 DEF TypeOK, CallShape, TxShape, tables
<1> QED
  BY <1>1, <1>2, QuietStep

\* A reservation grows older than the TTL.
LEMMA ExpireIInv ==
  ASSUME IInv, NEW k \in Keys, Expire(k)
  PROVE  IInv'
<1> USE DEF IInv
<1>1. /\ reservation' = [reservation EXCEPT ![k].expired = TRUE]
      /\ reservation[k].status = "RESERVED"
      /\ UNCHANGED <<stock, available, byHand, redisKeys, phase, pc, call, tx, faults>>
  BY DEF Expire, Unconfirmed
<1>2. reservation' \in [Keys -> Rows]
  BY <1>1 DEF TypeOK, Rows
<1>3. TypeOK'
  BY <1>1, <1>2 DEF TypeOK
<1>4. \A j \in Keys : /\ reservation'[j].status = reservation[j].status
                      /\ reservation'[j].qty = reservation[j].qty
                      /\ reservation'[j].confirmed = reservation[j].confirmed
                      /\ j # k => reservation'[j] = reservation[j]
  BY <1>1 DEF TypeOK, Rows
<1>5. RowShape'
  BY <1>1, <1>4 DEF RowShape
<1>6. CallShape' /\ TxShape' /\ AvailabilityFollowsStock'
  BY <1>1 DEF CallShape, TxShape, AvailabilityFollowsStock
<1>7. TransactionsIsolated'
  BY <1>1 DEF TransactionsIsolated, LocksExclusive, SnapshotCurrent
<1>8. LockedRowsPending'
  BY <1>1, <1>4 DEF LockedRowsPending, Unconfirmed, TypeOK, Transactions
<1> QED
  BY <1>3, <1>5, <1>6, <1>7, <1>8

\* The UPDATE of confirm leaves alone what another transaction has locked,
\* and its own thread has no transaction with locked rows.
LEMMA ConfirmPendingIInv ==
  ASSUME IInv, NEW t \in Threads, ConfirmPending(t)
  PROVE  IInv'
<1> USE DEF IInv
<1> DEFINE o == call[t].order
<1>1. t # Reaper /\ t \in Procs
  BY ConstantsAssumption DEF Procs
<1>2. /\ pc[t] = "confirm" /\ o \in Orders /\ tx[t] = NoTx
      /\ UNCHANGED <<stock, available, byHand, redisKeys, tx, faults>>
      /\ reservation' = [k \in Keys |-> IF k \in Pending(o)
                                        THEN [reservation[k] EXCEPT !.confirmed = TRUE]
                                        ELSE reservation[k]]
  BY <1>1 DEF ConfirmPending, CallShape, TxShape
<1>3. /\ phase' \in [Orders -> {"ordering", "confirming", "confirmed", "abandoned"}]
      /\ pc' = [pc EXCEPT ![t] = "idle"] /\ call' \in [Threads -> Calls]
      /\ call'[t] = NoCall /\ \A u \in Threads : u # t => call'[u] = call[u]
  BY <1>2, AcknowledgeType, ReplyShape DEF ConfirmPending
<1>4. \A k \in Keys : /\ reservation'[k].status = reservation[k].status
                      /\ reservation'[k].qty = reservation[k].qty
                      /\ reservation'[k] \in Rows
                      /\ k \notin Pending(o) => reservation'[k] = reservation[k]
                      /\ k \in Pending(o) => reservation[k].status = "RESERVED"
  BY <1>2 DEF TypeOK, Rows, Pending, Unconfirmed
<1>5. TypeOK'
  <2>1. reservation' \in [Keys -> Rows]
    BY <1>2, <1>4
  <2> QED
    BY <1>1, <1>2, <1>3, <2>1 DEF TypeOK
<1>6. RowShape'
  BY <1>4 DEF RowShape
<1>7. CallShape' /\ TxShape'
  BY <1>1, <1>2, <1>3 DEF CallShape, TxShape, TypeOK, Procs
<1>8. AvailabilityFollowsStock' /\ TransactionsIsolated'
  BY <1>1, <1>2, <1>3
  DEF AvailabilityFollowsStock, TransactionsIsolated, LocksExclusive, SnapshotCurrent,
      TypeOK, Procs
<1>9. LockedRowsPending'
  <2> SUFFICES ASSUME NEW p \in Procs, NEW k \in tx[p].rows PROVE Unconfirmed(k)'
    BY <1>2 DEF LockedRowsPending
  <2>1. p # t
    BY <1>2, Sentinels
  <2>2. k \notin Pending(o)
    BY <2>1 DEF ConfirmPending, RowsFree
  <2>3. k \in Keys /\ Unconfirmed(k)
    BY DEF LockedRowsPending, TypeOK, Transactions
  <2> QED
    BY <1>4, <2>2, <2>3 DEF Unconfirmed
<1> QED
  BY <1>5, <1>6, <1>7, <1>8, <1>9

\* SELECT ... FOR UPDATE of release and of the reaper: p, which had no
\* transaction, locks rows that are pending and that no one else has.
LEMMA StartRestockIInv ==
  ASSUME IInv, NEW p \in Procs, NEW S \in SUBSET Keys, StartRestock(p, S),
         pc[p] \in {"idle", "select"},
         p \in Threads => call[p].order \in Orders /\ call[p].item = None,
         \A k \in S : Unconfirmed(k),
         \A q \in Procs \ {p} : S \cap tx[q].rows = {},
         UNCHANGED <<tables, redisKeys, phase, call, faults>>
  PROVE  IInv'
<1> USE DEF IInv
<1>1. PICK w \in S :
        tx' = [tx EXCEPT ![p] = [NoTx EXCEPT !.rows = S, !.todo = S, !.want = w]]
  BY DEF StartRestock
<1>2. tx'[p] = [seen |-> 0, holds |-> {}, rows |-> S, todo |-> S, want |-> w,
                pending |-> [i \in Items |-> 0]]
  BY <1>1 DEF TypeOK, NoTx
<1>3. tx'[p] \in Transactions
  BY <1>2 DEF Transactions
<1>4. \A q \in Procs \ {p} : tx'[q] = tx[q] /\ pc'[q] = pc[q]
  BY <1>1 DEF TypeOK, StartRestock
<1>5. pc'[p] = "restock" /\ pc' = [pc EXCEPT ![p] = "restock"]
  BY DEF TypeOK, StartRestock
<1>6. TypeOK'
  BY <1>1, <1>3, <1>5 DEF TypeOK, tables
<1>7. RowShape' /\ AvailabilityFollowsStock'
  BY DEF RowShape, AvailabilityFollowsStock, tables
<1>8. CallShape'
  BY <1>4, <1>5 DEF CallShape, Procs
<1>9. TxShape'
  BY <1>2, <1>4, <1>5 DEF TxShape
<1>10. LocksExclusive'
  <2> SUFFICES ASSUME NEW q \in Procs, NEW r \in Procs, q # r
               PROVE  /\ tx'[q].holds \cap tx'[r].holds = {}
                      /\ tx'[q].rows \cap tx'[r].rows = {}
    BY DEF LocksExclusive
  <2>1. CASE q = p
    BY <1>2, <1>4, <2>1
  <2>2. CASE r = p
    <3>1. tx'[r].holds = {} /\ tx'[r].rows = S /\ S \cap tx'[q].rows = {}
      BY <1>2, <1>4, <2>2
    <3> QED
      BY <3>1
  <2>3. CASE q # p /\ r # p
    BY <1>4, <2>3 DEF TransactionsIsolated, LocksExclusive
  <2> QED
    BY <2>1, <2>2, <2>3
<1>11. SnapshotCurrent'
  BY <1>4, <1>5 DEF TransactionsIsolated, SnapshotCurrent, tables, Procs
<1>12. LockedRowsPending'
  BY <1>2, <1>4 DEF LockedRowsPending, Unconfirmed, tables
<1> QED
  BY <1>6, <1>7, <1>8, <1>9, <1>10, <1>11, <1>12 DEF TransactionsIsolated

LEMMA SelectRowsIInv ==
  ASSUME IInv, NEW t \in Threads, SelectRows(t)
  PROVE  IInv'
<1> DEFINE S == Pending(call[t].order)
<1>1. /\ TypeOK /\ t \in Procs /\ pc[t] = "select"
      /\ call[t].order \in Orders /\ call[t].item = None
      /\ UNCHANGED <<tables, redisKeys, phase, faults>>
  BY DEF IInv, SelectRows, CallShape, Procs
<1>2. CASE S = {}
  <2>1. Reply(t) /\ UNCHANGED tx
    BY <1>2 DEF SelectRows
  <2> QED
    BY <1>1, <2>1, ReplyShape, QuietStepIInv DEF TypeOK
<1>3. CASE S # {}
  <2>1. StartRestock(t, S) /\ UNCHANGED call
    BY <1>3 DEF SelectRows
  <2>2. S \in SUBSET Keys /\ \A k \in S : Unconfirmed(k)
    BY DEF Pending
  <2>3. \A q \in Procs \ {t} : S \cap tx[q].rows = {}
    BY DEF SelectRows, RowsFree
  <2> QED
    BY <1>1, <2>1, <2>2, <2>3, StartRestockIInv
<1> QED
  BY <1>2, <1>3

LEMMA ReaperSelectIInv ==
  ASSUME IInv, ReaperSelect
  PROVE  IInv'
<1> DEFINE E == {k \in Keys : Unconfirmed(k) /\ reservation[k].expired
                                /\ RowsFree(Reaper, {k})}
<1>1. PICK S \in SUBSET E : StartRestock(Reaper, S)
  BY DEF ReaperSelect, Batches
<1>2. /\ pc[Reaper] = "idle" /\ Reaper \in Procs /\ Reaper \notin Threads
      /\ UNCHANGED <<tables, redisKeys, phase, call, faults>>
  BY ConstantsAssumption DEF ReaperSelect, Procs
<1>3. S \in SUBSET Keys /\ \A k \in S : Unconfirmed(k)
  OBVIOUS
<1>4. \A q \in Procs \ {Reaper} : S \cap tx[q].rows = {}
  BY DEF RowsFree
<1> QED
  BY <1>1, <1>2, <1>3, <1>4, StartRestockIInv

\* UPDATE menu_items of release and of the reaper: one more item is locked
\* and has units pending; nothing committed changes.
LEMMA RestockIInv ==
  ASSUME IInv, NEW p \in Procs, Restock(p)
  PROVE  IInv'
<1> USE DEF IInv
<1> DEFINE k == tx[p].want
           i == k[2]
           left == tx[p].todo \ {k}
<1>1. /\ pc[p] = "restock" /\ k \in tx[p].todo /\ tx[p].todo \subseteq tx[p].rows
      /\ UNCHANGED <<tables, redisKeys, phase, call, faults>>
  BY DEF Restock, TxShape
<1>2. tx[p] \in Transactions
  BY DEF TypeOK
<1>3. k \in tx[p].rows /\ k \in Keys /\ i \in Items /\ left \subseteq tx[p].todo
  BY <1>1, <1>2 DEF Transactions, Keys
<1>4. reservation[k].qty \in Nat /\ reservation[k].qty > 0
  BY <1>3 DEF LockedRowsPending, Unconfirmed, RowShape, TypeOK, Rows
<1>5. PICK w \in IF left = {} THEN {None} ELSE left :
        tx' = [tx EXCEPT ![p].holds = @ \cup {i},
                         ![p].pending[i] = AddPending(@, k),
                         ![p].todo = left,
                         ![p].want = w]
  BY DEF Restock
<1> DEFINE units == [tx[p].pending EXCEPT ![i] = @ + reservation[k].qty]
<1>6. tx'[p] = [seen |-> tx[p].seen, holds |-> tx[p].holds \cup {i}, rows |-> tx[p].rows,
                todo |-> left, want |-> w, pending |-> units]
  BY <1>2, <1>5 DEF TypeOK, Transactions, AddPending
<1>7. \A q \in Procs \ {p} : tx'[q] = tx[q]
  BY <1>5 DEF TypeOK
<1>8. PICK l \in {"restock", "finish"} :
        /\ pc' = [pc EXCEPT ![p] = l]
        /\ l = "restock" => left # {}
  BY DEF Restock
<1>9. pc'[p] = l /\ \A q \in Procs \ {p} : pc'[q] = pc[q]
  BY <1>8 DEF TypeOK
<1>10. units \in [Items -> Nat]
  BY <1>2, <1>3, <1>4 DEF Transactions
<1>11. tx'[p] \in Transactions
  <2>1. /\ tx[p].seen \in Nat /\ tx[p].holds \cup {i} \in SUBSET Items
        /\ tx[p].rows \in SUBSET Keys /\ left \in SUBSET Keys
    BY <1>2, <1>3 DEF Transactions
  <2>2. w \in Keys \cup {None}
    BY <2>1
  <2> QED
    BY <1>6, <1>10, <2>1, <2>2 DEF Transactions
<1>12. TypeOK'
  BY <1>1, <1>5, <1>8, <1>11 DEF TypeOK, tables
<1>13. RowShape' /\ AvailabilityFollowsStock'
  BY <1>1 DEF RowShape, AvailabilityFollowsStock, tables
<1>14. CallShape'
  BY <1>1, <1>8, <1>9 DEF CallShape, TypeOK, Procs
<1>15. TxShape'
  <2> SUFFICES ASSUME NEW q \in Procs
               PROVE  /\ pc'[q] \notin {"store", "restock", "finish"} => tx'[q] = NoTx
                      /\ pc'[q] = "store" => tx'[q].rows = {}
                      /\ pc'[q] = "restock" => /\ tx'[q].want \in tx'[q].todo
                                               /\ tx'[q].todo \subseteq tx'[q].rows
                      /\ \A j \in Items : j \notin tx'[q].holds => tx'[q].pending[j] = 0
                      /\ pc'[q] \in {"restock", "finish"} =>
                           \A j \in tx'[q].holds : tx'[q].pending[j] > 0
    BY DEF TxShape
  <2>1. CASE q # p
    BY <1>7, <1>9, <2>1 DEF TxShape
  <2>2. CASE q = p
    <3>1. /\ tx'[p].holds = tx[p].holds \cup {i} /\ tx'[p].rows = tx[p].rows
          /\ tx'[p].todo = left /\ tx'[p].want = w /\ tx'[p].pending = units
      BY <1>6
    <3>2. units[i] > 0 /\ \A j \in Items : j # i => units[j] = tx[p].pending[j]
      BY <1>2, <1>3, <1>4 DEF Transactions
    <3>3. l = "restock" => w \in left
      BY <1>5, <1>8
    <3>4. tx[p].holds \subseteq Items
      BY <1>2 DEF Transactions
    <3>5. \A j \in Items : j \notin tx'[p].holds => tx'[p].pending[j] = 0
      BY <3>1, <3>2 DEF TxShape
    <3>6. \A j \in tx'[p].holds : tx'[p].pending[j] > 0
      BY <1>1, <3>1, <3>2, <3>4 DEF TxShape
    <3> QED
      BY <1>1, <1>3, <1>8, <1>9, <2>2, <3>1, <3>3, <3>5, <3>6
  <2> QED
    BY <2>1, <2>2
<1>16. LocksExclusive'
  <2>1. \A q \in Procs \ {p} : i \notin tx[q].holds
    BY DEF Restock, ItemFree
  <2>2. tx'[p].holds = tx[p].holds \cup {i} /\ tx'[p].rows = tx[p].rows
    BY <1>6
  <2> SUFFICES ASSUME NEW q \in Procs, NEW r \in Procs, q # r
               PROVE  /\ tx'[q].holds \cap tx'[r].holds = {}
                      /\ tx'[q].rows \cap tx'[r].rows = {}
    BY DEF LocksExclusive
  <2>3. /\ tx[q].holds \cap tx[r].holds = {}
        /\ tx[q].rows \cap tx[r].rows = {}
    BY DEF TransactionsIsolated, LocksExclusive
  <2>4. CASE q = p
    BY <1>7, <2>1, <2>2, <2>3, <2>4
  <2>5. CASE r = p
    BY <1>7, <2>1, <2>2, <2>3, <2>5
  <2>6. CASE q # p /\ r # p
    BY <1>7, <2>3, <2>6
  <2> QED
    BY <2>4, <2>5, <2>6
<1>17. SnapshotCurrent'
  BY <1>1, <1>7, <1>9 DEF TransactionsIsolated, SnapshotCurrent, tables, Procs
<1>18. LockedRowsPending'
  BY <1>1, <1>6, <1>7 DEF LockedRowsPending, Unconfirmed, tables
<1> QED
  BY <1>12, <1>13, <1>14, <1>15, <1>16, <1>17, <1>18 DEF TransactionsIsolated

\* The commit that puts units back: the rows it marks are pending and no one
\* else has locked them; the items it raises are locked by p alone, so no
\* other transaction has read their quantity.
LEMMA CommitRestockIInv ==
  ASSUME IInv, NEW p \in Procs, NEW S \in SUBSET Keys, CommitRestock(p, S),
         \A k \in S : Unconfirmed(k),
         \A q \in Procs \ {p} : S \cap tx[q].rows = {},
         pc' = [pc EXCEPT ![p] = "idle"],
         call' \in [Threads -> Calls],
         \A u \in Threads : call'[u] = IF u = p THEN NoCall ELSE call[u],
         UNCHANGED <<redisKeys, phase, faults>>
  PROVE  IInv'
<1> USE DEF IInv
<1>1. /\ pc[p] = "finish"
      /\ stock' = [i \in Items |-> stock[i] + tx[p].pending[i]]
      /\ available' = [i \in Items |-> available[i] \/ i \in tx[p].holds]
      /\ byHand' = byHand \ tx[p].holds
      /\ reservation' = [k \in Keys |-> IF k \in S
                                        THEN [reservation[k] EXCEPT !.status = "RELEASED"]
                                        ELSE reservation[k]]
      /\ tx' = [tx EXCEPT ![p] = NoTx]
  BY DEF CommitRestock
<1>2. /\ tx[p].pending \in [Items -> Nat]
      /\ \A i \in Items : i \notin tx[p].holds => tx[p].pending[i] = 0
      /\ \A i \in tx[p].holds : tx[p].pending[i] > 0
  BY <1>1 DEF TxShape, TypeOK, Transactions
<1>3. /\ LocksExclusive' /\ tx'[p] = NoTx /\ \A q \in Procs \ {p} : tx'[q] = tx[q]
      /\ tx' \in [Procs -> Transactions]
  BY <1>1, EndOfTransaction DEF TransactionsIsolated
<1>4. pc'[p] = "idle" /\ \A q \in Procs \ {p} : pc'[q] = pc[q]
  BY DEF TypeOK
<1>5. \A k \in Keys : /\ reservation'[k] \in Rows
                      /\ k \notin S => reservation'[k] = reservation[k]
                      /\ k \in S => /\ reservation'[k].status = "RELEASED"
                                    /\ reservation'[k].qty = reservation[k].qty
                                    /\ reservation'[k].confirmed = reservation[k].confirmed
  BY <1>1 DEF TypeOK, Rows
<1>6. TypeOK'
  <2>1. stock' \in [Items -> Nat]
    BY <1>1, <1>2 DEF TypeOK
  <2>2. available' \in [Items -> BOOLEAN] /\ reservation' \in [Keys -> Rows]
    BY <1>1, <1>5 DEF TypeOK
  <2>3. pc' \in [Procs -> {"idle", "read", "lock", "store", "unlock", "count",
                           "confirm", "select", "restock", "finish"}]
    BY DEF TypeOK
  <2> QED
    BY <1>1, <1>3, <2>1, <2>2, <2>3 DEF TypeOK
<1>7. RowShape'
  BY <1>5 DEF RowShape, Unconfirmed
<1>8. CallShape'
  BY <1>4 DEF CallShape, Procs
<1>9. TxShape'
  BY <1>3, <1>4, Sentinels DEF TxShape
<1>10. SnapshotCurrent'
  <2> SUFFICES ASSUME NEW u \in Threads, pc'[u] = "store"
               PROVE  /\ tx'[u].holds = {call'[u].item}
                      /\ tx'[u].seen = stock'[call'[u].item]
                      /\ call'[u].qty \in 1 .. tx'[u].seen
    BY DEF SnapshotCurrent
  <2>1. u # p /\ u \in Procs /\ pc[u] = "store" /\ tx'[u] = tx[u] /\ call'[u] = call[u]
    BY <1>3, <1>4 DEF Procs
  <2>2. call[u].item \in Items /\ tx[u].holds = {call[u].item}
    BY <2>1 DEF TransactionsIsolated, SnapshotCurrent, CallShape
  <2>3. call[u].item \notin tx[p].holds
    BY <2>1, <2>2 DEF TransactionsIsolated, LocksExclusive
  <2>4. stock'[call[u].item] = stock[call[u].item]
    BY <1>1, <1>2, <2>2, <2>3 DEF TypeOK
  <2> QED
    BY <2>1, <2>4 DEF TransactionsIsolated, SnapshotCurrent
<1>11. LockedRowsPending'
  <2> SUFFICES ASSUME NEW q \in Procs, NEW k \in tx'[q].rows PROVE Unconfirmed(k)'
    BY DEF LockedRowsPending
  <2>1. q # p /\ k \in tx[q].rows
    BY <1>3, Sentinels
  <2>2. k \in Keys /\ Unconfirmed(k) /\ k \notin S
    BY <2>1 DEF LockedRowsPending, TypeOK, Transactions
  <2> QED
    BY <1>5, <2>2 DEF Unconfirmed
<1>12. AvailabilityFollowsStock'
  <2> SUFFICES ASSUME NEW i \in Items, i \notin byHand'
               PROVE  available'[i] <=> stock'[i] > 0
    BY DEF AvailabilityFollowsStock
  <2>1. /\ stock[i] \in Nat /\ tx[p].pending[i] \in Nat
        /\ stock'[i] = stock[i] + tx[p].pending[i]
        /\ available'[i] <=> (available[i] \/ i \in tx[p].holds)
        /\ i \in tx[p].holds \/ (available[i] <=> stock[i] > 0)
    BY <1>1, <1>2 DEF TypeOK, AvailabilityFollowsStock
  <2>2. i \in tx[p].holds <=> tx[p].pending[i] > 0
    BY <1>2, <2>1
  <2> QED
    BY <2>1, <2>2
<1> QED
  BY <1>3, <1>6, <1>7, <1>8, <1>9, <1>10, <1>11, <1>12 DEF TransactionsIsolated

\* UPDATE stock_reservations of release, and COMMIT.
LEMMA FinishReleaseIInv ==
  ASSUME IInv, NEW t \in Threads, FinishRelease(t)
  PROVE  IInv'
<1> DEFINE S == Pending(call[t].order)
<1>1. TypeOK /\ t \in Procs /\ CommitRestock(t, S) /\ UNCHANGED <<redisKeys, phase, faults>>
  BY DEF IInv, FinishRelease, Procs
<1>2. S \in SUBSET Keys /\ \A k \in S : Unconfirmed(k)
  BY DEF Pending
<1>3. \A q \in Procs \ {t} : S \cap tx[q].rows = {}
  BY DEF FinishRelease, RowsFree
<1>4. /\ pc' = [pc EXCEPT ![t] = "idle"] /\ call' \in [Threads -> Calls]
      /\ \A u \in Threads : call'[u] = IF u = t THEN NoCall ELSE call[u]
  BY <1>1, ReplyShape DEF FinishRelease
<1> QED
  BY <1>1, <1>2, <1>3, <1>4, CommitRestockIInv

\* UPDATE stock_reservations of the reaper, and COMMIT.
LEMMA ReaperFinishIInv ==
  ASSUME IInv, ReaperFinish
  PROVE  IInv'
<1>1. /\ TypeOK /\ Reaper \in Procs /\ Reaper \notin Threads
      /\ CommitRestock(Reaper, Marked) /\ pc' = [pc EXCEPT ![Reaper] = "idle"]
      /\ UNCHANGED <<redisKeys, phase, call, faults>>
  BY ConstantsAssumption DEF IInv, ReaperFinish, Procs
<1>2. tx[Reaper].rows \subseteq Keys
  BY <1>1 DEF TypeOK, Transactions
<1>3. /\ Marked \in SUBSET Keys /\ \A k \in Marked : Unconfirmed(k)
      /\ Marked \subseteq tx[Reaper].rows
  BY <1>2 DEF Marked
<1>4. \A q \in Procs \ {Reaper} : Marked \cap tx[q].rows = {}
  BY <1>1, <1>3 DEF IInv, TransactionsIsolated, LocksExclusive
<1>5. /\ call' \in [Threads -> Calls]
      /\ \A u \in Threads : call'[u] = IF u = Reaper THEN NoCall ELSE call[u]
  BY <1>1 DEF TypeOK
<1> QED
  BY <1>1, <1>3, <1>4, <1>5, CommitRestockIInv

\* A transaction rolled back by the database releases its locks and leaves
\* the tables as they are.
LEMMA RollbackIInv ==
  ASSUME IInv, NEW p \in Procs, Rollback(p), faults' \in 0 .. MaxFaults,
         pc[p] \notin {"idle", "unlock"}
  PROVE  IInv'
<1> USE DEF IInv
<1>1. tx' = [tx EXCEPT ![p] = NoTx] /\ UNCHANGED <<tables, redisKeys, phase>>
  BY DEF Rollback
<1>2. /\ LocksExclusive' /\ tx'[p] = NoTx /\ \A q \in Procs \ {p} : tx'[q] = tx[q]
      /\ tx' \in [Procs -> Transactions]
  BY <1>1, EndOfTransaction DEF TransactionsIsolated
<1>3. PICK l \in {"idle", "unlock"} :
        /\ pc' = [pc EXCEPT ![p] = l]
        /\ l = "unlock" => p \in Threads /\ call[p].item # None /\ call' = call
        /\ l = "idle" => call' = [t \in Threads |-> IF t = p THEN NoCall ELSE call[t]]
  BY DEF Rollback
<1>4. pc'[p] = l /\ \A q \in Procs \ {p} : pc'[q] = pc[q]
  BY <1>3 DEF TypeOK
<1>5. /\ call' \in [Threads -> Calls]
      /\ \A u \in Threads : u # p => call'[u] = call[u]
      /\ l = "idle" /\ p \in Threads => call'[p] = NoCall
  BY <1>3, Sentinels DEF TypeOK
<1>6. TypeOK'
  BY <1>1, <1>2, <1>3, <1>5 DEF TypeOK, tables
<1>7. RowShape' /\ AvailabilityFollowsStock'
  BY <1>1 DEF RowShape, AvailabilityFollowsStock, tables
<1>8. CallShape'
  <2>1. CASE p = Reaper
    <3>1. l = "idle"
      BY <1>3, <2>1, ConstantsAssumption
    <3> QED
      BY <1>4, <1>5, <2>1, <3>1, ConstantsAssumption DEF CallShape, Procs
  <2>2. CASE p \in Threads
    <3>1. l = "unlock" => /\ call'[p] = call[p] /\ call[p].order \in Orders
                          /\ call[p].item \in Items /\ call[p].qty > 0
      BY <1>3, <2>2 DEF CallShape, TypeOK
    <3>2. Reaper \in Procs \ {p}
      BY <2>2, ConstantsAssumption DEF Procs
    <3> QED
      BY <1>4, <1>5, <2>2, <3>1, <3>2 DEF CallShape, Procs
  <2> QED
    BY <2>1, <2>2 DEF Procs
<1>9. TxShape'
  BY <1>2, <1>4, Sentinels DEF TxShape
<1>10. SnapshotCurrent'
  BY <1>1, <1>2, <1>4, <1>5 DEF TransactionsIsolated, SnapshotCurrent, tables, Procs
<1>11. LockedRowsPending'
  BY <1>1, <1>2, Sentinels DEF LockedRowsPending, Unconfirmed, tables
<1> QED
  BY <1>2, <1>6, <1>7, <1>8, <1>9, <1>10, <1>11 DEF TransactionsIsolated

\* A transaction is rolled back because it waits on a cycle, or because its
\* connection breaks.
LEMMA AbortIInv ==
  ASSUME IInv, NEW p \in Procs, DeadlockVictim(p) \/ ConnectionLost(p)
  PROVE  IInv'
<1>1. CASE DeadlockVictim(p)
  <2>1. pc[p] = "restock"
    BY <1>1 DEF DeadlockVictim, Deadlocked, Blocks
  <2> QED
    BY <1>1, <2>1, RollbackIInv DEF DeadlockVictim, IInv, TypeOK
<1>2. CASE ConnectionLost(p)
  <2>1. faults' \in 0 .. MaxFaults
    BY <1>2, ConstantsAssumption DEF ConnectionLost, Fault, IInv, TypeOK
  <2> QED
    BY <1>2, <2>1, RollbackIInv DEF ConnectionLost
<1> QED
  BY <1>1, <1>2

\* The service dies and starts again: every transaction is rolled back.
LEMMA RestartIInv ==
  ASSUME IInv, Restart
  PROVE  IInv'
<1> USE DEF IInv
<1>1. /\ \A p \in Procs : pc'[p] = "idle" /\ tx'[p] = NoTx
      /\ \A t \in Threads : call'[t] = NoCall
      /\ UNCHANGED <<tables, redisKeys, phase>>
  BY DEF Restart
<1>2. faults' \in 0 .. MaxFaults
  BY ConstantsAssumption DEF Restart, Fault, TypeOK
<1>3. /\ pc' \in [Procs -> {"idle"}] /\ call' \in [Threads -> Calls]
      /\ tx' \in [Procs -> Transactions]
  BY Sentinels DEF Restart
<1>4. TypeOK'
  BY <1>1, <1>2, <1>3 DEF TypeOK, tables
<1>5. RowShape' /\ AvailabilityFollowsStock'
  BY <1>1 DEF RowShape, AvailabilityFollowsStock, tables
<1>6. CallShape' /\ TxShape'
  BY <1>1, Sentinels DEF CallShape, TxShape, Procs
<1>7. TransactionsIsolated' /\ LockedRowsPending'
  BY <1>1, Sentinels DEF TransactionsIsolated, LocksExclusive, SnapshotCurrent,
                         LockedRowsPending, Procs
<1> QED
  BY <1>4, <1>5, <1>6, <1>7

\* What the administrator's switch leaves alone.
LEMMA SwitchFrame ==
  ASSUME NEW i \in Menu, SwitchByHand(i)
  PROVE  UNCHANGED <<stock, reservation, redisKeys, phase, pc, call, tx, faults>>
BY DEF SwitchByHand

\* The administrator's switch writes the flag of an item that is its own
\* from then on, and touches nothing a transaction relies on.
LEMMA SwitchIInv ==
  ASSUME IInv, NEW i \in Menu, SwitchByHand(i)
  PROVE  IInv'
<1> USE DEF IInv
<1>1. /\ UNCHANGED <<stock, reservation, redisKeys, phase, pc, call, tx, faults>>
      /\ i \in Switched /\ i \in Items /\ byHand' = byHand \cup {i}
      /\ \E shown \in BOOLEAN : available' = [available EXCEPT ![i] = shown]
  BY ConstantsAssumption DEF SwitchByHand
<1>2. /\ available' \in [Items -> BOOLEAN]
      /\ \A j \in Items \ {i} : available'[j] = available[j]
  BY <1>1 DEF TypeOK
<1>3. TypeOK'
  BY <1>1, <1>2 DEF TypeOK
<1>4. RowShape' /\ CallShape' /\ TxShape' /\ LockedRowsPending'
  BY <1>1 DEF RowShape, CallShape, TxShape, LockedRowsPending, Unconfirmed
<1>5. TransactionsIsolated'
  BY <1>1 DEF TransactionsIsolated, LocksExclusive, SnapshotCurrent
<1>6. AvailabilityFollowsStock'
  BY <1>1, <1>2 DEF AvailabilityFollowsStock
<1> QED
  BY <1>3, <1>4, <1>5, <1>6

\* Every step preserves the invariant.
LEMMA NextIInv == IInv /\ [Next]_vars => IInv'
<1> SUFFICES ASSUME IInv, [Next]_vars PROVE IInv'
  OBVIOUS
<1>1. ASSUME NEW t \in Threads, NEW q \in Requests, CallReserve(t, q) PROVE IInv'
  BY <1>1, CallReserveIInv
<1>2. ASSUME NEW t \in Threads, NEW o \in Orders, CallConfirm(t, o) \/ CallRelease(t, o)
      PROVE  IInv'
  BY <1>2, CallConfirmIInv, CallReleaseIInv
<1>3. ASSUME NEW t \in Threads, Reserve(t) PROVE IInv'
  BY <1>3, ReadReservationIInv, LockItemIInv, StoreReservationIInv, UnlockKeyIInv DEF Reserve
<1>4. ASSUME NEW t \in Threads, Confirm(t) PROVE IInv'
  BY <1>4, CountReservationsIInv, ConfirmPendingIInv DEF Confirm
<1>5. ASSUME NEW t \in Threads, Release(t) PROVE IInv'
  BY <1>5, SelectRowsIInv, RestockIInv, FinishReleaseIInv DEF Release, Procs
<1>6. CASE ReaperStep
  BY <1>6, ReaperSelectIInv, RestockIInv, ReaperFinishIInv DEF ReaperStep, Procs
<1>7. ASSUME NEW p \in Procs, DeadlockVictim(p) \/ ConnectionLost(p) PROVE IInv'
  BY <1>7, AbortIInv
<1>8. ASSUME NEW k \in Keys, ExpireKey(k) \/ Expire(k) PROVE IInv'
  BY <1>8, ExpireKeyIInv, ExpireIInv
<1>9. ASSUME NEW o \in Orders, GiveUp(o) PROVE IInv'
  BY <1>9, GiveUpIInv
<1>10. CASE Restart
  BY <1>10, RestartIInv
<1>11. CASE UNCHANGED vars
  BY <1>11 DEF vars, tables, IInv, TypeOK, RowShape, CallShape, TxShape, TransactionsIsolated,
               LocksExclusive, SnapshotCurrent, LockedRowsPending, Unconfirmed,
               AvailabilityFollowsStock
<1>12. ASSUME NEW i \in Menu, SwitchByHand(i) PROVE IInv'
  BY <1>12, SwitchIInv
<1> QED
  BY <1>1, <1>2, <1>3, <1>4, <1>5, <1>6, <1>7, <1>8, <1>9, <1>10, <1>11, <1>12 DEF Next

\* What the statements of reserve, confirm, release and the reaper rely on
\* holds after every step, also one that breaks a connection or the service.
THEOREM Invariance == Spec => []IInv
BY InitIInv, NextIInv, PTL DEF Spec

\* Every variable keeps its type: no stock is ever negative.
THEOREM TypeCorrect == Spec => []TypeOK
BY Invariance, PTL DEF IInv

\* Row locks are exclusive, and what reserve has read under one stays the
\* committed quantity until its UPDATE.
THEOREM Isolation == Spec => []TransactionsIsolated
BY Invariance, PTL DEF IInv

\* No reservation that release or the reaper has locked is confirmed, or
\* released by another, before they commit.
THEOREM NoDoubleRelease == Spec => []LockedRowsPending
BY Invariance, PTL DEF IInv

\* Unless the administrator wrote it last, the menu's available flag says
\* whether units are left, whichever of reserve, release and the reaper have
\* written it, and whatever the administrator wrote before them.
THEOREM Availability == Spec => []AvailabilityFollowsStock
BY Invariance, PTL DEF IInv

\* Marking rows released touches unconfirmed ones only.
LEMMA CommitLifecycle ==
  ASSUME TypeOK, NEW p \in Procs, NEW S \in SUBSET Keys, CommitRestock(p, S),
         \A k \in S : Unconfirmed(k), NEW k \in Keys
  PROVE  LifecycleStep(k)
<1>1. reservation[k] \in Rows
  BY DEF TypeOK
<1>2. CASE k \in S
  <2>1. /\ reservation'[k] = [reservation[k] EXCEPT !.status = "RELEASED"]
        /\ ~reservation[k].confirmed
    BY <1>2 DEF CommitRestock, Unconfirmed
  <2>2. /\ reservation'[k].qty = reservation[k].qty
        /\ reservation'[k].status = "RELEASED"
        /\ reservation'[k].confirmed = reservation[k].confirmed
    BY <1>1, <2>1 DEF Rows
  <2> QED
    BY <2>1, <2>2 DEF LifecycleStep
<1>3. CASE k \notin S
  <2>1. reservation'[k] = reservation[k]
    BY <1>3 DEF CommitRestock
  <2> QED
    BY <2>1 DEF LifecycleStep
<1> QED
  BY <1>2, <1>3

\* Every step moves every reservation forward along its life.
LEMMA StepLifecycle ==
  ASSUME IInv, Next, NEW k \in Keys
  PROVE  LifecycleStep(k)
<1>1. TypeOK /\ reservation[k] \in Rows
  BY DEF IInv, TypeOK
<1>2. CASE UNCHANGED reservation
  BY <1>2 DEF LifecycleStep
<1>3. ASSUME NEW t \in Threads, StoreReservation(t) PROVE LifecycleStep(k)
  <2> DEFINE new == [status |-> "RESERVED", qty |-> call[t].qty,
                     confirmed |-> FALSE, expired |-> FALSE]
  <2>1. CASE reservation[Key(t)].status = "none"
    <3>1. reservation' = [reservation EXCEPT ![Key(t)] = new]
      BY <1>3, <2>1 DEF StoreReservation, InsertSucceeds
    <3>2. CASE k = Key(t)
      <4>1. reservation'[k] = new
        BY <1>1, <3>1, <3>2 DEF TypeOK
      <4> QED
        BY <2>1, <3>2, <4>1 DEF LifecycleStep
    <3>3. CASE k # Key(t)
      <4>1. reservation'[k] = reservation[k]
        BY <1>1, <3>1, <3>3 DEF TypeOK
      <4> QED
        BY <4>1 DEF LifecycleStep
    <3> QED
      BY <3>2, <3>3
  <2>2. CASE reservation[Key(t)].status # "none"
    BY <1>2, <1>3, <2>2 DEF StoreReservation, InsertSucceeds, tables
  <2> QED
    BY <2>1, <2>2
<1>4. ASSUME NEW t \in Threads, ConfirmPending(t) PROVE LifecycleStep(k)
  <2>1. \/ reservation'[k] = reservation[k]
        \/ /\ reservation'[k] = [reservation[k] EXCEPT !.confirmed = TRUE]
           /\ reservation[k].status = "RESERVED"
    BY <1>4 DEF ConfirmPending, Pending, Unconfirmed
  <2> QED
    BY <1>1, <2>1 DEF LifecycleStep, Rows
<1>5. ASSUME NEW t \in Threads, FinishRelease(t) PROVE LifecycleStep(k)
  <2>1. /\ CommitRestock(t, Pending(call[t].order)) /\ t \in Procs
        /\ Pending(call[t].order) \in SUBSET Keys
        /\ \A j \in Pending(call[t].order) : Unconfirmed(j)
    BY <1>5 DEF FinishRelease, Procs, Pending
  <2> QED
    BY <1>1, <2>1, CommitLifecycle
<1>6. CASE ReaperFinish
  <2>1. /\ CommitRestock(Reaper, Marked) /\ Reaper \in Procs
        /\ Marked \in SUBSET Keys /\ \A j \in Marked : Unconfirmed(j)
    BY <1>1, <1>6 DEF ReaperFinish, Procs, Marked, TypeOK, Transactions
  <2> QED
    BY <1>1, <2>1, CommitLifecycle
<1>7. ASSUME NEW j \in Keys, Expire(j) PROVE LifecycleStep(k)
  <2>1. \/ reservation'[k] = reservation[k]
        \/ reservation'[k] = [reservation[k] EXCEPT !.expired = TRUE]
    BY <1>1, <1>7 DEF Expire, TypeOK
  <2> QED
    BY <1>1, <2>1 DEF LifecycleStep, Rows
<1>8. ASSUME NEW t \in Threads, Reserve(t), ~StoreReservation(t) PROVE LifecycleStep(k)
  BY <1>2, <1>8 DEF Reserve, ReadReservation, LockItem, UnlockKey, tables
<1>9. ASSUME NEW t \in Threads, Confirm(t) \/ Release(t),
             ~ConfirmPending(t), ~FinishRelease(t)
      PROVE  LifecycleStep(k)
  BY <1>2, <1>9 DEF Confirm, Release, CountReservations, SelectRows, Restock, tables
<1>10. CASE ReaperStep
  BY <1>2, <1>6, <1>10 DEF ReaperStep, ReaperSelect, Restock, tables
<1>11. ASSUME NEW p \in Procs, DeadlockVictim(p) \/ ConnectionLost(p)
       PROVE  LifecycleStep(k)
  BY <1>2, <1>11 DEF DeadlockVictim, ConnectionLost, Rollback, tables
<1>12. ASSUME NEW t \in Threads, NEW q \in Requests, CallReserve(t, q)
       PROVE  LifecycleStep(k)
  BY <1>2, <1>12 DEF CallReserve, tables
<1>13. ASSUME NEW t \in Threads, NEW o \in Orders, CallConfirm(t, o) \/ CallRelease(t, o)
       PROVE  LifecycleStep(k)
  BY <1>2, <1>13 DEF CallConfirm, CallRelease, tables
<1>14. ASSUME (\E j \in Keys : ExpireKey(j)) \/ (\E o \in Orders : GiveUp(o)) \/ Restart
       PROVE  LifecycleStep(k)
  BY <1>2, <1>14 DEF ExpireKey, GiveUp, Restart, tables
<1>15. ASSUME NEW i \in Menu, SwitchByHand(i) PROVE LifecycleStep(k)
  BY <1>2, <1>15, SwitchFrame
<1> QED
  BY <1>3, <1>4, <1>5, <1>7, <1>8, <1>9, <1>10, <1>11, <1>12, <1>13, <1>14, <1>15 DEF Next

\* A reservation is created once, keeps its quantity, and is confirmed or
\* released but never both, under every interleaving of the handlers.
THEOREM Lifecycle == Spec => RowLifecycle
<1>1. IInv /\ [Next]_vars => [\A k \in Keys : LifecycleStep(k)]_reservation
  <2> SUFFICES ASSUME IInv, [Next]_vars, NEW k \in Keys, reservation' # reservation
               PROVE  LifecycleStep(k)
    OBVIOUS
  <2>1. Next
    BY DEF vars, tables
  <2> QED
    BY <2>1, StepLifecycle
<1>2. Spec => [][\A k \in Keys : LifecycleStep(k)]_reservation
  BY <1>1, Invariance, PTL DEF Spec
<1> QED
  BY <1>2 DEF RowLifecycle

-----------------------------------------------------------------------------
(* No unit is lost or made up.                                             *)

\* The reservations there are, and what each one is for.
Live == {k \in Keys : reservation[k].status # "none"}
Quantity == [k \in Keys |-> reservation[k].qty]

\* The rows of item i whose units the transaction of p has put back so far.
Restocked(p, i) == {k \in tx[p].rows \ tx[p].todo : k[2] = i}

\* A release has every row of its order that waits for a confirmation, and
\* no reserve of the order is left that could add one.
Takes(t) ==
  pc[t] \in {"select", "restock", "finish"} =>
    /\ phase[call[t].order] = "abandoned"
    /\ NoReserveOf(call[t].order)
    /\ pc[t] # "select" => tx[t].rows = Pending(call[t].order)

\* What is pending of an item is the sum of the rows put back.
Counted(p) ==
  pc[p] \in {"restock", "finish"} =>
    /\ pc[p] = "finish" => tx[p].todo = {}
    /\ \A i \in Items : tx[p].pending[i] = SumOver(Quantity, Restocked(p, i))

UnitsInv ==
  /\ IsFiniteSet(Live)
  /\ \A t \in Threads : Takes(t)
  /\ \A p \in Procs : Counted(p)
  /\ StockConserved

-----------------------------------------------------------------------------

\* Conservation, with the sums of UnitSums.
ConservedSums ==
  \A i \in Items : stock[i] + SumOver(Quantity, Held(i)) = InitialStock[i]

LEMMA Conserved == IsFiniteSet(Live) => (StockConserved <=> ConservedSums)
<1> SUFFICES ASSUME IsFiniteSet(Live) PROVE StockConserved <=> ConservedSums
  OBVIOUS
<1>1. ASSUME NEW i \in Items
      PROVE  MapThenSumSet(LAMBDA k : reservation[k].qty, Held(i)) = SumOver(Quantity, Held(i))
  <2>1. Held(i) \in SUBSET Live
    BY DEF Held, Live
  <2>2. IsFiniteSet(Held(i))
    BY <2>1, FS_Subset
  <2>3. \A k \in Held(i) : Quantity[k] = reservation[k].qty
    BY DEF Held, Quantity
  <2> QED
    BY <2>2, <2>3, UnitsAreSums
<1> QED
  BY <1>1 DEF StockConserved, ConservedSums

LEMMA ConservedNext == (IsFiniteSet(Live) => (StockConserved <=> ConservedSums))'
BY Conserved, PTL

\* The sets that are summed over.
LEMMA SummedSets ==
  ASSUME TypeOK, LockedRowsPending, IsFiniteSet(Live)
  PROVE  /\ IntegersOn(Quantity, Keys)
         /\ \A p \in Procs : tx[p].rows \subseteq Live /\ IsFiniteSet(tx[p].rows)
         /\ \A i \in Items : /\ IsFiniteSet(Held(i)) /\ Held(i) \subseteq Keys
                             /\ SumOver(Quantity, Held(i)) \in Nat
         /\ \A p \in Procs : \A i \in Items :
              /\ IsFiniteSet(Restocked(p, i)) /\ Restocked(p, i) \subseteq Live
              /\ SumOver(Quantity, Restocked(p, i)) \in Nat
<1>1. IntegersOn(Quantity, Keys) /\ \A k \in Keys : Quantity[k] \in Nat
  BY DEF TypeOK, Rows, Quantity, IntegersOn
<1>2. \A T \in SUBSET Live : IsFiniteSet(T) /\ SumOver(Quantity, T) \in Nat
  <2> SUFFICES ASSUME NEW T \in SUBSET Live
               PROVE  IsFiniteSet(T) /\ SumOver(Quantity, T) \in Nat
    OBVIOUS
  <2>1. IsFiniteSet(T)
    BY FS_Subset
  <2>2. IntegersOn(Quantity, T) /\ \A x \in T : Quantity[x] \in Nat
    BY <1>1 DEF Live, IntegersOn
  <2>3. T \in SUBSET T
    OBVIOUS
  <2> QED
    BY <2>1, <2>2, <2>3, SumOverType
<1>3. \A p \in Procs : tx[p].rows \subseteq Live
  <2> SUFFICES ASSUME NEW p \in Procs, NEW k \in tx[p].rows PROVE k \in Live
    OBVIOUS
  <2> QED
    BY DEF LockedRowsPending, Unconfirmed, TypeOK, Transactions, Live
<1>4. \A i \in Items : Held(i) \subseteq Live /\ Held(i) \subseteq Keys
  BY DEF Held, Live
<1>5. \A p \in Procs : \A i \in Items : Restocked(p, i) \subseteq Live
  BY <1>3 DEF Restocked
<1> QED
  BY <1>1, <1>2, <1>3, <1>4, <1>5

\* A release goes on having all rows of its order, whatever others do.
LEMMA TakesKept ==
  ASSUME IInv, NEW t \in Threads, Takes(t),
         \A o \in Orders : phase[o] = "abandoned" => phase'[o] = "abandoned",
         \A u \in Threads : \/ call'[u] = call[u]
                            \/ call'[u].item = None
                            \/ phase[call'[u].order] = "ordering",
         pc'[t] \in {"select", "restock", "finish"} =>
           /\ pc[t] \in {"select", "restock", "finish"}
           /\ call'[t] = call[t]
           /\ pc'[t] # "select" => /\ pc[t] # "select"
                                   /\ tx'[t].rows = tx[t].rows
                                   /\ Pending(call[t].order)' = Pending(call[t].order)
  PROVE  Takes(t)'
<1> SUFFICES ASSUME pc'[t] \in {"select", "restock", "finish"}
             PROVE  /\ phase'[call'[t].order] = "abandoned"
                    /\ NoReserveOf(call[t].order)'
                    /\ pc'[t] # "select" => tx'[t].rows = Pending(call[t].order)'
  BY DEF Takes, NoReserveOf, Pending, Unconfirmed
<1>1. call[t].order \in Orders
  BY DEF IInv, CallShape
<1> QED
  BY <1>1 DEF Takes, NoReserveOf

\* A step that leaves every row's status and quantity, and the stock, as they
\* are, keeps the account, if the transactions in it go on as they are.
LEMMA CountKept ==
  ASSUME IInv, UnitsInv, UNCHANGED stock,
         \A k \in Keys : /\ reservation'[k].status = reservation[k].status
                         /\ reservation'[k].qty = reservation[k].qty
  PROVE  /\ IsFiniteSet(Live)' /\ StockConserved'
         /\ Quantity' = Quantity
         /\ \A p \in Procs : (pc'[p] \in {"restock", "finish"} =>
                                pc'[p] = pc[p] /\ tx'[p] = tx[p]) => Counted(p)'
<1>1. Live' = Live
  BY DEF Live
<1>2. IsFiniteSet(Live)'
  BY <1>1 DEF UnitsInv
<1>3. Quantity' = Quantity /\ \A i \in Items : Held(i)' = Held(i)
  BY DEF Quantity, Held
<1>4. ConservedSums
  BY Conserved DEF UnitsInv
<1>5. ConservedSums'
  BY <1>3, <1>4 DEF ConservedSums
<1>6. StockConserved'
  BY <1>2, <1>5, ConservedNext
<1>7. ASSUME NEW p \in Procs, pc'[p] \in {"restock", "finish"} =>
                                pc'[p] = pc[p] /\ tx'[p] = tx[p]
      PROVE  Counted(p)'
  BY <1>3, <1>7 DEF UnitsInv, Counted, Restocked
<1> QED
  BY <1>2, <1>3, <1>6, <1>7

\* A step that moves no units: every release and every account either goes on
\* as it is or is right after the step.
LEMMA KeptUnits ==
  ASSUME IInv, UnitsInv, UNCHANGED stock,
         \A k \in Keys : /\ reservation'[k].status = reservation[k].status
                         /\ reservation'[k].qty = reservation[k].qty,
         \A o \in Orders : phase[o] = "abandoned" => phase'[o] = "abandoned",
         \A u \in Threads : \/ call'[u] = call[u]
                            \/ call'[u].item = None
                            \/ phase[call'[u].order] = "ordering",
         \A t \in Threads : pc'[t] \in {"select", "restock", "finish"} =>
           \/ Takes(t)'
           \/ /\ pc'[t] = pc[t] /\ call'[t] = call[t]
              /\ pc[t] # "select" => /\ tx'[t].rows = tx[t].rows
                                     /\ Pending(call[t].order)' = Pending(call[t].order),
         \A p \in Procs : pc'[p] \in {"restock", "finish"} =>
           Counted(p)' \/ (pc'[p] = pc[p] /\ tx'[p] = tx[p])
  PROVE  UnitsInv'
<1>1. ASSUME NEW t \in Threads PROVE Takes(t)'
  <2>1. CASE pc'[t] \notin {"select", "restock", "finish"}
    BY <2>1 DEF Takes
  <2>2. CASE Takes(t)'
    BY <2>2
  <2>3. CASE /\ pc'[t] = pc[t] /\ call'[t] = call[t]
             /\ pc[t] # "select" => /\ tx'[t].rows = tx[t].rows
                                    /\ Pending(call[t].order)' = Pending(call[t].order)
    <3>1. Takes(t)
      BY DEF UnitsInv
    <3> QED
      BY <2>3, <3>1, TakesKept
  <2> QED
    BY <2>1, <2>2, <2>3
<1>2. ASSUME NEW p \in Procs PROVE Counted(p)'
  <2>1. CASE pc'[p] \notin {"restock", "finish"}
    BY <2>1 DEF Counted
  <2>2. CASE Counted(p)'
    BY <2>2
  <2>3. CASE pc'[p] = pc[p] /\ tx'[p] = tx[p]
    BY <2>3, CountKept
  <2> QED
    BY <2>1, <2>2, <2>3
<1>3. IsFiniteSet(Live)' /\ StockConserved'
  BY CountKept
<1> QED
  BY <1>1, <1>2, <1>3 DEF UnitsInv

\* reserve, but for its UPDATE and INSERT.
LEMMA ReserveUnits ==
  ASSUME IInv, UnitsInv, NEW t \in Threads,
         \/ \E q \in Requests : CallReserve(t, q)
         \/ ReadReservation(t) \/ LockItem(t) \/ UnlockKey(t)
  PROVE  UnitsInv'
<1>1. /\ t \in Procs /\ t # Reaper /\ UNCHANGED <<tables, phase>>
      /\ pc'[t] \notin {"select", "restock", "finish"}
      /\ call'[t] \in {call[t], NoCall} \/ phase[call'[t].order] = "ordering"
      /\ \A p \in Procs \ {t} : pc'[p] = pc[p] /\ tx'[p] = tx[p]
      /\ \A u \in Threads \ {t} : call'[u] = call[u]
  BY ConstantsAssumption, ZenonT(60)
  DEF CallReserve, ReadReservation, LockItem, UnlockKey, Reply, IInv, TypeOK, Procs
<1>2. \A o \in Orders : Pending(o)' = Pending(o)
  BY <1>1 DEF tables, Pending, Unconfirmed
<1>3. \A u \in Threads : u \in Procs /\ (pc[u] \in {"select", "restock", "finish"} =>
                                           call[u].order \in Orders)
  BY DEF IInv, CallShape, Procs
<1>4. \A u \in Threads : \/ call'[u] = call[u] \/ call'[u].item = None
                         \/ phase[call'[u].order] = "ordering"
  BY <1>1 DEF NoCall
<1> QED
  BY <1>1, <1>2, <1>3, <1>4, KeptUnits DEF tables

\* The calls of confirm and release, and the count of confirm.
LEMMA CallUnits ==
  ASSUME IInv, UnitsInv, NEW t \in Threads,
         \/ \E o \in Orders : CallConfirm(t, o) \/ CallRelease(t, o)
         \/ CountReservations(t)
  PROVE  UnitsInv'
<1>1. /\ t \in Procs /\ t # Reaper /\ UNCHANGED <<tables, tx>>
      /\ pc'[t] \notin {"restock", "finish"}
      /\ call'[t] = call[t] \/ call'[t].item = None
      /\ \A p \in Procs \ {t} : pc'[p] = pc[p]
      /\ \A u \in Threads \ {t} : call'[u] = call[u]
      /\ \A o \in Orders : phase[o] = "abandoned" => phase'[o] = "abandoned"
  BY ConstantsAssumption
  DEF CallConfirm, CallRelease, CountReservations, Reply, Acknowledge, NoCall,
      IInv, TypeOK, Procs
<1>2. \A o \in Orders : Pending(o)' = Pending(o)
  BY <1>1 DEF tables, Pending, Unconfirmed
<1>3. \A u \in Threads : u \in Procs /\ (pc[u] \in {"select", "restock", "finish"} =>
                                           call[u].order \in Orders)
  BY DEF IInv, CallShape, Procs
<1>4. pc'[t] = "select" => Takes(t)'
  <2> SUFFICES ASSUME pc'[t] = "select" PROVE Takes(t)'
    OBVIOUS
  <2>1. PICK o \in Orders : CallRelease(t, o)
    BY DEF CallConfirm, CountReservations, Reply, IInv, TypeOK, Procs
  <2>2. call'[t].order = o /\ call'[t].item = None /\ phase'[o] = "abandoned"
    BY <2>1 DEF CallRelease, NoCall, IInv, TypeOK
  <2>3. NoReserveOf(o)'
    BY <1>1, <2>1, <2>2 DEF CallRelease, NoReserveOf
  <2> QED
    BY <2>2, <2>3 DEF Takes, NoReserveOf
<1>5. \A u \in Threads : pc'[u] \in {"select", "restock", "finish"} =>
           \/ Takes(u)'
           \/ /\ pc'[u] = pc[u] /\ call'[u] = call[u]
              /\ pc[u] # "select" => /\ tx'[u].rows = tx[u].rows
                                     /\ Pending(call[u].order)' = Pending(call[u].order)
  BY <1>1, <1>2, <1>3, <1>4
<1> QED
  BY <1>1, <1>5, KeptUnits DEF tables

\* Confirming rows takes none that a release has locked.
LEMMA ConfirmUnits ==
  ASSUME IInv, UnitsInv, NEW t \in Threads, ConfirmPending(t)
  PROVE  UnitsInv'
<1> DEFINE o == call[t].order
<1>1. /\ t \in Procs /\ t # Reaper /\ UNCHANGED <<stock, tx>> /\ o \in Orders
      /\ pc'[t] = "idle" /\ call'[t].item = None
      /\ \A p \in Procs \ {t} : pc'[p] = pc[p]
      /\ \A u \in Threads \ {t} : call'[u] = call[u]
      /\ \A j \in Orders : phase[j] = "abandoned" => phase'[j] = "abandoned"
  BY ConstantsAssumption
  DEF ConfirmPending, Reply, Acknowledge, NoCall, IInv, CallShape, TypeOK, Procs
<1>2. \A k \in Keys : /\ reservation'[k].status = reservation[k].status
                      /\ reservation'[k].qty = reservation[k].qty
                      /\ k \notin Pending(o) => reservation'[k] = reservation[k]
  BY DEF ConfirmPending, IInv, TypeOK, Rows
<1>3. ASSUME NEW u \in Threads, pc'[u] \in {"select", "restock", "finish"}
      PROVE  /\ pc'[u] = pc[u] /\ call'[u] = call[u]
             /\ pc[u] # "select" => Pending(call[u].order)' = Pending(call[u].order)
  <2>1. u # t /\ u \in Procs /\ pc'[u] = pc[u] /\ call'[u] = call[u]
    BY <1>1, <1>3 DEF Procs
  <2>2. ASSUME pc[u] # "select"
        PROVE  \A k \in Keys : k[1] = call[u].order => reservation'[k] = reservation[k]
    <3>1. CASE call[u].order # o
      BY <1>2, <3>1 DEF Pending
    <3>2. CASE call[u].order = o
      <4>1. tx[u].rows = Pending(o)
        BY <1>3, <2>1, <2>2, <3>2 DEF UnitsInv, Takes
      <4>2. Pending(o) \cap tx[u].rows = {}
        BY <2>1 DEF ConfirmPending, RowsFree
      <4>3. Pending(o) = {}
        BY <4>1, <4>2
      <4> QED
        BY <1>2, <4>3
    <3> QED
      BY <3>1, <3>2
  <2>3. pc[u] # "select" => Pending(call[u].order)' = Pending(call[u].order)
    BY <2>1, <2>2 DEF Pending, Unconfirmed
  <2> QED
    BY <2>1, <2>3
<1>4. \A p \in Procs : pc'[p] \in {"restock", "finish"} => pc'[p] = pc[p] /\ tx'[p] = tx[p]
  BY <1>1
<1>5. \A u \in Threads : \/ call'[u] = call[u]
                         \/ call'[u].item = None
                         \/ phase[call'[u].order] = "ordering"
  BY <1>1
<1> QED
  BY <1>1, <1>2, <1>3, <1>4, <1>5, KeptUnits

\* Nothing of a transaction that rolls back was committed.
LEMMA AbortUnits ==
  ASSUME IInv, UnitsInv,
         (\E p \in Procs : DeadlockVictim(p) \/ ConnectionLost(p)) \/ Restart
  PROVE  UnitsInv'
<1> DEFINE Drops ==
      /\ UNCHANGED <<tables, phase>>
      /\ \A p \in Procs : pc'[p] \in {"select", "restock", "finish"} =>
                            pc'[p] = pc[p] /\ tx'[p] = tx[p]
      /\ \A u \in Threads : /\ call'[u] = call[u] \/ call'[u].item = None
                            /\ pc'[u] \in {"select", "restock", "finish"} => call'[u] = call[u]
<1>1. Drops
  <2>1. ASSUME NEW p \in Procs, Rollback(p) PROVE Drops
    BY <2>1 DEF Rollback, NoCall, IInv, TypeOK, Procs
  <2>2. CASE Restart
    BY <2>2 DEF Restart, NoCall, Procs
  <2> QED
    BY <2>1, <2>2 DEF DeadlockVictim, ConnectionLost
<1>2. \A o \in Orders : Pending(o)' = Pending(o)
  BY <1>1 DEF tables, Pending, Unconfirmed
<1>3. \A u \in Threads : u \in Procs /\ (pc[u] \in {"select", "restock", "finish"} =>
                                           call[u].order \in Orders)
  BY DEF IInv, CallShape, Procs
<1> QED
  BY <1>1, <1>2, <1>3, KeptUnits DEF tables

\* Time passes, keys expire, the gateway drops an order.
LEMMA TimeUnits ==
  ASSUME IInv, UnitsInv,
         (\E k \in Keys : ExpireKey(k) \/ Expire(k)) \/ (\E o \in Orders : GiveUp(o))
  PROVE  UnitsInv'
<1>1. /\ UNCHANGED <<stock, pc, call, tx>>
      /\ \A o \in Orders : phase[o] = "abandoned" => phase'[o] = "abandoned"
  BY DEF ExpireKey, Expire, GiveUp, tables, IInv, TypeOK
<1>2. \A k \in Keys : /\ reservation'[k].status = reservation[k].status
                      /\ reservation'[k].qty = reservation[k].qty
                      /\ reservation'[k].confirmed = reservation[k].confirmed
  BY DEF ExpireKey, Expire, GiveUp, tables, IInv, TypeOK, Rows
<1>3. \A o \in Orders : Pending(o)' = Pending(o)
  BY <1>2 DEF Pending, Unconfirmed
<1>4. \A u \in Threads : pc[u] \in {"select", "restock", "finish"} => call[u].order \in Orders
  BY DEF IInv, CallShape
<1> QED
  BY <1>1, <1>2, <1>3, <1>4, KeptUnits

\* The administrator's switch moves no unit.
LEMMA SwitchUnits ==
  ASSUME IInv, UnitsInv, NEW i \in Menu, SwitchByHand(i)
  PROVE  UnitsInv'
<1>1. UNCHANGED <<stock, reservation, phase, pc, call, tx>>
  BY SwitchFrame
<1>2. \A o \in Orders : Pending(o)' = Pending(o)
  BY <1>1 DEF Pending, Unconfirmed
<1>3. \A u \in Threads : pc[u] \in {"select", "restock", "finish"} => call[u].order \in Orders
  BY DEF IInv, CallShape
<1> QED
  BY <1>1, <1>2, <1>3, KeptUnits

\* A transaction that has just locked its rows has put nothing back.
LEMMA StartCounted ==
  ASSUME IInv, NEW p \in Procs, NEW S \in SUBSET Keys, StartRestock(p, S)
  PROVE  /\ Counted(p)' /\ tx'[p].rows = S /\ pc'[p] = "restock"
         /\ \A q \in Procs \ {p} : pc'[q] = pc[q] /\ tx'[q] = tx[q]
<1>1. PICK w \in S :
        tx' = [tx EXCEPT ![p] = [NoTx EXCEPT !.rows = S, !.todo = S, !.want = w]]
  BY DEF StartRestock
<1>2. /\ tx'[p].rows = S /\ tx'[p].todo = S
      /\ tx'[p].pending = [i \in Items |-> 0]
  BY <1>1 DEF NoTx, IInv, TypeOK
<1>3. pc'[p] = "restock" /\ \A q \in Procs \ {p} : pc'[q] = pc[q] /\ tx'[q] = tx[q]
  BY <1>1 DEF StartRestock, IInv, TypeOK
<1>4. ASSUME NEW i \in Items PROVE SumOver(Quantity', Restocked(p, i)') = 0
  <2>1. Restocked(p, i)' = {}
    BY <1>2 DEF Restocked
  <2> QED
    BY <2>1, SumOverEmpty
<1>5. ASSUME NEW i \in Items
      PROVE  tx'[p].pending[i] = SumOver(Quantity', Restocked(p, i)')
  BY <1>2, <1>4
<1>6. Counted(p)'
  BY <1>3, <1>5 DEF Counted
<1> QED
  BY <1>2, <1>3, <1>6

\* SELECT ... FOR UPDATE of release takes every row that waits.
LEMMA SelectUnits ==
  ASSUME IInv, UnitsInv, NEW t \in Threads, SelectRows(t)
  PROVE  UnitsInv'
<1> DEFINE S == Pending(call[t].order)
<1>1. /\ t \in Procs /\ t # Reaper /\ pc[t] = "select" /\ UNCHANGED <<tables, phase>>
      /\ S \in SUBSET Keys
  BY ConstantsAssumption DEF SelectRows, Procs, Pending
<1>2. \A o \in Orders : Pending(o)' = Pending(o)
  BY <1>1 DEF tables, Pending, Unconfirmed
<1>3. \A u \in Threads : u \in Procs /\ (pc[u] \in {"select", "restock", "finish"} =>
                                           call[u].order \in Orders)
  BY DEF IInv, CallShape, Procs
<1>4. CASE S = {}
  <2>1. /\ UNCHANGED tx /\ pc'[t] = "idle" /\ call'[t].item = None
        /\ \A p \in Procs \ {t} : pc'[p] = pc[p]
        /\ \A u \in Threads \ {t} : call'[u] = call[u]
    BY <1>1, <1>4 DEF SelectRows, Reply, NoCall, IInv, TypeOK
  <2> QED
    BY <1>1, <1>2, <1>3, <2>1, KeptUnits DEF tables
<1>5. CASE S # {}
  <2>1. StartRestock(t, S) /\ UNCHANGED call
    BY <1>5 DEF SelectRows
  <2>2. /\ Counted(t)' /\ tx'[t].rows = S /\ pc'[t] = "restock"
        /\ \A q \in Procs \ {t} : pc'[q] = pc[q] /\ tx'[q] = tx[q]
    BY <1>1, <2>1, StartCounted
  <2>3. Takes(t)'
    BY <1>1, <1>2, <1>3, <2>1, <2>2 DEF UnitsInv, Takes, NoReserveOf
  <2> QED
    BY <1>1, <1>2, <1>3, <2>1, <2>2, <2>3, KeptUnits DEF tables
<1> QED
  BY <1>4, <1>5

\* The reaper's SELECT.
LEMMA ReaperSelectUnits ==
  ASSUME IInv, UnitsInv, ReaperSelect
  PROVE  UnitsInv'
<1>1. PICK S \in SUBSET Keys : StartRestock(Reaper, S)
  BY DEF ReaperSelect, Batches
<1>2. /\ Reaper \in Procs /\ Reaper \notin Threads /\ UNCHANGED <<tables, phase, call>>
  BY ConstantsAssumption DEF ReaperSelect, Procs
<1>3. /\ Counted(Reaper)'
      /\ \A q \in Procs \ {Reaper} : pc'[q] = pc[q] /\ tx'[q] = tx[q]
  BY <1>1, <1>2, StartCounted
<1>4. \A o \in Orders : Pending(o)' = Pending(o)
  BY <1>2 DEF tables, Pending, Unconfirmed
<1>5. \A u \in Threads : u \in Procs /\ u # Reaper
                         /\ (pc[u] \in {"select", "restock", "finish"} =>
                               call[u].order \in Orders)
  BY <1>2 DEF IInv, CallShape, Procs
<1> QED
  BY <1>2, <1>3, <1>4, <1>5, KeptUnits DEF tables

\* Putting a row's units back adds them to what is pending of its item.
LEMMA RestockUnits ==
  ASSUME IInv, UnitsInv, NEW p \in Procs, Restock(p)
  PROVE  UnitsInv'
<1> DEFINE k == tx[p].want
           left == tx[p].todo \ {k}
<1>1. /\ pc[p] = "restock" /\ k \in tx[p].todo /\ tx[p].todo \subseteq tx[p].rows
      /\ UNCHANGED <<tables, redisKeys, phase, call, faults>>
  BY DEF Restock, IInv, TxShape
<1>2. tx[p] \in Transactions /\ TypeOK /\ LockedRowsPending /\ IsFiniteSet(Live)
  BY DEF IInv, TypeOK, UnitsInv
<1>3. k \in tx[p].rows /\ k \in Keys /\ k[2] \in Items
  BY <1>1, <1>2 DEF Transactions, Keys
<1>4. PICK w \in IF left = {} THEN {None} ELSE left :
        tx' = [tx EXCEPT ![p].holds = @ \cup {k[2]},
                         ![p].pending[k[2]] = AddPending(@, k),
                         ![p].todo = left,
                         ![p].want = w]
  BY DEF Restock
<1>5. /\ tx'[p].rows = tx[p].rows /\ tx'[p].todo = left
      /\ \A i \in Items : tx'[p].pending[i] = IF i = k[2]
                                              THEN tx[p].pending[i] + reservation[k].qty
                                              ELSE tx[p].pending[i]
  BY <1>2, <1>3, <1>4 DEF TypeOK, Transactions, AddPending
<1>6. /\ pc'[p] \in {"restock", "finish"} /\ (pc'[p] = "finish" => left = {})
      /\ \A q \in Procs \ {p} : pc'[q] = pc[q] /\ tx'[q] = tx[q]
  BY <1>2, <1>4 DEF Restock, TypeOK
<1>7. Quantity' = Quantity /\ Quantity[k] = reservation[k].qty
  BY <1>1, <1>3 DEF Quantity, tables
<1>8. ASSUME NEW i \in Items
      PROVE  tx'[p].pending[i] = SumOver(Quantity, Restocked(p, i)')
  <2> DEFINE R == Restocked(p, i)
  <2>1. tx[p].pending[i] = SumOver(Quantity, R) /\ SumOver(Quantity, R) \in Nat
    BY <1>1, <1>2, SummedSets DEF UnitsInv, Counted
  <2>2. CASE i # k[2]
    <3>1. Restocked(p, i)' = R
      BY <1>5, <2>2 DEF Restocked
    <3> QED
      BY <1>5, <2>1, <2>2, <3>1
  <2>3. CASE i = k[2]
    <3>1. Restocked(p, i)' = R \cup {k} /\ k \notin R
      BY <1>1, <1>3, <1>5, <2>3 DEF Restocked
    <3>2. IsFiniteSet(R) /\ IntegersOn(Quantity, R \cup {k}) /\ Quantity[k] \in Int
      <4>1. IsFiniteSet(R) /\ IntegersOn(Quantity, Keys) /\ R \subseteq Live
        BY <1>2, SummedSets
      <4> QED
        BY <1>3, <4>1 DEF IntegersOn, Live
    <3> HIDE DEF R
    <3>3. SumOver(Quantity, R \cup {k}) = Quantity[k] + SumOver(Quantity, R)
      BY <3>1, <3>2, SumOverAdd
    <3> QED
      BY <1>5, <1>7, <2>1, <2>3, <3>1, <3>2, <3>3
  <2> QED
    BY <2>2, <2>3
<1>9. Counted(p)'
  BY <1>5, <1>6, <1>7, <1>8 DEF Counted
<1>10. \A o \in Orders : Pending(o)' = Pending(o)
  BY <1>1 DEF tables, Pending, Unconfirmed
<1>11. \A u \in Threads : u \in Procs /\ (pc[u] \in {"select", "restock", "finish"} =>
                                            call[u].order \in Orders)
  BY DEF IInv, CallShape, Procs
<1>12. p \in Threads => Takes(p)'
  BY <1>1, <1>5, <1>10, <1>11 DEF UnitsInv, Takes, NoReserveOf
<1> QED
  BY <1>1, <1>6, <1>9, <1>10, <1>11, <1>12, KeptUnits DEF tables

\* The INSERT of reserve takes from the shelf what its row holds.
LEMMA StoreUnits ==
  ASSUME IInv, UnitsInv, NEW t \in Threads, StoreReservation(t)
  PROVE  UnitsInv'
<1> DEFINE item == call[t].item
           key == Key(t)
           qty == call[t].qty
<1>1. /\ TypeOK /\ LockedRowsPending /\ IsFiniteSet(Live)
      /\ t \in Procs /\ t # Reaper /\ pc[t] = "store" /\ UNCHANGED <<phase, call>>
      /\ key \in Keys /\ key = <<call[t].order, item>> /\ item \in Items
      /\ call[t].order \in Orders /\ qty \in Nat /\ tx[t].seen = stock[item]
  BY ConstantsAssumption
  DEF StoreReservation, IInv, CallShape, TransactionsIsolated, SnapshotCurrent, UnitsInv,
      Key, Keys, Procs, TypeOK, Calls
<1>2. /\ pc'[t] = "unlock"
      /\ \A p \in Procs \ {t} : pc'[p] = pc[p] /\ tx'[p] = tx[p]
  BY <1>1 DEF StoreReservation, TypeOK
<1>3. CASE reservation[key].status # "none"
  <2>1. UNCHANGED tables
    BY <1>3 DEF StoreReservation, InsertSucceeds
  <2>2. \A o \in Orders : Pending(o)' = Pending(o)
    BY <2>1 DEF tables, Pending, Unconfirmed
  <2>3. \A u \in Threads : u \in Procs /\ (pc[u] \in {"select", "restock", "finish"} =>
                                             call[u].order \in Orders)
    BY DEF IInv, CallShape, Procs
  <2> QED
    BY <1>1, <1>2, <2>1, <2>2, <2>3, KeptUnits DEF tables
<1>4. CASE reservation[key].status = "none"
  <2> DEFINE new == [status |-> "RESERVED", qty |-> qty,
                     confirmed |-> FALSE, expired |-> FALSE]
  <2>1. /\ stock' = [stock EXCEPT ![item] = tx[t].seen - qty]
        /\ reservation' = [reservation EXCEPT ![key] = new]
    BY <1>4 DEF StoreReservation, InsertSucceeds
  <2>2. /\ \A i \in Items : stock'[i] = IF i = item THEN stock[i] - qty ELSE stock[i]
        /\ \A k \in Keys : reservation'[k] = IF k = key THEN new ELSE reservation[k]
    BY <1>1, <2>1 DEF TypeOK
  <2>3. Live' = Live \cup {key} /\ key \notin Live
    BY <1>1, <1>4, <2>2 DEF Live
  <2>4. IsFiniteSet(Live)'
    BY <1>1, <2>3, FS_AddElement
  <2>5. (\A k \in Live : Quantity'[k] = Quantity[k]) /\ Quantity'[key] = qty
    <3>1. new.qty = qty
      OBVIOUS
    <3> HIDE DEF new
    <3>2. \A k \in Keys : Quantity'[k] = IF k = key THEN qty ELSE Quantity[k]
      BY <2>2, <3>1 DEF Quantity
    <3> QED
      BY <1>1, <2>3, <3>2 DEF Live
  <2> HIDE DEF new
  <2>6. ASSUME NEW T \in SUBSET Live, IsFiniteSet(T)
        PROVE  SumOver(Quantity', T) = SumOver(Quantity, T)
    <3>1. \A k \in T : Quantity'[k] = Quantity[k]
      BY <2>5
    <3> QED
      BY <2>6, <3>1, SumOverSame
  <2>7. ASSUME NEW i \in Items PROVE stock'[i] + SumOver(Quantity', Held(i)') = InitialStock[i]
    <3> DEFINE H == Held(i)
    <3>1. /\ IsFiniteSet(H) /\ H \subseteq Live /\ H \subseteq Keys
          /\ SumOver(Quantity, H) \in Nat /\ IntegersOn(Quantity, Keys)
      BY <1>1, SummedSets DEF Held, Live
    <3>2. SumOver(Quantity', H) = SumOver(Quantity, H)
      BY <2>6, <3>1
    <3>3. stock[i] + SumOver(Quantity, H) = InitialStock[i] /\ stock[i] \in Nat
      BY <1>1, Conserved DEF UnitsInv, ConservedSums, TypeOK
    <3>4. CASE i # item
      <4>1. Held(i)' = H
        BY <1>1, <2>2, <3>4 DEF Held
      <4> QED
        BY <2>2, <3>2, <3>3, <3>4, <4>1
    <3>5. CASE i = item
      <4>1. Held(i)' = H \cup {key} /\ key \notin H
        BY <1>1, <1>4, <2>2, <3>5 DEF Held, new
      <4>2. IntegersOn(Quantity', H \cup {key})
        BY <1>1, <2>5, <3>1 DEF IntegersOn
      <4> HIDE DEF H
      <4>3. SumOver(Quantity', H \cup {key}) = Quantity'[key] + SumOver(Quantity', H)
        BY <3>1, <4>1, <4>2, SumOverAdd
      <4>4. stock'[i] = stock[i] - qty
        BY <2>2, <3>5
      <4> QED
        BY <1>1, <2>5, <3>1, <3>2, <3>3, <4>1, <4>3, <4>4
    <3> QED
      BY <3>4, <3>5
  <2>8. ConservedSums'
    BY <2>7 DEF ConservedSums
  <2>9. StockConserved'
    BY <2>4, <2>8, ConservedNext
  <2>10. ASSUME NEW p \in Procs PROVE Counted(p)'
    <3> SUFFICES ASSUME pc'[p] \in {"restock", "finish"} PROVE Counted(p)'
      BY DEF Counted
    <3>1. p # t /\ pc'[p] = pc[p] /\ tx'[p] = tx[p]
      BY <1>2
    <3>2. \A i \in Items : Restocked(p, i)' = Restocked(p, i)
      BY <3>1 DEF Restocked
    <3>3. \A i \in Items : SumOver(Quantity', Restocked(p, i)) = SumOver(Quantity, Restocked(p, i))
      BY <1>1, <2>6, SummedSets
    <3>4. Counted(p)
      BY DEF UnitsInv
    <3> QED
      BY <3>1, <3>2, <3>3, <3>4 DEF Counted
  <2>11. ASSUME NEW u \in Threads PROVE Takes(u)'
    <3> SUFFICES ASSUME pc'[u] \in {"select", "restock", "finish"} PROVE Takes(u)'
      BY DEF Takes
    <3>1. u # t /\ u \in Procs /\ pc'[u] = pc[u] /\ tx'[u] = tx[u] /\ call'[u] = call[u]
      BY <1>1, <1>2 DEF Procs
    <3>2. Takes(u) /\ call[u].order \in Orders
      BY <3>1 DEF UnitsInv, IInv, CallShape
    <3>3. call[u].order # call[t].order
      BY <1>1, <3>1, <3>2, ConstantsAssumption DEF Takes, NoReserveOf
    <3>4. Pending(call[u].order)' = Pending(call[u].order)
      BY <1>1, <2>2, <3>1, <3>3 DEF Pending, Unconfirmed
    <3> QED
      BY <1>1, <3>1, <3>2, <3>4, TakesKept
  <2> QED
    BY <2>4, <2>9, <2>10, <2>11 DEF UnitsInv
<1> QED
  BY <1>3, <1>4

\* The commit of release and of the reaper puts back what the rows it marks
\* have held: they are all the rows the transaction has locked.
LEMMA CommitUnits ==
  ASSUME IInv, UnitsInv, NEW p \in Procs, CommitRestock(p, tx[p].rows),
         \A q \in Procs \ {p} : pc'[q] = pc[q],
         pc'[p] = "idle",
         \A u \in Threads : call'[u] = IF u = p THEN NoCall ELSE call[u],
         UNCHANGED <<redisKeys, phase, faults>>
  PROVE  UnitsInv'
<1> DEFINE S == tx[p].rows
<1>1. /\ TypeOK /\ LockedRowsPending /\ IsFiniteSet(Live)
      /\ pc[p] = "finish" /\ tx[p].todo = {} /\ tx[p] \in Transactions
  BY DEF IInv, UnitsInv, CommitRestock, Counted, TypeOK
<1>2. /\ \A i \in Items : stock'[i] = stock[i] + tx[p].pending[i]
      /\ \A q \in Procs \ {p} : tx'[q] = tx[q]
      /\ \A q \in Procs \ {p} : S \cap tx[q].rows = {}
  BY <1>1 DEF CommitRestock, TypeOK, IInv, TransactionsIsolated, LocksExclusive
<1>3. /\ S \subseteq Keys /\ \A k \in S : Unconfirmed(k)
      /\ \A k \in Keys : /\ reservation'[k].qty = reservation[k].qty
                         /\ k \notin S => reservation'[k] = reservation[k]
                         /\ k \in S => reservation'[k].status = "RELEASED"
  BY <1>1 DEF CommitRestock, TypeOK, Rows, Transactions, LockedRowsPending
<1>4. Live' = Live /\ Quantity' = Quantity
  BY <1>3 DEF Live, Quantity, Unconfirmed
<1>5. IsFiniteSet(Live)'
  BY <1>1, <1>4
<1>6. ASSUME NEW i \in Items PROVE stock'[i] + SumOver(Quantity, Held(i)') = InitialStock[i]
  <2> DEFINE R == Restocked(p, i)
             H == Held(i)'
  <2>1. Held(i) = H \cup R /\ H \cap R = {}
    BY <1>1, <1>3 DEF Held, Restocked, Unconfirmed
  <2>2. /\ IsFiniteSet(R) /\ IsFiniteSet(Held(i)) /\ IntegersOn(Quantity, Keys)
        /\ Held(i) \subseteq Keys /\ SumOver(Quantity, R) \in Nat
        /\ SumOver(Quantity, Held(i)) \in Nat
    BY <1>1, SummedSets
  <2>3. IsFiniteSet(H) /\ IntegersOn(Quantity, H \cup R) /\ IntegersOn(Quantity, H)
    <3>1. H \in SUBSET Held(i)
      BY <2>1
    <3>2. IsFiniteSet(H)
      BY <2>2, <3>1, FS_Subset
    <3> QED
      BY <2>1, <2>2, <3>2 DEF IntegersOn
  <2>4. tx[p].pending[i] = SumOver(Quantity, R)
    BY <1>1 DEF UnitsInv, Counted
  <2>5. stock[i] + SumOver(Quantity, Held(i)) = InitialStock[i] /\ stock[i] \in Nat
    BY <1>1, Conserved DEF UnitsInv, ConservedSums, TypeOK
  <2> HIDE DEF R, H
  <2>6. SumOver(Quantity, H \cup R) = SumOver(Quantity, H) + SumOver(Quantity, R)
    BY <2>1, <2>2, <2>3, SumOverUnion
  <2>7. SumOver(Quantity, H) \in Int
    <3>1. H \in SUBSET H
      OBVIOUS
    <3> QED
      BY <2>3, <3>1, SumOverType
  <2>8. stock'[i] = stock[i] + tx[p].pending[i]
    BY <1>2
  <2>9. stock'[i] + SumOver(Quantity, H) = InitialStock[i]
    BY <2>1, <2>2, <2>4, <2>5, <2>6, <2>7, <2>8
  <2> QED
    BY <2>9 DEF H
<1>7. ConservedSums'
  BY <1>4, <1>6 DEF ConservedSums
<1>8. StockConserved'
  BY <1>5, <1>7, ConservedNext
<1>9. ASSUME NEW q \in Procs PROVE Counted(q)'
  <2> SUFFICES ASSUME pc'[q] \in {"restock", "finish"} PROVE Counted(q)'
    BY DEF Counted
  <2>1. q # p /\ pc'[q] = pc[q] /\ tx'[q] = tx[q]
    BY <1>2
  <2> QED
    BY <1>4, <2>1 DEF UnitsInv, Counted, Restocked
<1>10. ASSUME NEW u \in Threads PROVE Takes(u)'
  <2> SUFFICES ASSUME pc'[u] \in {"select", "restock", "finish"} PROVE Takes(u)'
    BY DEF Takes
  <2>1. u # p /\ u \in Procs /\ pc'[u] = pc[u] /\ tx'[u] = tx[u] /\ call'[u] = call[u]
    BY <1>2 DEF Procs
  <2>2. Takes(u) /\ call[u].order \in Orders
    BY <2>1 DEF UnitsInv, IInv, CallShape
  <2>3. pc[u] # "select" => Pending(call[u].order)' = Pending(call[u].order)
    <3> SUFFICES ASSUME pc[u] # "select"
                 PROVE  Pending(call[u].order)' = Pending(call[u].order)
      OBVIOUS
    <3>1. Pending(call[u].order) \cap S = {}
      BY <1>2, <2>1, <2>2 DEF Takes
    <3> QED
      BY <1>3, <2>1, <3>1 DEF Pending, Unconfirmed
  <2>4. \A v \in Threads : call'[v] = call[v] \/ call'[v].item = None
    BY DEF NoCall
  <2> QED
    BY <2>1, <2>2, <2>3, <2>4, TakesKept
<1> QED
  BY <1>5, <1>8, <1>9, <1>10 DEF UnitsInv

\* Both commits mark exactly the rows of their transaction.
LEMMA FinishRows ==
  ASSUME IInv, UnitsInv, NEW p \in Procs,
         (p \in Threads /\ FinishRelease(p)) \/ (p = Reaper /\ ReaperFinish)
  PROVE  /\ CommitRestock(p, tx[p].rows)
         /\ pc' = [pc EXCEPT ![p] = "idle"]
         /\ \A u \in Threads : call'[u] = IF u = p THEN NoCall ELSE call[u]
         /\ UNCHANGED <<redisKeys, phase, faults>>
<1>1. CASE p \in Threads /\ FinishRelease(p)
  <2>1. pc[p] = "finish"
    BY <1>1 DEF FinishRelease, CommitRestock
  <2>2. tx[p].rows = Pending(call[p].order)
    BY <1>1, <2>1 DEF UnitsInv, Takes
  <2>3. \A u \in Threads : call'[u] = IF u = p THEN NoCall ELSE call[u]
    BY <1>1 DEF FinishRelease, Reply, IInv, TypeOK
  <2> QED
    BY <1>1, <2>2, <2>3 DEF FinishRelease, Reply
<1>2. CASE p = Reaper /\ ReaperFinish
  <2>1. Marked = tx[Reaper].rows
    BY <1>2 DEF Marked, IInv, LockedRowsPending
  <2>2. \A u \in Threads : call'[u] = IF u = p THEN NoCall ELSE call[u]
    BY <1>2, ConstantsAssumption DEF ReaperFinish
  <2> QED
    BY <1>2, <2>1, <2>2 DEF ReaperFinish
<1> QED
  BY <1>1, <1>2

LEMMA FinishUnits ==
  ASSUME IInv, UnitsInv,
         (\E t \in Threads : FinishRelease(t)) \/ ReaperFinish
  PROVE  UnitsInv'
<1>1. PICK p \in Procs :
        (p \in Threads /\ FinishRelease(p)) \/ (p = Reaper /\ ReaperFinish)
  BY DEF Procs
<1>2. /\ CommitRestock(p, tx[p].rows)
      /\ pc' = [pc EXCEPT ![p] = "idle"]
      /\ \A u \in Threads : call'[u] = IF u = p THEN NoCall ELSE call[u]
      /\ UNCHANGED <<redisKeys, phase, faults>>
  BY <1>1, FinishRows
<1>3. pc'[p] = "idle" /\ \A q \in Procs \ {p} : pc'[q] = pc[q]
  BY <1>2 DEF IInv, TypeOK
<1> QED
  BY <1>2, <1>3, CommitUnits

\* At the start everything is on the shelf.
LEMMA InitUnits == Init => UnitsInv
<1> SUFFICES ASSUME Init PROVE UnitsInv
  OBVIOUS
<1>1. Live = {} /\ \A i \in Items : Held(i) = {}
  BY DEF Init, Live, Held, NoRow
<1>2. IsFiniteSet(Live)
  BY <1>1, FS_EmptySet
<1>3. \A i \in Items : SumOver(Quantity, Held(i)) = 0
  BY <1>1, SumOverEmpty
<1>4. ConservedSums
  BY <1>3, ConstantsAssumption DEF Init, ConservedSums
<1>5. StockConserved
  BY <1>2, <1>4, Conserved
<1>6. (\A t \in Threads : Takes(t)) /\ (\A p \in Procs : Counted(p))
  BY DEF Init, Takes, Counted, Procs
<1> QED
  BY <1>2, <1>5, <1>6 DEF UnitsInv

LEMMA NextUnits == IInv /\ UnitsInv /\ [Next]_vars => UnitsInv'
<1> SUFFICES ASSUME IInv, UnitsInv, [Next]_vars PROVE UnitsInv'
  OBVIOUS
<1>1. ASSUME NEW t \in Threads, Reserve(t) \/ Confirm(t) \/ Release(t) PROVE UnitsInv'
  BY <1>1, ReserveUnits, StoreUnits, CallUnits, ConfirmUnits, SelectUnits, RestockUnits,
     FinishUnits DEF Reserve, Confirm, Release, Procs
<1>2. CASE ReaperStep
  BY <1>2, ReaperSelectUnits, RestockUnits, FinishUnits DEF ReaperStep, Procs
<1>3. CASE UNCHANGED vars
  <2>1. /\ Live' = Live /\ Quantity' = Quantity
        /\ \A i \in Items : Held(i)' = Held(i)
    BY <1>3 DEF vars, tables, Live, Quantity, Held
  <2>2. ConservedSums'
    BY <1>3, <2>1, Conserved DEF UnitsInv, ConservedSums, vars, tables
  <2>3. IsFiniteSet(Live)' /\ StockConserved'
    BY <2>1, <2>2, ConservedNext DEF UnitsInv
  <2>4. (\A t \in Threads : Takes(t)') /\ (\A p \in Procs : Counted(p)')
    BY <1>3, <2>1 DEF UnitsInv, Takes, Counted, NoReserveOf, Pending, Unconfirmed, Restocked,
                      vars, tables
  <2> QED
    BY <2>3, <2>4 DEF UnitsInv
<1>4. ASSUME NEW t \in Threads, NEW q \in Requests, CallReserve(t, q) PROVE UnitsInv'
  BY <1>4, ReserveUnits
<1>5. ASSUME NEW t \in Threads, NEW o \in Orders, CallConfirm(t, o) \/ CallRelease(t, o)
      PROVE  UnitsInv'
  BY <1>5, CallUnits
<1>6. ASSUME (\E p \in Procs : DeadlockVictim(p) \/ ConnectionLost(p)) \/ Restart
      PROVE  UnitsInv'
  BY <1>6, AbortUnits
<1>7. ASSUME (\E k \in Keys : ExpireKey(k) \/ Expire(k)) \/ (\E o \in Orders : GiveUp(o))
      PROVE  UnitsInv'
  BY <1>7, TimeUnits
<1>8. ASSUME NEW i \in Menu, SwitchByHand(i) PROVE UnitsInv'
  BY <1>8, SwitchUnits
<1> QED
  BY <1>1, <1>2, <1>3, <1>4, <1>5, <1>6, <1>7, <1>8 DEF Next

\* No unit is lost or made up by any interleaving of reserve, confirm,
\* release and the reaper, nor by what is rolled back: what is on the shelf
\* and what reservations hold is what there was.
THEOREM Conservation == Spec => []StockConserved
<1>1. IInv /\ UnitsInv /\ [Next]_vars => UnitsInv'
  BY NextUnits
<1> QED
  BY <1>1, InitUnits, Invariance, PTL DEF Spec, UnitsInv

-----------------------------------------------------------------------------
(* The service keeps the promises of Inventory.                            *)

Holding == [k \in Keys |-> Promised(k)]

\* What is held of a promise is what waits for its confirmation.
LEMMA HoldingStates ==
  ASSUME TypeOK, NEW k \in Keys
  PROVE  /\ Holding[k].state = "held" <=> Unconfirmed(k)
         /\ Holding[k].qty = reservation[k].qty
         /\ Holding[k] = [state |-> Holding[k].state, qty |-> reservation[k].qty]
<1>1. reservation[k] \in Rows
  BY DEF TypeOK
<1>2. Holding[k] = Promised(k)
  BY DEF Holding
<1>3. CASE reservation[k].status = "none"
  BY <1>2, <1>3 DEF Promised, Unconfirmed
<1>4. CASE reservation[k].status = "RELEASED"
  BY <1>2, <1>4 DEF Promised, Unconfirmed
<1>5. CASE reservation[k].status = "RESERVED" /\ reservation[k].confirmed
  BY <1>2, <1>5 DEF Promised, Unconfirmed
<1>6. CASE reservation[k].status = "RESERVED" /\ ~reservation[k].confirmed
  BY <1>2, <1>6 DEF Promised, Unconfirmed
<1> QED
  BY <1>1, <1>3, <1>4, <1>5, <1>6 DEF Rows

\* Nothing of a promise changes with the age of a row.
LEMMA SamePromises ==
  ASSUME UNCHANGED stock,
         \A k \in Keys : /\ reservation'[k].status = reservation[k].status
                         /\ reservation'[k].qty = reservation[k].qty
                         /\ reservation'[k].confirmed = reservation[k].confirmed
  PROVE  UNCHANGED <<stock, Holding>>
<1>1. \A k \in Keys : Promised(k)' = Promised(k)
  BY DEF Promised
<1> QED
  BY <1>1 DEF Holding

\* The operations of the inventory, of the promises as the service keeps them.
LEMMA PromiseOperations ==
  /\ \A k, n : Promises!Promise(k, n) <=>
       /\ Holding[k] = [state |-> "none", qty |-> 0]
       /\ n \in 1 .. stock[k[2]]
       /\ stock' = [stock EXCEPT ![k[2]] = @ - n]
       /\ Holding' = [Holding EXCEPT ![k] = [state |-> "held", qty |-> n]]
  /\ \A o : Promises!HeldBy(o) = {k \in Keys : k[1] = o /\ Holding[k].state = "held"}
  /\ \A o : Promises!Sell(o) <=>
       /\ Promises!HeldBy(o) # {}
       /\ Holding' = [k \in Keys |-> IF k \in Promises!HeldBy(o)
                                     THEN [Holding[k] EXCEPT !.state = "sold"]
                                     ELSE Holding[k]]
       /\ UNCHANGED stock
BY DEF Promises!Promise, Promises!Sell, Promises!HeldBy, Promises!Nothing, Promises!Holds,
       Holding, Keys

LEMMA PutBackOperation ==
  ASSUME NEW S
  PROVE  Promises!PutBack(S) <=>
           /\ S # {}
           /\ \A k \in S : Holding[k].state = "held"
           /\ Holding' = [k \in Keys |-> IF k \in S THEN [Holding[k] EXCEPT !.state = "back"]
                                                    ELSE Holding[k]]
           /\ stock' = [i \in Items |->
                stock[i] + MapThenSumSet(LAMBDA k : Holding[k].qty, {k \in S : k[2] = i})]
BY DEF Promises!PutBack, Promises!Holds, Holding, Keys, MapThenSumSet, MapThenFoldSet,
       Promises!MapThenSumSet, Promises!MapThenFoldSet

\* A reserve that succeeds is one promise.
LEMMA StorePromises ==
  ASSUME IInv, NEW t \in Threads, StoreReservation(t)
  PROVE  Promises!Next \/ UNCHANGED <<stock, Holding>>
<1>1. PICK k \in Keys, n \in Nat : k = Key(t) /\ n = call[t].qty
  BY DEF StoreReservation, IInv, CallShape, TypeOK, Calls, Key, Keys
<1>2. /\ TypeOK /\ k[2] = call[t].item /\ k[2] \in Items
      /\ tx[t].seen = stock[k[2]] /\ n \in 1 .. stock[k[2]]
  BY <1>1 DEF StoreReservation, IInv, CallShape, TransactionsIsolated, SnapshotCurrent, Key
<1>3. CASE reservation[k].status # "none"
  BY <1>1, <1>3, SamePromises DEF StoreReservation, InsertSucceeds, tables
<1>4. CASE reservation[k].status = "none"
  <2> DEFINE new == [status |-> "RESERVED", qty |-> n,
                     confirmed |-> FALSE, expired |-> FALSE]
             row == [state |-> "held", qty |-> n]
  <2>1. /\ stock' = [stock EXCEPT ![k[2]] = stock[k[2]] - n]
        /\ reservation' = [reservation EXCEPT ![k] = new]
    BY <1>1, <1>2, <1>4 DEF StoreReservation, InsertSucceeds
  <2>2. \A j \in Keys : reservation'[j] = IF j = k THEN new ELSE reservation[j]
    BY <1>2, <2>1 DEF TypeOK
  <2>3. Promised(k)' = row
    BY <2>2 DEF Promised
  <2>4. \A j \in Keys : j # k => Promised(j)' = Promised(j)
    BY <2>2 DEF Promised
  <2> HIDE DEF row
  <2>5. Holding' = [Holding EXCEPT ![k] = row]
    BY <2>3, <2>4 DEF Holding
  <2>6. Holding[k] = [state |-> "none", qty |-> 0]
    BY <1>4 DEF Holding, Promised, IInv, RowShape, NoRow
  <2>7. stock' = [stock EXCEPT ![k[2]] = @ - n]
    BY <2>1
  <2>8. Promises!Promise(k, n)
    BY <1>2, <2>5, <2>6, <2>7, PromiseOperations DEF row
  <2>9. k \in Promises!Holds
    BY DEF Promises!Holds, Keys
  <2> QED
    BY <1>2, <2>8, <2>9 DEF Promises!Next
<1> QED
  BY <1>3, <1>4

\* confirm sells what the order holds, all at once.
LEMMA ConfirmPromises ==
  ASSUME IInv, NEW t \in Threads, ConfirmPending(t)
  PROVE  Promises!Next \/ UNCHANGED <<stock, Holding>>
<1> DEFINE o == call[t].order
           S == Pending(o)
<1>1. TypeOK /\ o \in Orders /\ UNCHANGED stock
  BY DEF ConfirmPending, IInv, CallShape
<1>2. Promises!HeldBy(o) = S
  BY <1>1, HoldingStates, PromiseOperations DEF Pending
<1>3. \A k \in Keys : reservation'[k] = IF k \in S THEN [reservation[k] EXCEPT !.confirmed = TRUE]
                                                   ELSE reservation[k]
  BY DEF ConfirmPending
<1>4. CASE S = {}
  <2>1. \A k \in Keys : reservation'[k] = reservation[k]
    BY <1>3, <1>4
  <2> QED
    BY <1>1, <2>1, SamePromises
<1>5. CASE S # {}
  <2>1. ASSUME NEW k \in Keys
        PROVE  Promised(k)' = IF k \in S THEN [Holding[k] EXCEPT !.state = "sold"]
                                         ELSE Holding[k]
    <3>1. CASE k \notin S
      BY <1>3, <2>1, <3>1 DEF Holding, Promised
    <3>2. CASE k \in S
      <4>1. reservation[k] \in Rows /\ reservation[k].status = "RESERVED"
        BY <1>1, <2>1, <3>2 DEF TypeOK, Pending, Unconfirmed
      <4>2. /\ reservation'[k].status = "RESERVED" /\ reservation'[k].confirmed = TRUE
            /\ reservation'[k].qty = reservation[k].qty
        BY <1>3, <2>1, <3>2, <4>1 DEF Rows
      <4>3. Promised(k)' = [state |-> "sold", qty |-> reservation[k].qty]
        BY <4>2 DEF Promised
      <4>4. Holding[k] = [state |-> Holding[k].state, qty |-> reservation[k].qty]
        BY <1>1, <2>1, HoldingStates
      <4>5. [Holding[k] EXCEPT !.state = "sold"] = [state |-> "sold", qty |-> reservation[k].qty]
        BY <4>4
      <4> QED
        BY <3>2, <4>3, <4>5
    <3> QED
      BY <3>1, <3>2
  <2>2. Holding' = [k \in Keys |-> IF k \in S THEN [Holding[k] EXCEPT !.state = "sold"]
                                              ELSE Holding[k]]
    BY <2>1 DEF Holding
  <2>3. Promises!Sell(o)
    BY <1>1, <1>2, <1>5, <2>2, PromiseOperations
  <2> QED
    BY <1>1, <2>3 DEF Promises!Next
<1> QED
  BY <1>4, <1>5

\* The commit of release and of the reaper puts the rows back, with all their
\* units.
LEMMA CommitPromises ==
  ASSUME IInv, UnitsInv, NEW p \in Procs, CommitRestock(p, tx[p].rows)
  PROVE  Promises!Next \/ UNCHANGED <<stock, Holding>>
<1> DEFINE S == tx[p].rows
           rows(i) == {k \in S : k[2] = i}
<1>1. /\ TypeOK /\ LockedRowsPending /\ IsFiniteSet(Live)
      /\ pc[p] = "finish" /\ tx[p].todo = {} /\ tx[p] \in Transactions
  BY DEF IInv, UnitsInv, CommitRestock, Counted, TypeOK
<1>2. S \in SUBSET Keys /\ \A k \in S : Unconfirmed(k)
  BY <1>1 DEF Transactions, LockedRowsPending
<1>3. \A k \in Keys : reservation'[k] = IF k \in S
                                        THEN [reservation[k] EXCEPT !.status = "RELEASED"]
                                        ELSE reservation[k]
  BY DEF CommitRestock
<1>4. ASSUME NEW i \in Items
      PROVE  /\ tx[p].pending[i] = MapThenSumSet(LAMBDA k : Holding[k].qty, rows(i))
             /\ rows(i) = {} => tx[p].pending[i] = 0
  <2>1. Restocked(p, i) = rows(i)
    BY <1>1 DEF Restocked
  <2>2. tx[p].pending[i] = SumOver(Quantity, rows(i)) /\ IsFiniteSet(rows(i))
    BY <1>1, <2>1, SummedSets DEF UnitsInv, Counted
  <2>3. \A k \in rows(i) : Quantity[k] = Holding[k].qty
    BY <1>1, <1>2, HoldingStates DEF Quantity
  <2>4. MapThenSumSet(LAMBDA k : Holding[k].qty, rows(i)) = SumOver(Quantity, rows(i))
    <3> HIDE DEF rows
    <3> QED
      BY <2>2, <2>3, UnitsAreSums
  <2>5. SumOver(Quantity, {}) = 0
    BY SumOverEmpty
  <2> QED
    BY <2>2, <2>4, <2>5
<1>5. stock' = [i \in Items |-> stock[i] + tx[p].pending[i]]
  BY DEF CommitRestock
<1>6. CASE S = {}
  <2>1. \A k \in Keys : reservation'[k] = reservation[k]
    BY <1>3, <1>6
  <2>2. \A i \in Items : tx[p].pending[i] = 0
    BY <1>4, <1>6
  <2>3. stock' = stock
    BY <1>1, <1>5, <2>2 DEF TypeOK
  <2> QED
    BY <2>1, <2>3, SamePromises
<1>7. CASE S # {}
  <2>1. ASSUME NEW k \in Keys
        PROVE  Promised(k)' = IF k \in S THEN [Holding[k] EXCEPT !.state = "back"]
                                         ELSE Holding[k]
    <3>1. CASE k \notin S
      BY <1>3, <2>1, <3>1 DEF Holding, Promised
    <3>2. CASE k \in S
      <4>1. reservation[k] \in Rows
        BY <1>1, <2>1 DEF TypeOK
      <4>2. /\ reservation'[k].status = "RELEASED"
            /\ reservation'[k].qty = reservation[k].qty
            /\ ~reservation'[k].confirmed
        BY <1>2, <1>3, <2>1, <3>2, <4>1 DEF Rows, Unconfirmed
      <4>3. Promised(k)' = [state |-> "back", qty |-> reservation[k].qty]
        BY <4>2 DEF Promised
      <4>4. Holding[k] = [state |-> Holding[k].state, qty |-> reservation[k].qty]
        BY <1>1, <2>1, HoldingStates
      <4>5. [Holding[k] EXCEPT !.state = "back"] = [state |-> "back", qty |-> reservation[k].qty]
        BY <4>4
      <4> QED
        BY <3>2, <4>3, <4>5
    <3> QED
      BY <3>1, <3>2
  <2>2. Holding' = [k \in Keys |-> IF k \in S THEN [Holding[k] EXCEPT !.state = "back"]
                                              ELSE Holding[k]]
    BY <2>1 DEF Holding
  <2>3. \A k \in S : Holding[k].state = "held"
    BY <1>1, <1>2, HoldingStates
  <2>4. stock' = [i \in Items |->
                    stock[i] + MapThenSumSet(LAMBDA k : Holding[k].qty, {k \in S : k[2] = i})]
    BY <1>4, <1>5
  <2>5. Promises!PutBack(S)
    BY <1>7, <2>2, <2>3, <2>4, PutBackOperation
  <2>6. S \in SUBSET Promises!Holds
    BY <1>2 DEF Promises!Holds, Keys
  <2> QED
    BY <2>5, <2>6 DEF Promises!Next
<1> QED
  BY <1>6, <1>7

\* Every step is an operation of the inventory or moves no promise.
LEMMA NextPromises ==
  IInv /\ UnitsInv /\ [Next]_vars => [Promises!Next]_<<stock, Holding>>
<1> SUFFICES ASSUME IInv, UnitsInv, [Next]_vars
             PROVE  Promises!Next \/ UNCHANGED <<stock, Holding>>
  OBVIOUS
<1>1. CASE UNCHANGED tables
  <2>1. \A k \in Keys : reservation'[k] = reservation[k]
    BY <1>1 DEF tables
  <2> QED
    BY <1>1, <2>1, SamePromises DEF tables
<1>2. ASSUME NEW p \in Procs, (p \in Threads /\ FinishRelease(p)) \/ (p = Reaper /\ ReaperFinish)
      PROVE  Promises!Next \/ UNCHANGED <<stock, Holding>>
  BY <1>2, FinishRows, CommitPromises
<1>3. ASSUME NEW t \in Threads, Reserve(t)
      PROVE  Promises!Next \/ UNCHANGED <<stock, Holding>>
  <2>1. StoreReservation(t) \/ UNCHANGED tables
    BY <1>3 DEF Reserve, ReadReservation, LockItem, UnlockKey
  <2> QED
    BY <1>1, <2>1, StorePromises
<1>4. ASSUME NEW t \in Threads, Confirm(t) \/ Release(t)
      PROVE  Promises!Next \/ UNCHANGED <<stock, Holding>>
  <2>1. ConfirmPending(t) \/ FinishRelease(t) \/ UNCHANGED tables
    BY <1>4 DEF Confirm, Release, CountReservations, SelectRows, Restock
  <2> QED
    BY <1>1, <1>2, <2>1, ConfirmPromises DEF Procs
<1>5. ASSUME ReaperStep PROVE Promises!Next \/ UNCHANGED <<stock, Holding>>
  BY <1>1, <1>2, <1>5 DEF ReaperStep, ReaperSelect, Restock, Procs
<1>6. ASSUME NEW k \in Keys, Expire(k) PROVE Promises!Next \/ UNCHANGED <<stock, Holding>>
  <2>1. \A j \in Keys : /\ reservation'[j].status = reservation[j].status
                        /\ reservation'[j].qty = reservation[j].qty
                        /\ reservation'[j].confirmed = reservation[j].confirmed
    BY <1>6 DEF Expire, IInv, TypeOK, Rows
  <2> QED
    BY <1>6, <2>1, SamePromises DEF Expire
<1>7. ASSUME \/ \E t \in Threads : \/ \E q \in Requests : CallReserve(t, q)
                                   \/ \E o \in Orders : CallConfirm(t, o) \/ CallRelease(t, o)
             \/ \E p \in Procs : DeadlockVictim(p) \/ ConnectionLost(p)
             \/ \E k \in Keys : ExpireKey(k)
             \/ \E o \in Orders : GiveUp(o)
             \/ Restart
      PROVE  UNCHANGED tables
  BY <1>7 DEF CallReserve, CallConfirm, CallRelease, DeadlockVictim, ConnectionLost,
              Rollback, ExpireKey, GiveUp, Restart
<1>8. CASE UNCHANGED vars
  BY <1>1, <1>8 DEF vars
<1>9. ASSUME NEW i \in Menu, SwitchByHand(i) PROVE UNCHANGED <<stock, Holding>>
  BY <1>9, SwitchFrame, SamePromises
<1> QED
  BY <1>1, <1>3, <1>4, <1>5, <1>6, <1>7, <1>8, <1>9 DEF Next

\* The stock service implements the inventory: whatever its threads do, each
\* promise is made, sold or put back in one step.
THEOREM RefinesInventory == Spec => ImplementsInventory
<1>1. Init => Promises!Init
  <2> SUFFICES ASSUME Init PROVE Promises!Init
    OBVIOUS
  <2>1. \A k \in Keys : Promised(k) = [state |-> "none", qty |-> 0]
    BY DEF Init, NoRow, Promised
  <2> QED
    BY <2>1 DEF Init, Promises!Init, Promises!Nothing, Promises!Holds, Keys
<1>2. IInv /\ UnitsInv /\ [Next]_vars => [Promises!Next]_<<stock, [k \in Keys |-> Promised(k)]>>
  BY NextPromises DEF Holding
<1>3. IInv /\ UnitsInv /\ [Next]_vars => UnitsInv'
  BY NextUnits
<1> QED
  BY <1>1, <1>2, <1>3, InitUnits, Invariance, PTL
  DEF Spec, ImplementsInventory, Promises!Spec

-----------------------------------------------------------------------------
(* An order told "confirmed" keeps what it holds.                          *)

\* What can be released, or is, belongs to an order the gateway has dropped.
OnlyDroppedReleased ==
  /\ \A k \in Keys : reservation[k].expired \/ reservation[k].status = "RELEASED" =>
       phase[k[1]] = "abandoned"
  /\ \A k \in tx[Reaper].rows : reservation[k].expired
  /\ \A t \in Threads : pc[t] \in {"select", "restock", "finish"} =>
       phase[call[t].order] = "abandoned"

\* Once confirm has been called for an order nothing is reserved for it, and
\* what confirm has counted is still there.
ConfirmAlone ==
  \A t \in Threads : \A o \in Orders :
    call[t].order = o =>
      /\ phase[o] \in {"confirming", "confirmed"} => call[t].item = None
      /\ pc[t] \in {"count", "confirm"} => phase[o] # "ordering"
      /\ pc[t] = "confirm" /\ phase[o] = "confirming" =>
           \E i \in Items : reservation[<<o, i>>].status = "RESERVED"

PromptInv ==
  /\ OnlyDroppedReleased
  /\ ConfirmAlone
  /\ ConfirmedOrderKeepsStock

-----------------------------------------------------------------------------

\* Nothing is confirmed at the start.
LEMMA InitPromptInv == Init => PromptInv
BY ConstantsAssumption
DEF Init, PromptInv, OnlyDroppedReleased, ConfirmAlone, ConfirmedOrderKeepsStock,
    NoRow, NoTx, NoCall, Procs, Keys

\* A step that leaves the reservations alone, makes no order confirmed and
\* starts or continues no release of an order that is not dropped.
LEMMA SameRows ==
  ASSUME TypeOK, PromptInv, UNCHANGED reservation,
         \A o \in Orders : phase'[o] \in {phase[o], "confirming", "abandoned"},
         \A o \in Orders : phase[o] = "abandoned" => phase'[o] = "abandoned",
         \A k \in tx'[Reaper].rows : reservation[k].expired,
         \A t \in Threads : pc'[t] \in {"select", "restock", "finish"} =>
           phase'[call'[t].order] = "abandoned",
         ConfirmAlone'
  PROVE  PromptInv'
<1>1. OnlyDroppedReleased'
  BY DEF PromptInv, OnlyDroppedReleased, Keys
<1>2. ConfirmedOrderKeepsStock'
  BY DEF PromptInv, ConfirmedOrderKeepsStock
<1> QED
  BY <1>1, <1>2 DEF PromptInv

\* A step of one thread that leaves the reservations and the gateway alone.
LEMMA OneThread ==
  ASSUME TypeOK, PromptInv, NEW t \in Threads, UNCHANGED <<reservation, phase>>,
         \A u \in Threads \ {t} : pc'[u] = pc[u] /\ call'[u] = call[u],
         call'[t] \in {call[t], NoCall},
         pc'[t] \notin {"count", "confirm"},
         pc'[t] \in {"select", "restock", "finish"} =>
           pc[t] \in {"select", "restock", "finish"} /\ call'[t] = call[t],
         \A k \in tx'[Reaper].rows : reservation[k].expired
  PROVE  PromptInv'
<1>1. \A u \in Threads : pc'[u] \in {"select", "restock", "finish"} =>
        phase'[call'[u].order] = "abandoned"
  BY DEF PromptInv, OnlyDroppedReleased
<1>2. NoCall.order \notin Orders /\ NoCall.item = None
  BY ConstantsAssumption DEF NoCall
<1>3. ConfirmAlone'
  <2> SUFFICES ASSUME NEW u \in Threads, NEW o \in Orders, call'[u].order = o
               PROVE  /\ phase'[o] \in {"confirming", "confirmed"} => call'[u].item = None
                      /\ pc'[u] \in {"count", "confirm"} => phase'[o] # "ordering"
                      /\ pc'[u] = "confirm" /\ phase'[o] = "confirming" =>
                           \E i \in Items : reservation'[<<o, i>>].status = "RESERVED"
    BY DEF ConfirmAlone
  <2>1. call'[u] = call[u] /\ (u = t \/ pc'[u] = pc[u])
    BY <1>2
  <2> QED
    BY <2>1 DEF PromptInv, ConfirmAlone
<1> QED
  BY <1>1, <1>3, SameRows

\* The transaction of a thread is not the reaper's.
LEMMA ReaperApart ==
  ASSUME TypeOK, NEW t \in Threads, NEW x, tx' = [tx EXCEPT ![t] = x]
  PROVE  tx'[Reaper] = tx[Reaper]
BY ConstantsAssumption DEF TypeOK, Procs

\* reserve, but for its INSERT.
LEMMA ReservePrompt ==
  ASSUME TypeOK, PromptInv, NEW t \in Threads,
         ReadReservation(t) \/ LockItem(t) \/ UnlockKey(t)
  PROVE  PromptInv'
<1>1. t # Reaper /\ t \in Procs
  BY ConstantsAssumption DEF Procs
<1>2. tx'[Reaper] = tx[Reaper]
  BY <1>1, ReaperApart DEF ReadReservation, LockItem, UnlockKey
<1>3. /\ UNCHANGED <<reservation, phase>> /\ call'[t] \in {call[t], NoCall}
      /\ pc'[t] \in {"lock", "unlock", "store", "idle"}
      /\ \A u \in Threads \ {t} : pc'[u] = pc[u] /\ call'[u] = call[u]
  BY <1>1 DEF ReadReservation, LockItem, UnlockKey, Reply, tables, TypeOK, Procs
<1> QED
  BY <1>2, <1>3, OneThread DEF PromptInv, OnlyDroppedReleased

\* The INSERT of reserve is for an order that is not being confirmed yet.
LEMMA StorePrompt ==
  ASSUME IInv, PromptInv, NEW t \in Threads, StoreReservation(t)
  PROVE  PromptInv'
<1> DEFINE o == call[t].order
           new == [status |-> "RESERVED", qty |-> call[t].qty,
                   confirmed |-> FALSE, expired |-> FALSE]
<1>1. TypeOK /\ t # Reaper /\ t \in Procs
  BY ConstantsAssumption DEF Procs, IInv
<1>2. /\ o \in Orders /\ call[t].item \in Items /\ Key(t) = <<o, call[t].item>>
      /\ phase[o] \notin {"confirming", "confirmed"} /\ UNCHANGED <<phase, call>>
      /\ Key(t) \in Keys /\ pc' = [pc EXCEPT ![t] = "unlock"]
  BY ConstantsAssumption
  DEF StoreReservation, IInv, CallShape, PromptInv, ConfirmAlone, Key, Keys
<1>3. tx'[Reaper] = tx[Reaper]
  BY <1>1, ReaperApart DEF StoreReservation
<1>4. pc'[t] = "unlock" /\ \A u \in Threads \ {t} : pc'[u] = pc[u]
  BY <1>1, <1>2 DEF TypeOK, Procs
<1>5. CASE UNCHANGED reservation
  BY <1>1, <1>2, <1>3, <1>4, <1>5, OneThread DEF PromptInv, OnlyDroppedReleased
<1>6. CASE /\ reservation[Key(t)].status = "none"
           /\ reservation' = [reservation EXCEPT ![Key(t)] = new]
  <2>1. \A k \in Keys : reservation'[k] = IF k = Key(t) THEN new ELSE reservation[k]
    BY <1>1, <1>2, <1>6 DEF TypeOK
  <2>2. new.status = "RESERVED" /\ ~new.expired
    OBVIOUS
  <2>3. \A k \in tx[Reaper].rows : k \in Keys /\ Unconfirmed(k)
    BY <1>1 DEF IInv, LockedRowsPending, TypeOK, Transactions, Procs
  <2>4. OnlyDroppedReleased'
    <3>1. \A k \in tx[Reaper].rows : k # Key(t)
      BY <1>6, <2>3 DEF Unconfirmed
    <3> QED
      BY <1>2, <1>3, <1>4, <2>1, <2>2, <2>3, <3>1 DEF PromptInv, OnlyDroppedReleased
  <2>5. ConfirmAlone'
    <3> SUFFICES ASSUME NEW u \in Threads, NEW p \in Orders, call[u].order = p
                 PROVE  /\ phase[p] \in {"confirming", "confirmed"} => call[u].item = None
                        /\ pc'[u] \in {"count", "confirm"} => phase[p] # "ordering"
                        /\ pc'[u] = "confirm" /\ phase[p] = "confirming" =>
                             \E i \in Items : reservation'[<<p, i>>].status = "RESERVED"
      BY <1>2 DEF ConfirmAlone
    <3>1. \A i \in Items : reservation[<<p, i>>].status = "RESERVED" =>
                           reservation'[<<p, i>>].status = "RESERVED"
      BY <2>1, <2>2 DEF Keys
    <3> QED
      BY <1>4, <3>1 DEF PromptInv, ConfirmAlone
  <2>6. ConfirmedOrderKeepsStock'
    <3> SUFFICES ASSUME NEW p \in Orders, phase[p] = "confirmed"
                 PROVE  /\ \E i \in Items : reservation'[<<p, i>>].confirmed
                        /\ \A i \in Items : reservation'[<<p, i>>].status # "none" =>
                             /\ reservation'[<<p, i>>].confirmed
                             /\ reservation'[<<p, i>>].status = "RESERVED"
      BY <1>2 DEF ConfirmedOrderKeepsStock
    <3>1. \A i \in Items : reservation'[<<p, i>>] = reservation[<<p, i>>]
      BY <1>2, <2>1 DEF Keys
    <3> QED
      BY <3>1 DEF PromptInv, ConfirmedOrderKeepsStock
  <2> QED
    BY <2>4, <2>5, <2>6 DEF PromptInv
<1> QED
  BY <1>5, <1>6 DEF StoreReservation, InsertSucceeds, tables

\* The gateway's calls.
LEMMA CallPrompt ==
  ASSUME IInv, PromptInv, NEW t \in Threads,
         \/ \E q \in Requests : CallReserve(t, q)
         \/ \E o \in Orders : CallConfirm(t, o) \/ CallRelease(t, o)
  PROVE  PromptInv'
<1>1. TypeOK /\ t \in Procs /\ UNCHANGED <<tables, tx>>
  BY DEF Procs, IInv, CallReserve, CallConfirm, CallRelease
<1>2. \A k \in tx'[Reaper].rows : reservation[k].expired
  BY <1>1 DEF PromptInv, OnlyDroppedReleased
<1>3. ASSUME NEW q \in Requests, CallReserve(t, q) PROVE PromptInv'
  <2>1. /\ pc'[t] = "read" /\ call'[t] = q /\ phase[q.order] = "ordering" /\ phase' = phase
        /\ \A u \in Threads \ {t} : pc'[u] = pc[u] /\ call'[u] = call[u]
    BY <1>1, <1>3 DEF CallReserve, TypeOK, Procs
  <2>2. ConfirmAlone'
    <3> SUFFICES ASSUME NEW u \in Threads, NEW p \in Orders, call'[u].order = p
                 PROVE  /\ phase[p] \in {"confirming", "confirmed"} => call'[u].item = None
                        /\ pc'[u] \in {"count", "confirm"} => phase[p] # "ordering"
                        /\ pc'[u] = "confirm" /\ phase[p] = "confirming" =>
                             \E i \in Items : reservation[<<p, i>>].status = "RESERVED"
      BY <1>1, <2>1 DEF ConfirmAlone, tables
    <3> QED
      BY <2>1 DEF PromptInv, ConfirmAlone
  <2> QED
    BY <1>1, <1>2, <2>1, <2>2, SameRows DEF PromptInv, OnlyDroppedReleased, tables
<1>4. ASSUME NEW o \in Orders, CallConfirm(t, o) PROVE PromptInv'
  <2>1. /\ pc'[t] = "count" /\ call'[t].order = o /\ call'[t].item = None
        /\ phase' = [phase EXCEPT ![o] = "confirming"]
        /\ phase[o] \in {"ordering", "confirming"}
        /\ \A u \in Threads \ {t} : pc'[u] = pc[u] /\ call'[u] = call[u]
        /\ \A u \in Threads : call[u].order = o => call[u].item = None
    BY <1>1, <1>4 DEF CallConfirm, NoReserveOf, NoCall, TypeOK, Procs
  <2>2. /\ \A p \in Orders : phase'[p] = IF p = o THEN "confirming" ELSE phase[p]
        /\ \A u \in Threads \ {t} : call[u].order \in Orders \cup {None}
    BY <1>1, <2>1 DEF TypeOK, Calls
  <2>3. ConfirmAlone'
    <3> SUFFICES ASSUME NEW u \in Threads, NEW p \in Orders, call'[u].order = p
                 PROVE  /\ phase'[p] \in {"confirming", "confirmed"} => call'[u].item = None
                        /\ pc'[u] \in {"count", "confirm"} => phase'[p] # "ordering"
                        /\ pc'[u] = "confirm" /\ phase'[p] = "confirming" =>
                             \E i \in Items : reservation[<<p, i>>].status = "RESERVED"
      BY <1>1 DEF ConfirmAlone, tables
    <3>1. CASE u = t
      BY <2>1, <2>2, <3>1
    <3>2. CASE u # t /\ p # o
      <4>1. call'[u] = call[u] /\ pc'[u] = pc[u] /\ phase'[p] = phase[p]
        BY <2>1, <2>2, <3>2
      <4> QED
        BY <4>1 DEF PromptInv, ConfirmAlone
    <3>3. CASE u # t /\ p = o
      <4>1. call'[u].item = None
        BY <2>1, <3>3
      <4>2. /\ pc[u] \in {"count", "confirm"} => phase[o] = "confirming"
            /\ phase'[o] = "confirming"
        BY <2>1, <2>2, <3>3 DEF PromptInv, ConfirmAlone
      <4>3. pc[u] = "confirm" =>
              \E i \in Items : reservation[<<o, i>>].status = "RESERVED"
        BY <2>1, <3>3, <4>2 DEF PromptInv, ConfirmAlone
      <4> QED
        BY <2>1, <3>3, <4>1, <4>2, <4>3
    <3> QED
      BY <3>1, <3>2, <3>3
  <2>4. \A u \in Threads : pc'[u] \in {"select", "restock", "finish"} =>
          phase'[call'[u].order] = "abandoned"
    <3>1. \A u \in Threads : pc[u] \in {"select", "restock", "finish"} =>
            call[u].order \in Orders /\ call[u].order # o
      BY <2>1 DEF PromptInv, OnlyDroppedReleased, IInv, CallShape
    <3> QED
      BY <2>1, <2>2, <3>1 DEF PromptInv, OnlyDroppedReleased
  <2> QED
    BY <1>1, <1>2, <2>1, <2>2, <2>3, <2>4, SameRows DEF tables
<1>5. ASSUME NEW o \in Orders, CallRelease(t, o) PROVE PromptInv'
  <2>1. /\ pc'[t] = "select" /\ call'[t].order = o /\ call'[t].item = None
        /\ phase' = [phase EXCEPT ![o] = "abandoned"]
        /\ \A u \in Threads \ {t} : pc'[u] = pc[u] /\ call'[u] = call[u]
    BY <1>1, <1>5 DEF CallRelease, NoCall, TypeOK, Procs
  <2>2. \A p \in Orders : phase'[p] = IF p = o THEN "abandoned" ELSE phase[p]
    BY <1>1, <2>1 DEF TypeOK
  <2>3. ConfirmAlone'
    <3> SUFFICES ASSUME NEW u \in Threads, NEW p \in Orders, call'[u].order = p
                 PROVE  /\ phase'[p] \in {"confirming", "confirmed"} => call'[u].item = None
                        /\ pc'[u] \in {"count", "confirm"} => phase'[p] # "ordering"
                        /\ pc'[u] = "confirm" /\ phase'[p] = "confirming" =>
                             \E i \in Items : reservation[<<p, i>>].status = "RESERVED"
      BY <1>1 DEF ConfirmAlone, tables
    <3>1. CASE u = t
      BY <2>1, <2>2, <3>1
    <3>2. CASE u # t /\ p = o
      BY <2>2, <3>2
    <3>3. CASE u # t /\ p # o
      <4>1. call'[u] = call[u] /\ pc'[u] = pc[u] /\ phase'[p] = phase[p]
        BY <2>1, <2>2, <3>3
      <4> QED
        BY <4>1 DEF PromptInv, ConfirmAlone
    <3> QED
      BY <3>1, <3>2, <3>3
  <2>4. \A u \in Threads : pc'[u] \in {"select", "restock", "finish"} =>
          phase'[call'[u].order] = "abandoned"
    <3>1. \A u \in Threads : pc[u] \in {"select", "restock", "finish"} =>
            call[u].order \in Orders
      BY DEF IInv, CallShape
    <3> QED
      BY <2>1, <2>2, <3>1 DEF PromptInv, OnlyDroppedReleased
  <2> QED
    BY <1>1, <1>2, <2>1, <2>2, <2>3, <2>4, SameRows DEF tables
<1> QED
  BY <1>3, <1>4, <1>5

\* The count of confirm: what makes it answer 200 at once is confirmed rows
\* and no others.
LEMMA CountPrompt ==
  ASSUME IInv, PromptInv, NEW t \in Threads, CountReservations(t)
  PROVE  PromptInv'
<1> DEFINE o == call[t].order
<1>1. /\ TypeOK /\ t \in Procs /\ pc[t] = "count" /\ UNCHANGED <<tables, tx>>
      /\ o \in Orders /\ call[t].item = None
  BY DEF Procs, IInv, CallShape, CountReservations
<1>2. \A k \in tx'[Reaper].rows : reservation[k].expired
  BY <1>1 DEF PromptInv, OnlyDroppedReleased
<1>3. CASE Pending(o) # {} /\ pc' = [pc EXCEPT ![t] = "confirm"] /\ UNCHANGED <<call, phase>>
  <2>1. pc'[t] = "confirm" /\ \A u \in Threads \ {t} : pc'[u] = pc[u]
    BY <1>1, <1>3 DEF TypeOK, Procs
  <2>2. \E i \in Items : reservation[<<o, i>>].status = "RESERVED"
    BY <1>3 DEF Pending, Unconfirmed, Keys
  <2>3. ConfirmAlone'
    <3> SUFFICES ASSUME NEW u \in Threads, NEW p \in Orders, call[u].order = p
                 PROVE  /\ phase[p] \in {"confirming", "confirmed"} => call[u].item = None
                        /\ pc'[u] \in {"count", "confirm"} => phase[p] # "ordering"
                        /\ pc'[u] = "confirm" /\ phase[p] = "confirming" =>
                             \E i \in Items : reservation[<<p, i>>].status = "RESERVED"
      BY <1>1, <1>3 DEF ConfirmAlone, tables
    <3> QED
      BY <1>1, <2>1, <2>2 DEF PromptInv, ConfirmAlone
  <2> QED
    BY <1>1, <1>2, <1>3, <2>1, <2>3, SameRows DEF PromptInv, OnlyDroppedReleased, tables
<1>4. CASE /\ Pending(o) = {} /\ Reply(t)
           /\ IF ConfirmedBefore(o) THEN Acknowledge(o) ELSE UNCHANGED phase
  <2>1. /\ pc'[t] = "idle" /\ call'[t] = NoCall
        /\ \A u \in Threads \ {t} : pc'[u] = pc[u] /\ call'[u] = call[u]
    BY <1>1, <1>4 DEF Reply, TypeOK, Procs
  <2>2. CASE UNCHANGED phase
    BY <1>1, <1>2, <2>1, <2>2, OneThread DEF tables
  <2>3. CASE ConfirmedBefore(o) /\ phase[o] = "confirming" /\ Acknowledge(o)
    <3>1. \A p \in Orders : phase'[p] = IF p = o THEN "confirmed" ELSE phase[p]
      BY <1>1, <2>3 DEF Acknowledge, TypeOK
    <3>2. OnlyDroppedReleased'
      <4>1. \A u \in Threads : pc[u] \in {"select", "restock", "finish"} =>
              call[u].order \in Orders /\ call[u].order # o
        BY <2>3 DEF PromptInv, OnlyDroppedReleased, IInv, CallShape
      <4>2. \A k \in Keys : phase[k[1]] = "abandoned" => phase'[k[1]] = "abandoned"
        BY <2>3, <3>1 DEF Keys
      <4>3. \A u \in Threads : pc'[u] \in {"select", "restock", "finish"} =>
              phase'[call'[u].order] = "abandoned"
        BY <2>1, <3>1, <4>1 DEF PromptInv, OnlyDroppedReleased
      <4> QED
        BY <1>1, <1>2, <4>2, <4>3 DEF PromptInv, OnlyDroppedReleased, tables
    <3>3. ConfirmAlone'
      <4>1. NoCall.order \notin Orders
        BY ConstantsAssumption DEF NoCall
      <4> SUFFICES ASSUME NEW u \in Threads, NEW p \in Orders, call'[u].order = p
                   PROVE  /\ phase'[p] \in {"confirming", "confirmed"} => call'[u].item = None
                          /\ pc'[u] \in {"count", "confirm"} => phase'[p] # "ordering"
                          /\ pc'[u] = "confirm" /\ phase'[p] = "confirming" =>
                               \E i \in Items : reservation[<<p, i>>].status = "RESERVED"
        BY <1>1 DEF ConfirmAlone, tables
      <4>2. u # t /\ call'[u] = call[u] /\ pc'[u] = pc[u]
        BY <2>1, <4>1
      <4> QED
        BY <2>3, <3>1, <4>2 DEF PromptInv, ConfirmAlone
    <3>4. ConfirmedOrderKeepsStock'
      <4>1. \A i \in Items : /\ <<o, i>> \in Keys
                             /\ reservation[<<o, i>>].status # "RELEASED"
                             /\ reservation[<<o, i>>] \in Rows
        BY <1>1, <2>3 DEF PromptInv, OnlyDroppedReleased, Keys, TypeOK
      <4>2. \A i \in Items : reservation[<<o, i>>].status # "none" =>
              reservation[<<o, i>>].confirmed /\ reservation[<<o, i>>].status = "RESERVED"
        BY <1>4, <4>1 DEF Pending, Unconfirmed, Rows
      <4> QED
        BY <1>1, <2>3, <3>1, <4>2
        DEF PromptInv, ConfirmedOrderKeepsStock, ConfirmedBefore, tables
    <3> QED
      BY <3>2, <3>3, <3>4 DEF PromptInv
  <2>4. Acknowledge(o) /\ phase[o] # "confirming" => UNCHANGED phase
    BY <1>1 DEF Acknowledge, TypeOK
  <2> QED
    BY <1>4, <2>2, <2>3, <2>4
<1> QED
  BY <1>3, <1>4 DEF CountReservations

\* The UPDATE of confirm: nothing of an order being confirmed is released, so
\* every row it has is confirmed now, and what was counted is among them.
LEMMA ConfirmPendingPrompt ==
  ASSUME IInv, PromptInv, NEW t \in Threads, ConfirmPending(t)
  PROVE  PromptInv'
<1> DEFINE o == call[t].order
<1>1. /\ TypeOK /\ t \in Procs /\ pc[t] = "confirm" /\ UNCHANGED tx
      /\ o \in Orders /\ call[t].item = None /\ Acknowledge(o)
  BY DEF Procs, IInv, CallShape, ConfirmPending
<1>2. /\ pc'[t] = "idle" /\ call'[t] = NoCall
      /\ \A u \in Threads \ {t} : pc'[u] = pc[u] /\ call'[u] = call[u]
  BY <1>1 DEF ConfirmPending, Reply, TypeOK, Procs
<1>3. \A p \in Orders : phase'[p] = IF p = o /\ phase[o] = "confirming"
                                   THEN "confirmed" ELSE phase[p]
  BY <1>1 DEF Acknowledge, TypeOK
<1>4. \A k \in Keys : /\ reservation[k] \in Rows
                      /\ reservation'[k].status = reservation[k].status
                      /\ reservation'[k].expired = reservation[k].expired
                      /\ k \in Pending(o) => reservation'[k].confirmed
                      /\ k \notin Pending(o) => reservation'[k] = reservation[k]
  BY <1>1 DEF ConfirmPending, TypeOK, Rows
<1>5. OnlyDroppedReleased'
  <2>1. tx[Reaper].rows \subseteq Keys
    BY <1>1 DEF TypeOK, Transactions, Procs
  <2>2. \A k \in Keys : phase[k[1]] = "abandoned" => phase'[k[1]] = "abandoned"
    BY <1>3 DEF Keys
  <2>3. \A u \in Threads : pc'[u] \in {"select", "restock", "finish"} =>
          phase'[call'[u].order] = "abandoned"
    <3>1. \A u \in Threads : pc[u] \in {"select", "restock", "finish"} =>
            call[u].order \in Orders
      BY DEF IInv, CallShape
    <3> QED
      BY <1>2, <1>3, <3>1 DEF PromptInv, OnlyDroppedReleased
  <2> QED
    BY <1>1, <1>4, <2>1, <2>2, <2>3 DEF PromptInv, OnlyDroppedReleased
<1>6. ConfirmAlone'
  <2>1. NoCall.order \notin Orders
    BY ConstantsAssumption DEF NoCall
  <2> SUFFICES ASSUME NEW u \in Threads, NEW p \in Orders, call'[u].order = p
               PROVE  /\ phase'[p] \in {"confirming", "confirmed"} => call'[u].item = None
                      /\ pc'[u] \in {"count", "confirm"} => phase'[p] # "ordering"
                      /\ pc'[u] = "confirm" /\ phase'[p] = "confirming" =>
                           \E i \in Items : reservation'[<<p, i>>].status = "RESERVED"
    BY DEF ConfirmAlone
  <2>2. u # t /\ call'[u] = call[u] /\ pc'[u] = pc[u]
    BY <1>2, <2>1
  <2>3. \A i \in Items : reservation'[<<p, i>>].status = reservation[<<p, i>>].status
    BY <1>4 DEF Keys
  <2>4. \/ phase'[p] = phase[p]
        \/ phase[p] = "confirming" /\ phase'[p] = "confirmed"
    BY <1>3
  <2> QED
    BY <2>2, <2>3, <2>4 DEF PromptInv, ConfirmAlone
<1>7. ConfirmedOrderKeepsStock'
  <2> SUFFICES ASSUME NEW p \in Orders, phase'[p] = "confirmed"
               PROVE  /\ \E i \in Items : reservation'[<<p, i>>].confirmed
                      /\ \A i \in Items : reservation'[<<p, i>>].status # "none" =>
                           /\ reservation'[<<p, i>>].confirmed
                           /\ reservation'[<<p, i>>].status = "RESERVED"
    BY DEF ConfirmedOrderKeepsStock
  <2>1. CASE phase[p] = "confirmed"
    <3>1. \A i \in Items : <<p, i>> \in Keys /\ (reservation[<<p, i>>].status # "none" =>
                                               <<p, i>> \notin Pending(o))
      BY <2>1 DEF PromptInv, ConfirmedOrderKeepsStock, Keys, Pending, Unconfirmed
    <3>2. \A i \in Items : reservation[<<p, i>>].status = "none" => <<p, i>> \notin Pending(o)
      BY DEF Pending, Unconfirmed
    <3>3. \A i \in Items : reservation'[<<p, i>>] = reservation[<<p, i>>]
      BY <1>4, <3>1, <3>2
    <3> QED
      BY <2>1, <3>3 DEF PromptInv, ConfirmedOrderKeepsStock
  <2>2. CASE p = o /\ phase[o] = "confirming"
    <3>1. \A i \in Items : /\ <<o, i>> \in Keys
                           /\ reservation[<<o, i>>].status \in {"none", "RESERVED"}
      BY <1>4, <2>2 DEF PromptInv, OnlyDroppedReleased, Keys, Rows
    <3>2. \A i \in Items : reservation[<<o, i>>].status = "RESERVED" =>
                           reservation'[<<o, i>>].confirmed
      <4> SUFFICES ASSUME NEW i \in Items, reservation[<<o, i>>].status = "RESERVED"
                   PROVE  reservation'[<<o, i>>].confirmed
        OBVIOUS
      <4>1. CASE reservation[<<o, i>>].confirmed
        BY <1>4, <3>1, <4>1 DEF Pending, Unconfirmed
      <4>2. CASE ~reservation[<<o, i>>].confirmed
        BY <1>4, <3>1, <4>2 DEF Pending, Unconfirmed
      <4> QED
        BY <4>1, <4>2
    <3>3. \E i \in Items : reservation[<<o, i>>].status = "RESERVED"
      BY <1>1, <2>2 DEF PromptInv, ConfirmAlone
    <3> QED
      BY <1>4, <2>2, <3>1, <3>2, <3>3
  <2> QED
    BY <1>3, <2>1, <2>2
<1> QED
  BY <1>5, <1>6, <1>7 DEF PromptInv

\* The transaction of release: begun only for a dropped order.
LEMMA ReleasePrompt ==
  ASSUME IInv, PromptInv, NEW t \in Threads, SelectRows(t) \/ Restock(t)
  PROVE  PromptInv'
<1>1. /\ TypeOK /\ t \in Procs /\ UNCHANGED <<reservation, phase>>
      /\ pc[t] \in {"select", "restock"}
  BY DEF Procs, IInv, SelectRows, Restock, tables
<1>2. tx'[Reaper] = tx[Reaper]
  <2>1. CASE SelectRows(t)
    BY <1>1, <2>1, ReaperApart DEF SelectRows, StartRestock
  <2>2. CASE Restock(t)
    BY <1>1, <2>2, ConstantsAssumption DEF Restock, TypeOK, Procs
  <2> QED
    BY <2>1, <2>2
<1>3. /\ \/ pc'[t] = "idle" /\ call'[t] = NoCall
         \/ pc'[t] \in {"restock", "finish"} /\ call'[t] = call[t]
      /\ \A u \in Threads \ {t} : pc'[u] = pc[u] /\ call'[u] = call[u]
  BY <1>1 DEF SelectRows, StartRestock, Restock, Reply, TypeOK, Procs
<1> QED
  BY <1>1, <1>2, <1>3, OneThread DEF PromptInv, OnlyDroppedReleased

\* A commit that releases rows of dropped orders leaves the others alone.
LEMMA CommitPrompt ==
  ASSUME IInv, PromptInv, NEW p \in Procs, NEW S \in SUBSET Keys, CommitRestock(p, S),
         \A k \in S : phase[k[1]] = "abandoned",
         pc' = [pc EXCEPT ![p] = "idle"],
         \A u \in Threads : call'[u] = IF u = p THEN NoCall ELSE call[u],
         UNCHANGED phase
  PROVE  PromptInv'
<1>1. TypeOK /\ LocksExclusive
  BY DEF IInv, TransactionsIsolated
<1>2. \A k \in Keys : /\ k \notin S => reservation'[k] = reservation[k]
                      /\ reservation'[k].expired = reservation[k].expired
                      /\ reservation'[k].confirmed = reservation[k].confirmed
  BY <1>1 DEF CommitRestock, TypeOK, Rows
<1>3. /\ pc'[p] = "idle" /\ \A q \in Procs \ {p} : pc'[q] = pc[q]
      /\ tx'[p] = NoTx /\ \A q \in Procs \ {p} : tx'[q] = tx[q]
  BY <1>1 DEF TypeOK, CommitRestock
<1>4. OnlyDroppedReleased'
  <2>1. tx'[Reaper].rows \subseteq tx[Reaper].rows /\ tx[Reaper].rows \subseteq Keys
    BY <1>1, <1>3, Sentinels DEF TypeOK, Transactions, Procs
  <2>2. \A k \in Keys : reservation'[k].expired \/ reservation'[k].status = "RELEASED" =>
          phase[k[1]] = "abandoned"
    BY <1>2 DEF PromptInv, OnlyDroppedReleased
  <2> QED
    BY <1>2, <1>3, <2>1, <2>2 DEF PromptInv, OnlyDroppedReleased, Procs
<1>5. \A o \in Orders : phase[o] \in {"confirming", "confirmed"} =>
        \A i \in Items : /\ <<o, i>> \in Keys
                         /\ reservation'[<<o, i>>] = reservation[<<o, i>>]
  BY <1>2 DEF Keys
<1>6. ConfirmAlone'
  <2>1. NoCall.order \notin Orders
    BY ConstantsAssumption DEF NoCall
  <2> SUFFICES ASSUME NEW u \in Threads, NEW o \in Orders, call'[u].order = o
               PROVE  /\ phase[o] \in {"confirming", "confirmed"} => call'[u].item = None
                      /\ pc'[u] \in {"count", "confirm"} => phase[o] # "ordering"
                      /\ pc'[u] = "confirm" /\ phase[o] = "confirming" =>
                           \E i \in Items : reservation'[<<o, i>>].status = "RESERVED"
    BY DEF ConfirmAlone
  <2>2. u # p /\ call'[u] = call[u] /\ pc'[u] = pc[u]
    BY <1>3, <2>1 DEF Procs
  <2> QED
    BY <1>5, <2>2 DEF PromptInv, ConfirmAlone
<1>7. ConfirmedOrderKeepsStock'
  BY <1>5, ZenonT(60) DEF PromptInv, ConfirmedOrderKeepsStock
<1> QED
  BY <1>4, <1>6, <1>7 DEF PromptInv

LEMMA FinishReleasePrompt ==
  ASSUME IInv, PromptInv, NEW t \in Threads, FinishRelease(t)
  PROVE  PromptInv'
<1> DEFINE S == Pending(call[t].order)
<1>1. TypeOK /\ t \in Procs /\ CommitRestock(t, S) /\ UNCHANGED phase /\ pc[t] = "finish"
  BY DEF IInv, FinishRelease, Procs, CommitRestock
<1>2. S \in SUBSET Keys /\ \A k \in S : phase[k[1]] = "abandoned"
  BY <1>1 DEF Pending, PromptInv, OnlyDroppedReleased
<1>3. /\ pc' = [pc EXCEPT ![t] = "idle"]
      /\ \A u \in Threads : call'[u] = IF u = t THEN NoCall ELSE call[u]
  BY <1>1, ReplyShape DEF FinishRelease
<1> QED
  BY <1>1, <1>2, <1>3, CommitPrompt

\* The reaper locks expired rows and releases those it has locked.
LEMMA ReaperPrompt ==
  ASSUME IInv, PromptInv, ReaperStep
  PROVE  PromptInv'
<1>1. /\ TypeOK /\ Reaper \in Procs /\ Reaper \notin Threads
      /\ tx[Reaper] \in Transactions
  BY ConstantsAssumption DEF IInv, TypeOK, Procs
<1>2. ASSUME UNCHANGED <<tables, phase, call>>, NEW l, pc' = [pc EXCEPT ![Reaper] = l],
             \A k \in tx'[Reaper].rows : reservation[k].expired
      PROVE  PromptInv'
  <2>1. \A u \in Threads : pc'[u] = pc[u]
    BY <1>1, <1>2 DEF TypeOK, Procs
  <2>2. ConfirmAlone'
    BY <1>2, <2>1 DEF PromptInv, ConfirmAlone, tables
  <2> QED
    BY <1>1, <1>2, <2>1, <2>2, SameRows DEF PromptInv, OnlyDroppedReleased, tables
<1>3. CASE ReaperSelect
  <2>1. PICK S : StartRestock(Reaper, S) /\ \A k \in S : reservation[k].expired
    BY <1>3 DEF ReaperSelect, Batches
  <2>2. tx'[Reaper].rows = S
    BY <1>1, <2>1 DEF StartRestock, TypeOK, NoTx
  <2> QED
    BY <1>2, <1>3, <2>1, <2>2 DEF ReaperSelect, StartRestock
<1>4. CASE Restock(Reaper)
  <2>1. tx'[Reaper].rows = tx[Reaper].rows
    BY <1>1, <1>4 DEF Restock, TypeOK, Transactions
  <2> QED
    BY <1>2, <1>4, <2>1 DEF Restock, PromptInv, OnlyDroppedReleased
<1>5. CASE ReaperFinish
  <2>1. Marked \in SUBSET Keys /\ \A k \in Marked : phase[k[1]] = "abandoned"
    BY <1>1 DEF Marked, PromptInv, OnlyDroppedReleased, Transactions
  <2> QED
    BY <1>1, <1>5, <2>1, CommitPrompt DEF ReaperFinish
<1> QED
  BY <1>3, <1>4, <1>5 DEF ReaperStep

\* What ends a transaction without committing it.
LEMMA AbortPrompt ==
  ASSUME IInv, PromptInv,
         (\E p \in Procs : DeadlockVictim(p) \/ ConnectionLost(p)) \/ Restart
  PROVE  PromptInv'
<1>1. /\ TypeOK /\ Reaper \in Procs /\ NoCall.order \notin Orders
      /\ UNCHANGED <<tables, phase>>
  BY ConstantsAssumption
  DEF IInv, Procs, NoCall, DeadlockVictim, ConnectionLost, Rollback, Restart
<1>2. \A t \in Threads : \/ pc'[t] = pc[t] /\ call'[t] = call[t]
                         \/ pc'[t] \in {"idle", "unlock"} /\ call'[t] \in {call[t], NoCall}
  <2>1. ASSUME NEW p \in Procs, NEW t \in Threads, Rollback(p)
        PROVE  \/ pc'[t] = pc[t] /\ call'[t] = call[t]
               \/ pc'[t] \in {"idle", "unlock"} /\ call'[t] \in {call[t], NoCall}
    BY <1>1, <2>1 DEF Rollback, TypeOK, Procs
  <2> QED
    BY <2>1 DEF DeadlockVictim, ConnectionLost, Restart, Procs
<1>3. tx'[Reaper].rows \subseteq tx[Reaper].rows
  <2>1. tx'[Reaper] \in {tx[Reaper], NoTx}
    BY <1>1 DEF DeadlockVictim, ConnectionLost, Rollback, Restart, TypeOK
  <2> QED
    BY <2>1, Sentinels
<1>4. ConfirmAlone'
  <2> SUFFICES ASSUME NEW u \in Threads, NEW p \in Orders, call'[u].order = p
               PROVE  /\ phase[p] \in {"confirming", "confirmed"} => call'[u].item = None
                      /\ pc'[u] \in {"count", "confirm"} => phase[p] # "ordering"
                      /\ pc'[u] = "confirm" /\ phase[p] = "confirming" =>
                           \E i \in Items : reservation[<<p, i>>].status = "RESERVED"
    BY <1>1 DEF ConfirmAlone, tables
  <2>1. call'[u] = call[u] /\ (pc'[u] = pc[u] \/ pc'[u] \in {"idle", "unlock"})
    BY <1>1, <1>2
  <2> QED
    BY <2>1 DEF PromptInv, ConfirmAlone
<1>5. \A u \in Threads : pc'[u] \in {"select", "restock", "finish"} =>
        phase'[call'[u].order] = "abandoned"
  BY <1>1, <1>2 DEF PromptInv, OnlyDroppedReleased
<1> QED
  BY <1>1, <1>3, <1>4, <1>5, SameRows DEF PromptInv, OnlyDroppedReleased, tables

\* The gateway drops an order, a Redis key expires.
LEMMA GiveUpPrompt ==
  ASSUME IInv, PromptInv, (\E o \in Orders : GiveUp(o)) \/ (\E k \in Keys : ExpireKey(k))
  PROVE  PromptInv'
<1>1. /\ TypeOK /\ UNCHANGED <<tables, pc, call, tx>>
      /\ \A o \in Orders : phase'[o] \in {phase[o], "abandoned"}
  BY DEF IInv, TypeOK, GiveUp, ExpireKey
<1>2. ConfirmAlone'
  BY <1>1, SMTT(20) DEF PromptInv, ConfirmAlone, tables
<1>3. \A u \in Threads : pc'[u] \in {"select", "restock", "finish"} =>
        phase'[call'[u].order] = "abandoned"
  BY <1>1 DEF PromptInv, OnlyDroppedReleased, IInv, CallShape
<1> QED
  BY <1>1, <1>2, <1>3, SameRows DEF PromptInv, OnlyDroppedReleased, tables

\* The administrator's switch concerns no order.
LEMMA SwitchPrompt ==
  ASSUME PromptInv, NEW i \in Menu, SwitchByHand(i)
  PROVE  PromptInv'
<1>1. UNCHANGED <<reservation, phase, pc, call, tx>>
  BY SwitchFrame
<1> QED
  BY <1>1 DEF PromptInv, OnlyDroppedReleased, ConfirmAlone, ConfirmedOrderKeepsStock, Pending,
              Unconfirmed, NoReserveOf

\* A reservation expires when its order has been dropped.
LEMMA ExpirePrompt ==
  ASSUME Prompt, IInv, PromptInv, NEW k \in Keys, Expire(k)
  PROVE  PromptInv'
<1>1. /\ TypeOK /\ phase[k[1]] = "abandoned" /\ UNCHANGED <<pc, call, tx, phase>>
  BY DEF IInv, Expire
<1>2. \A j \in Keys : /\ j # k => reservation'[j] = reservation[j]
                      /\ reservation'[j].status = reservation[j].status
                      /\ reservation'[j].confirmed = reservation[j].confirmed
                      /\ reservation[j].expired => reservation'[j].expired
  BY <1>1 DEF Expire, TypeOK, Rows
<1>3. OnlyDroppedReleased'
  <2>1. tx[Reaper].rows \subseteq Keys
    BY <1>1 DEF TypeOK, Transactions, Procs
  <2> QED
    BY <1>1, <1>2, <2>1 DEF PromptInv, OnlyDroppedReleased
<1>4. ConfirmAlone' /\ ConfirmedOrderKeepsStock'
  <2>1. \A o \in Orders : \A i \in Items :
          /\ reservation'[<<o, i>>].status = reservation[<<o, i>>].status
          /\ reservation'[<<o, i>>].confirmed = reservation[<<o, i>>].confirmed
    BY <1>2 DEF Keys
  <2>2. ConfirmAlone'
    BY <1>1, <2>1, SMTT(20) DEF PromptInv, ConfirmAlone
  <2>3. ConfirmedOrderKeepsStock'
    BY <1>1, <2>1 DEF PromptInv, ConfirmedOrderKeepsStock
  <2> QED
    BY <2>2, <2>3
<1> QED
  BY <1>3, <1>4 DEF PromptInv

\* If orders do not outlive their reservations, confirm can be trusted: the
\* order told "confirmed" holds all it has reserved, for good.
THEOREM ConfirmedForGood == ASSUME Prompt PROVE Spec => []ConfirmedOrderKeepsStock
<1>1. IInv /\ PromptInv /\ [Next]_vars => PromptInv'
  <2> SUFFICES ASSUME IInv, PromptInv, [Next]_vars PROVE PromptInv'
    OBVIOUS
  <2>1. ASSUME NEW t \in Threads, Reserve(t) \/ Confirm(t) \/ Release(t) PROVE PromptInv'
    <3>1. TypeOK
      BY DEF IInv
    <3> QED
      BY <2>1, <3>1, ReservePrompt, StorePrompt, CountPrompt, ConfirmPendingPrompt,
         ReleasePrompt, FinishReleasePrompt DEF Reserve, Confirm, Release
  <2>2. CASE UNCHANGED vars
    BY <2>2 DEF vars, tables, PromptInv, OnlyDroppedReleased, ConfirmAlone,
                ConfirmedOrderKeepsStock
  <2> QED
    BY <2>1, <2>2, CallPrompt, ReaperPrompt, AbortPrompt, GiveUpPrompt, ExpirePrompt,
       SwitchPrompt DEF Next
<1> QED
  BY <1>1, InitPromptInv, Invariance, PTL DEF Spec, PromptInv

-----------------------------------------------------------------------------
(* What the orders told "confirmed" hold.                                  *)

\* They hold rows that exist, one of each item at most.
LEMMA ConfirmedFinite ==
  ASSUME IInv, UnitsInv, ConfirmedOrderKeepsStock, NEW i \in Items
  PROVE  IsFiniteSet({k \in Keys : k[2] = i /\ phase[k[1]] = "confirmed"})
<1> DEFINE C == {k \in Keys : k[2] = i /\ phase[k[1]] = "confirmed"}
           line(o) == CHOOSE j \in Items : reservation[<<o, j>>].confirmed
           f == [k \in C |-> <<k[1], line(k[1])>>]
<1>1. ASSUME NEW k \in C PROVE f[k] \in Live /\ f[k][1] = k[1]
  <2>1. k[1] \in Orders /\ phase[k[1]] = "confirmed"
    BY DEF Keys
  <2>2. \E j \in Items : reservation[<<k[1], j>>].confirmed
    BY <2>1 DEF ConfirmedOrderKeepsStock
  <2>3. line(k[1]) \in Items /\ reservation[<<k[1], line(k[1])>>].confirmed
    BY <2>2
  <2> HIDE DEF line
  <2>4. <<k[1], line(k[1])>> \in Keys
    BY <2>1, <2>3 DEF Keys
  <2>5. <<k[1], line(k[1])>> \in Live
    BY <2>3, <2>4 DEF Live, IInv, RowShape, NoRow
  <2> QED
    BY <2>5
<1>2. f \in [C -> Live]
  <2> HIDE DEF line
  <2> QED
    BY <1>1
<1>3. ASSUME NEW k \in C, NEW j \in C, f[k] = f[j] PROVE k = j
  <2>1. k[1] = j[1] /\ k[2] = j[2] /\ k \in Keys /\ j \in Keys
    BY <1>1, <1>3
  <2> QED
    BY <2>1 DEF Keys
<1> HIDE DEF f, C
<1>4. f \in Injection(C, Live)
  BY <1>2, <1>3 DEF Injection, IsInjective
<1>5. IsFiniteSet(Live)
  BY DEF UnitsInv
<1>6. IsFiniteSet(C)
  BY <1>4, <1>5, FS_Injection
<1> QED
  BY <1>6 DEF C

\* Orders that are told "confirmed", all together, hold no more units than
\* there were, as long as no order outlives its reservations.
THEOREM NeverOversold == ASSUME Prompt PROVE Spec => []NoOversell
<1>1. IInv /\ UnitsInv /\ ConfirmedOrderKeepsStock => NoOversell
  <2> SUFFICES ASSUME IInv, UnitsInv, ConfirmedOrderKeepsStock, NEW i \in Items
               PROVE  MapThenSumSet(LAMBDA k : reservation[k].qty,
                                    {k \in Keys : k[2] = i /\ phase[k[1]] = "confirmed"})
                        <= InitialStock[i]
    BY DEF NoOversell
  <2> DEFINE C == {k \in Keys : k[2] = i /\ phase[k[1]] = "confirmed"}
             H == Held(i)
  <2>1. TypeOK /\ LockedRowsPending /\ IsFiniteSet(Live) /\ IsFiniteSet(C)
    BY ConfirmedFinite DEF IInv, UnitsInv
  <2>2. /\ IsFiniteSet(H) /\ \A k \in Keys : Quantity[k] = reservation[k].qty
        /\ \A k \in Keys : Quantity[k] \in Nat
        /\ stock[i] \in Nat /\ InitialStock[i] \in Nat
        /\ stock[i] + SumOver(Quantity, H) = InitialStock[i]
        /\ SumOver(Quantity, H) \in Nat
    BY <2>1, SummedSets, Conserved, ConstantsAssumption
    DEF UnitsInv, ConservedSums, TypeOK, Rows, Quantity
  <2>3. \A k \in C \ H : Quantity[k] = 0
    <3> SUFFICES ASSUME NEW k \in C \ H PROVE Quantity[k] = 0
      OBVIOUS
    <3>1. k = <<k[1], i>> /\ k[1] \in Orders /\ phase[k[1]] = "confirmed" /\ k \in Keys
      BY DEF Keys
    <3>2. reservation[k].status = "none" \/ reservation[k].status = "RESERVED"
      BY <3>1 DEF ConfirmedOrderKeepsStock
    <3>3. reservation[k] = NoRow
      BY <3>1, <3>2 DEF Held, IInv, RowShape
    <3> QED
      BY <2>2, <3>1, <3>3 DEF NoRow
  <2>4. /\ C \cap H \in SUBSET C /\ C \cap H \in SUBSET H
        /\ \A k \in C : Quantity[k] \in Nat /\ Quantity[k] = reservation[k].qty
        /\ \A k \in H : Quantity[k] \in Nat
        /\ \A k \in C \ (C \cap H) : Quantity[k] = 0
    BY <2>2, <2>3 DEF Held
  <2> HIDE DEF C, H
  <2>5. SumOver(Quantity, C \cap H) = SumOver(Quantity, C)
    BY <2>1, <2>4, SumOverPart
  <2>6. SumOver(Quantity, C \cap H) <= SumOver(Quantity, H)
    BY <2>2, <2>4, SumOverPart
  <2>7. MapThenSumSet(LAMBDA k : reservation[k].qty, C) = SumOver(Quantity, C)
    BY <2>1, <2>4, UnitsAreSums
  <2>8. SumOver(Quantity, C) \in Int
    <3>1. IntegersOn(Quantity, C) /\ C \in SUBSET C
      BY <2>4 DEF IntegersOn
    <3> QED
      BY <2>1, <3>1, SumOverType
  <2>9. MapThenSumSet(LAMBDA k : reservation[k].qty, C) <= InitialStock[i]
    BY <2>2, <2>5, <2>6, <2>7, <2>8
  <2> QED
    BY <2>9 DEF C
<1>2. IInv /\ UnitsInv /\ [Next]_vars => UnitsInv'
  BY NextUnits
<1>3. Spec => []ConfirmedOrderKeepsStock
  BY ConfirmedForGood
<1> QED
  BY <1>1, <1>2, <1>3, InitUnits, Invariance, PTL DEF Spec

=============================================================================
