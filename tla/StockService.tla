---------------------------- MODULE StockService ----------------------------
(***************************************************************************)
(* The stock service: POST /stock/reserve, /stock/confirm, /stock/release  *)
(* and the background reaper that gives back reservations older than their *)
(* time to live.  The handlers run concurrently in a thread pool, each in  *)
(* one PostgreSQL transaction at READ COMMITTED, so a step here is one SQL *)
(* statement (or a COMMIT with the statements that no other transaction    *)
(* can observe before it), and the state is what is committed plus what    *)
(* each open transaction holds: the rows it has locked, the value it read, *)
(* the increments it has not committed yet.                                *)
(*                                                                         *)
(* The callers are the order gateway's create_order: one order reserves    *)
(* its lines, then is confirmed, or released, or simply given up on.       *)
(***************************************************************************)
EXTENDS Integers, FiniteSets, FiniteSetsExt

CONSTANTS
  Orders,        \* order ids
  Items,         \* item ids a request may name
  Menu,          \* those that have a row in menu_items
  Threads,       \* threads of the service's request pool
  Reaper,        \* the reaper's thread
  None,          \* no order, no item, no row
  Requests,      \* the reserve requests a caller may send
  InitialStock,  \* menu_items.stock_quantity before the first request
  Switched,      \* items that the administrator puts on and off the menu
  ReaperBatch,   \* LIMIT of the reaper's SELECT
  Prompt,        \* TRUE: the gateway is done with an order within the TTL
  MaxFaults      \* bound on lost connections, restarts and Redis errors

Reserving == [order : Orders, item : Items, qty : Int]

ASSUME ConstantsAssumption ==
  /\ Menu \subseteq Items
  /\ Switched \subseteq Menu
  /\ Requests \subseteq Reserving
  /\ InitialStock \in [Items -> Nat]
  /\ ReaperBatch \in Nat \ {0}
  /\ Prompt \in BOOLEAN
  /\ MaxFaults \in Nat
  /\ Reaper \notin Threads
  /\ None \notin Orders \cup Items \cup (Orders \X Items)

VARIABLES
  stock,         \* menu_items.stock_quantity, committed
  available,     \* menu_items.available, committed
  byHand,        \* items whose available the administrator wrote last
  reservation,   \* stock_reservations, committed, by UNIQUE(order_id, item_id)
  redisKeys,     \* keys lock:reserve:<order>:<item> present in Redis
  phase,         \* where the gateway is with each order
  pc,            \* the next statement of each thread
  call,          \* the request each thread is serving
  tx,            \* the open transaction of each thread
  faults         \* faults so far

tables == <<stock, available, byHand, reservation>>
vars == <<tables, redisKeys, phase, pc, call, tx, faults>>

Keys == Orders \X Items
Procs == Threads \cup {Reaper}

NoRow == [status |-> "none", qty |-> 0, confirmed |-> FALSE, expired |-> FALSE]
NoCall == [order |-> None, item |-> None, qty |-> 0]

(***************************************************************************)
(* seen: stock_quantity as read under the row lock; holds: locked rows of  *)
(* menu_items; rows: locked rows of stock_reservations; todo, want: those  *)
(* whose units are still to be put back, and the next one; pending: units  *)
(* put back by UPDATEs of this transaction that are not committed.         *)
(***************************************************************************)
NoTx == [seen |-> 0, holds |-> {}, rows |-> {}, todo |-> {}, want |-> None,
         pending |-> [i \in Items |-> 0]]

Init ==
  /\ stock = InitialStock
  /\ available = [i \in Items |-> InitialStock[i] > 0]
  /\ byHand = {}
  /\ reservation = [k \in Keys |-> NoRow]
  /\ redisKeys = {}
  /\ phase = [o \in Orders |-> "ordering"]
  /\ pc = [p \in Procs |-> "idle"]
  /\ call = [t \in Threads |-> NoCall]
  /\ tx = [p \in Procs |-> NoTx]
  /\ faults = 0

-----------------------------------------------------------------------------
(* What the statements' WHERE clauses and row locks say.                   *)

\* status = 'RESERVED' AND confirmed_at IS NULL
Unconfirmed(k) == reservation[k].status = "RESERVED" /\ ~reservation[k].confirmed
Pending(o) == {k \in Keys : k[1] = o /\ Unconfirmed(k)}

\* Mutant: the SELECT of reserve forgets FOR UPDATE.
ItemFreeUnlocked(p, i) == TRUE

\* Mutant: a lock that its own transaction cannot take a second time.
ItemFreeOnce(p, i) == \A q \in Procs : i \notin tx[q].holds

ItemFree(p, i) == \A q \in Procs \ {p} : i \notin tx[q].holds

\* Mutant: release and reaper read the reservations without FOR UPDATE.
RowsFreeUnlocked(p, S) == TRUE

RowsFree(p, S) == \A q \in Procs \ {p} : S \cap tx[q].rows = {}

Key(t) == <<call[t].order, call[t].item>>

\* No reserve request of this order is being served: the gateway confirms
\* or releases an order only once all its reserve calls have been answered.
NoReserveOf(o) == \A t \in Threads : call[t].order = o => call[t].item = None

Reply(t) ==
  /\ pc' = [pc EXCEPT ![t] = "idle"]
  /\ call' = [call EXCEPT ![t] = NoCall]

\* The gateway learns that its order is confirmed, if it still waits for it.
Acknowledge(o) ==
  phase' = [phase EXCEPT ![o] = IF @ = "confirming" THEN "confirmed" ELSE @]

Fault == faults < MaxFaults /\ faults' = faults + 1

-----------------------------------------------------------------------------
(* POST /stock/reserve                                                     *)

\* Takes the Redis lock or, with Redis unreachable, goes on without it.  A
\* quantity below one (422) and a key already present (409) end the request
\* with no effect.
CallReserve(t, q) ==
  /\ pc[t] = "idle"
  /\ q.qty > 0
  /\ phase[q.order] = "ordering"
  /\ \/ /\ <<q.order, q.item>> \notin redisKeys
        /\ redisKeys' = redisKeys \cup {<<q.order, q.item>>}
        /\ UNCHANGED faults
     \/ /\ Fault
        /\ UNCHANGED redisKeys
  /\ pc' = [pc EXCEPT ![t] = "read"]
  /\ call' = [call EXCEPT ![t] = q]
  /\ UNCHANGED <<tables, phase, tx>>

\* A row that exists ends the request: same quantity, already_reserved; any
\* other quantity or a released row, 409.
ReadReservation(t) ==
  /\ pc[t] = "read"
  /\ pc' = [pc EXCEPT ![t] = IF reservation[Key(t)].status = "none"
                             THEN "lock" ELSE "unlock"]
  /\ UNCHANGED <<tables, redisKeys, phase, call, tx, faults>>

\* Mutant: the quantity left is not compared with the quantity asked for.
OnStockUnchecked(item, n) == item \in Menu /\ n > 0

OnStock(item, n) == item \in Menu /\ stock[item] >= n

LockItem(t) ==
  LET item == call[t].item IN
  /\ pc[t] = "lock"
  /\ ItemFree(t, item)
  /\ IF OnStock(item, call[t].qty)
     THEN /\ tx' = [tx EXCEPT ![t] = [NoTx EXCEPT !.seen = stock[item], !.holds = {item}]]
          /\ pc' = [pc EXCEPT ![t] = "store"]
     ELSE /\ pc' = [pc EXCEPT ![t] = "unlock"]
          /\ UNCHANGED tx
  /\ UNCHANGED <<tables, redisKeys, phase, call, faults>>

\* Mutant: an item stays available when its last unit is taken.
StillAvailableAtZero(left) == left >= 0

StillAvailable(left) == left > 0

\* Mutant: INSERT ... ON CONFLICT DO UPDATE.
InsertOverwrites(k) == TRUE

InsertSucceeds(k) == reservation[k].status = "none"

\* UPDATE menu_items, INSERT, COMMIT.  The INSERT fails on a row that a
\* concurrent request has committed meanwhile, and takes the UPDATE with it.
StoreReservation(t) ==
  LET item == call[t].item
      left == tx[t].seen - call[t].qty IN
  /\ pc[t] = "store"
  /\ IF InsertSucceeds(Key(t))
     THEN /\ stock' = [stock EXCEPT ![item] = left]
          /\ available' = [available EXCEPT ![item] = StillAvailable(left)]
          /\ byHand' = byHand \ {item}
          /\ reservation' = [reservation EXCEPT ![Key(t)] =
               [status |-> "RESERVED", qty |-> call[t].qty,
                confirmed |-> FALSE, expired |-> FALSE]]
     ELSE UNCHANGED tables
  /\ tx' = [tx EXCEPT ![t] = NoTx]
  /\ pc' = [pc EXCEPT ![t] = "unlock"]
  /\ UNCHANGED <<redisKeys, phase, call, faults>>

\* The finally clause deletes the key, whoever has set it.
UnlockKey(t) ==
  /\ pc[t] = "unlock"
  /\ \/ redisKeys' = redisKeys \ {Key(t)} /\ UNCHANGED faults
     \/ Fault /\ UNCHANGED redisKeys
  /\ Reply(t)
  /\ UNCHANGED <<tables, phase, tx>>

\* EX 10: the key goes away by itself, even under a handler still running.
ExpireKey(k) ==
  /\ k \in redisKeys
  /\ redisKeys' = redisKeys \ {k}
  /\ UNCHANGED <<tables, phase, pc, call, tx, faults>>

-----------------------------------------------------------------------------
(* POST /stock/confirm                                                     *)

CallConfirm(t, o) ==
  /\ pc[t] = "idle"
  /\ phase[o] \in {"ordering", "confirming"}
  /\ NoReserveOf(o)
  /\ phase' = [phase EXCEPT ![o] = "confirming"]
  /\ pc' = [pc EXCEPT ![t] = "count"]
  /\ call' = [call EXCEPT ![t] = [NoCall EXCEPT !.order = o]]
  /\ UNCHANGED <<tables, redisKeys, tx, faults>>

\* Mutant: nothing pending counts as confirmed before.
ConfirmedBeforeOrNever(o) == TRUE

ConfirmedBefore(o) == \E i \in Items : reservation[<<o, i>>].confirmed

\* Nothing pending: 200 if some row is confirmed already, else 409 or 404.
CountReservations(t) ==
  LET o == call[t].order IN
  /\ pc[t] = "count"
  /\ \/ /\ Pending(o) # {}
        /\ pc' = [pc EXCEPT ![t] = "confirm"]
        /\ UNCHANGED <<call, phase>>
     \/ /\ Pending(o) = {}
        /\ Reply(t)
        /\ IF ConfirmedBefore(o) THEN Acknowledge(o) ELSE UNCHANGED phase
  /\ UNCHANGED <<tables, redisKeys, tx, faults>>

\* Answers 200 however many rows the UPDATE has found.
ConfirmPending(t) ==
  LET o == call[t].order IN
  /\ pc[t] = "confirm"
  /\ RowsFree(t, Pending(o))
  /\ reservation' = [k \in Keys |-> IF k \in Pending(o)
                                    THEN [reservation[k] EXCEPT !.confirmed = TRUE]
                                    ELSE reservation[k]]
  /\ Acknowledge(o)
  /\ Reply(t)
  /\ UNCHANGED <<stock, available, byHand, redisKeys, tx, faults>>

-----------------------------------------------------------------------------
(* POST /stock/release and the reaper, which put units back the same way:  *)
(* lock the reservations, add each one's units to its item, mark them.     *)

CallRelease(t, o) ==
  /\ pc[t] = "idle"
  /\ phase[o] \in {"ordering", "confirming"}
  /\ NoReserveOf(o)
  /\ phase' = [phase EXCEPT ![o] = "abandoned"]
  /\ pc' = [pc EXCEPT ![t] = "select"]
  /\ call' = [call EXCEPT ![t] = [NoCall EXCEPT !.order = o]]
  /\ UNCHANGED <<tables, redisKeys, tx, faults>>

\* The transaction of p has locked the rows S and starts with any of them.
StartRestock(p, S) ==
  /\ \E w \in S :
       tx' = [tx EXCEPT ![p] = [NoTx EXCEPT !.rows = S, !.todo = S, !.want = w]]
  /\ pc' = [pc EXCEPT ![p] = "restock"]

\* SELECT ... FOR UPDATE; no row left to release is a success.
SelectRows(t) ==
  LET S == Pending(call[t].order) IN
  /\ pc[t] = "select"
  /\ RowsFree(t, S)
  /\ IF S = {} THEN Reply(t) /\ UNCHANGED tx
               ELSE StartRestock(t, S) /\ UNCHANGED call
  /\ UNCHANGED <<tables, redisKeys, phase, faults>>

\* Mutant: the reaper waits for a full batch.
FullBatches(E) == {S \in SUBSET E : Cardinality(S) = ReaperBatch}

Batches(E) ==
  {S \in SUBSET E \ {{}} :
     Cardinality(S) = ReaperBatch \/ (S = E /\ Cardinality(E) < ReaperBatch)}

\* SELECT ... FOR UPDATE SKIP LOCKED LIMIT: any expired rows nobody has
\* locked, as many as there are up to the limit.
ReaperSelect ==
  LET E == {k \in Keys : Unconfirmed(k) /\ reservation[k].expired
                           /\ RowsFree(Reaper, {k})} IN
  /\ pc[Reaper] = "idle"
  /\ \E S \in Batches(E) : StartRestock(Reaper, S)
  /\ UNCHANGED <<tables, redisKeys, phase, call, faults>>

\* Mutant: a second row of the same item overwrites the first one's units.
OverwritePending(n, k) == reservation[k].qty

AddPending(n, k) == n + reservation[k].qty

\* UPDATE menu_items SET stock_quantity = stock_quantity + qty, uncommitted.
Restock(p) ==
  LET k == tx[p].want
      i == k[2]
      left == tx[p].todo \ {k} IN
  /\ pc[p] = "restock"
  /\ ItemFree(p, i)
  /\ \E w \in IF left = {} THEN {None} ELSE left :
       tx' = [tx EXCEPT ![p].holds = @ \cup {i},
                        ![p].pending[i] = AddPending(@, k),
                        ![p].todo = left,
                        ![p].want = w]
  /\ pc' = [pc EXCEPT ![p] = IF left = {} THEN "finish" ELSE "restock"]
  /\ UNCHANGED <<tables, redisKeys, phase, call, faults>>

\* UPDATE stock_reservations of the rows S, and COMMIT of transaction p.
CommitRestock(p, S) ==
  /\ pc[p] = "finish"
  /\ stock' = [i \in Items |-> stock[i] + tx[p].pending[i]]
  /\ available' = [i \in Items |-> available[i] \/ i \in tx[p].holds]
  /\ byHand' = byHand \ tx[p].holds
  /\ reservation' = [k \in Keys |-> IF k \in S
                                    THEN [reservation[k] EXCEPT !.status = "RELEASED"]
                                    ELSE reservation[k]]
  /\ tx' = [tx EXCEPT ![p] = NoTx]

\* The rows are those of the order that are unconfirmed now.
FinishRelease(t) ==
  /\ t \in Threads
  /\ RowsFree(t, Pending(call[t].order))
  /\ CommitRestock(t, Pending(call[t].order))
  /\ Reply(t)
  /\ UNCHANGED <<redisKeys, phase, faults>>

\* Mutant: the reaper marks what has expired by now, not what it has locked.
MarkedByAge == {k \in Keys : Unconfirmed(k) /\ reservation[k].expired}

Marked == {k \in tx[Reaper].rows : Unconfirmed(k)}

ReaperFinish ==
  /\ CommitRestock(Reaper, Marked)
  /\ pc' = [pc EXCEPT ![Reaper] = "idle"]
  /\ UNCHANGED <<redisKeys, phase, call, faults>>

-----------------------------------------------------------------------------
(* The administrator's switch.                                             *)

\* PATCH /api/admin/menu/{id} of the gateway, and what PUT does to the flag:
\* an UPDATE that waits for the row and looks at no quantity.  The item may be
\* off the menu with units left, or on it with none, until the next reserve,
\* release or reaper transaction writes the item.
SwitchByHand(i) ==
  /\ i \in Switched
  /\ \A p \in Procs : i \notin tx[p].holds
  /\ \E shown \in BOOLEAN : available' = [available EXCEPT ![i] = shown]
  /\ byHand' = byHand \cup {i}
  /\ UNCHANGED <<stock, reservation, redisKeys, phase, pc, call, tx, faults>>

-----------------------------------------------------------------------------
(* What happens to a transaction or to the service.                        *)

Rollback(p) ==
  /\ tx' = [tx EXCEPT ![p] = NoTx]
  /\ IF p \in Threads /\ call[p].item # None
     THEN pc' = [pc EXCEPT ![p] = "unlock"] /\ UNCHANGED call
     ELSE /\ pc' = [pc EXCEPT ![p] = "idle"]
          /\ call' = [t \in Threads |-> IF t = p THEN NoCall ELSE call[t]]
  /\ UNCHANGED <<tables, redisKeys, phase>>

\* p waits for a row of menu_items that q has locked.
Blocks(q, p) ==
  pc[p] = "restock" /\ p # q /\ tx[p].want[2] \in tx[q].holds

\* p is on a cycle of waits: PostgreSQL aborts a transaction of the cycle.
Deadlocked(p) ==
  \E C \in SUBSET Procs :
    /\ p \in C
    /\ \A q \in C : (\E r \in C : Blocks(r, q)) /\ (\E r \in C : Blocks(q, r))

DeadlockVictim(p) ==
  /\ Deadlocked(p)
  /\ Rollback(p)
  /\ UNCHANGED faults

\* The connection to the database breaks: psycopg raises, nothing commits.
ConnectionLost(p) ==
  /\ pc[p] \notin {"idle", "unlock"}
  /\ Fault
  /\ Rollback(p)

\* The process dies and is started again.  Redis keys outlive it.
Restart ==
  /\ Fault
  /\ pc' = [p \in Procs |-> "idle"]
  /\ call' = [t \in Threads |-> NoCall]
  /\ tx' = [p \in Procs |-> NoTx]
  /\ UNCHANGED <<tables, redisKeys, phase>>

\* The gateway drops an order without releasing it: a reserve call failed
\* after others had succeeded, or the gateway itself went down.
GiveUp(o) ==
  /\ phase[o] \in {"ordering", "confirming"}
  /\ phase' = [phase EXCEPT ![o] = "abandoned"]
  /\ UNCHANGED <<tables, redisKeys, pc, call, tx, faults>>

\* created_at falls behind the TTL.  With a prompt gateway, only once it is
\* done with the order.
Expire(k) ==
  /\ Unconfirmed(k)
  /\ ~reservation[k].expired
  /\ Prompt => phase[k[1]] = "abandoned"
  /\ reservation' = [reservation EXCEPT ![k].expired = TRUE]
  /\ UNCHANGED <<stock, available, byHand, redisKeys, phase, pc, call, tx, faults>>

-----------------------------------------------------------------------------

Reserve(t) == ReadReservation(t) \/ LockItem(t) \/ StoreReservation(t) \/ UnlockKey(t)
Confirm(t) == CountReservations(t) \/ ConfirmPending(t)
Release(t) == SelectRows(t) \/ Restock(t) \/ FinishRelease(t)
ReaperStep == ReaperSelect \/ Restock(Reaper) \/ ReaperFinish

Next ==
  \/ \E t \in Threads :
       \/ \E q \in Requests : CallReserve(t, q)
       \/ \E o \in Orders : CallConfirm(t, o) \/ CallRelease(t, o)
       \/ Reserve(t) \/ Confirm(t) \/ Release(t)
  \/ ReaperStep
  \/ \E p \in Procs : DeadlockVictim(p) \/ ConnectionLost(p)
  \/ \E k \in Keys : ExpireKey(k) \/ Expire(k)
  \/ \E o \in Orders : GiveUp(o)
  \/ \E i \in Menu : SwitchByHand(i)
  \/ Restart

\* A thread in a handler keeps running and the reaper's loop keeps waking.
\* PostgreSQL queues the waiters of a row and hands it to them in turn, hence
\* strong fairness of Restock, and breaks a cycle of waits.  Every call of the
\* gateway has a timeout, so it gets done with an order; and time passes.
Fairness ==
  /\ \A t \in Threads : WF_vars(Reserve(t) \/ Confirm(t) \/ Release(t))
  /\ WF_vars(ReaperStep)
  /\ \A p \in Procs : SF_vars(Restock(p))
  /\ WF_vars(\E p \in Procs : DeadlockVictim(p))
  /\ \A o \in Orders : WF_vars(GiveUp(o))
  /\ \A k \in Keys : WF_vars(Expire(k))

Spec == Init /\ [][Next]_vars
FairSpec == Spec /\ Fairness

-----------------------------------------------------------------------------
(* Properties                                                              *)

Rows == [status : {"none", "RESERVED", "RELEASED"}, qty : Nat,
         confirmed : BOOLEAN, expired : BOOLEAN]
Calls == [order : Orders \cup {None}, item : Items \cup {None}, qty : Int]
Transactions == [seen : Nat, holds : SUBSET Items, rows : SUBSET Keys,
                 todo : SUBSET Keys, want : Keys \cup {None},
                 pending : [Items -> Nat]]

\* Every variable has its type; in particular no stock is ever negative.
TypeOK ==
  /\ stock \in [Items -> Nat]
  /\ available \in [Items -> BOOLEAN]
  /\ byHand \subseteq Switched
  /\ reservation \in [Keys -> Rows]
  /\ redisKeys \subseteq Keys
  /\ phase \in [Orders -> {"ordering", "confirming", "confirmed", "abandoned"}]
  /\ pc \in [Procs -> {"idle", "read", "lock", "store", "unlock", "count",
                       "confirm", "select", "restock", "finish"}]
  /\ call \in [Threads -> Calls]
  /\ tx \in [Procs -> Transactions]
  /\ faults \in 0 .. MaxFaults

Held(i) == {k \in Keys : k[2] = i /\ reservation[k].status = "RESERVED"}

\* No unit is lost or made up: what is on the shelf and what reservations
\* hold, confirmed or not, is what the item started with.  It is what the
\* row locks of reserve, release and the reaper are there for.
StockConserved ==
  \A i \in Items :
    stock[i] + MapThenSumSet(LAMBDA k : reservation[k].qty, Held(i)) = InitialStock[i]

LocksExclusive ==
  \A p, q \in Procs : p # q => /\ tx[p].holds \cap tx[q].holds = {}
                               /\ tx[p].rows \cap tx[q].rows = {}

SnapshotCurrent ==
  \A t \in Threads : pc[t] = "store" => /\ tx[t].holds = {call[t].item}
                                        /\ tx[t].seen = stock[call[t].item]
                                        /\ call[t].qty \in 1 .. tx[t].seen

\* Menu rows are locked by one transaction at a time, and so are
\* reservations; and while a reserve request is between its SELECT FOR UPDATE
\* and its UPDATE, the quantity it has read is still the committed one.
TransactionsIsolated == LocksExclusive /\ SnapshotCurrent

\* A row that release or the reaper has locked is still waiting for its
\* confirmation when they commit: its units are put back exactly once.
LockedRowsPending ==
  \A p \in Procs : \A k \in tx[p].rows : Unconfirmed(k)

\* The flag and the quantity are written by handlers of two services,
\* together or apart, and never compared.  Where the service itself was the
\* last to write the flag it is right: units on the shelf are on the menu and
\* an empty shelf is not.  Where the administrator was, it says what the
\* administrator wrote; nothing keeps it so: the next reservation or the next
\* units put back write the flag from the stock, and what was taken off the
\* menu by hand is on it again.
AvailabilityFollowsStock ==
  \A i \in Items \ byHand : available[i] <=> stock[i] > 0

\* The gateway was told 200 by confirm: every line of the order is confirmed
\* and stays so: no release and no reaper has come between the statements of
\* confirm.  It takes a prompt gateway.
ConfirmedOrderKeepsStock ==
  \A o \in Orders : phase[o] = "confirmed" =>
    /\ \E i \in Items : reservation[<<o, i>>].confirmed
    /\ \A i \in Items : reservation[<<o, i>>].status # "none" =>
         reservation[<<o, i>>].confirmed /\ reservation[<<o, i>>].status = "RESERVED"

\* The orders told "confirmed" never hold more units than there were.
NoOversell ==
  \A i \in Items :
    MapThenSumSet(LAMBDA k : reservation[k].qty,
                  {k \in Keys : k[2] = i /\ phase[k[1]] = "confirmed"})
      <= InitialStock[i]

\* What a step may do to a reservation: create it with the quantity that
\* stays its quantity, confirm it, or release it if it is not confirmed.
\* A released one is never reserved again, a confirmed one never released.
LifecycleStep(k) ==
  LET old == reservation[k]
      new == reservation'[k] IN
  \/ old.status = "none" /\ new.status \in {"none", "RESERVED"} /\ ~new.confirmed
  \/ /\ new.qty = old.qty
     /\ old.confirmed => new.confirmed /\ new.status = old.status
     /\ new.status = old.status \/ new.status = "RELEASED"
     /\ new.confirmed => old.confirmed \/ new.status = "RESERVED"

RowLifecycle == [][\A k \in Keys : LifecycleStep(k)]_reservation

\* A reservation as a promise: its confirmation and its release are what
\* ends the hold; its age is nobody's business.
Promised(k) ==
  [state |-> CASE reservation[k].status = "none" -> "none"
               [] reservation[k].status = "RELEASED" -> "back"
               [] reservation[k].confirmed -> "sold"
               [] OTHER -> "held",
   qty |-> reservation[k].qty]

Promises == INSTANCE Inventory WITH
  Stocked <- InitialStock,
  shelf <- stock,
  hold <- [k \in Keys |-> Promised(k)]

\* Every step of the service, however its statements interleave, is one
\* atomic operation of the inventory or none.
ImplementsInventory == Promises!Spec

\* A reservation nobody confirms is given back, by release or by the reaper,
\* whatever lock waits, skipped rows and deadlocks come in between.
ReservationsSettle ==
  \A k \in Keys : Unconfirmed(k) ~> ~Unconfirmed(k)

\* Every request is answered: no set of handlers and the reaper can wait for
\* each other's row locks for ever.
RequestsAnswered ==
  \A t \in Threads : pc[t] # "idle" ~> pc[t] = "idle"

=============================================================================
