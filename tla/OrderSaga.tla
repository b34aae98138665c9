----------------------------- MODULE OrderSaga ------------------------------
(***************************************************************************)
(* POST /api/orders: the gateway reserves the lines of an order, stores    *)
(* it, has it paid, confirms the reservations, queues the kitchen's job    *)
(* in the outbox and stores the idempotency key, each in a transaction or  *)
(* a call of its own; an error cancels the order and releases its stock,   *)
(* or ends the request with what has been done so far.                     *)
(*                                                                         *)
(* The stock service is the Inventory it implements (see StockService),    *)
(* the payment service one debit per order (see Wallet).  A call may fail, *)
(* or time out in the gateway and still be served later, or never.         *)
(***************************************************************************)
EXTENDS Integers, Sequences, FiniteSets, FiniteSetsExt

CONSTANTS
  Attempts,      \* requests the gateway serves, each drawing an order id
  Students,
  Items,
  Keys,          \* values of the Idempotency-Key header
  None,          \* no key, no order
  Requests,      \* the orders students send
  NoRequest,
  Stocked,       \* menu_items.stock_quantity before the first order
  Price,         \* menu_items.price
  Opening,       \* students.account_balance before the first order
  Prompt         \* TRUE: a request ends before its reservations expire

Lines == [item : Items, qty : Nat \ {0}]

ASSUME SagaAssumption ==
  /\ Requests \subseteq [student : Students, key : Keys \cup {None}, lines : Seq(Lines) \ {<<>>}]
  /\ NoRequest \notin Requests
  /\ Stocked \in [Items -> Nat]
  /\ Price \in [Items -> Nat \ {0}]
  /\ Opening \in [Students -> Nat]
  /\ Prompt \in BOOLEAN
  /\ None \notin Keys \cup Attempts

VARIABLES
  shelf,         \* stock that can still be promised
  hold,          \* what each order holds of each item
  balance,       \* students.account_balance
  paid,          \* orders that have been debited
  order,         \* orders.status
  outbox,        \* orders with an order.created event in event_outbox
  stored,        \* order_idempotency
  pc,            \* where the gateway is with each request
  req,           \* the requests
  line,          \* the line a request is reserving
  calls          \* calls the services have not served yet

stock == <<shelf, hold>>
tables == <<stock, balance, paid, order, outbox, stored>>
gateway == <<pc, req, line, calls>>
vars == <<tables, gateway>>

Stock == INSTANCE Inventory WITH Orders <- Attempts

Remote == {"reserve", "pay", "confirm", "release"}
Ended == {"placed", "replayed", "failed"}
Busy == {a \in Attempts : pc[a] \notin {"idle"} \cup Ended}

Init ==
  /\ Stock!Init
  /\ balance = Opening
  /\ paid = {}
  /\ order = [a \in Attempts |-> "none"]
  /\ outbox = {}
  /\ stored = {}
  /\ pc = [a \in Attempts |-> "idle"]
  /\ req = [a \in Attempts |-> NoRequest]
  /\ line = [a \in Attempts |-> 1]
  /\ calls = {}

-----------------------------------------------------------------------------
(* Calls.  A call is sent by the step before the one that waits for it.    *)

CallFor(a, next) == {<<a, op>> : op \in {next} \cap Remote}

Goto(a, next) ==
  /\ pc' = [pc EXCEPT ![a] = next]
  /\ calls' = calls \cup CallFor(a, next)

\* confirm runs two statements: "update" is the second.
Awaits(a, op) == pc[a] = IF op = "update" THEN "confirm" ELSE op

\* A service is done with the call op of a; the gateway, if it still waits
\* for it, goes on with next.
Return(a, op, next) ==
  IF Awaits(a, op)
  THEN /\ pc' = [pc EXCEPT ![a] = next]
       /\ calls' = (calls \ {<<a, op>>}) \cup CallFor(a, next)
  ELSE /\ calls' = calls \ {<<a, op>>}
       /\ UNCHANGED pc

\* Mutant: a payment that fails is taken for one that is done.
OnErrorPayAnyway(op) ==
  CASE op = "reserve" -> "failed" [] op = "pay" -> "confirm"
    [] op = "release" -> "failed" [] OTHER -> "cancel"

\* The except clauses: reservations are released only if all were made.
OnError(op) == IF op \in {"reserve", "release"} THEN "failed" ELSE "cancel"

\* The call is refused or lost, or the service breaks off: nothing happens.
CallFails(a, op) ==
  /\ <<a, op>> \in calls
  /\ Awaits(a, op)
  /\ Return(a, op, OnError(op))
  /\ UNCHANGED <<tables, req, line>>

\* httpx gives up waiting, the service may go on with the call; or the
\* payment service has committed and fails to publish payment.completed.
CallTimesOut(a, op) ==
  /\ <<a, op>> \in calls
  /\ Awaits(a, op)
  /\ Goto(a, OnError(op))
  /\ UNCHANGED <<tables, req, line>>

-----------------------------------------------------------------------------
(* The gateway's first steps                                               *)

Recorded(s, k) == {e \in stored : e.student = s /\ e.key = k}

\* A key that is stored is answered with its order.  The check of the stock
\* cache before the first reservation may refuse the order.
Arrive(a, r) ==
  /\ pc[a] = "idle"
  /\ req' = [req EXCEPT ![a] = r]
  /\ IF r.key # None /\ Recorded(r.student, r.key) # {}
     THEN Goto(a, "replayed")
     ELSE Goto(a, "reserve") \/ Goto(a, "failed")
  /\ UNCHANGED <<tables, line>>

\* INSERT INTO orders and order_items, COMMIT.  Should the connection break,
\* the order is stored or it is not.
InsertOrder(a) ==
  /\ pc[a] = "insert"
  /\ \/ order' = [order EXCEPT ![a] = "QUEUED"] /\ Goto(a, "pay")
     \/ \E s \in {"none", "QUEUED"} :
          order' = [order EXCEPT ![a] = s] /\ Goto(a, "release")
  /\ UNCHANGED <<stock, balance, paid, outbox, stored, req, line>>

-----------------------------------------------------------------------------
(* The services                                                            *)

Line(a) == req[a].lines[line[a]]

\* Every line has its turn, also if it names an item again.
Reserved(a) ==
  /\ Return(a, "reserve", IF line[a] < Len(req[a].lines) THEN "reserve" ELSE "insert")
  /\ line' = IF Awaits(a, "reserve") /\ line[a] < Len(req[a].lines)
             THEN [line EXCEPT ![a] = @ + 1] ELSE line

\* An item that the order holds in the same quantity is already reserved.
ServeReserve(a) ==
  LET k == <<a, Line(a).item>>
      n == Line(a).qty IN
  /\ <<a, "reserve">> \in calls
  /\ \/ Stock!Promise(k, n) /\ Reserved(a)
     \/ /\ hold[k].state \in {"held", "sold"} /\ hold[k].qty = n
        /\ Reserved(a)
        /\ UNCHANGED stock
     \/ /\ IF hold[k] = Stock!Nothing THEN shelf[k[2]] < n
                                      ELSE hold[k].state = "back" \/ hold[k].qty # n
        /\ Return(a, "reserve", OnError("reserve"))
        /\ UNCHANGED <<stock, line>>
  /\ UNCHANGED <<balance, paid, order, outbox, stored, req>>

Cost(l) == Price[l.item] * l.qty
Total(a) == MapThenSumSet(LAMBDA n : Cost(req[a].lines[n]), DOMAIN req[a].lines)

\* Mutant: the balance is not compared with the total.
PayableOnCredit(a) == order[a] = "QUEUED"

Payable(a) == order[a] = "QUEUED" /\ balance[req[a].student] >= Total(a)

\* Refused if the order is cancelled or gone or the balance does not cover it.
ServePay(a) ==
  LET s == req[a].student IN
  /\ <<a, "pay">> \in calls
  /\ IF Payable(a)
     THEN /\ balance' = [balance EXCEPT ![s] = @ - Total(a)]
          /\ paid' = paid \cup {a}
          /\ Return(a, "pay", "confirm")
     ELSE /\ Return(a, "pay", OnError("pay"))
          /\ UNCHANGED <<balance, paid>>
  /\ UNCHANGED <<stock, order, outbox, stored, req, line>>

Sold(a) == {i \in Items : hold[<<a, i>>].state = "sold"}

\* SELECT COUNT: nothing left to confirm is an error, unless it is confirmed.
ServeConfirm(a) ==
  /\ <<a, "confirm">> \in calls
  /\ IF Stock!HeldBy(a) # {}
     THEN /\ calls' = (calls \ {<<a, "confirm">>}) \cup {<<a, "update">>}
          /\ UNCHANGED pc
     ELSE Return(a, "confirm", IF Sold(a) # {} THEN "outbox" ELSE OnError("confirm"))
  /\ UNCHANGED <<tables, req, line>>

\* UPDATE of whatever is still reserved.
ServeUpdate(a) ==
  /\ <<a, "update">> \in calls
  /\ Stock!Sell(a) \/ (Stock!HeldBy(a) = {} /\ UNCHANGED stock)
  /\ Return(a, "update", "outbox")
  /\ UNCHANGED <<balance, paid, order, outbox, stored, req, line>>

ServeRelease(a) ==
  /\ <<a, "release">> \in calls
  /\ Stock!PutBack(Stock!HeldBy(a)) \/ (Stock!HeldBy(a) = {} /\ UNCHANGED stock)
  /\ Return(a, "release", "failed")
  /\ UNCHANGED <<balance, paid, order, outbox, stored, req, line>>

\* Mutant: reservations live shorter than a request may take.
ExpiredEarly(a) == TRUE

\* Mutant: the reaper joins the orders table.
ExpiredOrder(a) == order[a] # "none" /\ pc[a] \in Ended

Expired(a) == Prompt => pc[a] \in Ended

\* The reaper, at some time after the TTL.
Reap ==
  /\ \E S \in SUBSET {k \in Stock!Holds : hold[k].state = "held" /\ Expired(k[1])} :
       Stock!PutBack(S)
  /\ UNCHANGED <<balance, paid, order, outbox, stored, gateway>>

-----------------------------------------------------------------------------
(* The gateway's last steps                                                *)

\* Errors of the UPDATE are swallowed.
MarkCancelled(a) ==
  /\ pc[a] = "cancel"
  /\ \/ order[a] = "QUEUED" /\ order' = [order EXCEPT ![a] = "CANCELLED"]
     \/ UNCHANGED order
  /\ Goto(a, "release")
  /\ UNCHANGED <<stock, balance, paid, outbox, stored, req, line>>

\* Not in the transaction of the order or of the payment: if it fails, or
\* fails to report, the request fails.
Enqueue(a) ==
  /\ pc[a] = "outbox"
  /\ \/ /\ outbox' = outbox \cup {a}
        /\ Goto(a, IF req[a].key = None THEN "placed" ELSE "key") \/ Goto(a, "failed")
     \/ Goto(a, "failed") /\ UNCHANGED outbox
  /\ UNCHANGED <<stock, balance, paid, order, stored, req, line>>

\* Mutant: the request is answered without waiting for the key's INSERT.
AddKeyLater(a) == stored

\* ON CONFLICT DO NOTHING
AddKey(a) ==
  stored \cup {[student |-> s, key |-> k, order |-> a] :
    s \in {req[a].student}, k \in {x \in {req[a].key} : Recorded(req[a].student, x) = {}}}

\* The foreign key refuses the key of an order deleted meanwhile.
StoreKey(a) ==
  /\ pc[a] = "key"
  /\ \/ /\ order[a] # "deleted" \/ Recorded(req[a].student, req[a].key) # {}
        /\ stored' = AddKey(a)
        /\ Goto(a, "placed") \/ Goto(a, "failed")
     \/ Goto(a, "failed") /\ UNCHANGED stored
  /\ UNCHANGED <<stock, balance, paid, order, outbox, req, line>>

-----------------------------------------------------------------------------

\* DELETE /api/orders/{id}, which takes the key's row with the order's.
Delete(a) ==
  /\ order[a] \in {"QUEUED", "CANCELLED"}
  /\ order' = [order EXCEPT ![a] = "deleted"]
  /\ stored' = {e \in stored : e.order # a}
  /\ UNCHANGED <<stock, balance, paid, outbox, gateway>>

\* The gateway dies: the clients see their requests fail, the calls that are
\* out stay out.
Crash ==
  /\ Busy # {}
  /\ pc' = [a \in Attempts |-> IF a \in Busy THEN "failed" ELSE pc[a]]
  /\ UNCHANGED <<tables, req, line, calls>>

Serve(a) == ServeReserve(a) \/ ServePay(a) \/ ServeConfirm(a) \/ ServeUpdate(a) \/ ServeRelease(a)
Fail(a) == \E op \in Remote \cup {"update"} : CallFails(a, op) \/ CallTimesOut(a, op)
Local(a) == InsertOrder(a) \/ MarkCancelled(a) \/ Enqueue(a) \/ StoreKey(a)

Next ==
  \/ \E a \in Attempts : \/ \E r \in Requests : Arrive(a, r)
                         \/ Serve(a) \/ Fail(a) \/ Local(a) \/ Delete(a)
  \/ Reap
  \/ Crash

\* Every call of the gateway has a timeout, and the reaper keeps waking up.
Fairness ==
  /\ \A a \in Attempts : WF_vars((Serve(a) \/ Fail(a) \/ Local(a)) /\ pc[a] \notin Ended)
  /\ WF_vars(Reap)

Spec == Init /\ [][Next]_vars
FairSpec == Spec /\ Fairness

-----------------------------------------------------------------------------
(* Properties                                                              *)

\* Every variable has its type; no stock and no balance is ever negative.
TypeOK ==
  /\ shelf \in [Items -> Nat]
  /\ hold \in [Stock!Holds -> [state : {"none", "held", "sold", "back"}, qty : Nat]]
  /\ balance \in [Students -> Nat]
  /\ paid \subseteq Attempts
  /\ order \in [Attempts -> {"none", "QUEUED", "CANCELLED", "deleted"}]
  /\ outbox \subseteq Attempts
  /\ stored \subseteq [student : Students, key : Keys, order : Attempts]
  /\ pc \in [Attempts -> Remote \cup Ended \cup {"idle", "insert", "cancel", "outbox", "key"}]
  /\ req \in [Attempts -> Requests \cup {NoRequest}]
  /\ line \in [Attempts -> Nat]
  /\ calls \subseteq Attempts \X (Remote \cup {"update"})

LinesOf(a, i) == {n \in DOMAIN req[a].lines : req[a].lines[n].item = i}

\* Of item i, order a is sold the units that one of its lines asks for: all
\* it pays for if one line names i.  If several do, Total charges each, but
\* every reserve after the first is answered already_reserved: the units of
\* one line are sold, and of two lines half of what is paid.
SoldOneLine(a, i) ==
  \A n \in LinesOf(a, i) :
    hold[<<a, i>>] = [state |-> "sold", qty |-> req[a].lines[n].qty]

\* What the kitchen is asked to cook has been paid and not been cancelled, and
\* of each item it names, the quantity of its line is sold to it for good (of
\* one line, where several name the item), whatever calls were late and
\* whenever the reaper has come by.
JobsAreFunded ==
  \A a \in outbox :
    /\ a \in paid
    /\ order[a] # "CANCELLED"
    /\ \A i \in Items : SoldOneLine(a, i)

\* Stock is sold only to orders that have been debited: confirm is not
\* called before the payment's 200.
SoldIsPaid == \A a \in Attempts : Sold(a) # {} => a \in paid

SameKey(a, b) ==
  /\ pc[a] # "idle" /\ pc[b] # "idle"
  /\ req[a].student = req[b].student
  /\ req[a].key = req[b].key /\ req[a].key # None

\* Once an order has been answered as placed, the same request with its key
\* is answered with an order and changes nothing, unless one of that key is
\* deleted.
RepeatIsReplayed ==
  [][\A a, b \in Attempts :
       (/\ pc[a] = "placed" /\ pc[b] = "idle" /\ pc'[b] # "idle"
        /\ SameKey(a, b)'
        /\ \A c \in Attempts : SameKey(a, c) => order[c] # "deleted")
       => pc'[b] = "replayed"]_gateway

\* No stock stays with a request that has come to nothing: what is held is
\* sold or put back in the end, also if the gateway has died or a reserve
\* call was served after it had given up.
HoldsSettle ==
  \A k \in Stock!Holds : hold[k].state = "held" ~> hold[k].state # "held"

\* One key buys once, however often the request is sent.
OneOrderPerKey ==
  \A a, b \in paid : SameKey(a, b) => a = b

\* A cancelled order has cost nothing and keeps no stock.
CancelledIsUndone ==
  \A a \in Attempts :
    pc[a] = "failed" /\ order[a] = "CANCELLED" => a \notin paid /\ Sold(a) = {}

\* What is paid and has its stock is sent to the kitchen, unless the student
\* deletes it.
PaidReachesKitchen ==
  \A a \in Attempts : a \in paid /\ Sold(a) # {} ~> a \in outbox \/ order[a] = "deleted"
=============================================================================
