----------------------------- MODULE OrderFeed ------------------------------
(***************************************************************************)
(* What the rest of the system sees of the kitchen: the orders table, in   *)
(* which a status moves forward, and the order.status queue, in which each *)
(* change may be announced once after it has been committed, or never.     *)
(* OrderPipeline shows that the gateway and the kitchen keep to this.      *)
(***************************************************************************)
EXTENDS Naturals, Sequences

CONSTANTS Orders

VARIABLES
  orders,        \* status and number of pickup windows given of each order
  unsaid,        \* committed changes that have not been announced
  statusQueue    \* order.status

feed == <<orders, unsaid, statusQueue>>

Statuses == {"QUEUED", "IN_PROGRESS", "READY", "COMPLETED", "CANCELLED"}
FeedRow == [status : Statuses \cup {"GONE"}, pickup : 0..2]
Event == [order : Orders, status : Statuses, pickup : 0..2]

FeedInit ==
  /\ orders = [o \in Orders |-> [status |-> "QUEUED", pickup |-> 0]]
  /\ unsaid = {}
  /\ statusQueue = <<>>

\* The rows a kitchen worker or an administrator may turn a row into.
After(row) ==
  CASE row.status = "QUEUED" -> {[row EXCEPT !.status = "IN_PROGRESS"]}
    [] row.status = "IN_PROGRESS" -> {[row EXCEPT !.status = "READY", !.pickup = 1]}
    [] row.status = "READY" ->
         {[row EXCEPT !.status = s] : s \in {"COMPLETED", "CANCELLED"}}
           \cup (IF row.pickup = 1 THEN {[row EXCEPT !.pickup = 2]} ELSE {})
    [] OTHER -> {}

\* Mutant: a change is announced before it is committed.
ChangeTold(o) ==
  \E row \in After(orders[o]) :
    /\ statusQueue' = Append(statusQueue, [order |-> o, status |-> row.status, pickup |-> row.pickup])
    /\ UNCHANGED <<orders, unsaid>>

Change(o) ==
  \E row \in After(orders[o]) :
    /\ orders' = [orders EXCEPT ![o] = row]
    /\ unsaid' = unsaid \cup {[order |-> o, status |-> row.status, pickup |-> row.pickup]}
    /\ UNCHANGED statusQueue

\* Without an announcement: a failed payment, and the deletion of the row.
Withdraw(o) ==
  \E s \in {"CANCELLED", "GONE"} :
    /\ orders[o].status # "GONE"
    /\ orders' = [orders EXCEPT ![o].status = s]
    /\ UNCHANGED <<unsaid, statusQueue>>

Announce(e) ==
  /\ e \in unsaid
  /\ unsaid' = unsaid \ {e}
  /\ statusQueue' = Append(statusQueue, e)
  /\ UNCHANGED orders

Forget(e) ==
  /\ e \in unsaid
  /\ unsaid' = unsaid \ {e}
  /\ UNCHANGED <<orders, statusQueue>>

FeedNext ==
  \/ \E o \in Orders : Change(o) \/ Withdraw(o)
  \/ \E e \in unsaid : Announce(e) \/ Forget(e)

FeedSpec == FeedInit /\ [][FeedNext]_feed
=============================================================================
