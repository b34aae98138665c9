--------------------------- MODULE OrderPipeline ----------------------------
(***************************************************************************)
(* What happens to an order once it is stored: the gateway's outbox worker *)
(* publishes its job, the kitchen's workers move it to READY, an           *)
(* administrator moves it by hand in peak mode, and each move is announced *)
(* in the order.status queue after it has been committed.                  *)
(*                                                                         *)
(* RabbitMQ delivers a job until it is acknowledged.  A fault is a broken  *)
(* channel, a rolled back outbox batch, a publish that fails, or a job     *)
(* taken in chaos mode; there are at most MaxFaults of them.               *)
(***************************************************************************)
EXTENDS Naturals, Sequences

CONSTANTS
  Orders,
  Workers,       \* consumer threads of the kitchen service
  NoOrder,
  MaxFaults

ASSUME PipelineAssumption ==
  /\ NoOrder \notin Orders
  /\ MaxFaults \in Nat

VARIABLES
  orders,        \* the orders table
  outbox,        \* event_outbox: "none", "unpublished", "published"; or "never"
  relay,         \* jobs the outbox worker has published and not committed
  jobs,          \* kitchen.jobs: how many deliveries of each order wait
  worker,        \* what each kitchen thread does
  manual,        \* the gateway thread that serves the kitchen board
  statusQueue,   \* order.status
  faults,
  dropped,       \* auxiliary: orders whose job was taken in chaos mode
  announced      \* auxiliary: events ever published

queues == <<outbox, relay, jobs>>
history == <<dropped, announced>>
vars == <<orders, queues, worker, manual, statusQueue, faults, history>>

Statuses == {"QUEUED", "IN_PROGRESS", "READY", "COMPLETED", "CANCELLED"}

\* pickup counts the pickup windows the order has been given (ready_until and
\* pickup_extend_count), passed those that are over.
Row == [status : Statuses \cup {"GONE"}, pickup : 0..2, passed : 0..2]
Event == [order : Orders, status : Statuses, pickup : 0..2]

Stopped == [pc |-> "idle", order |-> NoOrder, lost |-> FALSE]
NoRequest == [pc |-> "idle", order |-> NoOrder, action |-> "none", pickup |-> 0]

Init ==
  /\ orders = [o \in Orders |-> [status |-> "QUEUED", pickup |-> 0, passed |-> 0]]
  /\ outbox = [o \in Orders |-> "none"]
  /\ relay = {}
  /\ jobs = [o \in Orders |-> 0]
  /\ worker = [w \in Workers |-> Stopped]
  /\ manual = NoRequest
  /\ statusQueue = <<>>
  /\ faults = 0
  /\ dropped = {}
  /\ announced = {}

Fault ==
  /\ faults < MaxFaults
  /\ faults' = faults + 1

-----------------------------------------------------------------------------
(* The order row and its announcement.                                     *)

Paid(o) == outbox[o] \in {"unpublished", "published"}

\* Mutant: the UPDATE has no condition on the status.
MatchesAny(o, from) == orders[o].status # "GONE"

\* _set_order_status: UPDATE ... WHERE id = o AND status = from.
Matches(o, from) == orders[o].status = from

SetStatus(o, from, to) ==
  orders' = IF Matches(o, from)
            THEN [orders EXCEPT ![o].status = to,
                                ![o].pickup = IF to = "READY" THEN 1 ELSE @]
            ELSE orders

Publish(e) ==
  /\ statusQueue' = Append(statusQueue, e)
  /\ announced' = announced \cup {e}

-----------------------------------------------------------------------------
(* The gateway: payment, outbox, deletion.                                 *)

Enqueue(o) ==
  /\ outbox[o] = "none"
  /\ outbox' = [outbox EXCEPT ![o] = "unpublished"]
  /\ UNCHANGED <<orders, relay, jobs, worker, manual, statusQueue, faults, history>>

\* _mark_order_cancelled looks at no status.
PaymentFails(o) ==
  /\ outbox[o] = "none"
  /\ outbox' = [outbox EXCEPT ![o] = "never"]
  /\ orders' = [orders EXCEPT ![o].status = IF @ = "GONE" THEN @ ELSE "CANCELLED"]
  /\ UNCHANGED <<relay, jobs, worker, manual, statusQueue, faults, history>>

DeleteOrder(o) ==
  /\ orders[o].status # "GONE"
  /\ orders' = [orders EXCEPT ![o].status = "GONE"]
  /\ UNCHANGED <<queues, worker, manual, statusQueue, faults, history>>

RelayJob(o) ==
  /\ outbox[o] = "unpublished" /\ o \notin relay
  /\ jobs' = [jobs EXCEPT ![o] = @ + 1]
  /\ relay' = relay \cup {o}
  /\ UNCHANGED <<orders, outbox, worker, manual, statusQueue, faults, history>>

CommitRelay ==
  /\ relay # {}
  /\ outbox' = [o \in Orders |-> IF o \in relay THEN "published" ELSE outbox[o]]
  /\ relay' = {}
  /\ UNCHANGED <<orders, jobs, worker, manual, statusQueue, faults, history>>

\* The batch is rolled back after a publish: its rows are published again.
RollbackRelay ==
  /\ relay # {} /\ Fault
  /\ relay' = {}
  /\ UNCHANGED <<orders, outbox, jobs, worker, manual, statusQueue, history>>

PickupPasses(o) ==
  /\ orders[o].status = "READY"
  /\ orders[o].passed < orders[o].pickup
  /\ orders' = [orders EXCEPT ![o].passed = @ + 1]
  /\ UNCHANGED <<queues, worker, manual, statusQueue, faults, history>>
-----------------------------------------------------------------------------
(* A kitchen worker.                                                       *)

Goto(w, pc) == worker' = [worker EXCEPT ![w].pc = pc]

Deliver(w, o) ==
  /\ worker[w].pc = "idle" /\ jobs[o] > 0
  /\ jobs' = [jobs EXCEPT ![o] = @ - 1]
  /\ worker' = [worker EXCEPT ![w] = [pc |-> "begin", order |-> o, lost |-> FALSE]]
  /\ UNCHANGED <<orders, outbox, relay, manual, statusQueue, faults, history>>

\* Mutant: the worker announces a status it has not set.
TellAnyway(w, from, tell, skip) == tell

\* Where the worker goes after its UPDATE: it announces what it has changed.
AfterUpdate(w, from, tell, skip) == IF Matches(worker[w].order, from) THEN tell ELSE skip

Start(w) ==
  /\ worker[w].pc = "begin"
  /\ SetStatus(worker[w].order, "QUEUED", "IN_PROGRESS")
  /\ Goto(w, AfterUpdate(w, "QUEUED", "tellStarted", "cook"))
  /\ UNCHANGED <<queues, manual, statusQueue, faults, history>>

Finish(w) ==
  /\ worker[w].pc = "cook"
  /\ SetStatus(worker[w].order, "IN_PROGRESS", "READY")
  /\ Goto(w, AfterUpdate(w, "IN_PROGRESS", "tellReady", "ack"))
  /\ UNCHANGED <<queues, manual, statusQueue, faults, history>>

Tells(pc) == IF pc = "tellStarted" THEN "IN_PROGRESS" ELSE "READY"
Told(w, o) == [order |-> o, status |-> Tells(worker[w].pc),
               pickup |-> IF worker[w].pc = "tellReady" THEN 1 ELSE 0]

Telling(w) == worker[w].pc \in {"tellStarted", "tellReady"}

PublishStatus(w) ==
  /\ Telling(w)
  /\ Publish(Told(w, worker[w].order))
  /\ Goto(w, IF worker[w].pc = "tellStarted" THEN "cook" ELSE "ack")
  /\ UNCHANGED <<orders, queues, manual, faults, dropped>>

\* Mutant: the job is rejected without requeue.
DropJob(w) == UNCHANGED jobs

\* The broker has the job again unless it had it already.
Return(w) ==
  jobs' = [jobs EXCEPT ![worker[w].order] = IF worker[w].lost THEN @ ELSE @ + 1]

PublishStatusFails(w) ==
  /\ Telling(w) /\ Fault
  /\ Return(w)
  /\ worker' = [worker EXCEPT ![w] = Stopped]
  /\ UNCHANGED <<orders, outbox, relay, manual, statusQueue, history>>

\* In chaos mode a job is acknowledged and not processed.
Chaos(w) ==
  /\ worker[w].pc = "begin" /\ Fault
  /\ dropped' = dropped \cup {worker[w].order}
  /\ Goto(w, "ack")
  /\ UNCHANGED <<orders, queues, manual, statusQueue, announced>>

Ack(w) ==
  /\ worker[w].pc = "ack"
  /\ worker' = [worker EXCEPT ![w] = Stopped]
  /\ UNCHANGED <<orders, queues, manual, statusQueue, faults, history>>

\* The channel breaks under a worker that goes on with its job.
LoseChannel(w) ==
  /\ worker[w].pc # "idle" /\ ~worker[w].lost /\ Fault
  /\ Return(w)
  /\ worker' = [worker EXCEPT ![w].lost = TRUE]
  /\ UNCHANGED <<orders, outbox, relay, manual, statusQueue, history>>

StopWorker(w) ==
  /\ worker[w].pc # "idle" /\ Fault
  /\ Return(w)
  /\ worker' = [worker EXCEPT ![w] = Stopped]
  /\ UNCHANGED <<orders, outbox, relay, manual, statusQueue, history>>
-----------------------------------------------------------------------------
(* admin_kitchen_set_status: the mode is read, the row updated, the change *)
(* announced, each on its own.  Peak mode may be on or off at any time.    *)

Actions == {"start", "ready", "complete", "extend", "cancel"}

\* Mutant: an order that is being prepared can be cancelled.
ExpectsLess(action) == CASE action = "start" -> "QUEUED"
                         [] action \in {"ready", "cancel"} -> "IN_PROGRESS"
                         [] OTHER -> "READY"

Expects(action) == CASE action = "start" -> "QUEUED"
                     [] action = "ready" -> "IN_PROGRESS"
                     [] OTHER -> "READY"
Target(action) == CASE action = "start" -> "IN_PROGRESS"
                    [] action \in {"ready", "extend"} -> "READY"
                    [] action = "complete" -> "COMPLETED"
                    [] action = "cancel" -> "CANCELLED"

\* Mutant: an expired pickup is extended as often as one likes.
AllowedAgain(o, action) ==
  /\ Matches(o, Expects(action))
  /\ action = "extend" => orders[o].passed = orders[o].pickup

Allowed(o, action) ==
  /\ Matches(o, Expects(action))
  /\ action = "extend" => orders[o].pickup = 1 /\ orders[o].passed = 1

FindPeakMode(o, action) ==
  /\ manual.pc = "idle"
  /\ manual' = [pc |-> "update", order |-> o, action |-> action, pickup |-> 0]
  /\ UNCHANGED <<orders, queues, worker, statusQueue, faults, history>>

UpdateByHand ==
  /\ manual.pc = "update"
  /\ IF Allowed(manual.order, manual.action)
     THEN /\ orders' = [orders EXCEPT
               ![manual.order].status = Target(manual.action),
               ![manual.order].pickup = IF Target(manual.action) = "READY" THEN @ + 1 ELSE @]
          /\ manual' = [manual EXCEPT !.pc = "tell", !.pickup = orders'[manual.order].pickup]
     ELSE /\ manual' = NoRequest
          /\ UNCHANGED orders
  /\ UNCHANGED <<queues, worker, statusQueue, faults, history>>

ToldByHand ==
  [order |-> manual.order, status |-> Target(manual.action), pickup |-> manual.pickup]

TellByHand ==
  /\ manual.pc = "tell"
  /\ Publish(ToldByHand)
  /\ manual' = NoRequest
  /\ UNCHANGED <<orders, queues, worker, faults, dropped>>

\* _publish_queue fails: the change stands, the administrator is told 500.
TellByHandFails ==
  /\ manual.pc = "tell" /\ Fault
  /\ manual' = NoRequest
  /\ UNCHANGED <<orders, queues, worker, statusQueue, history>>

-----------------------------------------------------------------------------
KitchenStep(w) ==
  \/ \E o \in Orders : Deliver(w, o)
  \/ Start(w) \/ PublishStatus(w) \/ Finish(w) \/ Ack(w)

WorkerFault(w) == PublishStatusFails(w) \/ Chaos(w) \/ LoseChannel(w) \/ StopWorker(w)

GatewayStep == CommitRelay \/ UpdateByHand \/ TellByHand

Next ==
  \/ \E o \in Orders : \/ Enqueue(o) \/ PaymentFails(o) \/ DeleteOrder(o)
                       \/ RelayJob(o) \/ PickupPasses(o)
                       \/ \E a \in Actions : FindPeakMode(o, a)
  \/ \E w \in Workers : KitchenStep(w) \/ WorkerFault(w)
  \/ GatewayStep \/ RollbackRelay \/ TellByHandFails

\* The threads keep running, the broker delivers what is queued.
Fairness ==
  /\ \A o \in Orders : WF_vars(RelayJob(o))
  /\ \A w \in Workers : WF_vars(KitchenStep(w))
  /\ WF_vars(CommitRelay) /\ WF_vars(UpdateByHand) /\ WF_vars(TellByHand)

Spec == Init /\ [][Next]_vars
FairSpec == Spec /\ Fairness
-----------------------------------------------------------------------------
(* Properties.                                                             *)

TypeOK ==
  /\ orders \in [Orders -> Row]
  /\ outbox \in [Orders -> {"none", "unpublished", "published", "never"}]
  /\ relay \subseteq Orders
  /\ jobs \in [Orders -> Nat]
  /\ worker \in [Workers -> [pc : {"idle", "begin", "tellStarted", "cook", "tellReady", "ack"},
                             order : Orders \cup {NoOrder}, lost : BOOLEAN]]
  /\ manual \in [pc : {"idle", "update", "tell"}, order : Orders \cup {NoOrder},
                 action : Actions \cup {"none"}, pickup : 0..2]
  /\ statusQueue \in Seq(Event)
  /\ faults \in 0..MaxFaults
  /\ dropped \subseteq Orders
  /\ announced \subseteq Event

\* Jobs delivered twice, a thread that goes on after its channel broke, and an
\* administrator can all move the same order: a paid order still only goes
\* QUEUED, IN_PROGRESS, READY, and then COMPLETED or CANCELLED.
Forward ==
  {<<"QUEUED", "IN_PROGRESS">>, <<"IN_PROGRESS", "READY">>,
   <<"READY", "COMPLETED">>, <<"READY", "CANCELLED">>}

PaidMovesForward ==
  [][\A o \in Orders :
       \/ orders'[o].status \in {orders[o].status, "GONE"}
       \/ ~Paid(o) /\ orders'[o].status = "CANCELLED"
       \/ <<orders[o].status, orders'[o].status>> \in Forward]_orders

\* Whoever makes a change announces it, and nobody else does: no event is
\* published a second time, although jobs are.
AnnouncedOnce ==
  [][Len(statusQueue') > Len(statusQueue) => statusQueue'[Len(statusQueue')] \notin announced]_statusQueue

\* The gateway and the kitchen, with all that can break between them, keep to
\* the abstract feed: see OrderFeed.
Feed == INSTANCE OrderFeed WITH
  orders <- [o \in Orders |-> [status |-> orders[o].status, pickup |-> orders[o].pickup]],
  unsaid <- {Told(w, worker[w].order) : w \in {v \in Workers : Telling(v)}}
              \cup (IF manual.pc = "tell" THEN {ToldByHand} ELSE {})

ImplementsFeed == Feed!FeedSpec

\* A paid order is cooked, whatever breaks on the way, unless its job was taken
\* while the kitchen was in chaos mode: kitchen-queue acknowledges such a job.
PaidIsCooked ==
  \A o \in Orders :
    Paid(o) ~> (orders[o].status \notin {"QUEUED", "IN_PROGRESS"} \/ o \in dropped)
=============================================================================
