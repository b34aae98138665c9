------------------------ MODULE OrderPipelineProofs ------------------------
(***************************************************************************)
(* The pipeline keeps to the abstract feed, for any number of orders,      *)
(* kitchen threads and faults.  Each step is given the effect it has on    *)
(* what OrderFeed knows: the rows, the changes not announced, the queue.   *)
(* That an event is announced once rests on a level that each change of a  *)
(* row raises: whoever makes a change has an event nobody else has.        *)
(***************************************************************************)
EXTENDS OrderPipeline, TLAPS

\* What OrderFeed knows of the pipeline.
Rows == [o \in Orders |-> [status |-> orders[o].status, pickup |-> orders[o].pickup]]

WorkerEvent(w) == Told(w, worker[w].order)

Pending ==
  {WorkerEvent(w) : w \in {v \in Workers : Telling(v)}}
    \cup (IF manual.pc = "tell" THEN {ToldByHand} ELSE {})

\* How far an order is.
Level(status, pickup) ==
  CASE status = "QUEUED" -> 0
    [] status = "IN_PROGRESS" -> 1
    [] status = "READY" -> 1 + pickup
    [] OTHER -> 4

\* A row has a pickup window once it is ready; a thread that is busy has an
\* order, and the administrator's request an order and an action.
Shape ==
  /\ \A o \in Orders :
       /\ orders[o].status \in {"QUEUED", "IN_PROGRESS"} => orders[o].pickup = 0
       /\ orders[o].status = "READY" => orders[o].pickup > 0
  /\ \A w \in Workers : worker[w].pc # "idle" => worker[w].order \in Orders
  /\ manual.pc # "idle" => manual.order \in Orders /\ manual.action \in Actions

\* What is announced or about to be has happened.
Behind ==
  \A e \in Pending \cup announced :
    Level(e.status, e.pickup) <= Level(orders[e.order].status, orders[e.order].pickup)

Fresh == Pending \cap announced = {}

\* No two of the threads are about to announce the same.
Alone ==
  /\ \A v, w \in Workers :
       v # w /\ Telling(v) /\ Telling(w) => WorkerEvent(v) # WorkerEvent(w)
  /\ manual.pc = "tell" => \A w \in Workers : Telling(w) => WorkerEvent(w) # ToldByHand

IInv == TypeOK /\ Shape /\ Behind /\ Fresh /\ Alone
-----------------------------------------------------------------------------
(* The effects a step may have on what the feed knows.                     *)

Same == UNCHANGED <<statusQueue, announced>>

Silent == Rows' = Rows /\ Pending' = Pending /\ Same

ChangeEvent(o, r) == [order |-> o, status |-> r.status, pickup |-> r.pickup]

Changes(o, r) ==
  Rows' = [Rows EXCEPT ![o] = r] /\ Pending' = Pending \cup {ChangeEvent(o, r)} /\ Same

Withdraws(o, s) ==
  Rows[o].status # "GONE" /\ Rows' = [Rows EXCEPT ![o].status = s] /\ Pending' = Pending /\ Same

Announces(e) ==
  /\ Rows' = Rows /\ Pending' = Pending \ {e}
  /\ statusQueue' = Append(statusQueue, e) /\ announced' = announced \cup {e}

Forgets(e) == Rows' = Rows /\ Pending' = Pending \ {e} /\ Same

Effect ==
  \/ Silent
  \/ \E o \in Orders : \E r \in Feed!After(Rows[o]) : Changes(o, r)
  \/ \E o \in Orders : \E s \in {"CANCELLED", "GONE"} : Withdraws(o, s)
  \/ \E e \in Pending : Announces(e) \/ Forgets(e)

\* Each of them is a step of the feed.
LEMMA EffectIsFeedStep == Effect => [Feed!FeedNext]_(Feed!feed)
<1> SUFFICES ASSUME Effect PROVE [Feed!FeedNext]_(Feed!feed)
  OBVIOUS
<1>1. CASE Silent
  BY <1>1 DEF Silent, Same, Rows, Pending, WorkerEvent, Feed!feed
<1>2. ASSUME NEW o \in Orders, NEW r \in Feed!After(Rows[o]), Changes(o, r) PROVE Feed!Change(o)
  BY <1>2 DEF Changes, Same, ChangeEvent, Rows, Pending, WorkerEvent, Feed!Change
<1>3. ASSUME NEW o \in Orders, NEW s \in {"CANCELLED", "GONE"}, Withdraws(o, s) PROVE Feed!Withdraw(o)
  BY <1>3 DEF Withdraws, Same, Rows, Pending, WorkerEvent, Feed!Withdraw
<1>4. ASSUME NEW e \in Pending, Announces(e) PROVE Feed!Announce(e)
  BY <1>4 DEF Announces, Rows, Pending, WorkerEvent, Feed!Announce
<1>5. ASSUME NEW e \in Pending, Forgets(e) PROVE Feed!Forget(e)
  BY <1>5 DEF Forgets, Same, Rows, Pending, WorkerEvent, Feed!Forget
<1> QED
  BY <1>1, <1>2, <1>3, <1>4, <1>5 DEF Effect, Feed!FeedNext, Pending, WorkerEvent

LEMMA RowsAre ==
  ASSUME TypeOK
  PROVE  /\ DOMAIN Rows = Orders
         /\ \A o \in Orders :
              /\ Rows[o].status = orders[o].status /\ Rows[o].pickup = orders[o].pickup
              /\ Rows[o] = [status |-> Rows[o].status, pickup |-> Rows[o].pickup]
              /\ orders[o].status \in Statuses \cup {"GONE"} /\ orders[o].pickup \in 0..2
BY DEF TypeOK, Rows, Row

LEMMA LevelType ==
  ASSUME NEW s \in Statuses \cup {"GONE"}, NEW p \in 0..2
  PROVE  Level(s, p) \in 0..4
BY DEF Level, Statuses

\* The kitchen and the administrator raise the level of the row they change.
LEMMA AfterIsHigher ==
  ASSUME TypeOK, Shape, NEW o \in Orders, NEW r \in Feed!After(Rows[o])
  PROVE  /\ r.status \in Statuses /\ r.pickup \in 0..2
         /\ Level(orders[o].status, orders[o].pickup) < Level(r.status, r.pickup)
<1>1. /\ Rows[o] = [status |-> orders[o].status, pickup |-> orders[o].pickup]
      /\ orders[o].status \in Statuses \cup {"GONE"} /\ orders[o].pickup \in 0..2
  BY RowsAre
<1>2. CASE orders[o].status = "QUEUED"
  <2>1. r = [status |-> "IN_PROGRESS", pickup |-> 0]
    BY <1>1, <1>2 DEF Feed!After, Shape
  <2> QED
    BY <1>2, <2>1 DEF Level, Statuses
<1>3. CASE orders[o].status = "IN_PROGRESS"
  <2>1. r = [Rows[o] EXCEPT !.status = "READY", !.pickup = 1]
    BY <1>1, <1>3 DEF Feed!After
  <2>2. r = [status |-> "READY", pickup |-> 1]
    BY <1>1, <2>1
  <2> QED
    BY <1>3, <2>2 DEF Level, Statuses
<1>4. CASE orders[o].status = "READY"
  <2>1. \/ \E s \in {"COMPLETED", "CANCELLED"} : r = [status |-> s, pickup |-> orders[o].pickup]
        \/ orders[o].pickup = 1 /\ r = [status |-> "READY", pickup |-> 2]
    BY <1>1, <1>4 DEF Feed!After
  <2> QED
    BY <1>1, <1>4, <2>1 DEF Level, Statuses
<1>5. CASE orders[o].status \notin {"QUEUED", "IN_PROGRESS", "READY"}
  BY <1>1, <1>5 DEF Feed!After
<1> QED
  BY <1>2, <1>3, <1>4, <1>5

\* So the event of a change is nobody's yet.
LEMMA ChangeIsNew ==
  ASSUME IInv, NEW o \in Orders, NEW r \in Feed!After(Rows[o])
  PROVE  ChangeEvent(o, r) \notin Pending \cup announced
<1> DEFINE e == ChangeEvent(o, r)
<1>1. e.order = o /\ e.status = r.status /\ e.pickup = r.pickup
  BY DEF ChangeEvent
<1>2. Level(orders[o].status, orders[o].pickup) \in 0..4 /\ Level(r.status, r.pickup) \in 0..4
  BY LevelType, RowsAre, AfterIsHigher DEF IInv
<1>3. Level(orders[o].status, orders[o].pickup) < Level(r.status, r.pickup)
  BY AfterIsHigher DEF IInv
<1> HIDE DEF e
<1>4. e \notin Pending \cup announced
  BY <1>1, <1>2, <1>3 DEF IInv, Behind
<1> QED
  BY <1>4 DEF e

\* No effect takes a row to a lower level, and none but Changes adds an event.
LEMMA EffectKeeps ==
  ASSUME IInv, TypeOK', Effect
  PROVE  Behind' /\ Fresh'
<1> DEFINE Higher(o) ==
      Level(orders[o].status, orders[o].pickup) <= Level(orders'[o].status, orders'[o].pickup)
<1>1. /\ \A o \in Orders : Rows'[o].status = orders'[o].status /\ Rows'[o].pickup = orders'[o].pickup
      /\ \A o \in Orders : Rows[o].status = orders[o].status /\ Rows[o].pickup = orders[o].pickup
      /\ DOMAIN Rows = Orders
  BY RowsAre DEF IInv, Rows
<1>2. \A o \in Orders : /\ orders[o].status \in Statuses \cup {"GONE"} /\ orders[o].pickup \in 0..2
                        /\ orders'[o].status \in Statuses \cup {"GONE"} /\ orders'[o].pickup \in 0..2
  BY DEF IInv, TypeOK, Row
<1>3. \A o \in Orders : /\ Level(orders[o].status, orders[o].pickup) \in 0..4
                        /\ Level(orders'[o].status, orders'[o].pickup) \in 0..4
  BY <1>2, LevelType
<1>4. \A e \in Pending \cup announced :
        e.order \in Orders /\ e.status \in Statuses /\ e.pickup \in 0..2 /\ Level(e.status, e.pickup) \in 0..4
  <2>1. \A w \in Workers : Telling(w) => WorkerEvent(w) \in Event
    BY DEF IInv, Shape, Telling, WorkerEvent, Told, Tells, Event, Statuses
  <2>2. manual.pc = "tell" => ToldByHand \in Event
    BY DEF IInv, TypeOK, Shape, ToldByHand, Target, Actions, Event, Statuses
  <2>3. \A e \in Pending \cup announced : e \in Event
    BY <2>1, <2>2 DEF IInv, TypeOK, Pending
  <2> QED
    BY <2>3, LevelType DEF Event
<1>5. ASSUME \A o \in Orders : Higher(o), Pending' \cup announced' \subseteq Pending \cup announced
      PROVE  Behind'
  BY <1>3, <1>4, <1>5 DEF IInv, Behind
<1>6. CASE Silent
  <2>1. \A o \in Orders : orders'[o].status = orders[o].status /\ orders'[o].pickup = orders[o].pickup
    BY <1>1, <1>6 DEF Silent
  <2>2. \A o \in Orders : Higher(o)
    BY <1>3, <2>1
  <2> QED
    BY <1>5, <1>6, <2>2 DEF Silent, Same, IInv, Fresh
<1>7. ASSUME NEW o \in Orders, NEW r \in Feed!After(Rows[o]), Changes(o, r)
      PROVE  Behind' /\ Fresh'
  <2> DEFINE e == ChangeEvent(o, r)
  <2>1. /\ \A p \in Orders \ {o} : orders'[p].status = orders[p].status /\ orders'[p].pickup = orders[p].pickup
        /\ orders'[o].status = r.status /\ orders'[o].pickup = r.pickup
    BY <1>1, <1>7 DEF Changes
  <2>2. \A p \in Orders : Higher(p)
    BY <1>3, <2>1, AfterIsHigher DEF IInv
  <2>3. e \notin Pending \cup announced
    BY ChangeIsNew
  <2>4. e.order = o /\ e.status = r.status /\ e.pickup = r.pickup
    BY DEF ChangeEvent
  <2>5. Pending' = Pending \cup {e} /\ announced' = announced
    BY <1>7 DEF Changes, Same
  <2> HIDE DEF e
  <2>6. Behind'
    BY <1>3, <1>4, <2>1, <2>2, <2>4, <2>5 DEF IInv, Behind
  <2>7. Fresh'
    BY <2>3, <2>5 DEF IInv, Fresh
  <2> QED
    BY <2>6, <2>7
<1>8. ASSUME NEW o \in Orders, NEW s \in {"CANCELLED", "GONE"}, Withdraws(o, s)
      PROVE  Behind' /\ Fresh'
  <2>1. /\ \A p \in Orders \ {o} : orders'[p].status = orders[p].status /\ orders'[p].pickup = orders[p].pickup
        /\ orders'[o].status = s
    <3>1. Rows[o] = [status |-> Rows[o].status, pickup |-> Rows[o].pickup]
      BY RowsAre DEF IInv
    <3>2. Rows'[o].status = s
      BY <1>1, <1>8, <3>1 DEF Withdraws
    <3> QED
      BY <1>1, <1>8, <3>2 DEF Withdraws
  <2>2. Level(orders'[o].status, orders'[o].pickup) = 4
    BY <2>1 DEF Level
  <2>3. \A p \in Orders : Higher(p)
    BY <1>3, <2>1, <2>2
  <2> QED
    BY <1>5, <1>8, <2>3 DEF Withdraws, Same, IInv, Fresh
<1>9. ASSUME NEW e \in Pending, Announces(e) \/ Forgets(e)
      PROVE  Behind' /\ Fresh'
  <2>1. /\ Rows' = Rows /\ Pending' = Pending \ {e}
        /\ announced' \subseteq announced \cup {e}
    BY <1>9 DEF Announces, Forgets, Same
  <2>2. \A o \in Orders : orders'[o].status = orders[o].status /\ orders'[o].pickup = orders[o].pickup
    BY <1>1, <2>1
  <2>3. \A o \in Orders : Higher(o)
    BY <1>3, <2>2
  <2>4. Behind'
    BY <1>5, <2>1, <2>3
  <2>5. Fresh'
    BY <2>1 DEF IInv, Fresh
  <2> QED
    BY <2>4, <2>5
<1> QED
  BY <1>6, <1>7, <1>8, <1>9 DEF Effect
-----------------------------------------------------------------------------
(* Who is about to announce what.                                          *)

LEMMA PendingIs ==
  \A e : e \in Pending <=> \/ \E w \in Workers : Telling(w) /\ e = WorkerEvent(w)
                           \/ manual.pc = "tell" /\ e = ToldByHand
BY DEF Pending

LEMMA PendingIsPrimed ==
  \A e : e \in Pending' <=> \/ \E w \in Workers : Telling(w)' /\ e = WorkerEvent(w)'
                            \/ (manual.pc = "tell")' /\ e = ToldByHand'
BY DEF Pending

\* Nobody begins or ends to announce.
LEMMA TellersStay ==
  ASSUME Alone, manual.pc = "tell" => ToldByHand' = ToldByHand,
         manual'.pc = "tell" <=> manual.pc = "tell",
         \A w \in Workers : /\ Telling(w)' <=> Telling(w)
                            /\ Telling(w) => WorkerEvent(w)' = WorkerEvent(w)
  PROVE  Alone' /\ Pending' = Pending
<1>1. Alone'
  BY DEF Alone
<1>2. \A e : e \in Pending' <=> e \in Pending
  BY PendingIs, PendingIsPrimed
<1> QED
  BY <1>1, <1>2

\* One thread has announced its change, or gives up.
LEMMA TellerStops ==
  ASSUME Alone, NEW w \in Workers, Telling(w), ~Telling(w)',
         UNCHANGED manual, \A v \in Workers \ {w} : worker'[v] = worker[v]
  PROVE  Alone' /\ WorkerEvent(w) \in Pending /\ Pending' = Pending \ {WorkerEvent(w)}
<1>1. /\ \A v \in Workers \ {w} : (Telling(v)' <=> Telling(v)) /\ WorkerEvent(v)' = WorkerEvent(v)
      /\ ToldByHand' = ToldByHand
  BY DEF Telling, WorkerEvent, Told, Tells, ToldByHand
<1>2. Alone'
  BY <1>1 DEF Alone
<1>3. \A e : e \in Pending' <=> e \in Pending /\ e # WorkerEvent(w)
  BY <1>1, PendingIs, PendingIsPrimed DEF Alone
<1> QED
  BY <1>2, <1>3, PendingIs

\* One thread has made a change that is nobody else's.
LEMMA TellerStarts ==
  ASSUME Alone, NEW w \in Workers, ~Telling(w), Telling(w)', WorkerEvent(w)' \notin Pending,
         UNCHANGED manual, \A v \in Workers \ {w} : worker'[v] = worker[v]
  PROVE  Alone' /\ Pending' = Pending \cup {WorkerEvent(w)'}
<1>1. /\ \A v \in Workers \ {w} : (Telling(v)' <=> Telling(v)) /\ WorkerEvent(v)' = WorkerEvent(v)
      /\ ToldByHand' = ToldByHand
  BY DEF Telling, WorkerEvent, Told, Tells, ToldByHand
<1>2. /\ \A v \in Workers : Telling(v) => WorkerEvent(w)' # WorkerEvent(v)
      /\ manual.pc = "tell" => WorkerEvent(w)' # ToldByHand
  BY PendingIs
<1>3. Alone'
  BY <1>1, <1>2 DEF Alone
<1>4. \A e : e \in Pending' <=> e \in Pending \/ e = WorkerEvent(w)'
  BY <1>1, PendingIs, PendingIsPrimed
<1> QED
  BY <1>3, <1>4

\* The same for the administrator.
LEMMA HandStops ==
  ASSUME Alone, manual.pc = "tell", manual'.pc # "tell", UNCHANGED worker
  PROVE  Alone' /\ ToldByHand \in Pending /\ Pending' = Pending \ {ToldByHand}
<1>1. \A w \in Workers : (Telling(w)' <=> Telling(w)) /\ WorkerEvent(w)' = WorkerEvent(w)
  BY DEF Telling, WorkerEvent, Told, Tells
<1>2. Alone'
  BY <1>1 DEF Alone
<1>3. \A e : e \in Pending' <=> e \in Pending /\ e # ToldByHand
  BY <1>1, PendingIs, PendingIsPrimed DEF Alone
<1> QED
  BY <1>2, <1>3, PendingIs

LEMMA HandStarts ==
  ASSUME Alone, manual.pc # "tell", manual'.pc = "tell", ToldByHand' \notin Pending,
         UNCHANGED worker
  PROVE  Alone' /\ Pending' = Pending \cup {ToldByHand'}
<1>1. \A w \in Workers : (Telling(w)' <=> Telling(w)) /\ WorkerEvent(w)' = WorkerEvent(w)
  BY DEF Telling, WorkerEvent, Told, Tells
<1>2. \A v \in Workers : Telling(v) => ToldByHand' # WorkerEvent(v)
  BY PendingIs
<1>3. Alone'
  BY <1>1, <1>2 DEF Alone
<1>4. \A e : e \in Pending' <=> e \in Pending \/ e = ToldByHand'
  BY <1>1, PendingIs, PendingIsPrimed
<1> QED
  BY <1>3, <1>4
-----------------------------------------------------------------------------
(* The steps of the gateway.                                               *)

Good == TypeOK' /\ Shape' /\ Alone' /\ Effect

\* A step of the queues alone.
LEMMA QueuesGood ==
  ASSUME IInv, UNCHANGED <<orders, worker, manual, statusQueue, history>>, faults' \in 0..MaxFaults,
         outbox' \in [Orders -> {"none", "unpublished", "published", "never"}],
         relay' \subseteq Orders, jobs' \in [Orders -> Nat]
  PROVE  Good
<1>1. TypeOK' /\ Shape'
  BY DEF IInv, TypeOK, Shape, history
<1>2. Alone' /\ Silent
  BY DEF IInv, Alone, Silent, Same, Rows, Pending, WorkerEvent, Telling, Told, Tells, ToldByHand, history
<1> QED
  BY <1>1, <1>2 DEF Good, Effect

\* A step of one row that leaves everybody's announcements alone.
LEMMA RowGood ==
  ASSUME IInv, UNCHANGED <<relay, jobs, worker, manual, statusQueue, faults, history>>,
         NEW o \in Orders, NEW row \in Row, orders' = [orders EXCEPT ![o] = row],
         row.status \in {"QUEUED", "IN_PROGRESS"} => row.pickup = 0,
         row.status = "READY" => row.pickup > 0,
         outbox' \in [Orders -> {"none", "unpublished", "published", "never"}],
         \/ row.status = orders[o].status
         \/ row.status \in {"CANCELLED", "GONE"} /\ orders[o].status # "GONE",
         row.pickup = orders[o].pickup
  PROVE  Good
<1>1. TypeOK'
  BY DEF IInv, TypeOK, history
<1>2. Shape'
  BY DEF IInv, TypeOK, Shape, history
<1>3. Alone' /\ Pending' = Pending /\ Same
  BY DEF IInv, Alone, Same, Pending, WorkerEvent, Telling, Told, Tells, ToldByHand, history
<1>4. /\ \A p \in Orders \ {o} : orders'[p] = orders[p]
      /\ orders'[o] = row
  BY DEF IInv, TypeOK
<1>5. CASE row.status = orders[o].status
  <2>1. Rows' = Rows
    BY <1>4, <1>5 DEF Rows
  <2> QED
    BY <1>1, <1>2, <1>3, <2>1 DEF Good, Effect, Silent
<1>6. CASE row.status # orders[o].status
  <2>1. Rows' = [Rows EXCEPT ![o].status = row.status]
    BY <1>4, <1>6 DEF Rows
  <2>2. Withdraws(o, row.status) /\ row.status \in {"CANCELLED", "GONE"}
    BY <1>3, <1>6, <2>1 DEF Withdraws, Rows
  <2> QED
    BY <1>1, <1>2, <1>3, <2>2 DEF Good, Effect
<1> QED
  BY <1>5, <1>6

LEMMA GatewayGood ==
  ASSUME IInv, NEW o \in Orders,
         \/ Enqueue(o) \/ PaymentFails(o) \/ DeleteOrder(o) \/ RelayJob(o) \/ PickupPasses(o)
         \/ CommitRelay \/ RollbackRelay
  PROVE  Good
<1> USE DEF IInv, TypeOK
<1>1. CASE Enqueue(o)
  BY <1>1, QueuesGood DEF Enqueue
<1>2. CASE RelayJob(o)
  BY <1>2, QueuesGood DEF RelayJob
<1>3. CASE CommitRelay
  BY <1>3, QueuesGood DEF CommitRelay
<1>4. CASE RollbackRelay
  BY <1>4, QueuesGood, PipelineAssumption DEF RollbackRelay, Fault
<1>0. /\ orders[o].status \in Statuses \cup {"GONE"} /\ orders[o].pickup \in 0..2
      /\ orders[o].passed \in 0..2
      /\ orders[o] = [status |-> orders[o].status, pickup |-> orders[o].pickup,
                       passed |-> orders[o].passed]
  BY DEF Row
<1>5. CASE PaymentFails(o)
  <2>1. PICK row : row = [orders[o] EXCEPT !.status = IF @ = "GONE" THEN @ ELSE "CANCELLED"]
    OBVIOUS
  <2>2. orders' = [orders EXCEPT ![o] = row]
    BY <1>5, <2>1 DEF PaymentFails
  <2>3. /\ row.status = IF orders[o].status = "GONE" THEN "GONE" ELSE "CANCELLED"
        /\ row.pickup = orders[o].pickup /\ row.passed = orders[o].passed
        /\ row = [status |-> row.status, pickup |-> row.pickup, passed |-> row.passed]
    BY <1>0, <2>1
  <2>4. row \in Row
    BY <1>0, <2>3 DEF Row, Statuses
  <2>5. /\ outbox' \in [Orders -> {"none", "unpublished", "published", "never"}]
        /\ UNCHANGED <<relay, jobs, worker, manual, statusQueue, faults, history>>
    BY <1>5 DEF PaymentFails
  <2> QED
    BY <2>2, <2>3, <2>4, <2>5, RowGood
<1>6. CASE DeleteOrder(o)
  <2>1. PICK row : row = [orders[o] EXCEPT !.status = "GONE"]
    OBVIOUS
  <2>2. orders' = [orders EXCEPT ![o] = row] /\ orders[o].status # "GONE"
    BY <1>6, <2>1 DEF DeleteOrder
  <2>3. row \in Row /\ row.status = "GONE" /\ row.pickup = orders[o].pickup
    BY <2>1 DEF Row, Statuses
  <2> QED
    BY <1>6, <2>2, <2>3, RowGood, ZenonT(60) DEF DeleteOrder, queues
<1>7. CASE PickupPasses(o)
  <2>1. PICK row : row = [orders[o] EXCEPT !.passed = @ + 1]
    OBVIOUS
  <2>2. /\ orders' = [orders EXCEPT ![o] = row] /\ orders[o].status = "READY"
        /\ orders[o].passed < orders[o].pickup
    BY <1>7, <2>1 DEF PickupPasses
  <2>3. /\ row.status = "READY" /\ row.pickup = orders[o].pickup /\ row.pickup > 0
        /\ row = [status |-> row.status, pickup |-> row.pickup, passed |-> orders[o].passed + 1]
    BY <1>0, <2>1, <2>2 DEF Shape
  <2>4. row \in Row
    BY <1>0, <2>2, <2>3 DEF Row, Statuses
  <2>5. UNCHANGED <<outbox, relay, jobs, worker, manual, statusQueue, faults, history>>
    BY <1>7 DEF PickupPasses, queues
  <2> QED
    BY <2>2, <2>3, <2>4, <2>5, RowGood
<1> QED
  BY <1>1, <1>2, <1>3, <1>4, <1>5, <1>6, <1>7
-----------------------------------------------------------------------------
(* The steps of a kitchen thread.                                          *)

WorkerStates ==
  [pc : {"idle", "begin", "tellStarted", "cook", "tellReady", "ack"},
   order : Orders \cup {NoOrder}, lost : BOOLEAN]

\* A thread that neither begins nor ends to announce.
LEMMA WorkerQuiet ==
  ASSUME IInv, NEW w \in Workers, NEW state \in WorkerStates,
         worker' = [worker EXCEPT ![w] = state], state.pc # "idle" => state.order \in Orders,
         \/ ~Telling(w) /\ state.pc \notin {"tellStarted", "tellReady"}
         \/ state.pc = worker[w].pc /\ state.order = worker[w].order,
         UNCHANGED <<orders, outbox, relay, manual, statusQueue, announced>>,
         jobs' \in [Orders -> Nat], faults' \in 0..MaxFaults, dropped' \subseteq Orders
  PROVE  Good
<1>1. TypeOK' /\ Shape'
  BY DEF IInv, TypeOK, Shape, WorkerStates
<1>2. \A v \in Workers : worker'[v] = IF v = w THEN state ELSE worker[v]
  BY DEF IInv, TypeOK
<1>3. \A v \in Workers : /\ Telling(v)' <=> Telling(v)
                         /\ Telling(v) => WorkerEvent(v)' = WorkerEvent(v)
  BY <1>2 DEF Telling, WorkerEvent, Told, Tells
<1>4. ToldByHand' = ToldByHand /\ (manual'.pc = "tell" <=> manual.pc = "tell")
  BY DEF ToldByHand
<1>5. Alone' /\ Pending' = Pending
  BY <1>3, <1>4, TellersStay DEF IInv
<1> QED
  BY <1>1, <1>5 DEF Good, Effect, Silent, Same, Rows

\* A thread that ends to announce, its change announced or forgotten.
LEMMA WorkerTold ==
  ASSUME IInv, NEW w \in Workers, NEW state \in WorkerStates, Telling(w),
         worker' = [worker EXCEPT ![w] = state], state.pc # "idle" => state.order \in Orders,
         state.pc \notin {"tellStarted", "tellReady"},
         UNCHANGED <<orders, outbox, relay, manual, dropped>>,
         jobs' \in [Orders -> Nat], faults' \in 0..MaxFaults,
         \/ UNCHANGED <<statusQueue, announced>>
         \/ Publish(WorkerEvent(w))
  PROVE  Good
<1>1. WorkerEvent(w) \in Event
  BY DEF IInv, Shape, Telling, WorkerEvent, Told, Tells, Event, Statuses
<1>2. statusQueue' \in Seq(Event) /\ announced' \subseteq Event
  <2>1. statusQueue \in Seq(Event) /\ announced \subseteq Event
    BY DEF IInv, TypeOK
  <2>2. Append(statusQueue, WorkerEvent(w)) \in Seq(Event)
    BY <1>1, <2>1
  <2> QED
    BY <1>1, <2>1, <2>2 DEF Publish
<1>3. TypeOK' /\ Shape'
  BY <1>2 DEF IInv, TypeOK, Shape, WorkerStates
<1>4. ~Telling(w)' /\ \A v \in Workers \ {w} : worker'[v] = worker[v]
  BY DEF IInv, TypeOK, Telling
<1>5. Alone' /\ WorkerEvent(w) \in Pending /\ Pending' = Pending \ {WorkerEvent(w)}
  BY <1>4, TellerStops DEF IInv
<1>6. Announces(WorkerEvent(w)) \/ Forgets(WorkerEvent(w))
  BY <1>5 DEF Announces, Forgets, Same, Publish, Rows
<1> QED
  BY <1>3, <1>5, <1>6 DEF Good, Effect

\* A thread that has changed its order's row.
LEMMA WorkerChanges ==
  ASSUME IInv, NEW w \in Workers, ~Telling(w), worker[w].order \in Orders,
         NEW tell \in {"tellStarted", "tellReady"}, worker' = [worker EXCEPT ![w].pc = tell],
         NEW from \in {"QUEUED", "IN_PROGRESS"},
         from = IF tell = "tellStarted" THEN "QUEUED" ELSE "IN_PROGRESS",
         Matches(worker[w].order, from), SetStatus(worker[w].order, from, Tells(tell)),
         UNCHANGED <<queues, manual, statusQueue, faults, history>>
  PROVE  Good
<1> DEFINE o == worker[w].order
           r == [status |-> Tells(tell), pickup |-> IF tell = "tellReady" THEN 1 ELSE 0]
<1>0. o \in Orders /\ orders \in [Orders -> Row]
  BY DEF IInv, TypeOK
<1>1. /\ orders[o].status = from /\ orders[o].pickup = 0 /\ orders[o].passed \in 0..2
      /\ orders[o] = [status |-> from, pickup |-> 0, passed |-> orders[o].passed]
  BY DEF Matches, IInv, TypeOK, Shape, Row
<1>2. orders' = [orders EXCEPT
                   ![o] = [status |-> r.status, pickup |-> r.pickup, passed |-> orders[o].passed]]
  <2>1. PICK row : row = [orders[o] EXCEPT !.status = r.status, !.pickup = r.pickup]
    OBVIOUS
  <2>2. row = [status |-> r.status, pickup |-> r.pickup, passed |-> orders[o].passed]
    BY <1>0, <2>1 DEF Row
  <2>3. (IF Tells(tell) = "READY" THEN 1 ELSE orders[o].pickup) = r.pickup
    BY <1>1 DEF Tells
  <2>4. orders' = [orders EXCEPT ![o].status = r.status, ![o].pickup = r.pickup]
    BY <2>3 DEF SetStatus
  <2>5. orders' = [orders EXCEPT ![o] = row]
    BY <2>1, <2>4
  <2> QED
    BY <2>2, <2>5
<1>3. r \in Feed!After(Rows[o])
  <2>1. Rows[o] = [status |-> from, pickup |-> 0]
    BY <1>1 DEF Rows
  <2>2. CASE tell = "tellStarted"
    <3>1. r = [Rows[o] EXCEPT !.status = "IN_PROGRESS"]
      BY <2>1, <2>2 DEF Tells
    <3> QED
      BY <2>1, <2>2, <3>1 DEF Feed!After
  <2>3. CASE tell = "tellReady"
    <3>1. Rows[o] \in Feed!FeedRow
      BY <2>1 DEF Feed!FeedRow, Feed!Statuses
    <3>2. PICK row : row = [Rows[o] EXCEPT !.status = "READY", !.pickup = 1]
      OBVIOUS
    <3>3. row = r
      BY <2>3, <3>1, <3>2 DEF Feed!FeedRow, Tells
    <3>4. Feed!After(Rows[o]) = {[Rows[o] EXCEPT !.status = "READY", !.pickup = 1]}
      BY <2>1, <2>3 DEF Feed!After
    <3> QED
      BY <3>2, <3>3, <3>4
  <2> QED
    BY <2>2, <2>3
<1>4. Rows' = [Rows EXCEPT ![o] = r]
  BY <1>2 DEF Rows, IInv, TypeOK
<1>5. worker'[w].pc = tell /\ worker'[w].order = o /\ \A v \in Workers \ {w} : worker'[v] = worker[v]
  BY DEF IInv, TypeOK
<1>6. Telling(w)' /\ WorkerEvent(w)' = ChangeEvent(o, r)
  BY <1>5 DEF Telling, WorkerEvent, Told, Tells, ChangeEvent
<1>7. Alone' /\ Pending' = Pending \cup {ChangeEvent(o, r)}
  BY <1>3, <1>5, <1>6, ChangeIsNew, TellerStarts DEF IInv
<1>8. TypeOK' /\ Shape'
  <2>1. orders' \in [Orders -> Row]
    BY <1>1, <1>2 DEF IInv, TypeOK, Row, Statuses, Tells
  <2>2. worker' \in [Workers -> WorkerStates]
    <3>1. worker \in [Workers -> WorkerStates]
      BY DEF IInv, TypeOK, WorkerStates
    <3>2. PICK state : state = [worker[w] EXCEPT !.pc = tell]
      OBVIOUS
    <3>3. state \in WorkerStates
      BY <3>1, <3>2 DEF WorkerStates
    <3> QED
      BY <3>1, <3>2, <3>3
  <2>3. TypeOK'
    BY <2>1, <2>2 DEF IInv, TypeOK, WorkerStates, queues, history
  <2>4. Shape'
    BY <1>2, <1>5 DEF IInv, TypeOK, Shape, Tells
  <2> QED
    BY <2>3, <2>4
<1>9. Changes(o, r)
  BY <1>4, <1>7 DEF Changes, Same, history
<1> QED
  BY <1>3, <1>7, <1>8, <1>9 DEF Good, Effect

LEMMA ReturnType ==
  ASSUME TypeOK, NEW w \in Workers, worker[w].order \in Orders, Return(w)
  PROVE  jobs' \in [Orders -> Nat]
BY DEF TypeOK, Return

LEMMA KitchenGood ==
  ASSUME IInv, NEW w \in Workers, KitchenStep(w) \/ WorkerFault(w)
  PROVE  Good
<1>1. /\ worker[w] \in WorkerStates /\ worker[w].pc # "idle" => worker[w].order \in Orders
      /\ worker \in [Workers -> WorkerStates] /\ Stopped \in WorkerStates
      /\ jobs \in [Orders -> Nat] /\ faults \in 0..MaxFaults /\ dropped \subseteq Orders
  BY DEF IInv, TypeOK, Shape, WorkerStates, Stopped
<1>2. ASSUME NEW pc \in {"idle", "begin", "tellStarted", "cook", "tellReady", "ack"}, Goto(w, pc)
      PROVE  \E state \in WorkerStates :
               /\ worker' = [worker EXCEPT ![w] = state] /\ state.pc = pc
               /\ state.order = worker[w].order
  <2>1. worker' = [worker EXCEPT ![w].pc = pc]
    BY <1>2 DEF Goto
  <2>2. PICK state : state = [worker[w] EXCEPT !.pc = pc]
    OBVIOUS
  <2>3. state \in WorkerStates /\ state.pc = pc /\ state.order = worker[w].order
    BY <1>1, <2>2 DEF WorkerStates
  <2>4. worker' = [worker EXCEPT ![w] = state]
    BY <2>1, <2>2
  <2> QED
    BY <2>3, <2>4
<1>3. ASSUME NEW o \in Orders, Deliver(w, o) PROVE Good
  <2>1. PICK state : state = [pc |-> "begin", order |-> o, lost |-> FALSE]
    OBVIOUS
  <2>2. state \in WorkerStates /\ state.pc = "begin" /\ state.order = o
    BY <2>1 DEF WorkerStates
  <2>3. jobs' \in [Orders -> Nat]
    BY <1>1, <1>3 DEF Deliver
  <2> QED
    BY <1>1, <1>3, <2>1, <2>2, <2>3, WorkerQuiet DEF Deliver, Telling, history
<1>4. CASE Start(w) \/ Finish(w)
  <2>1. PICK from, tell, skip :
          /\ from \in {"QUEUED", "IN_PROGRESS"} /\ tell \in {"tellStarted", "tellReady"}
          /\ from = IF tell = "tellStarted" THEN "QUEUED" ELSE "IN_PROGRESS"
          /\ skip \in {"cook", "ack"}
          /\ worker[w].pc \in {"begin", "cook"}
          /\ SetStatus(worker[w].order, from, Tells(tell))
          /\ Goto(w, AfterUpdate(w, from, tell, skip))
          /\ UNCHANGED <<queues, manual, statusQueue, faults, history>>
    BY <1>4 DEF Start, Finish, Tells
  <2>2. worker[w].order \in Orders /\ ~Telling(w)
    BY <1>1, <2>1 DEF Telling
  <2>3. CASE Matches(worker[w].order, from)
    <3>1. worker' = [worker EXCEPT ![w].pc = tell]
      BY <2>1, <2>3 DEF Goto, AfterUpdate
    <3> QED
      BY <2>1, <2>2, <2>3, <3>1, WorkerChanges
  <2>4. CASE ~Matches(worker[w].order, from)
    <3>1. Goto(w, skip) /\ UNCHANGED orders
      BY <2>1, <2>4 DEF SetStatus, AfterUpdate
    <3> QED
      BY <1>1, <1>2, <2>1, <2>2, <3>1, WorkerQuiet DEF queues, history
  <2> QED
    BY <2>3, <2>4
<1>5. CASE PublishStatus(w)
  <2>1. PICK pc \in {"cook", "ack"} : Goto(w, pc)
    BY <1>5 DEF PublishStatus
  <2>2. /\ Telling(w) /\ Publish(WorkerEvent(w)) /\ worker[w].order \in Orders
        /\ UNCHANGED <<orders, queues, manual, faults, dropped>>
    BY <1>1, <1>5 DEF PublishStatus, WorkerEvent, Telling
  <2> QED
    BY <1>1, <1>2, <2>1, <2>2, WorkerTold DEF queues
<1>6. CASE Ack(w)
  <2>1. ~Telling(w) /\ worker' = [worker EXCEPT ![w] = Stopped] /\ Stopped.pc = "idle"
    BY <1>6 DEF Ack, Telling, Stopped
  <2> QED
    BY <1>1, <1>6, <2>1, WorkerQuiet DEF Ack, queues, history
<1>7. CASE Chaos(w)
  <2>1. ~Telling(w) /\ worker[w].order \in Orders /\ Goto(w, "ack") /\ faults' \in 0..MaxFaults
    BY <1>1, <1>7, PipelineAssumption DEF Chaos, Telling, Fault
  <2> QED
    BY <1>1, <1>2, <1>7, <2>1, WorkerQuiet DEF Chaos, queues
<1>8. CASE LoseChannel(w)
  <2>1. /\ worker[w].pc # "idle" /\ Return(w) /\ faults' \in 0..MaxFaults
        /\ UNCHANGED <<orders, outbox, relay, manual, statusQueue, history>>
    BY <1>1, <1>8, PipelineAssumption DEF LoseChannel, Fault
  <2>2. PICK state : state = [worker[w] EXCEPT !.lost = TRUE]
    OBVIOUS
  <2>3. /\ state \in WorkerStates /\ state.pc = worker[w].pc /\ state.order = worker[w].order
        /\ worker' = [worker EXCEPT ![w] = state]
    BY <1>1, <1>8, <2>2 DEF LoseChannel, WorkerStates
  <2>4. jobs' \in [Orders -> Nat]
    BY <1>1, <2>1, ReturnType DEF IInv
  <2> QED
    BY <1>1, <2>1, <2>3, <2>4, WorkerQuiet DEF history
<1>9. CASE PublishStatusFails(w) \/ StopWorker(w)
  <2>1. /\ worker[w].pc # "idle" /\ Return(w) /\ faults' \in 0..MaxFaults
        /\ worker' = [worker EXCEPT ![w] = Stopped] /\ Stopped.pc = "idle"
        /\ UNCHANGED <<orders, outbox, relay, manual, statusQueue, history>>
    BY <1>1, <1>9, PipelineAssumption DEF PublishStatusFails, StopWorker, Fault, Telling, Stopped
  <2>2. jobs' \in [Orders -> Nat]
    BY <1>1, <2>1, ReturnType DEF IInv
  <2>3. CASE Telling(w)
    BY <1>1, <2>1, <2>2, <2>3, WorkerTold DEF history
  <2>4. CASE ~Telling(w)
    BY <1>1, <2>1, <2>2, <2>4, WorkerQuiet DEF history
  <2> QED
    BY <2>3, <2>4
<1> QED
  BY <1>3, <1>4, <1>5, <1>6, <1>7, <1>8, <1>9 DEF KitchenStep, WorkerFault
-----------------------------------------------------------------------------
(* The steps of the administrator's request.                               *)

\* The row an allowed action makes of the order's.
ByHand(o, a) ==
  [status |-> Target(a),
   pickup |-> IF Target(a) = "READY" THEN orders[o].pickup + 1 ELSE orders[o].pickup]

LEMMA ByHandIsAfter ==
  ASSUME TypeOK, Shape, NEW o \in Orders, NEW a \in Actions, Allowed(o, a)
  PROVE  /\ ByHand(o, a) \in Feed!After(Rows[o])
         /\ orders[o].status = Target(a) \/ <<orders[o].status, Target(a)>> \in Forward
<1>1. /\ Rows[o] = [status |-> orders[o].status, pickup |-> orders[o].pickup]
      /\ Rows[o] \in Feed!FeedRow
      /\ orders[o].status = Expects(a) /\ orders[o].pickup \in 0..2
  BY RowsAre DEF Allowed, Matches, Feed!FeedRow, Feed!Statuses, Statuses
<1>2. CASE a = "start"
  <2>1. orders[o].status = "QUEUED" /\ orders[o].pickup = 0
    BY <1>1, <1>2 DEF Expects, Shape
  <2>2. PICK row : row = [Rows[o] EXCEPT !.status = "IN_PROGRESS"]
    OBVIOUS
  <2>3. row = ByHand(o, a)
    BY <1>1, <1>2, <2>1, <2>2 DEF ByHand, Target
  <2>4. Feed!After(Rows[o]) = {[Rows[o] EXCEPT !.status = "IN_PROGRESS"]}
    BY <1>1, <2>1 DEF Feed!After
  <2> QED
    BY <1>2, <2>1, <2>2, <2>3, <2>4 DEF Target, Forward
<1>3. CASE a = "ready"
  <2>1. orders[o].status = "IN_PROGRESS" /\ orders[o].pickup = 0
    BY <1>1, <1>3 DEF Expects, Shape
  <2>2. PICK row : row = [Rows[o] EXCEPT !.status = "READY", !.pickup = 1]
    OBVIOUS
  <2>3. row = [status |-> "READY", pickup |-> 1]
    BY <1>1, <2>2 DEF Feed!FeedRow
  <2>4. ByHand(o, a) = [status |-> "READY", pickup |-> 1]
    BY <1>3, <2>1 DEF ByHand, Target
  <2>5. Feed!After(Rows[o]) = {[Rows[o] EXCEPT !.status = "READY", !.pickup = 1]}
    BY <1>1, <2>1 DEF Feed!After
  <2> QED
    BY <1>3, <2>1, <2>2, <2>3, <2>4, <2>5 DEF Target, Forward
<1>4. CASE a \in {"complete", "cancel"}
  <2>1. orders[o].status = "READY" /\ Target(a) \in {"COMPLETED", "CANCELLED"}
    BY <1>1, <1>4 DEF Expects, Target
  <2>2. PICK row : row = [Rows[o] EXCEPT !.status = Target(a)]
    OBVIOUS
  <2>3. row = ByHand(o, a)
    BY <1>1, <2>1, <2>2 DEF ByHand
  <2>4. {[Rows[o] EXCEPT !.status = s] : s \in {"COMPLETED", "CANCELLED"}} \subseteq Feed!After(Rows[o])
    BY <1>1, <2>1 DEF Feed!After
  <2> QED
    BY <2>1, <2>2, <2>3, <2>4 DEF Forward
<1>5. CASE a = "extend"
  <2>1. orders[o].status = "READY" /\ orders[o].pickup = 1
    BY <1>1, <1>5 DEF Expects, Allowed
  <2>2. PICK row : row = [Rows[o] EXCEPT !.pickup = 2]
    OBVIOUS
  <2>3. row = ByHand(o, a)
    BY <1>1, <1>5, <2>1, <2>2 DEF ByHand, Target
  <2>4. {[Rows[o] EXCEPT !.pickup = 2]} \subseteq Feed!After(Rows[o])
    BY <1>1, <2>1 DEF Feed!After
  <2> QED
    BY <1>5, <2>1, <2>2, <2>3, <2>4 DEF Target, Forward
<1> QED
  BY <1>2, <1>3, <1>4, <1>5 DEF Actions

ManualStates ==
  [pc : {"idle", "update", "tell"}, order : Orders \cup {NoOrder},
   action : Actions \cup {"none"}, pickup : 0..2]

\* A request that waits, or has come to nothing.
LEMMA HandQuiet ==
  ASSUME IInv, manual.pc # "tell", manual' \in ManualStates, manual'.pc # "tell",
         manual'.pc # "idle" => manual'.order \in Orders /\ manual'.action \in Actions,
         UNCHANGED <<orders, queues, worker, statusQueue, faults, history>>
  PROVE  Good
<1>1. TypeOK' /\ Shape'
  BY DEF IInv, TypeOK, Shape, ManualStates, queues, history
<1>2. \A w \in Workers : (Telling(w)' <=> Telling(w)) /\ WorkerEvent(w)' = WorkerEvent(w)
  BY DEF Telling, WorkerEvent, Told, Tells
<1>3. Alone' /\ Pending' = Pending
  BY <1>2, TellersStay DEF IInv
<1> QED
  BY <1>1, <1>3 DEF Good, Effect, Silent, Same, Rows, history

\* A change made by hand.
LEMMA HandChanges ==
  ASSUME IInv, UpdateByHand, Allowed(manual.order, manual.action)
  PROVE  Good
<1>0. /\ manual.pc = "update" /\ manual.order \in Orders /\ manual.action \in Actions
      /\ orders \in [Orders -> Row] /\ manual \in ManualStates
  BY DEF UpdateByHand, IInv, TypeOK, Shape, ManualStates
<1>1. PICK o \in Orders, a \in Actions : o = manual.order /\ a = manual.action
  BY <1>0
<1>2. PICK r : r = ByHand(o, a)
  OBVIOUS
<1>3. r \in Feed!After(Rows[o]) /\ r.status \in Statuses /\ r.pickup \in 0..2
  BY <1>1, <1>2, ByHandIsAfter, AfterIsHigher DEF IInv
<1>4. /\ r = [status |-> r.status, pickup |-> r.pickup] /\ r.status = Target(a)
      /\ r.pickup = IF Target(a) = "READY" THEN orders[o].pickup + 1 ELSE orders[o].pickup
  BY <1>2 DEF ByHand
<1>5. orders' = [orders EXCEPT
                   ![o] = [status |-> r.status, pickup |-> r.pickup, passed |-> orders[o].passed]]
  <2>1. PICK row : row = [orders[o] EXCEPT !.status = r.status, !.pickup = r.pickup]
    OBVIOUS
  <2>2. row = [status |-> r.status, pickup |-> r.pickup, passed |-> orders[o].passed]
    BY <1>0, <2>1 DEF Row
  <2>3. orders' = [orders EXCEPT ![o].status = r.status, ![o].pickup = r.pickup]
    BY <1>1, <1>4 DEF UpdateByHand
  <2>4. orders' = [orders EXCEPT ![o] = row]
    BY <2>1, <2>3
  <2> QED
    BY <2>2, <2>4
<1>6. orders'[o] = [status |-> r.status, pickup |-> r.pickup, passed |-> orders[o].passed]
  BY <1>0, <1>5
<1>7. PICK hand : hand = [manual EXCEPT !.pc = "tell", !.pickup = r.pickup]
  OBVIOUS
<1>8. manual' = hand
  BY <1>1, <1>6, <1>7 DEF UpdateByHand
<1>9. hand \in ManualStates /\ hand.pc = "tell" /\ hand.order = o /\ hand.action = a /\ hand.pickup = r.pickup
  BY <1>0, <1>1, <1>3, <1>7 DEF ManualStates
<1>10. ToldByHand' = ChangeEvent(o, r)
  BY <1>4, <1>8, <1>9 DEF ToldByHand, ChangeEvent
<1>11. UNCHANGED <<queues, worker, statusQueue, faults, history>>
  BY DEF UpdateByHand
<1>12. Alone' /\ Pending' = Pending \cup {ChangeEvent(o, r)}
  <2>1. ChangeEvent(o, r) \notin Pending
    BY <1>3, ChangeIsNew
  <2> QED
    BY <1>0, <1>8, <1>9, <1>10, <1>11, <2>1, HandStarts DEF IInv
<1>13. TypeOK'
  <2>1. orders[o].passed \in 0..2
    BY <1>0 DEF Row
  <2>2. orders' \in [Orders -> Row]
    BY <1>0, <1>3, <1>5, <2>1 DEF Row
  <2> QED
    BY <1>8, <1>9, <1>11, <2>2 DEF IInv, TypeOK, ManualStates, queues, history
<1>14. Shape'
  <2>1. /\ r.status \in {"QUEUED", "IN_PROGRESS"} => r.pickup = 0
        /\ r.status = "READY" => r.pickup > 0
    <3>1. CASE a = "start"
      BY <1>1, <1>4, <3>1 DEF Allowed, Matches, Expects, Target, IInv, Shape
    <3>2. CASE a # "start"
      <4>1. Target(a) \in {"READY", "COMPLETED", "CANCELLED"}
        BY <3>2 DEF Target, Actions
      <4>2. orders[o].pickup \in 0..2
        BY <1>0 DEF Row
      <4> QED
        BY <1>4, <4>1, <4>2
    <3> QED
      BY <3>1, <3>2
  <2>2. \A p \in Orders \ {o} : orders'[p] = orders[p]
    BY <1>0, <1>5
  <2> QED
    BY <1>6, <1>8, <1>9, <1>11, <2>1, <2>2 DEF IInv, Shape
<1>15. Rows' = [Rows EXCEPT ![o] = r]
  BY <1>0, <1>4, <1>5 DEF Rows
<1>16. Changes(o, r)
  BY <1>11, <1>12, <1>15 DEF Changes, Same, history
<1> QED
  BY <1>3, <1>12, <1>13, <1>14, <1>16 DEF Good, Effect

LEMMA HandGood ==
  ASSUME IInv,
         \/ \E o \in Orders, a \in Actions : FindPeakMode(o, a)
         \/ UpdateByHand \/ TellByHand \/ TellByHandFails
  PROVE  Good
<1>1. NoRequest \in ManualStates /\ NoRequest.pc = "idle"
  BY DEF NoRequest, ManualStates
<1>2. ASSUME NEW o \in Orders, NEW a \in Actions, FindPeakMode(o, a) PROVE Good
  <2>1. /\ manual.pc = "idle"
        /\ manual' = [pc |-> "update", order |-> o, action |-> a, pickup |-> 0]
        /\ UNCHANGED <<orders, queues, worker, statusQueue, faults, history>>
    BY <1>2 DEF FindPeakMode
  <2>2. manual' \in ManualStates /\ manual'.pc = "update" /\ manual'.order = o /\ manual'.action = a
    BY <2>1 DEF ManualStates
  <2> QED
    BY <2>1, <2>2, HandQuiet
<1>3. CASE UpdateByHand
  <2>1. CASE Allowed(manual.order, manual.action)
    BY <1>3, <2>1, HandChanges
  <2>2. CASE ~Allowed(manual.order, manual.action)
    BY <1>1, <1>3, <2>2, HandQuiet DEF UpdateByHand
  <2> QED
    BY <2>1, <2>2
<1>4. CASE TellByHand \/ TellByHandFails
  <2>1. /\ manual.pc = "tell" /\ manual' = NoRequest
        /\ UNCHANGED <<orders, queues, worker, dropped>>
        /\ Publish(ToldByHand) \/ UNCHANGED <<statusQueue, announced>>
    BY <1>4 DEF TellByHand, TellByHandFails, history
  <2>2. faults' \in 0..MaxFaults
    BY <1>4, PipelineAssumption DEF TellByHand, TellByHandFails, Fault, IInv, TypeOK
  <2>3. ToldByHand \in Event
    <3>1. manual.order \in Orders /\ manual.action \in Actions /\ manual.pickup \in 0..2
      BY <2>1 DEF IInv, TypeOK, Shape
    <3>2. Target(manual.action) \in Statuses
      BY <3>1 DEF Target, Actions, Statuses
    <3> QED
      BY <3>1, <3>2 DEF ToldByHand, Event
  <2>4. statusQueue' \in Seq(Event) /\ announced' \subseteq Event
    <3>1. statusQueue \in Seq(Event) /\ announced \subseteq Event
      BY DEF IInv, TypeOK
    <3>2. Append(statusQueue, ToldByHand) \in Seq(Event)
      BY <2>3, <3>1
    <3> QED
      BY <2>1, <2>3, <3>1, <3>2 DEF Publish
  <2>5. TypeOK' /\ Shape'
    BY <1>1, <2>1, <2>2, <2>4 DEF IInv, TypeOK, Shape, ManualStates, queues
  <2>6. Alone' /\ ToldByHand \in Pending /\ Pending' = Pending \ {ToldByHand}
    BY <1>1, <2>1, HandStops DEF IInv
  <2>7. Announces(ToldByHand) \/ Forgets(ToldByHand)
    BY <2>1, <2>6 DEF Announces, Forgets, Same, Publish, Rows
  <2> QED
    BY <2>5, <2>6, <2>7 DEF Good, Effect
<1> QED
  BY <1>2, <1>3, <1>4
-----------------------------------------------------------------------------
(* The theorems.                                                           *)

LEMMA NextGood == IInv /\ Next => Good
<1> SUFFICES ASSUME IInv, Next PROVE Good
  OBVIOUS
<1>1. CASE CommitRelay \/ RollbackRelay
  <2>1. \E o \in Orders : TRUE
    BY <1>1 DEF CommitRelay, RollbackRelay, IInv, TypeOK
  <2> QED
    BY <1>1, <2>1, GatewayGood
<1> QED
  BY <1>1, GatewayGood, KitchenGood, HandGood DEF Next, GatewayStep

LEMMA InitIInv == Init => IInv
<1> SUFFICES ASSUME Init PROVE IInv
  OBVIOUS
<1>1. TypeOK
  BY PipelineAssumption DEF Init, TypeOK, Row, Statuses, Stopped, NoRequest
<1>2. Shape
  BY DEF Init, Shape, Stopped, NoRequest
<1>3. (\A w \in Workers : ~Telling(w)) /\ manual.pc = "idle" /\ announced = {}
  BY DEF Init, Telling, Stopped, NoRequest
<1>4. Pending = {}
  BY <1>3, PendingIs
<1> QED
  BY <1>1, <1>2, <1>3, <1>4 DEF IInv, Behind, Fresh, Alone

LEMMA StepIInv == IInv /\ [Next]_vars => IInv'
<1> SUFFICES ASSUME IInv, [Next]_vars PROVE IInv'
  OBVIOUS
<1>1. CASE Next
  BY <1>1, NextGood, EffectKeeps DEF Good, IInv
<1>2. CASE UNCHANGED vars
  <2>1. UNCHANGED <<orders, outbox, relay, jobs, worker, manual, statusQueue, faults, dropped, announced>>
    BY <1>2 DEF vars, queues, history
  <2>2. TypeOK' /\ Shape'
    BY <2>1 DEF IInv, TypeOK, Shape
  <2>3. Pending' = Pending
    BY <2>1 DEF Pending, WorkerEvent, Telling, Told, Tells, ToldByHand
  <2>4. Behind' /\ Fresh'
    BY <2>1, <2>3 DEF IInv, Behind, Fresh
  <2>5. Alone'
    BY <2>1 DEF IInv, Alone, WorkerEvent, Telling, Told, Tells, ToldByHand
  <2> QED
    BY <2>2, <2>4, <2>5 DEF IInv
<1> QED
  BY <1>1, <1>2

LEMMA Inductive == Spec => []IInv
BY InitIInv, StepIInv, PTL DEF Spec

\* Every variable of the gateway, the kitchen and the queues has its type,
\* with any number of orders, threads and faults.
THEOREM TypeCorrect == Spec => []TypeOK
<1>1. IInv => TypeOK
  BY DEF IInv
<1> QED
  BY <1>1, Inductive, PTL

\* The outbox worker, the kitchen's threads and the administrator, with all
\* that can break between them, keep to the abstract feed the page relies on.
THEOREM PipelineIsFeed == Spec => ImplementsFeed
<1>1. Init => Feed!FeedInit
  <2> SUFFICES ASSUME Init PROVE Feed!FeedInit
    OBVIOUS
  <2>1. (\A w \in Workers : ~Telling(w)) /\ manual.pc = "idle" /\ statusQueue = <<>>
    BY DEF Init, Telling, Stopped, NoRequest
  <2>2. Pending = {}
    BY <2>1, PendingIs
  <2>3. Rows = [o \in Orders |-> [status |-> "QUEUED", pickup |-> 0]]
    BY DEF Init, Rows
  <2> QED
    BY <2>1, <2>2, <2>3 DEF Feed!FeedInit, Rows, Pending, WorkerEvent
<1>2. IInv /\ [Next]_vars => [Feed!FeedNext]_(Feed!feed)
  <2> SUFFICES ASSUME IInv, [Next]_vars PROVE [Feed!FeedNext]_(Feed!feed)
    OBVIOUS
  <2>1. CASE Next
    BY <2>1, NextGood, EffectIsFeedStep DEF Good
  <2>2. CASE UNCHANGED vars
    <3>1. UNCHANGED <<orders, worker, manual, statusQueue, announced>>
      BY <2>2 DEF vars, history
    <3>2. Silent
      BY <3>1 DEF Silent, Same, Rows, Pending, WorkerEvent, Telling, Told, Tells, ToldByHand
    <3> QED
      BY <3>2, EffectIsFeedStep DEF Effect
  <2> QED
    BY <2>1, <2>2
<1> QED
  BY <1>1, <1>2, Inductive, PTL DEF Spec, ImplementsFeed, Feed!FeedSpec

\* Whoever changes an order announces it, and nobody else: no event is
\* published twice, although jobs are delivered twice and threads go on after
\* their channel broke.
THEOREM ToldOnce == Spec => AnnouncedOnce
<1> DEFINE Once == Len(statusQueue') > Len(statusQueue)
                     => statusQueue'[Len(statusQueue')] \notin announced
<1>1. IInv /\ [Next]_vars => [Once]_statusQueue
  <2> SUFFICES ASSUME IInv, Next, Len(statusQueue') > Len(statusQueue)
               PROVE  statusQueue'[Len(statusQueue')] \notin announced
    BY DEF vars
  <2>1. Effect /\ statusQueue \in Seq(Event)
    BY NextGood DEF Good, IInv, TypeOK
  <2>2. PICK e \in Pending : Announces(e)
    BY <2>1 DEF Effect, Silent, Changes, Withdraws, Forgets, Same
  <2>3. e \in Event
    <3>1. \A w \in Workers : Telling(w) => WorkerEvent(w) \in Event
      BY DEF IInv, Shape, Telling, WorkerEvent, Told, Tells, Event, Statuses
    <3>2. manual.pc = "tell" => ToldByHand \in Event
      BY DEF IInv, TypeOK, Shape, ToldByHand, Target, Actions, Event, Statuses
    <3> QED
      BY <3>1, <3>2, PendingIs
  <2>4. statusQueue'[Len(statusQueue')] = e
    BY <2>1, <2>2, <2>3 DEF Announces
  <2> QED
    BY <2>4 DEF IInv, Fresh
<1> QED
  BY <1>1, Inductive, PTL DEF Spec, AnnouncedOnce

\* A paid order only goes QUEUED, IN_PROGRESS, READY and then COMPLETED or
\* CANCELLED, until it is deleted: what _set_order_status and the peak mode
\* check holds whoever else moves the order.
THEOREM MovesForward == Spec => PaidMovesForward
<1> DEFINE Moved(o) ==
      \/ orders'[o].status \in {orders[o].status, "GONE"}
      \/ ~Paid(o) /\ orders'[o].status = "CANCELLED"
      \/ <<orders[o].status, orders'[o].status>> \in Forward
<1>1. ASSUME IInv, Next, NEW o \in Orders PROVE Moved(o)
  <2>1. /\ orders \in [Orders -> Row] /\ TypeOK /\ Shape
        /\ \A p \in Orders : orders[p].status \in Statuses \cup {"GONE"}
    BY <1>1 DEF IInv, TypeOK, Row
  <2>2. CASE \E p \in Orders : PaymentFails(p)
    <3>1. PICK p \in Orders : PaymentFails(p)
      BY <2>2
    <3>2. /\ outbox[p] = "none"
          /\ orders'[p].status = IF orders[p].status = "GONE" THEN "GONE" ELSE "CANCELLED"
          /\ p # o => orders'[o] = orders[o]
      BY <2>1, <3>1 DEF PaymentFails, Row
    <3> QED
      BY <3>2 DEF Paid
  <2>3. CASE \E p \in Orders : DeleteOrder(p) \/ PickupPasses(p)
    <3>1. PICK p \in Orders : DeleteOrder(p) \/ PickupPasses(p)
      BY <2>3
    <3>2. /\ orders'[p].status \in {orders[p].status, "GONE"}
          /\ p # o => orders'[o] = orders[o]
      BY <2>1, <3>1 DEF DeleteOrder, PickupPasses, Row
    <3> QED
      BY <3>2
  <2>4. CASE \E w \in Workers : Start(w) \/ Finish(w)
    <3>1. PICK w \in Workers : Start(w) \/ Finish(w)
      BY <2>4
    <3>2. PICK p \in Orders : p = worker[w].order
      BY <2>1, <3>1 DEF Shape, Start, Finish
    <3>3. \/ SetStatus(p, "QUEUED", "IN_PROGRESS")
          \/ SetStatus(p, "IN_PROGRESS", "READY")
      BY <3>1, <3>2 DEF Start, Finish
    <3>4. /\ \/ orders'[p].status = orders[p].status
             \/ orders[p].status = "QUEUED" /\ orders'[p].status = "IN_PROGRESS"
             \/ orders[p].status = "IN_PROGRESS" /\ orders'[p].status = "READY"
          /\ p # o => orders'[o] = orders[o]
      BY <2>1, <3>3 DEF SetStatus, Matches, Row
    <3> QED
      BY <3>4 DEF Forward
  <2>5. CASE UpdateByHand
    <3>1. CASE Allowed(manual.order, manual.action)
      <4>1. PICK p \in Orders, a \in Actions : p = manual.order /\ a = manual.action
        BY <2>1, <2>5 DEF Shape, UpdateByHand
      <4>2. orders[p].status = Target(a) \/ <<orders[p].status, Target(a)>> \in Forward
        BY <2>1, <3>1, <4>1, ByHandIsAfter
      <4>3. orders'[p].status = Target(a) /\ (p # o => orders'[o] = orders[o])
        BY <2>1, <2>5, <3>1, <4>1 DEF UpdateByHand, Row
      <4> QED
        BY <4>2, <4>3
    <3>2. CASE ~Allowed(manual.order, manual.action)
      BY <2>5, <3>2 DEF UpdateByHand
    <3> QED
      BY <3>1, <3>2
  <2>6. CASE UNCHANGED orders
    BY <2>6
  <2> QED
    BY <1>1, <2>2, <2>3, <2>4, <2>5, <2>6
       DEF Next, KitchenStep, WorkerFault, GatewayStep, Enqueue, RelayJob, FindPeakMode, Deliver,
           PublishStatus, Ack, PublishStatusFails, Chaos, LoseChannel, StopWorker, CommitRelay,
           TellByHand, RollbackRelay, TellByHandFails
<1>2. IInv /\ [Next]_vars => [\A o \in Orders : Moved(o)]_orders
  BY <1>1 DEF vars
<1> QED
  BY <1>2, Inductive, PTL DEF Spec, PaidMovesForward
=============================================================================
