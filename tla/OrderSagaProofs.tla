-------------------------- MODULE OrderSagaProofs ---------------------------
(***************************************************************************)
(* What the steps of POST /api/orders keep true, whatever calls fail, are  *)
(* late or are never served, for any number of requests, items and lines.  *)
(***************************************************************************)
EXTENDS OrderSaga, UnitSums, TLAPS

(* The inductive invariant: what is known of an attempt by where the       *)
(* gateway is with it and by the calls that are still out.                 *)

Labels == Remote \cup Ended \cup {"idle", "insert", "cancel", "outbox", "key"}
Placing == {"outbox", "key", "placed"}

\* The types, but for the amounts on the shelf and in the accounts.
Typed ==
  /\ hold \in [Stock!Holds -> [state : {"none", "held", "sold", "back"}, qty : Nat]]
  /\ paid \subseteq Attempts
  /\ order \in [Attempts -> {"none", "QUEUED", "CANCELLED", "deleted"}]
  /\ outbox \subseteq Attempts
  /\ stored \subseteq [student : Students, key : Keys, order : Attempts]
  /\ pc \in [Attempts -> Labels]
  /\ req \in [Attempts -> Requests \cup {NoRequest}]
  /\ line \in [Attempts -> Nat]
  /\ calls \subseteq Attempts \X (Remote \cup {"update"})

\* A request that has arrived has a line to reserve, and a key if it is to
\* be stored.
Started(a) ==
  IF pc[a] = "idle" THEN line[a] = 1
  ELSE /\ req[a] \in Requests
       /\ line[a] \in 1 .. Len(req[a].lines)
       /\ pc[a] = "key" => req[a].key # None

\* A call is never sent before the request has arrived, and release only when
\* the request has failed.
Called(a) ==
  /\ \A op \in Remote \cup {"update"} : <<a, op>> \in calls => pc[a] # "idle"
  /\ <<a, "release">> \in calls => pc[a] \in {"release", "failed"}

\* An order is stored after the reservations; what is cancelled is not queued.
Withdrawn(a) ==
  /\ pc[a] \in {"idle", "reserve", "insert"} => order[a] = "none"
  /\ a \in outbox => pc[a] \in {"key", "placed", "failed"} /\ order[a] # "CANCELLED"
  /\ order[a] = "CANCELLED" => pc[a] \in {"release", "failed"}

\* Nothing is confirmed, sold or queued before the payment has been made.
Debited(a) ==
  \/ pc[a] \in {"confirm"} \cup Placing
  \/ <<a, "confirm">> \in calls
  \/ <<a, "update">> \in calls
  \/ a \in outbox
  \/ Sold(a) # {}
  => a \in paid

State(a, n) == hold[<<a, req[a].lines[n].item>>].state

\* The lines reserved so far are held until they are sold, all at once.
Progress(a) ==
  /\ pc[a] = "reserve" => \A n \in 1 .. line[a] - 1 : State(a, n) \in {"held", "sold"}
  /\ pc[a] \in {"insert", "pay", "confirm"} =>
       \A n \in 1 .. Len(req[a].lines) : State(a, n) \in {"held", "sold"}
  /\ pc[a] \in Placing \/ a \in outbox =>
       \A n \in 1 .. Len(req[a].lines) : State(a, n) = "sold"

\* The key of a request that was answered as placed is stored, with an order
\* of that key, unless one has been deleted.
KeysOwn ==
  \A e \in stored :
    /\ pc[e.order] # "idle"
    /\ req[e.order].student = e.student /\ req[e.order].key = e.key

KeyKept(a) ==
  pc[a] = "placed" /\ req[a].key # None =>
    \/ Recorded(req[a].student, req[a].key) # {}
    \/ \E c \in Attempts : SameKey(a, c) /\ order[c] = "deleted"

IInv ==
  /\ Typed
  /\ \A a \in Attempts : Started(a) /\ Called(a)
  /\ \A a \in Attempts : Withdrawn(a)
  /\ \A a \in Attempts : Debited(a)
  /\ Prompt => \A a \in Attempts : Progress(a)
  /\ KeysOwn
  /\ \A a \in Attempts : KeyKept(a)

-----------------------------------------------------------------------------
(* The parts of a step                                                     *)

Ops == Remote \cup {"update"}
HoldStates == {"none", "held", "sold", "back"}
Hold == [state : HoldStates, qty : Nat]

LEMMA LineType ==
  ASSUME NEW r \in Requests, NEW n \in 1 .. Len(r.lines)
  PROVE  r.lines[n] \in Lines /\ r.lines[n].item \in Items /\ r.lines[n].qty \in Nat \ {0}
<1>1. r.lines \in Seq(Lines)
  BY SagaAssumption
<1>2. r.lines[n] \in Lines
  BY <1>1
<1> QED
  BY <1>2 DEF Lines

\* The step of one attempt: nothing of the others changes, and what is paid
\* stays paid.
Only(a) ==
  /\ paid \subseteq paid'
  /\ \A b \in Attempts \ {a} :
       /\ pc'[b] = pc[b] /\ req'[b] = req[b] /\ line'[b] = line[b] /\ order'[b] = order[b]
       /\ b \in outbox' <=> b \in outbox
       /\ \A op \in Ops : <<b, op>> \in calls' <=> <<b, op>> \in calls
       /\ \A i \in Items : hold'[<<b, i>>] = hold[<<b, i>>]

LEMMA OthersKept ==
  ASSUME IInv, NEW a \in Attempts, Only(a), NEW b \in Attempts \ {a}
  PROVE  Started(b)' /\ Called(b)' /\ Withdrawn(b)' /\ Debited(b)' /\ (Prompt => Progress(b)')
<1>1. Started(b)' /\ Called(b)' /\ Withdrawn(b)'
  BY DEF IInv, Only, Started, Called, Withdrawn, Ops, Remote
<1>2. Sold(b)' = Sold(b)
  BY DEF Only, Sold
<1>3. Debited(b)'
  BY <1>2 DEF IInv, Only, Debited, Ops, Remote
<1>4. ASSUME Prompt PROVE Progress(b)'
  <2>1. Progress(b) /\ Started(b)
    BY <1>4 DEF IInv
  <2>2. ASSUME req[b] \in Requests, NEW n \in 1 .. Len(req[b].lines)
        PROVE  State(b, n)' = State(b, n)
    <3>1. req[b].lines[n].item \in Items
      BY <2>2, LineType
    <3>2. req'[b] = req[b] /\ \A i \in Items : hold'[<<b, i>>] = hold[<<b, i>>]
      BY DEF Only
    <3> QED
      BY <3>1, <3>2 DEF State
  <2>3. pc'[b] = pc[b] /\ req'[b] = req[b] /\ line'[b] = line[b] /\ (b \in outbox' <=> b \in outbox)
    BY DEF Only
  <2>4. b \in outbox => pc[b] # "idle"
    BY DEF IInv, Withdrawn
  <2>5. CASE pc[b] = "idle"
    BY <2>3, <2>4, <2>5 DEF Progress, Placing
  <2>6. CASE pc[b] # "idle"
    <3>1. req[b] \in Requests /\ line[b] \in 1 .. Len(req[b].lines)
      BY <2>1, <2>6 DEF Started
    <3>2. \A n \in 1 .. Len(req[b].lines) : State(b, n)' = State(b, n)
      BY <2>2, <3>1
    <3>3. \A n \in 1 .. line[b] - 1 : n \in 1 .. Len(req[b].lines)
      BY <3>1
    <3> QED
      BY <2>1, <2>3, <3>2, <3>3 DEF Progress
  <2> QED
    BY <2>5, <2>6
<1> QED
  BY <1>1, <1>3, <1>4

LEMMA OnlyKeeps ==
  ASSUME IInv, NEW a \in Attempts, Only(a), Typed', KeysOwn', \A b \in Attempts : KeyKept(b)',
         Started(a)', Called(a)', Withdrawn(a)', Debited(a)', Prompt => Progress(a)'
  PROVE  IInv'
  BY OthersKept DEF IInv

\* No step but the storing of a key and the deletion of an order bears on the
\* keys that are kept.
LEMMA KeysKept ==
  ASSUME IInv, stored' = stored,
         \A b \in Attempts : pc[b] # "idle" => pc'[b] # "idle" /\ req'[b] = req[b],
         \A b \in Attempts : order[b] = "deleted" => order'[b] = "deleted",
         \A b \in Attempts : pc'[b] = "placed" =>
                               pc[b] = "placed" \/ (pc[b] # "idle" /\ req[b].key = None)
  PROVE  KeysOwn' /\ \A b \in Attempts : KeyKept(b)'
<1>1. KeysOwn'
  BY DEF IInv, Typed, KeysOwn
<1>2. ASSUME NEW b \in Attempts, pc'[b] = "placed", req'[b].key # None
      PROVE  \/ Recorded(req[b].student, req[b].key)' # {}
             \/ \E c \in Attempts : SameKey(b, c)' /\ order'[c] = "deleted"
  <2>1. pc[b] = "placed" /\ req'[b] = req[b]
    BY <1>2
  <2>2. \/ Recorded(req[b].student, req[b].key) # {}
        \/ \E c \in Attempts : SameKey(b, c) /\ order[c] = "deleted"
    BY <1>2, <2>1 DEF IInv, KeyKept
  <2>3. CASE Recorded(req[b].student, req[b].key) # {}
    BY <2>1, <2>3 DEF Recorded
  <2>4. CASE \E c \in Attempts : SameKey(b, c) /\ order[c] = "deleted"
    BY <2>1, <2>4 DEF SameKey
  <2> QED
    BY <2>2, <2>3, <2>4
<1> QED
  BY <1>1, <1>2 DEF KeyKept

LEMMA GotoEffect ==
  ASSUME IInv, NEW a \in Attempts, NEW next \in Labels, Goto(a, next)
  PROVE  /\ pc' \in [Attempts -> Labels] /\ calls' \subseteq Attempts \X Ops
         /\ pc'[a] = next
         /\ \A b \in Attempts \ {a} : pc'[b] = pc[b]
         /\ \A b \in Attempts \ {a} : \A op \in Ops : <<b, op>> \in calls' <=> <<b, op>> \in calls
         /\ \A op \in Ops : <<a, op>> \in calls' =>
              <<a, op>> \in calls \/ (op = next /\ next \in Remote)
  BY DEF Goto, CallFor, IInv, Typed, Ops

LEMMA ReturnEffect ==
  ASSUME IInv, NEW a \in Attempts, NEW op \in Ops, NEW next \in Labels, Return(a, op, next)
  PROVE  /\ pc' \in [Attempts -> Labels] /\ calls' \subseteq Attempts \X Ops
         /\ pc'[a] = IF Awaits(a, op) THEN next ELSE pc[a]
         /\ \A b \in Attempts \ {a} : pc'[b] = pc[b]
         /\ \A b \in Attempts \ {a} : \A o \in Ops : <<b, o>> \in calls' <=> <<b, o>> \in calls
         /\ \A o \in Ops : <<a, o>> \in calls' =>
              <<a, o>> \in calls \/ (Awaits(a, op) /\ o = next /\ next \in Remote)
<1>1. CASE Awaits(a, op)
  BY <1>1 DEF Return, CallFor, IInv, Typed, Ops
<1>2. CASE ~Awaits(a, op)
  BY <1>2 DEF Return, IInv, Typed, Ops
<1> QED
  BY <1>1, <1>2

-----------------------------------------------------------------------------
(* The stock, as a step of Inventory changes it                            *)

LEMMA PromiseEffect ==
  ASSUME Typed, NEW k \in Stock!Holds, NEW n \in Nat \ {0}, Stock!Promise(k, n)
  PROVE  /\ hold' \in [Stock!Holds -> Hold]
         /\ hold[k].state = "none" /\ hold'[k].state = "held" /\ hold'[k].qty = n
         /\ \A j \in Stock!Holds \ {k} : hold'[j] = hold[j]
<1>1. hold \in [Stock!Holds -> Hold]
  BY DEF Typed, Hold, HoldStates
<1>2. PICK h : h = [state |-> "held", qty |-> n]
  OBVIOUS
<1>3. h \in Hold /\ h.state = "held" /\ h.qty = n
  BY <1>2 DEF Hold, HoldStates
<1>4. hold' = [hold EXCEPT ![k] = h]
  BY <1>2 DEF Stock!Promise
<1>5. hold[k].state = "none"
  BY DEF Stock!Promise, Stock!Nothing
<1> QED
  BY <1>1, <1>3, <1>4, <1>5

\* The holds of S go to state s, where they were held.
Goes(S, s) ==
  /\ hold' \in [Stock!Holds -> Hold]
  /\ \A k \in Stock!Holds : /\ k \in S => hold[k].state = "held" /\ hold'[k].state = s
                            /\ k \notin S => hold'[k] = hold[k]

LEMMA PutBackEffect ==
  ASSUME Typed, NEW S, Stock!PutBack(S)
  PROVE  Goes(S, "back")
<1>1. hold \in [Stock!Holds -> Hold]
  BY DEF Typed, Hold, HoldStates
<1>2. ASSUME NEW k \in Stock!Holds
      PROVE  /\ hold'[k] \in Hold
             /\ k \in S => hold[k].state = "held" /\ hold'[k].state = "back"
             /\ k \notin S => hold'[k] = hold[k]
  <2>1. hold'[k] = IF k \in S THEN [hold[k] EXCEPT !.state = "back"] ELSE hold[k]
    BY DEF Stock!PutBack
  <2>2. [hold[k] EXCEPT !.state = "back"] \in Hold /\ [hold[k] EXCEPT !.state = "back"].state = "back"
    BY <1>1 DEF Hold, HoldStates
  <2> QED
    BY <1>1, <2>1, <2>2 DEF Stock!PutBack
<1>3. hold' = [k \in Stock!Holds |-> hold'[k]]
  BY DEF Stock!PutBack
<1> QED
  BY <1>2, <1>3 DEF Goes

LEMMA SellEffect ==
  ASSUME Typed, NEW a \in Attempts, Stock!Sell(a)
  PROVE  Goes(Stock!HeldBy(a), "sold")
<1>1. hold \in [Stock!Holds -> Hold]
  BY DEF Typed, Hold, HoldStates
<1>2. ASSUME NEW k \in Stock!Holds
      PROVE  /\ hold'[k] \in Hold
             /\ k \in Stock!HeldBy(a) => hold[k].state = "held" /\ hold'[k].state = "sold"
             /\ k \notin Stock!HeldBy(a) => hold'[k] = hold[k]
  <2>1. hold'[k] = IF k \in Stock!HeldBy(a) THEN [hold[k] EXCEPT !.state = "sold"] ELSE hold[k]
    BY DEF Stock!Sell
  <2>2. [hold[k] EXCEPT !.state = "sold"] \in Hold /\ [hold[k] EXCEPT !.state = "sold"].state = "sold"
    BY <1>1 DEF Hold, HoldStates
  <2> QED
    BY <1>1, <2>1, <2>2 DEF Stock!HeldBy
<1>3. hold' = [k \in Stock!Holds |-> hold'[k]]
  BY DEF Stock!Sell
<1> QED
  BY <1>2, <1>3 DEF Goes

-----------------------------------------------------------------------------
(* The gateway's steps                                                     *)

\* A call that fails, is lost or is late ends the request or cancels it.
LEMMA GivenUpKeeps ==
  ASSUME IInv, NEW a \in Attempts, NEW op \in Ops, CallFails(a, op) \/ CallTimesOut(a, op)
  PROVE  IInv'
<1>1. /\ Awaits(a, op) /\ pc[a] \in Remote
      /\ OnError(op) \in {"failed", "cancel"} /\ (pc[a] = "release" => OnError(op) = "failed")
  BY DEF CallFails, CallTimesOut, Awaits, Ops, Remote, OnError
<1>2. /\ pc' \in [Attempts -> Labels] /\ calls' \subseteq Attempts \X Ops
      /\ pc'[a] = OnError(op)
      /\ \A b \in Attempts \ {a} : pc'[b] = pc[b]
      /\ \A b \in Attempts \ {a} : \A o \in Ops : <<b, o>> \in calls' <=> <<b, o>> \in calls
      /\ \A o \in Ops : <<a, o>> \in calls' => <<a, o>> \in calls
  <2>1. OnError(op) \in Labels /\ OnError(op) \notin Remote
    BY <1>1 DEF Labels, Ended, Remote
  <2>2. CASE CallFails(a, op)
    BY <1>1, <2>1, <2>2, ReturnEffect DEF CallFails
  <2>3. CASE CallTimesOut(a, op)
    BY <1>1, <2>1, <2>3, GotoEffect DEF CallTimesOut
  <2> QED
    BY <2>2, <2>3
<1>3. UNCHANGED <<tables, req, line>>
  BY DEF CallFails, CallTimesOut
<1>4. Only(a) /\ Typed'
  BY <1>2, <1>3 DEF Only, tables, stock, IInv, Typed, Ops
<1>5. Started(a) /\ Called(a) /\ Withdrawn(a) /\ Debited(a)
  BY DEF IInv
<1>6. Started(a)' /\ Called(a)' /\ Withdrawn(a)'
  BY <1>1, <1>2, <1>3, <1>5 DEF Started, Called, Withdrawn, tables, Ops, Remote
<1>7. Debited(a)'
  BY <1>1, <1>2, <1>3, <1>5 DEF Debited, Sold, Placing, tables, stock, Ops, Remote
<1>8. Progress(a)'
  BY <1>1, <1>2, <1>3, <1>5 DEF Progress, Withdrawn, Placing, tables, Remote
<1>9. KeysOwn' /\ \A b \in Attempts : KeyKept(b)'
  BY <1>1, <1>2, <1>3, KeysKept DEF tables, Remote
<1> QED
  BY <1>4, <1>6, <1>7, <1>8, <1>9, OnlyKeeps

LEMMA ArriveKeeps ==
  ASSUME IInv, NEW a \in Attempts, NEW r \in Requests, Arrive(a, r)
  PROVE  IInv'
<1>1. PICK next \in {"replayed", "reserve", "failed"} : Goto(a, next)
  BY DEF Arrive
<1>2. /\ pc' \in [Attempts -> Labels] /\ calls' \subseteq Attempts \X Ops
      /\ pc'[a] = next
      /\ \A b \in Attempts \ {a} : pc'[b] = pc[b]
      /\ \A b \in Attempts \ {a} : \A o \in Ops : <<b, o>> \in calls' <=> <<b, o>> \in calls
      /\ \A o \in Ops : <<a, o>> \in calls' =>
           <<a, o>> \in calls \/ (o = next /\ next \in Remote)
  BY <1>1, GotoEffect DEF Labels, Remote, Ended
<1>3. /\ pc[a] = "idle" /\ req' = [req EXCEPT ![a] = r]
      /\ UNCHANGED <<tables, line>>
  BY DEF Arrive
<1>4. /\ req' \in [Attempts -> Requests \cup {NoRequest}] /\ req'[a] = r
      /\ \A b \in Attempts \ {a} : req'[b] = req[b]
  BY <1>3 DEF IInv, Typed
<1>5. Only(a) /\ Typed'
  BY <1>2, <1>3, <1>4 DEF Only, tables, stock, IInv, Typed, Ops
<1>6. Started(a) /\ Called(a) /\ Withdrawn(a) /\ Debited(a)
  BY DEF IInv
<1>7. Started(a)'
  <2>1. r.lines \in Seq(Lines) \ {<<>>}
    BY SagaAssumption
  <2>2. 1 \in 1 .. Len(r.lines)
    BY <2>1
  <2> QED
    BY <1>2, <1>3, <1>4, <1>6, <2>2 DEF Started
<1>8. Called(a)' /\ Withdrawn(a)'
  BY <1>2, <1>3, <1>6 DEF Called, Withdrawn, tables, Ops, Remote
<1>9. Debited(a)'
  BY <1>2, <1>3, <1>6 DEF Called, Withdrawn, Debited, Sold, Placing, tables, stock, Ops, Remote
<1>10. Progress(a)'
  BY <1>2, <1>3, <1>6 DEF Started, Withdrawn, Progress, Placing, tables
<1>11. KeysOwn' /\ \A b \in Attempts : KeyKept(b)'
  BY <1>2, <1>3, <1>4, KeysKept DEF tables, IInv, Typed
<1> QED
  BY <1>5, <1>7, <1>8, <1>9, <1>10, <1>11, OnlyKeeps

LEMMA InsertOrderKeeps ==
  ASSUME IInv, NEW a \in Attempts, InsertOrder(a)
  PROVE  IInv'
<1>1. PICK s \in {"none", "QUEUED"}, next \in {"pay", "release"} :
        order' = [order EXCEPT ![a] = s] /\ Goto(a, next)
  BY DEF InsertOrder
<1>2. /\ pc' \in [Attempts -> Labels] /\ calls' \subseteq Attempts \X Ops
      /\ pc'[a] = next
      /\ \A b \in Attempts \ {a} : pc'[b] = pc[b]
      /\ \A b \in Attempts \ {a} : \A o \in Ops : <<b, o>> \in calls' <=> <<b, o>> \in calls
      /\ \A o \in Ops : <<a, o>> \in calls' =>
           <<a, o>> \in calls \/ (o = next /\ next \in Remote)
  BY <1>1, GotoEffect DEF Labels, Remote
<1>3. pc[a] = "insert" /\ UNCHANGED <<stock, balance, paid, outbox, stored, req, line>>
  BY DEF InsertOrder
<1>4. /\ order' \in [Attempts -> {"none", "QUEUED", "CANCELLED", "deleted"}] /\ order'[a] = s
      /\ \A b \in Attempts \ {a} : order'[b] = order[b]
  BY <1>1 DEF IInv, Typed
<1>5. Only(a) /\ Typed'
  BY <1>2, <1>3, <1>4 DEF Only, stock, IInv, Typed, Ops
<1>6. Started(a) /\ Called(a) /\ Withdrawn(a) /\ Debited(a)
  BY DEF IInv
<1>7. Started(a)' /\ Called(a)' /\ Withdrawn(a)'
  BY <1>2, <1>3, <1>4, <1>6 DEF Started, Called, Withdrawn, Ops, Remote
<1>8. Debited(a)'
  BY <1>2, <1>3, <1>6 DEF Debited, Sold, Placing, stock, Ops, Remote
<1>9. ASSUME Prompt PROVE Progress(a)'
  <2>1. Progress(a)
    BY <1>9 DEF IInv
  <2> QED
    BY <1>2, <1>3, <1>6, <2>1 DEF Withdrawn, Progress, State, Placing, stock
<1>10. KeysOwn' /\ \A b \in Attempts : KeyKept(b)'
  BY <1>2, <1>3, <1>4, <1>6, KeysKept DEF Withdrawn
<1> QED
  BY <1>5, <1>7, <1>8, <1>9, <1>10, OnlyKeeps

LEMMA MarkCancelledKeeps ==
  ASSUME IInv, NEW a \in Attempts, MarkCancelled(a)
  PROVE  IInv'
<1>1. Goto(a, "release") /\ pc[a] = "cancel"
        /\ UNCHANGED <<stock, balance, paid, outbox, stored, req, line>>
  BY DEF MarkCancelled
<1>2. /\ pc' \in [Attempts -> Labels] /\ calls' \subseteq Attempts \X Ops
      /\ pc'[a] = "release"
      /\ \A b \in Attempts \ {a} : pc'[b] = pc[b]
      /\ \A b \in Attempts \ {a} : \A o \in Ops : <<b, o>> \in calls' <=> <<b, o>> \in calls
      /\ \A o \in Ops : <<a, o>> \in calls' => <<a, o>> \in calls \/ o = "release"
  BY <1>1, GotoEffect DEF Labels, Remote
<1>3. /\ order' \in [Attempts -> {"none", "QUEUED", "CANCELLED", "deleted"}]
      /\ order[a] = "deleted" => order'[a] = "deleted"
      /\ \A b \in Attempts \ {a} : order'[b] = order[b]
  BY DEF MarkCancelled, IInv, Typed
<1>4. Only(a) /\ Typed'
  BY <1>1, <1>2, <1>3 DEF Only, stock, IInv, Typed, Ops
<1>5. Started(a) /\ Called(a) /\ Withdrawn(a) /\ Debited(a)
  BY DEF IInv
<1>6. Started(a)' /\ Called(a)' /\ Withdrawn(a)'
  BY <1>1, <1>2, <1>3, <1>5 DEF Started, Called, Withdrawn, Ops, Remote
<1>7. Debited(a)'
  BY <1>1, <1>2, <1>5 DEF Debited, Sold, Placing, stock, Ops, Remote
<1>8. Progress(a)'
  BY <1>1, <1>2, <1>5 DEF Withdrawn, Progress, Placing
<1>9. KeysOwn' /\ \A b \in Attempts : KeyKept(b)'
  BY <1>1, <1>2, <1>3, KeysKept
<1> QED
  BY <1>4, <1>6, <1>7, <1>8, <1>9, OnlyKeeps

\* The job is queued for an order that is paid, sold and not cancelled.
LEMMA EnqueueKeeps ==
  ASSUME IInv, NEW a \in Attempts, Enqueue(a)
  PROVE  IInv'
<1>1. PICK next \in {"placed", "key", "failed"} :
        /\ Goto(a, next)
        /\ next = "placed" => req[a].key = None
        /\ next = "key" => req[a].key # None
        /\ next \in {"placed", "key"} => outbox' = outbox \cup {a}
  BY DEF Enqueue
<1>2. /\ pc' \in [Attempts -> Labels] /\ calls' \subseteq Attempts \X Ops
      /\ pc'[a] = next
      /\ \A b \in Attempts \ {a} : pc'[b] = pc[b]
      /\ \A b \in Attempts \ {a} : \A o \in Ops : <<b, o>> \in calls' <=> <<b, o>> \in calls
      /\ \A o \in Ops : <<a, o>> \in calls' => <<a, o>> \in calls
  BY <1>1, GotoEffect DEF Labels, Remote, Ended
<1>3. /\ pc[a] = "outbox" /\ outbox' \in {outbox, outbox \cup {a}}
      /\ UNCHANGED <<stock, balance, paid, order, stored, req, line>>
  BY DEF Enqueue
<1>4. Only(a) /\ Typed'
  BY <1>2, <1>3 DEF Only, stock, IInv, Typed, Ops
<1>5. Started(a) /\ Called(a) /\ Withdrawn(a) /\ Debited(a)
  BY DEF IInv
<1>6. Started(a)' /\ Called(a)' /\ Withdrawn(a)'
  BY <1>1, <1>2, <1>3, <1>5 DEF Started, Called, Withdrawn, Ops, Remote
<1>7. Debited(a)'
  BY <1>3, <1>5 DEF Debited, Placing
<1>8. ASSUME Prompt PROVE Progress(a)'
  <2>1. Progress(a)
    BY <1>8 DEF IInv
  <2> QED
    BY <1>2, <1>3, <2>1 DEF Progress, State, Placing, stock
<1>9. KeysOwn' /\ \A b \in Attempts : KeyKept(b)'
  BY <1>1, <1>2, <1>3, KeysKept
<1> QED
  BY <1>4, <1>6, <1>7, <1>8, <1>9, OnlyKeeps

-----------------------------------------------------------------------------
(* The services' steps                                                     *)

\* What a is promised, or has been promised before.
LEMMA PromisedKeeps ==
  ASSUME IInv, NEW a \in Attempts, <<a, "reserve">> \in calls, Reserved(a),
         hold' \in [Stock!Holds -> Hold],
         hold'[<<a, Line(a).item>>].state \in {"held", "sold"},
         \A k \in Stock!Holds : \/ hold'[k] = hold[k]
                                \/ k[1] = a /\ hold[k].state = "none" /\ hold'[k].state = "held",
         UNCHANGED <<balance, paid, order, outbox, stored, req>>
  PROVE  IInv'
<1> DEFINE next == IF line[a] < Len(req[a].lines) THEN "reserve" ELSE "insert"
<1>1. Started(a) /\ Called(a) /\ Withdrawn(a) /\ Debited(a)
  BY DEF IInv
<1>2. pc[a] # "idle" /\ req[a] \in Requests /\ line[a] \in 1 .. Len(req[a].lines)
  BY <1>1 DEF Called, Started, Remote
<1>3. Len(req[a].lines) \in Nat
  <2>1. req[a].lines \in Seq(Lines)
    BY <1>2, SagaAssumption
  <2> QED
    BY <2>1
<1>4. Awaits(a, "reserve") <=> pc[a] = "reserve"
  BY DEF Awaits
<1>5. /\ pc' \in [Attempts -> Labels] /\ calls' \subseteq Attempts \X Ops
      /\ pc'[a] = IF pc[a] = "reserve" THEN next ELSE pc[a]
      /\ \A b \in Attempts \ {a} : pc'[b] = pc[b]
      /\ \A b \in Attempts \ {a} : \A o \in Ops : <<b, o>> \in calls' <=> <<b, o>> \in calls
      /\ \A o \in Ops : <<a, o>> \in calls' => <<a, o>> \in calls \/ o = next
  <2>1. next \in Labels /\ "reserve" \in Ops
    BY DEF Labels, Remote, Ops
  <2>2. Return(a, "reserve", next)
    BY DEF Reserved
  <2> HIDE DEF next
  <2> QED
    BY <1>4, <2>1, <2>2, ReturnEffect
<1>6. /\ line' \in [Attempts -> Nat]
      /\ line'[a] = IF pc[a] = "reserve" /\ line[a] < Len(req[a].lines) THEN line[a] + 1 ELSE line[a]
      /\ \A b \in Attempts \ {a} : line'[b] = line[b]
  BY <1>2, <1>4 DEF Reserved, IInv, Typed
<1>7. Only(a)
  <2>1. ASSUME NEW b \in Attempts \ {a}, NEW i \in Items PROVE hold'[<<b, i>>] = hold[<<b, i>>]
    BY DEF Stock!Holds
  <2> QED
    BY <1>5, <1>6, <2>1 DEF Only
<1>8. Typed'
  BY <1>5, <1>6 DEF IInv, Typed, Ops, Hold, HoldStates
<1>9. Started(a)' /\ Called(a)' /\ Withdrawn(a)'
  BY <1>1, <1>2, <1>3, <1>5, <1>6 DEF Started, Called, Withdrawn, Ops, Remote
<1>10. Debited(a)'
  <2>1. Sold(a)' = Sold(a)
    <3>1. \A i \in Items : hold'[<<a, i>>].state = "sold" <=> hold[<<a, i>>].state = "sold"
      BY DEF Stock!Holds
    <3> QED
      BY <3>1 DEF Sold
  <2> QED
    BY <1>1, <1>5, <2>1 DEF Debited, Placing, Ops, Remote
<1>11. ASSUME Prompt PROVE Progress(a)'
  <2>1. Progress(a)
    BY <1>11 DEF IInv
  <2>2. \A n \in 1 .. Len(req[a].lines) :
          /\ State(a, n) \in {"held", "sold"} => State(a, n)' \in {"held", "sold"}
          /\ State(a, n) = "sold" => State(a, n)' = "sold"
    <3>1. ASSUME NEW n \in 1 .. Len(req[a].lines) PROVE <<a, req[a].lines[n].item>> \in Stock!Holds
      BY <1>2, LineType DEF Stock!Holds
    <3> QED
      BY <3>1 DEF State
  <2>3. PICK m \in 1 .. Len(req[a].lines) : m = line[a] /\ State(a, m)' \in {"held", "sold"}
    BY <1>2 DEF State, Line
  <2>4. ASSUME pc'[a] = "reserve", NEW n \in 1 .. line'[a] - 1
        PROVE  State(a, n)' \in {"held", "sold"}
    <3>1. pc[a] = "reserve"
      BY <1>5, <2>4
    <3>2. n \in 1 .. line[a] - 1 \/ n = m
      BY <1>2, <1>3, <1>6, <2>3, <2>4
    <3>3. n \in 1 .. line[a] - 1 => n \in 1 .. Len(req[a].lines) /\ State(a, n) \in {"held", "sold"}
      BY <1>2, <1>3, <2>1, <3>1 DEF Progress
    <3> QED
      BY <2>2, <2>3, <3>2, <3>3
  <2>5. ASSUME pc'[a] \in {"insert", "pay", "confirm"}, NEW n \in 1 .. Len(req[a].lines)
        PROVE  State(a, n)' \in {"held", "sold"}
    <3>1. CASE pc[a] = "reserve"
      <4>1. line[a] = Len(req[a].lines)
        BY <1>2, <1>3, <1>5, <2>5, <3>1
      <4>2. n \in 1 .. line[a] - 1 \/ n = m
        BY <1>2, <1>3, <2>3, <4>1
      <4>3. n \in 1 .. line[a] - 1 => State(a, n) \in {"held", "sold"}
        BY <2>1, <3>1 DEF Progress
      <4> QED
        BY <2>2, <2>3, <4>2, <4>3
    <3>2. CASE pc[a] # "reserve"
      BY <1>5, <2>1, <2>2, <2>5, <3>2 DEF Progress
    <3> QED
      BY <3>1, <3>2
  <2>6. ASSUME pc'[a] \in Placing \/ a \in outbox, NEW n \in 1 .. Len(req[a].lines)
        PROVE  State(a, n)' = "sold"
    <3>1. pc[a] \in Placing \/ a \in outbox
      BY <1>5, <2>6 DEF Placing
    <3> QED
      BY <2>1, <2>2, <3>1 DEF Progress
  <2> QED
    BY <2>4, <2>5, <2>6 DEF Progress
<1>12. KeysOwn' /\ \A b \in Attempts : KeyKept(b)'
  BY <1>2, <1>5, KeysKept
<1> QED
  BY <1>7, <1>8, <1>9, <1>10, <1>11, <1>12, OnlyKeeps

\* A service that refuses what it is asked changes nothing.
LEMMA RefusedKeeps ==
  ASSUME IInv, NEW a \in Attempts, NEW op \in Ops, NEW next \in {"failed", "cancel"},
         Return(a, op, next), Awaits(a, op) /\ pc[a] = "release" => next = "failed",
         UNCHANGED <<tables, req, line>>
  PROVE  IInv'
<1>1. /\ pc' \in [Attempts -> Labels] /\ calls' \subseteq Attempts \X Ops
      /\ pc'[a] = IF Awaits(a, op) THEN next ELSE pc[a]
      /\ \A b \in Attempts \ {a} : pc'[b] = pc[b]
      /\ \A b \in Attempts \ {a} : \A o \in Ops : <<b, o>> \in calls' <=> <<b, o>> \in calls
      /\ \A o \in Ops : <<a, o>> \in calls' => <<a, o>> \in calls
  BY ReturnEffect DEF Labels, Ended, Remote
<1>2. Awaits(a, op) => pc[a] \in Remote
  BY DEF Awaits, Ops, Remote
<1>3. Only(a) /\ Typed'
  BY <1>1 DEF Only, tables, stock, IInv, Typed, Ops
<1>4. Started(a) /\ Called(a) /\ Withdrawn(a) /\ Debited(a)
  BY DEF IInv
<1>5. Started(a)' /\ Called(a)' /\ Withdrawn(a)'
  BY <1>1, <1>2, <1>4 DEF Started, Called, Withdrawn, tables, Ops, Remote
<1>6. Debited(a)'
  BY <1>1, <1>4 DEF Debited, Sold, Placing, tables, stock, Ops, Remote
<1>7. ASSUME Prompt PROVE Progress(a)'
  <2>1. Progress(a)
    BY <1>7 DEF IInv
  <2>2. UNCHANGED <<hold, outbox, req, line>>
    BY DEF tables, stock
  <2> QED
    BY <1>1, <2>1, <2>2 DEF Progress, State, Placing
<1>8. KeysOwn' /\ \A b \in Attempts : KeyKept(b)'
  BY <1>1, <1>2, KeysKept DEF tables, Remote
<1> QED
  BY <1>3, <1>5, <1>6, <1>7, <1>8, OnlyKeeps

LEMMA ServeReserveKeeps ==
  ASSUME IInv, NEW a \in Attempts, ServeReserve(a)
  PROVE  IInv'
<1> DEFINE k == <<a, Line(a).item>>
           n == Line(a).qty
<1>1. Started(a) /\ Called(a) /\ <<a, "reserve">> \in calls
        /\ UNCHANGED <<balance, paid, order, outbox, stored, req>>
  BY DEF IInv, ServeReserve
<1>2. req[a] \in Requests /\ line[a] \in 1 .. Len(req[a].lines)
  BY <1>1 DEF Called, Started, Remote
<1>3. k \in Stock!Holds /\ n \in Nat \ {0}
  BY <1>2, LineType DEF Stock!Holds, Line
<1>4. CASE Stock!Promise(k, n) /\ Reserved(a)
  <2>1. /\ hold' \in [Stock!Holds -> Hold]
        /\ hold[k].state = "none" /\ hold'[k].state = "held"
        /\ \A j \in Stock!Holds \ {k} : hold'[j] = hold[j]
    BY <1>3, <1>4, PromiseEffect DEF IInv
  <2>2. \A j \in Stock!Holds : \/ hold'[j] = hold[j]
                               \/ j[1] = a /\ hold[j].state = "none" /\ hold'[j].state = "held"
    BY <2>1
  <2> QED
    BY <1>1, <1>4, <2>1, <2>2, PromisedKeeps
<1>5. CASE hold[k].state \in {"held", "sold"} /\ Reserved(a) /\ UNCHANGED stock
  <2>1. hold' = hold /\ hold \in [Stock!Holds -> Hold]
    BY <1>5 DEF stock, IInv, Typed, Hold, HoldStates
  <2> QED
    BY <1>1, <1>5, <2>1, PromisedKeeps
<1>6. CASE Return(a, "reserve", OnError("reserve")) /\ UNCHANGED <<stock, line>>
  <2>1. OnError("reserve") = "failed"
    BY DEF OnError
  <2> QED
    BY <1>1, <1>6, <2>1, RefusedKeeps DEF tables, Ops, Remote
<1> QED
  BY <1>4, <1>5, <1>6 DEF ServeReserve

LEMMA ServePayKeeps ==
  ASSUME IInv, NEW a \in Attempts, ServePay(a)
  PROVE  IInv'
<1>1. CASE ~Payable(a)
  <2>1. OnError("pay") = "cancel" /\ Return(a, "pay", "cancel") /\ UNCHANGED <<tables, req, line>>
    BY <1>1 DEF ServePay, OnError, tables
  <2>2. Awaits(a, "pay") => pc[a] # "release"
    BY DEF Awaits
  <2> QED
    BY <2>1, <2>2, RefusedKeeps DEF Ops, Remote
<1>2. CASE Payable(a)
  <2>1. /\ order[a] = "QUEUED" /\ paid' = paid \cup {a} /\ Return(a, "pay", "confirm")
        /\ UNCHANGED <<stock, order, outbox, stored, req, line>>
    BY <1>2 DEF ServePay, Payable
  <2>2. Awaits(a, "pay") <=> pc[a] = "pay"
    BY DEF Awaits
  <2>3. /\ pc' \in [Attempts -> Labels] /\ calls' \subseteq Attempts \X Ops
        /\ pc'[a] = IF pc[a] = "pay" THEN "confirm" ELSE pc[a]
        /\ \A b \in Attempts \ {a} : pc'[b] = pc[b]
        /\ \A b \in Attempts \ {a} : \A o \in Ops : <<b, o>> \in calls' <=> <<b, o>> \in calls
        /\ \A o \in Ops : <<a, o>> \in calls' => <<a, o>> \in calls \/ o = "confirm"
    BY <2>1, <2>2, ReturnEffect DEF Labels, Ops, Remote
  <2>4. Only(a) /\ Typed'
    BY <2>1, <2>3 DEF Only, stock, IInv, Typed, Ops
  <2>5. Started(a) /\ Called(a) /\ Withdrawn(a)
    BY DEF IInv
  <2>6. pc[a] # "idle"
    BY <2>1, <2>5 DEF Withdrawn
  <2>7. Started(a)' /\ Called(a)' /\ Withdrawn(a)'
    BY <2>1, <2>3, <2>5, <2>6 DEF Started, Called, Withdrawn, Ops, Remote
  <2>8. Debited(a)'
    BY <2>1 DEF Debited
  <2>9. ASSUME Prompt PROVE Progress(a)'
    <3>1. Progress(a)
      BY <2>9 DEF IInv
    <3> QED
      BY <2>1, <2>3, <3>1 DEF Progress, State, Placing, stock
  <2>10. KeysOwn' /\ \A b \in Attempts : KeyKept(b)'
    BY <2>1, <2>3, KeysKept
  <2> QED
    BY <2>4, <2>7, <2>8, <2>9, <2>10, OnlyKeeps
<1> QED
  BY <1>1, <1>2

\* The holds of a are sold or put back, by a call that is out; the gateway, if
\* it waits for it, goes on.  What it relies on is said of the lines.
LEMMA SettledKeeps ==
  ASSUME IInv, NEW a \in Attempts, NEW next \in {"outbox", "failed"}, NEW op \in Ops,
         <<a, op>> \in calls, Return(a, op, next),
         hold' \in [Stock!Holds -> Hold],
         \A k \in Stock!Holds : k[1] # a => hold'[k] = hold[k],
         \A k \in Stock!Holds : hold[k].state = "sold" => hold'[k].state = "sold",
         Sold(a)' # {} => Sold(a) # {} \/ a \in paid,
         next = "outbox" => a \in paid,
         next = "outbox" /\ Awaits(a, op) => pc[a] # "release",
         Prompt /\ ~Awaits(a, op) =>
           \A k \in Stock!Holds : k[1] = a /\ hold[k].state = "held"
                                    => \/ hold'[k].state \in {"held", "sold"}
                                       \/ pc[a] \in {"release"} \cup Ended,
         Prompt /\ Awaits(a, op) /\ next = "outbox" =>
           \A n \in 1 .. Len(req[a].lines) : State(a, n)' = "sold",
         UNCHANGED <<balance, paid, order, outbox, stored, req, line>>
  PROVE  IInv'
<1>1. /\ pc' \in [Attempts -> Labels] /\ calls' \subseteq Attempts \X Ops
      /\ pc'[a] = IF Awaits(a, op) THEN next ELSE pc[a]
      /\ \A b \in Attempts \ {a} : pc'[b] = pc[b]
      /\ \A b \in Attempts \ {a} : \A o \in Ops : <<b, o>> \in calls' <=> <<b, o>> \in calls
      /\ \A o \in Ops : <<a, o>> \in calls' => <<a, o>> \in calls
  BY ReturnEffect DEF Labels, Ended, Remote
<1>2. Awaits(a, op) => pc[a] \in Remote
  BY DEF Awaits, Ops, Remote
<1>3. Only(a)
  <2>1. ASSUME NEW b \in Attempts \ {a}, NEW i \in Items PROVE hold'[<<b, i>>] = hold[<<b, i>>]
    BY DEF Stock!Holds
  <2> QED
    BY <1>1, <2>1 DEF Only
<1>4. Typed'
  BY <1>1 DEF IInv, Typed, Ops, Hold, HoldStates
<1>5. Started(a) /\ Called(a) /\ Withdrawn(a) /\ Debited(a)
  BY DEF IInv
<1>6. pc[a] # "idle" /\ req[a] \in Requests
  BY <1>5 DEF Called, Started, Ops
<1>7. Started(a)' /\ Called(a)' /\ Withdrawn(a)'
  <2>1. Withdrawn(a)'
    BY <1>1, <1>2, <1>5 DEF Withdrawn, Remote
  <2> QED
    BY <1>1, <1>2, <1>5, <2>1 DEF Started, Called, Ops, Remote
<1>8. Debited(a)'
  BY <1>1, <1>5 DEF Debited, Placing, Ops, Remote
<1>9. ASSUME Prompt PROVE Progress(a)'
  <2>1. Progress(a)
    BY <1>9 DEF IInv
  <2>2. \A n \in 1 .. Len(req[a].lines) : <<a, req[a].lines[n].item>> \in Stock!Holds
    BY <1>6, LineType DEF Stock!Holds
  <2>3. \A n \in 1 .. Len(req[a].lines) : State(a, n) = "sold" => State(a, n)' = "sold"
    BY <2>2 DEF State
  <2>4. CASE Awaits(a, op)
    <3>1. a \notin outbox
      BY <1>2, <1>5, <2>4 DEF Withdrawn, Remote
    <3> QED
      BY <1>1, <1>9, <2>4, <3>1 DEF Progress, Placing
  <2>5. CASE ~Awaits(a, op)
    <3>1. pc[a] \notin {"release"} \cup Ended =>
            \A n \in 1 .. Len(req[a].lines) :
              State(a, n) \in {"held", "sold"} => State(a, n)' \in {"held", "sold"}
      BY <1>9, <2>2, <2>3, <2>5 DEF State
    <3>2. pc'[a] = pc[a] /\ line'[a] = line[a] /\ req'[a] = req[a] /\ outbox' = outbox
      BY <1>1, <2>5
    <3>3. pc[a] = "reserve" => \A n \in 1 .. line[a] - 1 : n \in 1 .. Len(req[a].lines)
      BY <1>5, <1>6 DEF Started
    <3>4. pc[a] \in {"reserve", "insert", "pay", "confirm"} => pc[a] \notin {"release"} \cup Ended
      BY DEF Ended
    <3> QED
      BY <2>1, <2>3, <3>1, <3>2, <3>3, <3>4 DEF Progress
  <2> QED
    BY <2>4, <2>5
<1>10. KeysOwn' /\ \A b \in Attempts : KeyKept(b)'
  BY <1>1, <1>6, KeysKept
<1> QED
  BY <1>3, <1>4, <1>7, <1>8, <1>9, <1>10, OnlyKeeps

LEMMA ServeConfirmKeeps ==
  ASSUME IInv, NEW a \in Attempts, ServeConfirm(a)
  PROVE  IInv'
<1>1. /\ Started(a) /\ Called(a) /\ Withdrawn(a) /\ Debited(a)
      /\ <<a, "confirm">> \in calls /\ UNCHANGED <<tables, req, line>>
  BY DEF IInv, ServeConfirm
<1>2. pc[a] # "idle" /\ req[a] \in Requests /\ a \in paid
  BY <1>1 DEF Called, Started, Debited, Remote
<1>3. CASE Stock!HeldBy(a) # {}
  <2>1. calls' = (calls \ {<<a, "confirm">>}) \cup {<<a, "update">>} /\ pc' = pc
    BY <1>3 DEF ServeConfirm
  <2>2. Only(a) /\ Typed'
    BY <1>1, <2>1 DEF Only, tables, stock, IInv, Typed, Ops
  <2>3. Started(a)' /\ Called(a)' /\ Withdrawn(a)' /\ Debited(a)'
    BY <1>1, <1>2, <2>1 DEF Started, Called, Withdrawn, Debited, tables
  <2>4. ASSUME Prompt PROVE Progress(a)'
    <3>1. Progress(a)
      BY <2>4 DEF IInv
    <3> QED
      BY <1>1, <2>1, <3>1 DEF Progress, State, tables, stock
  <2>5. KeysOwn' /\ \A b \in Attempts : KeyKept(b)'
    BY <1>1, <2>1, KeysKept DEF tables
  <2> QED
    BY <2>2, <2>3, <2>4, <2>5, OnlyKeeps
<1>4. CASE Stock!HeldBy(a) = {} /\ Sold(a) = {}
  <2>1. OnError("confirm") = "cancel" /\ Return(a, "confirm", "cancel")
    BY <1>4 DEF ServeConfirm, OnError
  <2>2. Awaits(a, "confirm") => pc[a] # "release"
    BY DEF Awaits
  <2> QED
    BY <1>1, <2>1, <2>2, RefusedKeeps DEF Ops, Remote
<1>5. CASE Stock!HeldBy(a) = {} /\ Sold(a) # {}
  <2>1. Return(a, "confirm", "outbox")
    BY <1>5 DEF ServeConfirm
  <2>2. hold' = hold /\ hold \in [Stock!Holds -> Hold] /\ Sold(a)' = Sold(a)
    BY <1>1 DEF tables, stock, IInv, Typed, Hold, HoldStates, Sold
  <2>3. Awaits(a, "confirm") <=> pc[a] = "confirm"
    BY DEF Awaits
  <2>4. ASSUME Prompt, Awaits(a, "confirm"), NEW n \in 1 .. Len(req[a].lines)
        PROVE  State(a, n)' = "sold"
    <3>1. State(a, n) \in {"held", "sold"}
      BY <2>3, <2>4 DEF IInv, Progress
    <3>2. State(a, n) # "held"
      BY <1>2, <1>5, LineType DEF Stock!HeldBy, Stock!Holds, State
    <3>3. State(a, n)' = State(a, n)
      BY <1>1, <2>2 DEF State
    <3> QED
      BY <3>1, <3>2, <3>3
  <2>5. UNCHANGED <<balance, paid, order, outbox, stored, req, line>>
    BY <1>1 DEF tables
  <2>6. "confirm" \in Ops
    BY DEF Ops, Remote
  <2> QED
    BY <1>1, <1>2, <2>1, <2>2, <2>3, <2>4, <2>5, <2>6, SettledKeeps
<1> QED
  BY <1>3, <1>4, <1>5

\* Whatever is still held is sold, to an order that has been paid.
LEMMA ServeUpdateKeeps ==
  ASSUME IInv, NEW a \in Attempts, ServeUpdate(a)
  PROVE  IInv'
<1>1. /\ Started(a) /\ Called(a) /\ Debited(a) /\ <<a, "update">> \in calls
      /\ Return(a, "update", "outbox")
      /\ UNCHANGED <<balance, paid, order, outbox, stored, req, line>>
  BY DEF IInv, ServeUpdate
<1>2. pc[a] # "idle" /\ req[a] \in Requests /\ a \in paid /\ "update" \in Ops
  BY <1>1 DEF Called, Started, Debited, Ops
<1>3. Goes(Stock!HeldBy(a), "sold")
  <2>1. CASE Stock!Sell(a)
    BY <2>1, SellEffect DEF IInv
  <2>2. CASE Stock!HeldBy(a) = {} /\ UNCHANGED stock
    BY <2>2 DEF Goes, stock, IInv, Typed, Hold, HoldStates
  <2> QED
    BY <2>1, <2>2 DEF ServeUpdate
<1>4. Awaits(a, "update") <=> pc[a] = "confirm"
  BY DEF Awaits
<1>5. /\ hold' \in [Stock!Holds -> Hold]
      /\ \A k \in Stock!Holds : k[1] # a => hold'[k] = hold[k]
      /\ \A k \in Stock!Holds : hold[k].state = "sold" => hold'[k].state = "sold"
      /\ \A k \in Stock!Holds : hold[k].state = "held" => hold'[k].state \in {"held", "sold"}
      /\ \A k \in Stock!Holds : k[1] = a /\ hold[k].state = "held" => hold'[k].state = "sold"
  BY <1>3 DEF Goes, Stock!HeldBy
<1>6. ASSUME Prompt, Awaits(a, "update"), NEW n \in 1 .. Len(req[a].lines)
      PROVE  State(a, n)' = "sold"
  <2>1. State(a, n) \in {"held", "sold"}
    BY <1>4, <1>6 DEF IInv, Progress
  <2>2. <<a, req[a].lines[n].item>> \in Stock!Holds
    BY <1>2, LineType DEF Stock!Holds
  <2> QED
    BY <1>1, <1>5, <2>1, <2>2 DEF State
<1> QED
  BY <1>1, <1>2, <1>4, <1>5, <1>6, SettledKeeps

LEMMA ServeReleaseKeeps ==
  ASSUME IInv, NEW a \in Attempts, ServeRelease(a)
  PROVE  IInv'
<1>1. /\ Called(a) /\ <<a, "release">> \in calls /\ Return(a, "release", "failed")
      /\ UNCHANGED <<balance, paid, order, outbox, stored, req, line>>
  BY DEF IInv, ServeRelease
<1>2. pc[a] \in {"release"} \cup Ended /\ "release" \in Ops
  BY <1>1 DEF Called, Ops, Remote, Ended
<1>3. Goes(Stock!HeldBy(a), "back")
  <2>1. CASE Stock!PutBack(Stock!HeldBy(a))
    <3>1. PICK S : S = Stock!HeldBy(a)
      OBVIOUS
    <3>2. Goes(S, "back")
      BY <2>1, <3>1, PutBackEffect DEF IInv
    <3> QED
      BY <3>1, <3>2
  <2>2. CASE Stock!HeldBy(a) = {} /\ UNCHANGED stock
    BY <2>2 DEF Goes, stock, IInv, Typed, Hold, HoldStates
  <2> QED
    BY <2>1, <2>2 DEF ServeRelease
<1>4. /\ hold' \in [Stock!Holds -> Hold]
      /\ \A k \in Stock!Holds : k[1] # a => hold'[k] = hold[k]
      /\ \A k \in Stock!Holds : hold[k].state = "sold" <=> hold'[k].state = "sold"
  BY <1>3 DEF Goes, Stock!HeldBy
<1>5. Sold(a)' = Sold(a)
  BY <1>4 DEF Sold, Stock!Holds
<1> QED
  BY <1>1, <1>2, <1>4, <1>5, SettledKeeps

\* The reaper puts back what is held, of no request that is under way.
LEMMA ReapKeeps ==
  ASSUME IInv, Reap
  PROVE  IInv'
<1>1. PICK S \in SUBSET {k \in Stock!Holds : hold[k].state = "held" /\ Expired(k[1])} :
        Stock!PutBack(S)
  BY DEF Reap
<1>2. Goes(S, "back")
  BY <1>1, PutBackEffect DEF IInv
<1>3. UNCHANGED <<balance, paid, order, outbox, stored, pc, req, line, calls>>
  BY DEF Reap, gateway
<1>4. Typed'
  BY <1>2, <1>3 DEF Goes, IInv, Typed, Hold, HoldStates
<1>5. ASSUME NEW a \in Attempts
      PROVE  Started(a)' /\ Called(a)' /\ Withdrawn(a)' /\ Debited(a)' /\ (Prompt => Progress(a)')
  <2>1. Started(a) /\ Called(a) /\ Withdrawn(a) /\ Debited(a) /\ (Prompt => Progress(a))
    BY DEF IInv
  <2>2. \A i \in Items : hold'[<<a, i>>].state = "sold" <=> hold[<<a, i>>].state = "sold"
    BY <1>2 DEF Goes, Stock!Holds
  <2>3. Sold(a)' = Sold(a)
    BY <2>2 DEF Sold
  <2>4. Started(a)' /\ Called(a)' /\ Withdrawn(a)' /\ Debited(a)'
    BY <1>3, <2>1, <2>3 DEF Started, Called, Withdrawn, Debited
  <2>5. ASSUME Prompt PROVE Progress(a)'
    <3>1. CASE pc[a] = "idle"
      BY <1>3, <2>1, <3>1 DEF Withdrawn, Progress, Placing
    <3>2. CASE pc[a] # "idle"
      <4>1. req[a] \in Requests /\ line[a] \in 1 .. Len(req[a].lines)
        BY <2>1, <3>2 DEF Started
      <4>2. ASSUME NEW n \in 1 .. Len(req[a].lines)
            PROVE  /\ State(a, n) = "sold" => State(a, n)' = "sold"
                   /\ pc[a] \notin Ended => State(a, n)' = State(a, n)
        <5>1. req[a].lines[n].item \in Items
          BY <4>1, LineType
        <5>2. <<a, req[a].lines[n].item>> \in Stock!Holds
          BY <5>1 DEF Stock!Holds
        <5>3. <<a, req[a].lines[n].item>> \in S => pc[a] \in Ended
          BY <2>5 DEF Expired
        <5> QED
          BY <1>2, <1>3, <5>2, <5>3 DEF Goes, State
      <4>3. \A n \in 1 .. line[a] - 1 : n \in 1 .. Len(req[a].lines)
        BY <4>1
      <4> QED
        BY <1>3, <2>1, <2>5, <4>2, <4>3 DEF Progress, Ended
    <3> QED
      BY <3>1, <3>2
  <2> QED
    BY <2>4, <2>5
<1>6. KeysOwn' /\ \A b \in Attempts : KeyKept(b)'
  BY <1>3, KeysKept
<1> QED
  BY <1>4, <1>5, <1>6 DEF IInv

-----------------------------------------------------------------------------
(* The keys                                                                *)

LEMMA StoreKeyKeeps ==
  ASSUME IInv, NEW a \in Attempts, StoreKey(a)
  PROVE  IInv'
<1>1. PICK next \in {"placed", "failed"} :
        Goto(a, next) /\ (stored' = AddKey(a) \/ (stored' = stored /\ next = "failed"))
  BY DEF StoreKey
<1>2. /\ pc' \in [Attempts -> Labels] /\ calls' \subseteq Attempts \X Ops
      /\ pc'[a] = next
      /\ \A b \in Attempts \ {a} : pc'[b] = pc[b]
      /\ \A b \in Attempts \ {a} : \A o \in Ops : <<b, o>> \in calls' <=> <<b, o>> \in calls
      /\ \A o \in Ops : <<a, o>> \in calls' => <<a, o>> \in calls
  BY <1>1, GotoEffect DEF Labels, Remote, Ended
<1>3. pc[a] = "key" /\ UNCHANGED <<stock, balance, paid, order, outbox, req, line>>
  BY DEF StoreKey
<1>4. Started(a) /\ Called(a) /\ Withdrawn(a) /\ Debited(a)
  BY DEF IInv
<1>5. req[a].student \in Students /\ req[a].key \in Keys
  BY <1>3, <1>4, SagaAssumption DEF Started
<1>6. PICK new : new = [student |-> req[a].student, key |-> req[a].key, order |-> a]
  OBVIOUS
<1>7. /\ new \in [student : Students, key : Keys, order : Attempts]
      /\ new.student = req[a].student /\ new.key = req[a].key /\ new.order = a
  BY <1>5, <1>6
<1>8. /\ stored \subseteq stored' /\ stored' \subseteq stored \cup {new}
      /\ next = "placed" => new \in stored' \/ Recorded(req[a].student, req[a].key) # {}
  <2>1. \A e \in AddKey(a) : e \in stored \cup {new}
    BY <1>6 DEF AddKey
  <2>2. stored \subseteq AddKey(a)
    BY DEF AddKey
  <2>3. Recorded(req[a].student, req[a].key) = {} => new \in AddKey(a)
    BY <1>6 DEF AddKey
  <2> QED
    BY <1>1, <2>1, <2>2, <2>3
<1>9. Only(a) /\ Typed'
  BY <1>2, <1>3, <1>7, <1>8 DEF Only, stock, IInv, Typed, Ops
<1>10. Started(a)' /\ Called(a)' /\ Withdrawn(a)' /\ Debited(a)'
  BY <1>2, <1>3, <1>4
     DEF Started, Called, Withdrawn, Debited, Placing, Sold, stock, Ops, Remote
<1>11. ASSUME Prompt PROVE Progress(a)'
  <2>1. Progress(a)
    BY <1>11 DEF IInv
  <2> QED
    BY <1>2, <1>3, <2>1 DEF Progress, State, Placing, stock
<1>12. KeysOwn'
  BY <1>2, <1>3, <1>7, <1>8 DEF IInv, Typed, KeysOwn
<1>13. ASSUME NEW b \in Attempts PROVE KeyKept(b)'
  <2>1. SUFFICES ASSUME pc'[b] = "placed", req[b].key # None
                 PROVE  \/ Recorded(req[b].student, req[b].key)' # {}
                        \/ \E c \in Attempts : SameKey(b, c)' /\ order'[c] = "deleted"
    BY <1>3 DEF KeyKept
  <2>2. Recorded(req[b].student, req[b].key) # {} => Recorded(req[b].student, req[b].key)' # {}
    BY <1>3, <1>8 DEF Recorded
  <2>3. CASE b = a
    <3>1. new \in stored' => new \in Recorded(req[b].student, req[b].key)'
      BY <1>3, <1>7, <2>3 DEF Recorded
    <3> QED
      BY <1>2, <1>8, <2>1, <2>2, <2>3, <3>1
  <2>4. CASE b # a
    <3>1. pc[b] = "placed"
      BY <1>2, <2>1, <2>4
    <3>2. \/ Recorded(req[b].student, req[b].key) # {}
          \/ \E c \in Attempts : SameKey(b, c) /\ order[c] = "deleted"
      BY <2>1, <3>1 DEF IInv, KeyKept
    <3>3. \A c \in Attempts : SameKey(b, c) => SameKey(b, c)'
      BY <1>2, <1>3 DEF SameKey
    <3> QED
      BY <1>3, <2>2, <3>2, <3>3
  <2> QED
    BY <2>3, <2>4
<1> QED
  BY <1>9, <1>10, <1>11, <1>12, <1>13, OnlyKeeps

\* An order that is deleted takes its key along.
LEMMA DeleteKeeps ==
  ASSUME IInv, NEW a \in Attempts, Delete(a)
  PROVE  IInv'
<1>1. /\ order[a] \in {"QUEUED", "CANCELLED"} /\ order' = [order EXCEPT ![a] = "deleted"]
      /\ stored' = {e \in stored : e.order # a}
      /\ UNCHANGED <<stock, balance, paid, outbox, gateway>>
  BY DEF Delete
<1>2. order'[a] = "deleted" /\ \A b \in Attempts \ {a} : order'[b] = order[b]
  BY <1>1 DEF IInv, Typed
<1>3. Only(a) /\ Typed'
  BY <1>1, <1>2 DEF Only, stock, gateway, IInv, Typed
<1>4. Started(a) /\ Called(a) /\ Withdrawn(a) /\ Debited(a)
  BY DEF IInv
<1>5. Started(a)' /\ Called(a)' /\ Withdrawn(a)' /\ Debited(a)'
  BY <1>1, <1>2, <1>4 DEF Started, Called, Withdrawn, Debited, Sold, stock, gateway
<1>6. ASSUME Prompt PROVE Progress(a)'
  <2>1. Progress(a)
    BY <1>6 DEF IInv
  <2> QED
    BY <1>1, <2>1 DEF Progress, State, stock, gateway
<1>7. KeysOwn'
  BY <1>1 DEF IInv, KeysOwn, gateway
<1>8. ASSUME NEW b \in Attempts PROVE KeyKept(b)'
  <2>1. SUFFICES ASSUME pc[b] = "placed", req[b].key # None
                 PROVE  \/ Recorded(req[b].student, req[b].key)' # {}
                        \/ \E c \in Attempts : SameKey(b, c)' /\ order'[c] = "deleted"
    BY <1>1 DEF KeyKept, gateway
  <2>2. \A c \in Attempts : SameKey(b, c) => SameKey(b, c)'
    BY <1>1 DEF SameKey, gateway
  <2>3. CASE \E c \in Attempts : SameKey(b, c) /\ order[c] = "deleted"
    BY <1>2, <2>2, <2>3
  <2>4. CASE Recorded(req[b].student, req[b].key) # {}
    <3>1. PICK e \in stored : e.student = req[b].student /\ e.key = req[b].key
      BY <2>4 DEF Recorded
    <3>2. CASE e.order = a
      <4>1. SameKey(b, a)
        BY <2>1, <3>1, <3>2 DEF IInv, KeysOwn, SameKey
      <4> QED
        BY <1>2, <2>2, <4>1
    <3>3. CASE e.order # a
      BY <1>1, <3>1, <3>3 DEF Recorded, gateway
    <3> QED
      BY <3>2, <3>3
  <2> QED
    BY <2>1, <2>3, <2>4 DEF IInv, KeyKept
<1> QED
  BY <1>3, <1>5, <1>6, <1>7, <1>8, OnlyKeeps

-----------------------------------------------------------------------------
(* Every step                                                              *)

LEMMA CrashKeeps == ASSUME IInv, Crash PROVE IInv'
<1>1. /\ pc' = [a \in Attempts |-> IF a \in Busy THEN "failed" ELSE pc[a]]
      /\ UNCHANGED <<tables, req, line, calls>>
  BY DEF Crash
<1>2. \A a \in Attempts : \/ pc'[a] = pc[a]
                          \/ pc'[a] = "failed" /\ pc[a] \notin {"idle"} \cup Ended
  BY <1>1 DEF Busy
<1>3. Typed'
  BY <1>1 DEF tables, stock, IInv, Typed, Labels, Ended
<1>4. ASSUME NEW a \in Attempts
      PROVE  Started(a)' /\ Called(a)' /\ Withdrawn(a)' /\ Debited(a)' /\ (Prompt => Progress(a)')
  <2>1. Started(a) /\ Called(a) /\ Withdrawn(a) /\ Debited(a) /\ (Prompt => Progress(a))
    BY DEF IInv
  <2>2. Started(a)' /\ Called(a)' /\ Withdrawn(a)'
    BY <1>1, <1>2, <2>1 DEF Started, Called, Withdrawn, tables
  <2>3. Debited(a)'
    BY <1>1, <1>2, <2>1 DEF Debited, Sold, Placing, tables, stock
  <2>4. ASSUME Prompt PROVE Progress(a)'
    <3>1. UNCHANGED <<hold, outbox, req, line>>
      BY <1>1 DEF tables, stock
    <3> QED
      BY <1>2, <2>1, <2>4, <3>1 DEF Progress, State, Placing
  <2> QED
    BY <2>2, <2>3, <2>4
<1>5. KeysOwn' /\ \A b \in Attempts : KeyKept(b)'
  BY <1>1, <1>2, KeysKept DEF tables
<1> QED
  BY <1>3, <1>4, <1>5 DEF IInv

LEMMA StutterKeeps == ASSUME IInv, UNCHANGED vars PROVE IInv'
<1>1. UNCHANGED <<shelf, hold, balance, paid, order, outbox, stored, pc, req, line, calls>>
  BY DEF vars, tables, stock, gateway
<1>2. Typed'
  BY <1>1 DEF IInv, Typed
<1>3. \A a \in Attempts : Started(a)' /\ Called(a)' /\ Withdrawn(a)' /\ Debited(a)'
  BY <1>1 DEF IInv, Started, Called, Withdrawn, Debited, Sold
<1>4. Prompt => \A a \in Attempts : Progress(a)'
  BY <1>1 DEF IInv, Progress, State
<1>5. KeysOwn' /\ \A b \in Attempts : KeyKept(b)'
  BY <1>1, KeysKept
<1> QED
  BY <1>2, <1>3, <1>4, <1>5 DEF IInv

LEMMA InitInvariant == Init => IInv
<1> SUFFICES ASSUME Init PROVE IInv
  OBVIOUS
<1>1. hold \in [Stock!Holds -> Hold] /\ \A k \in Stock!Holds : hold[k].state = "none"
  BY DEF Init, Stock!Init, Stock!Nothing, Hold, HoldStates
<1>2. Typed
  BY <1>1 DEF Init, Typed, Hold, HoldStates, Labels
<1>3. ASSUME NEW a \in Attempts
      PROVE  Started(a) /\ Called(a) /\ Withdrawn(a) /\ Debited(a) /\ Progress(a) /\ KeyKept(a)
  <2>1. Sold(a) = {}
    BY <1>1 DEF Sold, Stock!Holds
  <2> QED
    BY <2>1 DEF Init, Started, Called, Withdrawn, Debited, Placing, Progress, KeyKept
<1>4. KeysOwn
  BY DEF Init, KeysOwn
<1> QED
  BY <1>2, <1>3, <1>4 DEF IInv

LEMMA StepKeeps == IInv /\ [Next]_vars => IInv'
<1> SUFFICES ASSUME IInv, [Next]_vars PROVE IInv'
  OBVIOUS
<1>1. CASE UNCHANGED vars
  BY <1>1, StutterKeeps
<1>2. CASE Reap
  BY <1>2, ReapKeeps
<1>3. CASE Crash
  BY <1>3, CrashKeeps
<1>4. ASSUME NEW a \in Attempts, NEW r \in Requests, Arrive(a, r) PROVE IInv'
  BY <1>4, ArriveKeeps
<1>5. ASSUME NEW a \in Attempts, Serve(a) PROVE IInv'
  BY <1>5, ServeReserveKeeps, ServePayKeeps, ServeConfirmKeeps, ServeUpdateKeeps, ServeReleaseKeeps
     DEF Serve
<1>6. ASSUME NEW a \in Attempts, Fail(a) PROVE IInv'
  BY <1>6, GivenUpKeeps DEF Fail, Ops
<1>7. ASSUME NEW a \in Attempts, Local(a) PROVE IInv'
  BY <1>7, InsertOrderKeeps, MarkCancelledKeeps, EnqueueKeeps, StoreKeyKeeps DEF Local
<1>8. ASSUME NEW a \in Attempts, Delete(a) PROVE IInv'
  BY <1>8, DeleteKeeps
<1> QED
  BY <1>1, <1>2, <1>3, <1>4, <1>5, <1>6, <1>7, <1>8 DEF Next

-----------------------------------------------------------------------------
(* What is on the shelf and in the accounts is never negative.  To put     *)
(* holds back is to add up their units, so those made so far are finitely  *)
(* many.                                                                   *)

Made == {k \in Stock!Holds : hold[k].state # "none"}

Amounts ==
  /\ shelf \in [Items -> Nat]
  /\ balance \in [Students -> Nat]
  /\ IsFiniteSet(Made)

LEMMA PutBackUnits ==
  ASSUME NEW S, Stock!PutBack(S)
  PROVE  shelf' = [i \in Items |->
           shelf[i] + MapThenSumSet(LAMBDA k : hold[k].qty, {k \in S : k[2] = i})]
BY DEF Stock!PutBack, MapThenSumSet, MapThenFoldSet,
       Stock!MapThenSumSet, Stock!MapThenFoldSet

LEMMA PutBackAmounts ==
  ASSUME IInv, Amounts, NEW S, S \subseteq Stock!Holds, Stock!PutBack(S)
  PROVE  shelf' \in [Items -> Nat] /\ IsFiniteSet(Made)'
<1> DEFINE Qty == [k \in Stock!Holds |-> hold[k].qty]
<1>1. Goes(S, "back")
  BY PutBackEffect DEF IInv
<1>2. S \subseteq Made /\ Made' \subseteq Made
  BY <1>1 DEF Made, Goes
<1>3. IsFiniteSet(Made)'
  BY <1>2, FS_Subset DEF Amounts
<1>4. ASSUME NEW i \in Items
      PROVE  MapThenSumSet(LAMBDA k : hold[k].qty, {k \in S : k[2] = i}) \in Nat
  <2> DEFINE R == {k \in S : k[2] = i}
  <2>1. IsFiniteSet(R)
    <3>1. R \subseteq Made
      BY <1>2
    <3> QED
      BY <3>1, FS_Subset DEF Amounts
  <2>2. \A k \in R : Qty[k] = hold[k].qty /\ Qty[k] \in Nat
    BY DEF IInv, Typed
  <2>3. R \in SUBSET R /\ IntegersOn(Qty, R)
    BY <2>2 DEF IntegersOn
  <2> HIDE DEF Qty, R
  <2>4. MapThenSumSet(LAMBDA k : hold[k].qty, R) = SumOver(Qty, R)
    BY <2>1, <2>2, UnitsAreSums
  <2>5. SumOver(Qty, R) \in Nat
    BY <2>1, <2>2, <2>3, SumOverType
  <2> QED
    BY <2>4, <2>5 DEF R
<1> DEFINE back(i) == MapThenSumSet(LAMBDA k : hold[k].qty, {k \in S : k[2] = i})
<1>5. /\ shelf' = [i \in Items |-> shelf[i] + back(i)]
      /\ \A i \in Items : back(i) \in Nat
  BY <1>4, PutBackUnits
<1> HIDE DEF back
<1>6. \A i \in Items : shelf[i] + back(i) \in Nat
  BY <1>5 DEF Amounts
<1> QED
  BY <1>3, <1>5, <1>6

LEMMA PromiseAmounts ==
  ASSUME IInv, Amounts, NEW k \in Stock!Holds, NEW n \in Nat \ {0}, Stock!Promise(k, n)
  PROVE  shelf' \in [Items -> Nat] /\ IsFiniteSet(Made)'
<1>1. /\ hold'[k].state = "held"
      /\ \A j \in Stock!Holds \ {k} : hold'[j] = hold[j]
  BY PromiseEffect DEF IInv
<1>2. Made' \subseteq Made \cup {k}
  BY <1>1 DEF Made
<1>3. IsFiniteSet(Made \cup {k})
  BY FS_AddElement DEF Amounts
<1>4. IsFiniteSet(Made)'
  BY <1>2, <1>3, FS_Subset
<1>5. k[2] \in Items /\ n \in 1 .. shelf[k[2]] /\ shelf' = [shelf EXCEPT ![k[2]] = @ - n]
  BY DEF Stock!Promise, Stock!Holds
<1>6. shelf[k[2]] \in Nat /\ shelf[k[2]] - n \in Nat
  BY <1>5 DEF Amounts
<1> QED
  BY <1>4, <1>5, <1>6 DEF Amounts

LEMMA SellAmounts ==
  ASSUME IInv, Amounts, NEW a \in Attempts, Stock!Sell(a)
  PROVE  shelf' \in [Items -> Nat] /\ IsFiniteSet(Made)'
<1>1. Goes(Stock!HeldBy(a), "sold") /\ shelf' = shelf
  BY SellEffect DEF IInv, Stock!Sell
<1>2. Made' \subseteq Made
  BY <1>1 DEF Made, Goes
<1> QED
  BY <1>1, <1>2, FS_Subset DEF Amounts

\* The total of an order is a natural number.
LEMMA TotalType ==
  ASSUME NEW a \in Attempts, req[a] \in Requests
  PROVE  Total(a) \in Nat
<1> DEFINE lines == req[a].lines
           D == DOMAIN lines
           f == [n \in D |-> Cost(lines[n])]
           Adds(g) == g = [s \in SUBSET D |-> IF s = {} THEN 0
                                              ELSE Cost(lines[Pick(s)]) + g[s \ {Pick(s)}]]
           c == CHOOSE g : Adds(g)
<1>1. Total(a) = c[D]
  BY DEF Total, MapThenSumSet, MapThenFoldSet, Pick
<1>2. D = 1 .. Len(lines) /\ Len(lines) \in Nat
  <2>1. lines \in Seq(Lines)
    BY SagaAssumption
  <2> QED
    BY <2>1
<1>3. IsFiniteSet(D)
  BY <1>2, FS_Interval
<1>4. \A n \in D : f[n] \in Nat
  <2> SUFFICES ASSUME NEW n \in D PROVE Cost(lines[n]) \in Nat
    OBVIOUS
  <2>1. lines[n].item \in Items /\ lines[n].qty \in Nat
    BY <1>2, LineType
  <2>2. Price[lines[n].item] \in Nat
    BY <2>1, SagaAssumption
  <2> QED
    BY <2>1, <2>2 DEF Cost
<1>5. \A g : Adds(g) <=> Summing(g, f, D)
  <2> SUFFICES ASSUME NEW g PROVE Adds(g) <=> Summing(g, f, D)
    OBVIOUS
  <2>1. \A s \in SUBSET D : s # {} => Cost(lines[Pick(s)]) = f[Pick(s)]
    BY PickInSet
  <2> QED
    BY <2>1 DEF Summing
<1>6. \E g : Summing(g, f, D)
  BY <1>3, SummingExists
<1> HIDE DEF Adds, f, D, lines
<1>7. Summing(c, f, D)
  <2>1. \E g : Adds(g)
    BY <1>5, <1>6
  <2>2. Adds(c)
    BY <2>1
  <2> HIDE DEF c
  <2> QED
    BY <1>5, <2>2
<1> HIDE DEF c
<1>8. D \in SUBSET D /\ SumOver(f, D) = c[D]
  BY <1>3, <1>7, SumOverSumming
<1>9. SumOver(f, D) \in Nat
  BY <1>3, <1>4, <1>8, SumOverType DEF IntegersOn
<1> QED
  BY <1>1, <1>8, <1>9

\* A debit is never of more than the balance.
LEMMA ServePayAmounts ==
  ASSUME IInv, Amounts, NEW a \in Attempts, ServePay(a)
  PROVE  balance' \in [Students -> Nat]
<1>1. CASE ~Payable(a)
  BY <1>1 DEF ServePay, Amounts
<1>2. CASE Payable(a)
  <2> DEFINE s == req[a].student
  <2>1. /\ order[a] = "QUEUED" /\ balance[s] >= Total(a)
        /\ balance' = [balance EXCEPT ![s] = @ - Total(a)]
    BY <1>2 DEF ServePay, Payable
  <2>2. req[a] \in Requests
    BY <2>1 DEF IInv, Withdrawn, Started
  <2>3. s \in Students
    BY <2>2, SagaAssumption
  <2>4. Total(a) \in Nat
    BY <2>2, TotalType
  <2>5. balance[s] \in Nat /\ balance[s] - Total(a) \in Nat
    BY <2>1, <2>3, <2>4 DEF Amounts
  <2> QED
    BY <2>1, <2>5 DEF Amounts
<1> QED
  BY <1>1, <1>2

\* The reserve, confirm and release of the stock service.
LEMMA ServeStockAmounts ==
  ASSUME IInv, Amounts, NEW a \in Attempts,
         ServeReserve(a) \/ ServeConfirm(a) \/ ServeUpdate(a) \/ ServeRelease(a)
  PROVE  Amounts'
<1>1. CASE UNCHANGED stock
  BY <1>1 DEF ServeReserve, ServeConfirm, ServeUpdate, ServeRelease, tables, stock, Amounts, Made
<1>2. CASE ServeReserve(a) /\ Stock!Promise(<<a, Line(a).item>>, Line(a).qty)
  <2>1. req[a] \in Requests /\ line[a] \in 1 .. Len(req[a].lines)
    BY <1>2 DEF ServeReserve, IInv, Called, Started, Remote
  <2>2. <<a, Line(a).item>> \in Stock!Holds /\ Line(a).qty \in Nat \ {0}
    BY <2>1, LineType DEF Stock!Holds, Line
  <2> QED
    BY <1>2, <2>2, PromiseAmounts DEF ServeReserve, Amounts
<1>3. CASE ServeUpdate(a) /\ Stock!Sell(a)
  BY <1>3, SellAmounts DEF ServeUpdate, Amounts
<1>4. CASE ServeRelease(a) /\ Stock!PutBack(Stock!HeldBy(a))
  BY <1>4, PutBackAmounts DEF ServeRelease, Amounts, Stock!HeldBy
<1> QED
  BY <1>1, <1>2, <1>3, <1>4 DEF ServeReserve, ServeConfirm, ServeUpdate, ServeRelease, tables

LEMMA StepAmounts == IInv /\ Amounts /\ [Next]_vars => Amounts'
<1> SUFFICES ASSUME IInv, Amounts, [Next]_vars PROVE Amounts'
  OBVIOUS
<1>1. CASE UNCHANGED <<stock, balance>>
  BY <1>1 DEF stock, Amounts, Made
<1>2. CASE Reap
  <2>1. PICK S \in SUBSET {k \in Stock!Holds : hold[k].state = "held" /\ Expired(k[1])} :
          Stock!PutBack(S)
    BY <1>2 DEF Reap
  <2> QED
    BY <1>2, <2>1, PutBackAmounts DEF Reap, Amounts
<1>3. ASSUME NEW a \in Attempts, Serve(a) PROVE Amounts'
  <2>1. CASE ServePay(a)
    BY <1>1, <2>1, ServePayAmounts DEF ServePay, stock, Amounts, Made
  <2> QED
    BY <1>3, <2>1, ServeStockAmounts DEF Serve
<1>4. ASSUME NEW a \in Attempts, Fail(a) \/ Local(a) \/ Delete(a) PROVE Amounts'
  BY <1>1, <1>4 DEF Fail, CallFails, CallTimesOut, Local, InsertOrder, MarkCancelled, Enqueue,
                    StoreKey, Delete, tables
<1>5. ASSUME NEW a \in Attempts, NEW r \in Requests, Arrive(a, r) PROVE Amounts'
  BY <1>1, <1>5 DEF Arrive, tables
<1>6. CASE Crash
  BY <1>1, <1>6 DEF Crash, tables
<1>7. CASE UNCHANGED vars
  BY <1>1, <1>7 DEF vars, tables
<1> QED
  BY <1>2, <1>3, <1>4, <1>5, <1>6, <1>7 DEF Next

LEMMA InitAmounts == Init => Amounts
<1> SUFFICES ASSUME Init PROVE Amounts
  OBVIOUS
<1>1. shelf = Stocked /\ hold = [k \in Stock!Holds |-> Stock!Nothing]
  BY DEF Init, Stock!Init
<1>2. Made = {}
  BY <1>1 DEF Made, Stock!Nothing
<1> QED
  BY <1>1, <1>2, SagaAssumption, FS_EmptySet DEF Init, Amounts

-----------------------------------------------------------------------------
(* The stock service as the saga sees it is the Inventory: a step changes  *)
(* the stock as Inventory's do, or leaves it alone.                        *)

LEMMA StepsOfStock == IInv /\ [Next]_vars => [Stock!Next]_stock
<1> SUFFICES ASSUME IInv, [Next]_vars, ~UNCHANGED stock PROVE Stock!Next
  OBVIOUS
<1>1. ASSUME NEW a \in Attempts, ServeReserve(a) PROVE Stock!Next
  <2>1. Stock!Promise(<<a, Line(a).item>>, Line(a).qty)
    BY <1>1 DEF ServeReserve
  <2>2. req[a] \in Requests /\ line[a] \in 1 .. Len(req[a].lines)
    BY <1>1 DEF ServeReserve, IInv, Called, Started, Remote
  <2>3. <<a, Line(a).item>> \in Stock!Holds
    BY <2>2, LineType DEF Stock!Holds, Line
  <2>4. Line(a).qty \in 1 .. shelf[<<a, Line(a).item>>[2]]
    BY <2>1 DEF Stock!Promise
  <2> QED
    BY <2>1, <2>3, <2>4 DEF Stock!Next
<1>2. ASSUME NEW a \in Attempts, ServeUpdate(a) \/ ServeRelease(a) PROVE Stock!Next
  <2>1. Stock!HeldBy(a) \in SUBSET Stock!Holds
    BY DEF Stock!HeldBy
  <2>2. Stock!Sell(a) \/ Stock!PutBack(Stock!HeldBy(a))
    BY <1>2 DEF ServeUpdate, ServeRelease
  <2> QED
    BY <2>1, <2>2 DEF Stock!Next
<1>3. ASSUME Reap PROVE Stock!Next
  <2>1. PICK S \in SUBSET {k \in Stock!Holds : hold[k].state = "held" /\ Expired(k[1])} :
          Stock!PutBack(S)
    BY <1>3 DEF Reap
  <2>2. S \in SUBSET Stock!Holds
    OBVIOUS
  <2> QED
    BY <2>1, <2>2 DEF Stock!Next
<1>4. ASSUME NEW a \in Attempts, Fail(a) \/ Local(a) \/ Delete(a) PROVE FALSE
  BY <1>4 DEF Fail, CallFails, CallTimesOut, Local, InsertOrder, MarkCancelled, Enqueue,
              StoreKey, Delete, tables
<1>5. ASSUME NEW a \in Attempts, ServePay(a) \/ ServeConfirm(a) PROVE FALSE
  BY <1>5 DEF ServePay, ServeConfirm, tables
<1>6. ASSUME NEW a \in Attempts, NEW r \in Requests, Arrive(a, r) PROVE FALSE
  BY <1>6 DEF Arrive, tables
<1>7. ~Crash /\ ~UNCHANGED vars
  BY DEF Crash, vars, tables
<1> QED
  BY <1>1, <1>2, <1>3, <1>4, <1>5, <1>6, <1>7 DEF Next, Serve

-----------------------------------------------------------------------------
(* Units are neither made nor lost: what has left the shelf is held by an  *)
(* order or sold to it.                                                    *)

Promised(i) == {k \in Stock!Holds : k[2] = i /\ hold[k].state \in {"held", "sold"}}

UnitsKept ==
  \A i \in Items :
    shelf[i] + MapThenSumSet(LAMBDA k : hold[k].qty, Promised(i)) = Stocked[i]

\* The same with the values as a function.
Units == [k \in Stock!Holds |-> hold[k].qty]

Kept == \A i \in Items : shelf[i] + SumOver(Units, Promised(i)) = Stocked[i]

LEMMA PromisedUnits ==
  ASSUME IInv, Amounts
  PROVE  \A i \in Items : \A S \in SUBSET Promised(i) :
           /\ IsFiniteSet(S) /\ IntegersOn(Units, S)
           /\ SumOver(Units, S) \in Nat
           /\ MapThenSumSet(LAMBDA k : hold[k].qty, S) = SumOver(Units, S)
<1> SUFFICES ASSUME NEW i \in Items, NEW S \in SUBSET Promised(i)
             PROVE  /\ IsFiniteSet(S) /\ IntegersOn(Units, S)
                    /\ SumOver(Units, S) \in Nat
                    /\ MapThenSumSet(LAMBDA k : hold[k].qty, S) = SumOver(Units, S)
  OBVIOUS
<1>1. S \subseteq Made
  BY DEF Promised, Made
<1>2. IsFiniteSet(S)
  BY <1>1, FS_Subset DEF Amounts
<1>3. \A k \in S : Units[k] = hold[k].qty /\ Units[k] \in Nat
  BY DEF Promised, Units, IInv, Typed
<1>4. IntegersOn(Units, S) /\ S \in SUBSET S
  BY <1>3 DEF IntegersOn
<1>5. SumOver(Units, S) \in Nat
  BY <1>2, <1>3, <1>4, SumOverType
<1>6. \A k \in S : Units[k] = hold[k].qty
  BY <1>3
<1>7. MapThenSumSet(LAMBDA k : hold[k].qty, S) = SumOver(Units, S)
  BY <1>2, <1>6, UnitsAreSums
<1> QED
  BY <1>2, <1>4, <1>5, <1>7

LEMMA PromisedFinite ==
  IInv /\ Amounts => \A i \in Items : IsFiniteSet(Promised(i)) /\ IntegersOn(Units, Promised(i))
<1> SUFFICES ASSUME IInv, Amounts, NEW i \in Items
             PROVE  IsFiniteSet(Promised(i)) /\ IntegersOn(Units, Promised(i))
  OBVIOUS
<1>1. Promised(i) \in SUBSET Promised(i)
  OBVIOUS
<1> QED
  BY <1>1, PromisedUnits

LEMMA PromisedFiniteNext ==
  IInv' /\ Amounts' =>
    \A i \in Items : IsFiniteSet(Promised(i)') /\ IntegersOn(Units', Promised(i)')
<1>1. IInv' /\ Amounts' =>
        (\A i \in Items : IsFiniteSet(Promised(i)) /\ IntegersOn(Units, Promised(i)))'
  BY PromisedFinite, PTL
<1> QED
  BY <1>1

LEMMA PromiseUnits ==
  ASSUME IInv, Amounts, Kept, IInv', Amounts', NEW k \in Stock!Holds, NEW n \in Nat \ {0},
         Stock!Promise(k, n)
  PROVE  Kept'
<1> SUFFICES ASSUME NEW i \in Items
             PROVE  shelf'[i] + SumOver(Units', Promised(i)') = Stocked[i]
  BY DEF Kept
<1>1. /\ hold[k].state = "none" /\ hold'[k].state = "held" /\ hold'[k].qty = n
      /\ \A j \in Stock!Holds \ {k} : hold'[j] = hold[j]
  BY PromiseEffect DEF IInv
<1>2. k[2] \in Items /\ shelf \in [Items -> Nat] /\ shelf' = [shelf EXCEPT ![k[2]] = @ - n]
  BY DEF Stock!Promise, Stock!Holds, Amounts
<1>3. /\ IsFiniteSet(Promised(i)) /\ SumOver(Units, Promised(i)) \in Nat
      /\ IsFiniteSet(Promised(i)') /\ IntegersOn(Units', Promised(i)')
  <2>1. /\ IsFiniteSet(Promised(i)) /\ SumOver(Units, Promised(i)) \in Nat
        /\ IntegersOn(Units, Promised(i))
    BY PromisedUnits
  <2>2. IsFiniteSet(Promised(i)') /\ IntegersOn(Units', Promised(i)')
    BY PromisedFiniteNext
  <2> QED
    BY <2>1, <2>2
<1>4. SumOver(Units', Promised(i)) = SumOver(Units, Promised(i))
  <2>1. \A j \in Promised(i) : Units'[j] = Units[j]
    BY <1>1 DEF Units, Promised
  <2> QED
    BY <1>3, <2>1, SumOverSame
<1>5. shelf[i] + SumOver(Units, Promised(i)) = Stocked[i]
  BY DEF Kept
<1>6. CASE k[2] = i
  <2>1. k \notin Promised(i) /\ Promised(i)' = Promised(i) \cup {k}
    BY <1>1, <1>6 DEF Promised
  <2>2. SumOver(Units', Promised(i) \cup {k}) = Units'[k] + SumOver(Units', Promised(i))
    BY <1>3, <2>1, SumOverAdd
  <2>3. Units'[k] = n
    BY <1>1 DEF Units
  <2>4. shelf'[i] = shelf[i] - n /\ shelf[i] \in Nat
    BY <1>2, <1>6
  <2>5. SumOver(Units', Promised(i)') = n + SumOver(Units, Promised(i))
    BY <1>4, <2>1, <2>2, <2>3
  <2> QED
    BY <1>3, <1>5, <2>4, <2>5
<1>7. CASE k[2] # i
  <2>1. Promised(i)' = Promised(i)
    BY <1>1, <1>7 DEF Promised
  <2>2. shelf'[i] = shelf[i]
    BY <1>2, <1>7
  <2> QED
    BY <1>4, <1>5, <2>1, <2>2
<1> QED
  BY <1>6, <1>7

LEMMA SellUnits ==
  ASSUME IInv, Amounts, Kept, NEW a \in Attempts, Stock!Sell(a)
  PROVE  Kept'
<1>1. \A k \in Stock!Holds : hold'[k].qty = hold[k].qty
  <2> SUFFICES ASSUME NEW k \in Stock!Holds PROVE hold'[k].qty = hold[k].qty
    OBVIOUS
  <2>1. hold[k] \in Hold
    BY DEF IInv, Typed, Hold, HoldStates
  <2>2. hold'[k] = IF k \in Stock!HeldBy(a) THEN [hold[k] EXCEPT !.state = "sold"] ELSE hold[k]
    BY DEF Stock!Sell
  <2>3. [hold[k] EXCEPT !.state = "sold"].qty = hold[k].qty
    BY <2>1 DEF Hold
  <2> QED
    BY <2>2, <2>3
<1>2. Units' = Units
  BY <1>1 DEF Units
<1>3. \A i \in Items : Promised(i)' = Promised(i)
  BY SellEffect DEF IInv, Goes, Promised
<1> QED
  BY <1>2, <1>3 DEF Stock!Sell, Kept

LEMMA PutBackKept ==
  ASSUME IInv, Amounts, Kept, IInv', Amounts', NEW S, S \subseteq Stock!Holds, Stock!PutBack(S)
  PROVE  Kept'
<1> SUFFICES ASSUME NEW i \in Items
             PROVE  shelf'[i] + SumOver(Units', Promised(i)') = Stocked[i]
  BY DEF Kept
<1> DEFINE R == {k \in S : k[2] = i}
<1>1. Goes(S, "back")
  BY PutBackEffect DEF IInv
<1>2. /\ R \in SUBSET Promised(i) /\ Promised(i)' \in SUBSET Promised(i)
      /\ Promised(i)' \cup R = Promised(i) /\ Promised(i)' \cap R = {}
  BY <1>1 DEF Goes, Promised
<1>3. \A k \in Promised(i)' : Units'[k] = Units[k]
  BY <1>1 DEF Goes, Promised, Units
<1>4. shelf'[i] = shelf[i] + MapThenSumSet(LAMBDA k : hold[k].qty, R)
  BY PutBackUnits
<1> HIDE DEF R
<1>5. /\ IsFiniteSet(R) /\ IsFiniteSet(Promised(i)')
      /\ SumOver(Units, R) \in Nat /\ SumOver(Units, Promised(i)') \in Nat
      /\ MapThenSumSet(LAMBDA k : hold[k].qty, R) = SumOver(Units, R)
      /\ IntegersOn(Units, Promised(i))
  <2>1. Promised(i) \in SUBSET Promised(i)
    OBVIOUS
  <2> QED
    BY <1>2, <2>1, PromisedUnits
<1>6. SumOver(Units, Promised(i)) = SumOver(Units, Promised(i)') + SumOver(Units, R)
  <2>1. SumOver(Units, Promised(i)' \cup R) = SumOver(Units, Promised(i)') + SumOver(Units, R)
    BY <1>2, <1>5, SumOverUnion
  <2> QED
    BY <1>2, <2>1
<1>7. SumOver(Units', Promised(i)') = SumOver(Units, Promised(i)')
  BY <1>3, <1>5, SumOverSame
<1>8. shelf[i] \in Nat /\ shelf[i] + SumOver(Units, Promised(i)) = Stocked[i]
  BY DEF Kept, Amounts
<1> QED
  BY <1>4, <1>5, <1>6, <1>7, <1>8

LEMMA StepKept == IInv /\ Amounts /\ Kept /\ IInv' /\ Amounts' /\ [Next]_vars => Kept'
<1> SUFFICES ASSUME IInv, Amounts, Kept, IInv', Amounts', [Next]_vars PROVE Kept'
  OBVIOUS
<1>1. CASE UNCHANGED stock
  BY <1>1 DEF stock, Kept, Units, Promised
<1>2. CASE Stock!Next
  <2>1. ASSUME NEW k \in Stock!Holds, NEW n \in 1 .. shelf[k[2]], Stock!Promise(k, n) PROVE Kept'
    <3>1. k[2] \in Items
      BY DEF Stock!Holds
    <3>2. n \in Nat \ {0}
      BY <3>1 DEF Amounts
    <3> QED
      BY <2>1, <3>2, PromiseUnits
  <2>2. ASSUME NEW a \in Attempts, Stock!Sell(a) PROVE Kept'
    BY <2>2, SellUnits
  <2>3. ASSUME NEW S \in SUBSET Stock!Holds, Stock!PutBack(S) PROVE Kept'
    BY <2>3, PutBackKept
  <2> QED
    BY <1>2, <2>1, <2>2, <2>3 DEF Stock!Next
<1> QED
  BY <1>1, <1>2, StepsOfStock

LEMMA InitKept == Init => Kept
<1> SUFFICES ASSUME Init, NEW i \in Items
             PROVE  shelf[i] + SumOver(Units, Promised(i)) = Stocked[i]
  BY DEF Kept
<1>1. shelf = Stocked /\ hold = [k \in Stock!Holds |-> Stock!Nothing]
  BY DEF Init, Stock!Init
<1>2. Promised(i) = {}
  BY <1>1 DEF Promised, Stock!Nothing
<1>3. SumOver(Units, {}) = 0
  BY SumOverEmpty
<1>4. Stocked[i] \in Nat
  BY SagaAssumption
<1> QED
  BY <1>1, <1>2, <1>3, <1>4

-----------------------------------------------------------------------------
(* Money: an order is debited once, of its total.  The call to pay it is   *)
(* sent once, and what is debited has left the first states for good.      *)

Early == {"idle", "reserve", "insert"}

Unpaid(a) ==
  /\ pc[a] \in Early => a \notin paid /\ <<a, "pay">> \notin calls
  /\ <<a, "pay">> \in calls => a \notin paid

DebitsOf(s) == {a \in paid : req[a].student = s}

Charged(s) == MapThenSumSet(LAMBDA a : Total(a), DebitsOf(s))

DebitedOnce == \A s \in Students : balance[s] + Charged(s) = Opening[s]

\* The same with the totals as a function of the order.
Totals == [a \in Attempts |-> Total(a)]

Accounts ==
  /\ IsFiniteSet(paid)
  /\ \A a \in Attempts : Unpaid(a)
  /\ \A s \in Students : balance[s] + SumOver(Totals, DebitsOf(s)) = Opening[s]

\* A total is that of the lines.
TotalOf(lines) == MapThenSumSet(LAMBDA n : Cost(lines[n]), DOMAIN lines)

LEMMA TotalKept == ASSUME NEW a \in Attempts, req'[a] = req[a] PROVE Total(a)' = Total(a)
<1>1. Total(a) = TotalOf(req[a].lines)
  BY DEF Total, TotalOf
<1>2. Total(a)' = TotalOf(req'[a].lines)
  BY DEF Total, TotalOf, MapThenSumSet, MapThenFoldSet
<1> QED
  BY <1>1, <1>2

LEMMA ArrivedPaid ==
  ASSUME IInv, \A a \in Attempts : Unpaid(a)
  PROVE  \A a \in paid : a \in Attempts /\ pc[a] # "idle" /\ req[a] \in Requests
                          /\ Total(a) \in Nat
<1> SUFFICES ASSUME NEW a \in paid
             PROVE  a \in Attempts /\ pc[a] # "idle" /\ req[a] \in Requests /\ Total(a) \in Nat
  OBVIOUS
<1>1. a \in Attempts
  BY DEF IInv, Typed
<1>2. pc[a] # "idle" /\ req[a] \in Requests
  BY <1>1 DEF IInv, Started, Unpaid, Early
<1> QED
  BY <1>1, <1>2, TotalType

\* A step that debits nothing.
LEMMA NothingDebited ==
  ASSUME IInv, Accounts, UNCHANGED <<balance, paid>>,
         \A b \in Attempts : pc[b] # "idle" => req'[b] = req[b],
         \A b \in Attempts : /\ pc'[b] \in Early => /\ pc[b] \in Early
                                                    /\ <<b, "pay">> \notin calls'
                             /\ <<b, "pay">> \in calls' => <<b, "pay">> \in calls \/ pc[b] = "insert"
  PROVE  Accounts'
<1>1. \A a \in Attempts : Unpaid(a)'
  BY DEF Accounts, Unpaid, Early
<1>2. \A a \in paid : a \in Attempts /\ req'[a] = req[a]
  BY ArrivedPaid DEF Accounts
<1>3. ASSUME NEW s \in Students
      PROVE  DebitsOf(s)' = DebitsOf(s) /\ SumOver(Totals', DebitsOf(s)) = SumOver(Totals, DebitsOf(s))
  <2>1. DebitsOf(s)' = DebitsOf(s)
    BY <1>2 DEF DebitsOf
  <2>2. \A a \in DebitsOf(s) : Totals'[a] = Totals[a]
    BY <1>2, TotalKept DEF DebitsOf, Totals
  <2>3. IsFiniteSet(DebitsOf(s))
    BY FS_Subset DEF DebitsOf, Accounts
  <2> QED
    BY <2>1, <2>2, <2>3, SumOverSame
<1> QED
  BY <1>1, <1>3 DEF Accounts

\* process_payment books the total of an order, from the student who sent it.
LEMMA OneDebited ==
  ASSUME IInv, Amounts, Accounts, NEW a \in Attempts, ServePay(a), Payable(a)
  PROVE  Accounts'
<1>1. /\ order[a] = "QUEUED" /\ <<a, "pay">> \in calls
      /\ balance' = [balance EXCEPT ![req[a].student] = @ - Total(a)]
      /\ paid' = paid \cup {a} /\ Return(a, "pay", "confirm") /\ req' = req
  BY DEF ServePay, Payable
<1>2. a \notin paid /\ pc[a] \notin Early /\ req[a] \in Requests
  BY <1>1 DEF Accounts, Unpaid, IInv, Withdrawn, Started, Early
<1>3. /\ \A b \in Attempts : pc'[b] \in Early => pc[b] \in Early /\ b # a
      /\ \A b \in Attempts : <<b, "pay">> \in calls' => <<b, "pay">> \in calls /\ b # a
  BY <1>1, <1>2 DEF Return, CallFor, Early, IInv, Typed
<1>4. \A b \in Attempts : Unpaid(b)'
  BY <1>1, <1>3 DEF Accounts, Unpaid
<1>5. IsFiniteSet(paid')
  BY <1>1, FS_AddElement DEF Accounts
<1>6. ASSUME NEW s \in Students
      PROVE  balance'[s] + SumOver(Totals', DebitsOf(s)') = Opening[s]
  <2>1. Totals' = Totals
    BY <1>1, TotalKept DEF Totals
  <2>2. \A b \in paid : b \in Attempts /\ Totals[b] \in Nat
    BY ArrivedPaid DEF Accounts, Totals
  <2>3. IsFiniteSet(DebitsOf(s)) /\ \A b \in DebitsOf(s) : Totals[b] \in Nat
    BY <2>2, FS_Subset DEF DebitsOf, Accounts
  <2>4. DebitsOf(s) \in SUBSET DebitsOf(s) /\ IntegersOn(Totals, DebitsOf(s))
    BY <2>3 DEF IntegersOn
  <2>5. SumOver(Totals, DebitsOf(s)) \in Nat
    BY <2>3, <2>4, SumOverType
  <2>6. balance \in [Students -> Nat] /\ balance[s] + SumOver(Totals, DebitsOf(s)) = Opening[s]
    BY DEF Amounts, Accounts
  <2>7. CASE req[a].student # s
    <3>1. DebitsOf(s)' = DebitsOf(s) /\ balance'[s] = balance[s]
      BY <1>1, <2>6, <2>7 DEF DebitsOf
    <3> QED
      BY <2>1, <2>6, <3>1
  <2>8. CASE req[a].student = s
    <3>1. DebitsOf(s)' = DebitsOf(s) \cup {a} /\ a \notin DebitsOf(s)
      BY <1>1, <1>2, <2>8 DEF DebitsOf
    <3>2. Totals[a] = Total(a) /\ Total(a) \in Nat
      BY <1>2, TotalType DEF Totals
    <3>3. IntegersOn(Totals, DebitsOf(s) \cup {a})
      BY <2>4, <3>2 DEF IntegersOn
    <3>4. SumOver(Totals, DebitsOf(s) \cup {a}) = Totals[a] + SumOver(Totals, DebitsOf(s))
      BY <2>3, <3>1, <3>3, SumOverAdd
    <3>5. balance'[s] = balance[s] - Total(a) /\ balance[s] \in Nat
      BY <1>1, <2>6, <2>8
    <3>6. SumOver(Totals', DebitsOf(s)') = Total(a) + SumOver(Totals, DebitsOf(s))
      BY <2>1, <3>1, <3>2, <3>4
    <3> QED
      BY <2>5, <2>6, <3>2, <3>5, <3>6
  <2> QED
    BY <2>7, <2>8
<1> QED
  BY <1>4, <1>5, <1>6 DEF Accounts

\* Where a step of the gateway or the answer to a call leaves the request.
LEMMA MovedOn ==
  ASSUME IInv, Accounts, NEW a \in Attempts, UNCHANGED <<balance, paid>>,
         \A b \in Attempts : pc[b] # "idle" => req'[b] = req[b],
         NEW next \in Labels, next # "pay" \/ pc[a] = "insert",
         next \in Early => pc[a] \in Early,
         Goto(a, next) \/ \E op \in Ops : Return(a, op, next)
  PROVE  Accounts'
<1>1. /\ pc'[a] \in {next, pc[a]}
      /\ <<a, "pay">> \in calls' => <<a, "pay">> \in calls \/ (next = "pay" /\ pc'[a] = "pay")
      /\ \A b \in Attempts \ {a} : /\ pc'[b] = pc[b]
                                   /\ <<b, "pay">> \in calls' => <<b, "pay">> \in calls
  <2>0. "pay" \in Ops
    BY DEF Ops, Remote
  <2>1. CASE Goto(a, next)
    BY <2>0, <2>1, GotoEffect
  <2>2. CASE \E op \in Ops : Return(a, op, next)
    <3>1. PICK op \in Ops : Return(a, op, next)
      BY <2>2
    <3>2. /\ pc'[a] = IF Awaits(a, op) THEN next ELSE pc[a]
          /\ \A b \in Attempts \ {a} : pc'[b] = pc[b]
          /\ \A b \in Attempts \ {a} : <<b, "pay">> \in calls' <=> <<b, "pay">> \in calls
          /\ <<a, "pay">> \in calls' => <<a, "pay">> \in calls \/ (Awaits(a, op) /\ "pay" = next)
      BY <2>0, <3>1, ReturnEffect
    <3> QED
      BY <3>2
  <2> QED
    BY <2>1, <2>2
<1>2. \A b \in Attempts : pc[b] \in Early => <<b, "pay">> \notin calls
  BY DEF Accounts, Unpaid
<1>3. "pay" \notin Early
  BY DEF Early
<1>4. \A b \in Attempts :
        /\ pc'[b] \in Early => pc[b] \in Early /\ <<b, "pay">> \notin calls'
        /\ <<b, "pay">> \in calls' => <<b, "pay">> \in calls \/ pc[b] = "insert"
  <2> SUFFICES ASSUME NEW b \in Attempts
               PROVE  /\ pc'[b] \in Early => pc[b] \in Early /\ <<b, "pay">> \notin calls'
                      /\ <<b, "pay">> \in calls' => <<b, "pay">> \in calls \/ pc[b] = "insert"
    OBVIOUS
  <2>1. CASE b = a
    BY <1>1, <1>2, <1>3, <2>1
  <2>2. CASE b # a
    BY <1>1, <1>2, <2>2
  <2> QED
    BY <2>1, <2>2
<1> QED
  BY <1>4, NothingDebited

LEMMA ServeAccounts ==
  ASSUME IInv, Amounts, Accounts, NEW a \in Attempts, Serve(a)
  PROVE  Accounts'
<1>1. CASE ServeReserve(a)
  <2>1. PICK next \in {"reserve", "insert", "failed"} : Return(a, "reserve", next)
    BY <1>1 DEF ServeReserve, Reserved, OnError
  <2>2. UNCHANGED <<balance, paid>> /\ UNCHANGED req
    BY <1>1 DEF ServeReserve
  <2>3. CASE Awaits(a, "reserve")
    <3>1. pc[a] \in Early
      BY <2>3 DEF Awaits, Early
    <3> QED
      BY <2>1, <2>2, <3>1, MovedOn DEF Labels, Remote, Ended, Early, Ops
  <2>4. CASE ~Awaits(a, "reserve")
    <3>1. pc' = pc /\ calls' \subseteq calls
      BY <2>1, <2>4 DEF Return
    <3>2. \A b \in Attempts : pc[b] \in Early => <<b, "pay">> \notin calls
      BY DEF Accounts, Unpaid
    <3> QED
      BY <2>2, <3>1, <3>2, NothingDebited
  <2> QED
    BY <2>3, <2>4
<1>2. CASE ServePay(a)
  <2>1. CASE Payable(a)
    BY <1>2, <2>1, OneDebited
  <2>2. CASE ~Payable(a)
    <3>1. Return(a, "pay", "cancel") /\ UNCHANGED <<balance, paid>> /\ UNCHANGED req
      BY <1>2, <2>2 DEF ServePay, OnError
    <3> QED
      BY <3>1, MovedOn DEF Labels, Early, Ops, Remote
  <2> QED
    BY <2>1, <2>2
<1>3. CASE ServeConfirm(a)
  <2>1. UNCHANGED <<balance, paid>> /\ UNCHANGED req
    BY <1>3 DEF ServeConfirm, tables
  <2>2. CASE Stock!HeldBy(a) # {}
    <3>1. pc' = pc /\ calls' = (calls \ {<<a, "confirm">>}) \cup {<<a, "update">>}
      BY <1>3, <2>2 DEF ServeConfirm
    <3>2. \A b \in Attempts : <<b, "pay">> \in calls' => <<b, "pay">> \in calls
      BY <3>1
    <3>3. \A b \in Attempts : pc[b] \in Early => <<b, "pay">> \notin calls
      BY DEF Accounts, Unpaid
    <3> QED
      BY <2>1, <3>1, <3>2, <3>3, NothingDebited
  <2>3. CASE Stock!HeldBy(a) = {}
    <3>1. PICK next \in {"outbox", "cancel"} : Return(a, "confirm", next)
      BY <1>3, <2>3 DEF ServeConfirm, OnError
    <3> QED
      BY <2>1, <3>1, MovedOn DEF Labels, Early, Ops, Remote
  <2> QED
    BY <2>2, <2>3
<1>4. CASE ServeUpdate(a) \/ ServeRelease(a)
  <2>1. PICK op \in {"update", "release"}, next \in {"outbox", "failed"} : Return(a, op, next)
    BY <1>4 DEF ServeUpdate, ServeRelease
  <2>2. UNCHANGED <<balance, paid>> /\ UNCHANGED req
    BY <1>4 DEF ServeUpdate, ServeRelease
  <2> QED
    BY <2>1, <2>2, MovedOn DEF Labels, Early, Ops, Remote, Ended
<1> QED
  BY <1>1, <1>2, <1>3, <1>4 DEF Serve

LEMMA GatewayAccounts ==
  ASSUME IInv, Accounts, NEW a \in Attempts,
         Fail(a) \/ Local(a) \/ \E r \in Requests : Arrive(a, r)
  PROVE  Accounts'
<1>1. ASSUME NEW op \in Ops, CallFails(a, op) \/ CallTimesOut(a, op) PROVE Accounts'
  <2>1. OnError(op) \in {"failed", "cancel"}
    BY DEF OnError
  <2>2. /\ Return(a, op, OnError(op)) \/ Goto(a, OnError(op))
        /\ UNCHANGED <<balance, paid>> /\ UNCHANGED req
    BY <1>1 DEF CallFails, CallTimesOut, tables
  <2> QED
    BY <2>1, <2>2, MovedOn DEF Labels, Early, Ended
<1>2. CASE InsertOrder(a)
  <2>1. PICK next \in {"pay", "release"} : Goto(a, next)
    BY <1>2 DEF InsertOrder
  <2>2. pc[a] = "insert" /\ UNCHANGED <<balance, paid>> /\ UNCHANGED req
    BY <1>2 DEF InsertOrder
  <2> QED
    BY <2>1, <2>2, MovedOn DEF Labels, Early, Remote
<1>3. CASE MarkCancelled(a) \/ Enqueue(a) \/ StoreKey(a)
  <2>1. PICK next \in {"release", "placed", "key", "failed"} : Goto(a, next)
    BY <1>3 DEF MarkCancelled, Enqueue, StoreKey
  <2>2. UNCHANGED <<balance, paid>> /\ UNCHANGED req
    BY <1>3 DEF MarkCancelled, Enqueue, StoreKey
  <2> QED
    BY <2>1, <2>2, MovedOn DEF Labels, Early, Remote, Ended
<1>4. ASSUME NEW r \in Requests, Arrive(a, r) PROVE Accounts'
  <2>1. PICK next \in {"replayed", "reserve", "failed"} : Goto(a, next)
    BY <1>4 DEF Arrive
  <2>2. /\ pc[a] = "idle" /\ UNCHANGED <<balance, paid>>
        /\ \A b \in Attempts : pc[b] # "idle" => req'[b] = req[b]
    BY <1>4 DEF Arrive, tables, IInv, Typed
  <2> QED
    BY <2>1, <2>2, MovedOn DEF Labels, Early, Remote, Ended
<1> QED
  BY <1>1, <1>2, <1>3, <1>4 DEF Fail, Ops, Local

LEMMA StepAccounts == IInv /\ Amounts /\ Accounts /\ [Next]_vars => Accounts'
<1> SUFFICES ASSUME IInv, Amounts, Accounts, [Next]_vars PROVE Accounts'
  OBVIOUS
<1>1. ASSUME NEW a \in Attempts, Serve(a) PROVE Accounts'
  BY <1>1, ServeAccounts
<1>2. ASSUME NEW a \in Attempts, Fail(a) \/ Local(a) \/ \E r \in Requests : Arrive(a, r)
      PROVE  Accounts'
  BY <1>2, GatewayAccounts
<1>3. \A b \in Attempts : pc[b] \in Early => <<b, "pay">> \notin calls
  BY DEF Accounts, Unpaid
<1>4. CASE UNCHANGED <<balance, paid, pc, req, calls>>
  BY <1>3, <1>4, NothingDebited
<1>5. ASSUME NEW a \in Attempts, Delete(a) PROVE Accounts'
  BY <1>4, <1>5 DEF Delete, gateway
<1>6. CASE Reap \/ UNCHANGED vars
  BY <1>4, <1>6 DEF Reap, gateway, vars, tables
<1>7. CASE Crash
  <2>1. UNCHANGED <<balance, paid>> /\ req' = req /\ calls' = calls
    BY <1>7 DEF Crash, tables
  <2>2. \A b \in Attempts : pc'[b] \in Early => pc'[b] = pc[b]
    BY <1>7 DEF Crash, Early
  <2> QED
    BY <1>3, <2>1, <2>2, NothingDebited
<1> QED
  BY <1>1, <1>2, <1>5, <1>6, <1>7 DEF Next

LEMMA InitAccounts == Init => Accounts
<1> SUFFICES ASSUME Init PROVE Accounts
  OBVIOUS
<1>1. paid = {} /\ calls = {} /\ balance = Opening
  BY DEF Init
<1>2. ASSUME NEW s \in Students PROVE balance[s] + SumOver(Totals, DebitsOf(s)) = Opening[s]
  <2>1. DebitsOf(s) = {} /\ Opening[s] \in Nat
    BY <1>1, SagaAssumption DEF DebitsOf
  <2>2. SumOver(Totals, {}) = 0
    BY SumOverEmpty
  <2> QED
    BY <1>1, <2>1, <2>2
<1> QED
  BY <1>1, <1>2, FS_EmptySet DEF Accounts, Unpaid

LEMMA TotalsAreSums ==
  ASSUME NEW S, IsFiniteSet(S), \A a \in S : Totals[a] = Total(a)
  PROVE  MapThenSumSet(LAMBDA a : Total(a), S) = SumOver(Totals, S)
<1> DEFINE Adds(g) == g = [s \in SUBSET S |-> IF s = {} THEN 0
                                              ELSE Total(Pick(s)) + g[s \ {Pick(s)}]]
           c == CHOOSE g : Adds(g)
<1>1. MapThenSumSet(LAMBDA a : Total(a), S) = c[S]
  BY DEF MapThenSumSet, MapThenFoldSet, Pick
<1>2. \A g : Adds(g) <=> Summing(g, Totals, S)
  <2> SUFFICES ASSUME NEW g PROVE Adds(g) <=> Summing(g, Totals, S)
    OBVIOUS
  <2>1. \A s \in SUBSET S : s # {} => Total(Pick(s)) = Totals[Pick(s)]
    BY PickInSet
  <2> QED
    BY <2>1 DEF Summing
<1>3. \E g : Summing(g, Totals, S)
  BY SummingExists
<1> HIDE DEF Adds
<1>4. Summing(c, Totals, S)
  <2>1. \E g : Adds(g)
    BY <1>2, <1>3
  <2>2. Adds(c)
    BY <2>1
  <2> HIDE DEF c
  <2> QED
    BY <1>2, <2>2
<1> HIDE DEF c
<1>5. SumOver(Totals, S) = c[S]
  BY <1>4, SumOverSumming
<1> QED
  BY <1>1, <1>5

-----------------------------------------------------------------------------
(* The quantities: what a line has reserved is the line's quantity, and it *)
(* stays that quantity.                                                    *)

Passed(a) == pc[a] \in {"insert", "pay", "confirm"} \cup Placing \/ a \in outbox

\* The lines of a whose reserve call has been answered.
Done(a) == IF Passed(a) THEN 1 .. Len(req[a].lines) ELSE 1 .. line[a] - 1

Taken(a, n) ==
  /\ State(a, n) # "none"
  /\ hold[<<a, req[a].lines[n].item>>].qty = req[a].lines[n].qty

Measured == \A a \in Attempts : \A n \in Done(a) : Taken(a, n)

\* What is once promised is never promised anew, in no other quantity.
LEMMA QuantitiesKept ==
  ASSUME IInv, [Next]_vars, NEW k \in Stock!Holds, hold[k].state # "none"
  PROVE  hold'[k].state # "none" /\ hold'[k].qty = hold[k].qty
<1>1. hold \in [Stock!Holds -> Hold]
  BY DEF IInv, Typed, Hold, HoldStates
<1>2. ASSUME NEW s \in {"sold", "back"}
      PROVE  /\ [hold[k] EXCEPT !.state = s].state = s
             /\ [hold[k] EXCEPT !.state = s].qty = hold[k].qty
  BY <1>1 DEF Hold
<1>3. [Stock!Next]_stock
  BY StepsOfStock
<1>4. CASE UNCHANGED stock
  BY <1>4 DEF stock
<1>5. ASSUME NEW j \in Stock!Holds, NEW n \in 1 .. shelf[j[2]], Stock!Promise(j, n)
      PROVE  hold'[k] = hold[k]
  <2>1. j # k
    BY <1>5 DEF Stock!Promise, Stock!Nothing
  <2> QED
    BY <1>1, <1>5, <2>1 DEF Stock!Promise
<1>6. ASSUME NEW o \in Attempts, Stock!Sell(o)
      PROVE  hold'[k] \in {hold[k], [hold[k] EXCEPT !.state = "sold"]}
  BY <1>6 DEF Stock!Sell
<1>7. ASSUME NEW S \in SUBSET Stock!Holds, Stock!PutBack(S)
      PROVE  hold'[k] \in {hold[k], [hold[k] EXCEPT !.state = "back"]}
  BY <1>7 DEF Stock!PutBack
<1> QED
  BY <1>2, <1>3, <1>4, <1>5, <1>6, <1>7 DEF Stock!Next

\* Only the reserve calls take a request from one line to the next and to the
\* INSERT of its order.
LEMMA PassedBefore ==
  ASSUME IInv, [Next]_vars, NEW a \in Attempts, ~ServeReserve(a)
  PROVE  /\ line'[a] = line[a]
         /\ pc[a] # "idle" => req'[a] = req[a]
         /\ Passed(a)' => Passed(a)
<1> DEFINE Past == {"insert", "pay", "confirm", "outbox", "key", "placed"}
           Same == line'[a] = line[a] /\ (pc[a] # "idle" => req'[a] = req[a])
           Still == (a \in outbox' => Passed(a)) /\ (pc'[a] \in Past => pc[a] \in Past)
<1>0. Passed(a) <=> pc[a] \in Past \/ a \in outbox
  BY DEF Passed, Placing
<1>1. ASSUME NEW b \in Attempts, NEW next \in Labels, Goto(b, next),
             b = a /\ next \in Past => pc[a] \in Past
      PROVE  pc'[a] \in Past => pc[a] \in Past
  BY <1>1, GotoEffect
<1>2. ASSUME NEW b \in Attempts, NEW op \in Ops, NEW next \in Labels, Return(b, op, next),
             b = a /\ Awaits(a, op) /\ next \in Past => pc[a] \in Past
      PROVE  pc'[a] \in Past => pc[a] \in Past
  BY <1>2, ReturnEffect
<1>3. ASSUME NEW b \in Attempts, Serve(b) PROVE Same /\ Still
  <2>1. CASE ServeReserve(b)
    <3>1. b # a
      BY <2>1
    <3>2. PICK next \in {"reserve", "insert", "failed"} : Return(b, "reserve", next)
      BY <2>1 DEF ServeReserve, Reserved, OnError
    <3>3. line'[a] = line[a] /\ UNCHANGED <<req, outbox>>
      BY <2>1, <3>1 DEF ServeReserve, Reserved, IInv, Typed
    <3> QED
      BY <1>0, <1>2, <3>1, <3>2, <3>3 DEF Labels, Remote, Ended, Ops
  <2>2. CASE ServePay(b)
    <3>1. PICK next \in {"confirm", "cancel"} : Return(b, "pay", next)
      BY <2>2 DEF ServePay, OnError
    <3>2. Awaits(a, "pay") => pc[a] \in Past
      BY DEF Awaits
    <3> QED
      BY <1>0, <1>2, <2>2, <3>1, <3>2 DEF ServePay, Labels, Remote, Ended, Ops
  <2>3. CASE ServeConfirm(b)
    <3>1. UNCHANGED <<req, line, outbox>>
      BY <2>3 DEF ServeConfirm, tables
    <3>2. pc' = pc \/ \E next \in {"outbox", "cancel"} : Return(b, "confirm", next)
      BY <2>3 DEF ServeConfirm, OnError
    <3>3. Awaits(a, "confirm") => pc[a] \in Past
      BY DEF Awaits
    <3> QED
      BY <1>0, <1>2, <3>1, <3>2, <3>3 DEF Labels, Remote, Ended, Ops
  <2>4. CASE ServeUpdate(b)
    <3>1. Awaits(a, "update") => pc[a] \in Past
      BY DEF Awaits
    <3> QED
      BY <1>0, <1>2, <2>4, <3>1 DEF ServeUpdate, Labels, Remote, Ended, Ops
  <2>5. CASE ServeRelease(b)
    BY <1>0, <1>2, <2>5 DEF ServeRelease, Labels, Remote, Ended, Ops
  <2> QED
    BY <1>3, <2>1, <2>2, <2>3, <2>4, <2>5 DEF Serve
<1>4. ASSUME NEW b \in Attempts, Fail(b) PROVE Same /\ Still
  <2>1. PICK op \in Ops : CallFails(b, op) \/ CallTimesOut(b, op)
    BY <1>4 DEF Fail, Ops
  <2>2. OnError(op) \in Labels \ Past
    BY DEF OnError, Labels, Ended, Remote
  <2>3. Return(b, op, OnError(op)) \/ Goto(b, OnError(op))
    BY <2>1 DEF CallFails, CallTimesOut
  <2>4. UNCHANGED <<req, line, outbox>>
    BY <2>1 DEF CallFails, CallTimesOut, tables
  <2> QED
    BY <1>0, <1>1, <1>2, <2>2, <2>3, <2>4
<1>5. ASSUME NEW b \in Attempts, Local(b) PROVE Same /\ Still
  <2>1. UNCHANGED <<req, line>>
    BY <1>5 DEF Local, InsertOrder, MarkCancelled, Enqueue, StoreKey
  <2>2. CASE InsertOrder(b) \/ MarkCancelled(b)
    <3>1. PICK next \in {"pay", "release"} : Goto(b, next)
      BY <2>2 DEF InsertOrder, MarkCancelled
    <3>2. outbox' = outbox /\ (pc[b] = "insert" \/ next = "release")
      BY <2>2, <3>1 DEF InsertOrder, MarkCancelled, Goto, IInv, Typed
    <3> QED
      BY <1>0, <1>1, <2>1, <3>1, <3>2 DEF Labels, Remote
  <2>3. CASE Enqueue(b) \/ StoreKey(b)
    <3>1. PICK next \in {"placed", "key", "failed"} : Goto(b, next)
      BY <2>3 DEF Enqueue, StoreKey
    <3>2. pc[b] \in Past /\ outbox' \in {outbox, outbox \cup {b}}
      BY <2>3 DEF Enqueue, StoreKey
    <3> QED
      BY <1>0, <1>1, <2>1, <3>1, <3>2 DEF Labels, Ended
  <2> QED
    BY <1>5, <2>2, <2>3 DEF Local
<1>6. ASSUME NEW b \in Attempts, NEW r \in Requests, Arrive(b, r) PROVE Same /\ Still
  <2>1. PICK next \in {"replayed", "reserve", "failed"} : Goto(b, next)
    BY <1>6 DEF Arrive
  <2>2. UNCHANGED <<line, outbox>> /\ pc[b] = "idle" /\ req' = [req EXCEPT ![b] = r]
    BY <1>6 DEF Arrive, tables
  <2> QED
    BY <1>0, <1>1, <2>1, <2>2 DEF Labels, Remote, Ended, IInv, Typed
<1>7. ASSUME UNCHANGED <<req, line, outbox>>, pc'[a] \in {pc[a], "failed"} PROVE Same /\ Still
  BY <1>0, <1>7
<1>8. ASSUME Crash PROVE Same /\ Still
  <2>1. pc'[a] \in {pc[a], "failed"}
    BY <1>8 DEF Crash
  <2> QED
    BY <1>7, <1>8, <2>1 DEF Crash, tables
<1>9. ASSUME Reap \/ (\E b \in Attempts : Delete(b)) \/ UNCHANGED vars PROVE Same /\ Still
  <2>1. UNCHANGED <<req, line, outbox>> /\ pc' = pc
    BY <1>9 DEF Reap, Delete, gateway, vars, tables
  <2> QED
    BY <1>7, <2>1
<1>10. Same /\ Still
  <2> HIDE DEF Same, Still
  <2> QED
    BY <1>3, <1>4, <1>5, <1>6, <1>8, <1>9 DEF Next
<1>11. Passed(a)' <=> pc'[a] \in Past \/ a \in outbox'
  BY DEF Passed, Placing
<1> QED
  BY <1>0, <1>10, <1>11

\* A reserve call that goes well leaves the line's quantity reserved.
LEMMA ReserveMeasures ==
  ASSUME IInv, NEW a \in Attempts, ServeReserve(a), NEW n \in Done(a)'
  PROVE  req'[a] = req[a] /\ (n \in Done(a) \/ (n = line[a] /\ Taken(a, n)'))
<1>1. Started(a) /\ Called(a) /\ <<a, "reserve">> \in calls /\ UNCHANGED <<outbox, req>>
  BY DEF IInv, ServeReserve
<1>2. req[a] \in Requests /\ line[a] \in 1 .. Len(req[a].lines)
  BY <1>1 DEF Called, Started, Remote
<1>3. Len(req[a].lines) \in Nat
  <2>1. req[a].lines \in Seq(Lines)
    BY <1>2, SagaAssumption
  <2> QED
    BY <2>1
<1>4. Awaits(a, "reserve") <=> pc[a] = "reserve"
  BY DEF Awaits
<1>5. "reserve" \in Ops /\ {"reserve", "insert", "failed"} \subseteq Labels
  BY DEF Ops, Remote, Labels, Ended
<1> PICK m \in 1 .. Len(req[a].lines) : m = line[a]
  BY <1>2
<1>6. CASE Return(a, "reserve", OnError("reserve")) /\ UNCHANGED <<stock, line>>
  <2>1. pc'[a] \in {pc[a], "failed"}
    BY <1>5, <1>6, ReturnEffect DEF OnError
  <2>2. Passed(a)' => Passed(a)
    BY <1>1, <2>1 DEF Passed, Placing
  <2>3. n \in Done(a)
    BY <1>1, <1>2, <1>3, <1>6, <2>2 DEF Done
  <2> QED
    BY <1>1, <2>3
<1>7. ASSUME Reserved(a), Taken(a, m)'
      PROVE  req'[a] = req[a] /\ (n \in Done(a) \/ (n = line[a] /\ Taken(a, n)'))
  <2> DEFINE next == IF line[a] < Len(req[a].lines) THEN "reserve" ELSE "insert"
  <2>1. next \in Labels /\ Return(a, "reserve", next)
    BY <1>5, <1>7 DEF Reserved
  <2>2. pc'[a] = IF pc[a] = "reserve" THEN next ELSE pc[a]
    <3> HIDE DEF next
    <3> QED
      BY <1>4, <1>5, <2>1, ReturnEffect
  <2>3. line'[a] = IF pc[a] = "reserve" /\ line[a] < Len(req[a].lines) THEN line[a] + 1 ELSE line[a]
    BY <1>2, <1>4, <1>7 DEF Reserved, IInv, Typed
  <2>4. CASE pc[a] # "reserve" \/ a \in outbox
    <3>1. Passed(a)' <=> Passed(a)
      BY <1>1, <2>2, <2>4 DEF Passed, Placing
    <3>2. a \in outbox => Passed(a)
      BY DEF Passed
    <3> QED
      BY <1>1, <2>3, <2>4, <3>1, <3>2 DEF Done
  <2>5. CASE pc[a] = "reserve" /\ a \notin outbox
    <3>1. Done(a) = 1 .. line[a] - 1
      BY <2>5 DEF Done, Passed, Placing
    <3>2. n \in 1 .. line[a]
      <4>1. CASE line[a] < Len(req[a].lines)
        <5>1. ~Passed(a)'
          BY <1>1, <2>2, <2>5, <4>1 DEF Passed, Placing
        <5> QED
          BY <1>2, <1>3, <2>3, <2>5, <4>1, <5>1 DEF Done
      <4>2. CASE line[a] = Len(req[a].lines)
        <5>1. Passed(a)'
          BY <2>2, <2>5, <4>2 DEF Passed
        <5> QED
          BY <1>1, <4>2, <5>1 DEF Done
      <4> QED
        BY <1>2, <1>3, <4>1, <4>2
    <3>3. n \in 1 .. line[a] - 1 \/ n = line[a]
      BY <1>2, <1>3, <3>2
    <3> QED
      BY <1>1, <1>7, <3>1, <3>3
  <2> QED
    BY <2>4, <2>5
<1>8. ASSUME NEW k \in Stock!Holds, k = <<a, req[a].lines[m].item>>,
             hold'[k].state # "none", hold'[k].qty = req[a].lines[m].qty
      PROVE  Taken(a, m)'
  BY <1>1, <1>8 DEF Taken, State
<1>9. PICK k \in Stock!Holds, q \in Nat \ {0} :
        /\ k = <<a, req[a].lines[m].item>> /\ k = <<a, Line(a).item>>
        /\ q = req[a].lines[m].qty /\ q = Line(a).qty
  BY <1>2, LineType DEF Stock!Holds, Line
<1>10. CASE Stock!Promise(k, q) /\ Reserved(a)
  <2>1. hold'[k].state = "held" /\ hold'[k].qty = q
    BY <1>10, PromiseEffect DEF IInv
  <2> QED
    BY <1>7, <1>8, <1>9, <1>10, <2>1
<1>11. CASE hold[k].state \in {"held", "sold"} /\ hold[k].qty = q /\ Reserved(a) /\ UNCHANGED stock
  <2>1. hold' = hold
    BY <1>11 DEF stock
  <2> QED
    BY <1>7, <1>8, <1>9, <1>11, <2>1
<1> QED
  BY <1>6, <1>9, <1>10, <1>11 DEF ServeReserve

LEMMA StepMeasured == IInv /\ Measured /\ [Next]_vars => Measured'
<1> SUFFICES ASSUME IInv, Measured, [Next]_vars, NEW a \in Attempts, NEW n \in Done(a)'
             PROVE  Taken(a, n)'
  BY DEF Measured
<1>1. Started(a) /\ Withdrawn(a)
  BY DEF IInv
<1>2. CASE n \in Done(a) /\ pc[a] # "idle" /\ req'[a] = req[a]
  <2>1. req[a] \in Requests /\ line[a] \in 1 .. Len(req[a].lines)
    BY <1>1, <1>2 DEF Started
  <2>2. n \in 1 .. Len(req[a].lines)
    <3>1. req[a].lines \in Seq(Lines)
      BY <2>1, SagaAssumption
    <3>2. Len(req[a].lines) \in Nat
      BY <3>1
    <3> QED
      BY <1>2, <2>1, <3>2 DEF Done
  <2>3. <<a, req[a].lines[n].item>> \in Stock!Holds
    BY <2>1, <2>2, LineType DEF Stock!Holds
  <2>4. Taken(a, n)
    BY <1>2 DEF Measured
  <2> QED
    BY <1>2, <2>3, <2>4, QuantitiesKept DEF Taken, State
<1>3. CASE ServeReserve(a)
  <2>1. pc[a] # "idle"
    BY <1>3 DEF ServeReserve, IInv, Called, Remote
  <2> QED
    BY <1>2, <1>3, <2>1, ReserveMeasures
<1>4. CASE ~ServeReserve(a)
  <2>1. /\ line'[a] = line[a]
        /\ pc[a] # "idle" => req'[a] = req[a]
        /\ Passed(a)' => Passed(a)
    BY <1>4, PassedBefore
  <2>2. pc[a] # "idle"
    <3>1. ASSUME pc[a] = "idle" PROVE FALSE
      <4>1. line[a] = 1 /\ ~Passed(a)
        BY <1>1, <3>1 DEF Started, Withdrawn, Passed, Placing
      <4> QED
        BY <2>1, <4>1 DEF Done
    <3> QED
      BY <3>1
  <2>3. req[a] \in Requests /\ line[a] \in 1 .. Len(req[a].lines)
    BY <1>1, <2>2 DEF Started
  <2>4. Len(req[a].lines) \in Nat
    <3>1. req[a].lines \in Seq(Lines)
      BY <2>3, SagaAssumption
    <3> QED
      BY <3>1
  <2>5. n \in Done(a)
    BY <2>1, <2>2, <2>3, <2>4 DEF Done
  <2> QED
    BY <1>2, <2>1, <2>2, <2>5
<1> QED
  BY <1>3, <1>4

LEMMA InitMeasured == Init => Measured
<1> SUFFICES ASSUME Init, NEW a \in Attempts, NEW n \in Done(a) PROVE FALSE
  BY DEF Measured
<1>1. line[a] = 1 /\ ~Passed(a)
  BY DEF Init, Passed, Placing
<1> QED
  BY <1>1 DEF Done

-----------------------------------------------------------------------------
(* Theorems                                                                *)

\* Where create_order is says what the stock service and the payment service
\* have done for the order, and which calls may still be served.
THEOREM Inductive == Spec => []IInv
<1> QED
  BY InitInvariant, StepKeeps, PTL DEF Spec

\* Every variable has its type: in particular no stock is promised and no
\* account debited (process_payment, reserve_stock) beyond what there is.
THEOREM TypeCorrect == Spec => []TypeOK
<1>1. IInv /\ Amounts => TypeOK
  BY DEF IInv, Typed, Amounts, TypeOK, Labels
<1>2. Spec => []Amounts
  BY InitInvariant, InitAmounts, StepKeeps, StepAmounts, PTL DEF Spec
<1> QED
  BY <1>1, <1>2, Inductive, PTL

\* Stock is sold only to orders that have been debited (create_order confirms
\* after the payment's 200), however late a confirm is served and whether or
\* not reservations expire under a request.
THEOREM NoUnpaidSale == Spec => []SoldIsPaid
<1>1. IInv => SoldIsPaid
  BY DEF IInv, Debited, SoldIsPaid
<1> QED
  BY <1>1, Inductive, PTL

\* While a request ends before its reservations expire, what create_order
\* queues for the kitchen is paid and not cancelled, and of each item in it the
\* quantity of its line is sold to it (where several lines name one item, the
\* quantity of one of them), whatever calls failed or were served late.
THEOREM EveryJobFunded ==
  ASSUME Prompt
  PROVE  Spec => []JobsAreFunded
<1>1. IInv /\ Measured => JobsAreFunded
  <2> SUFFICES ASSUME IInv, Measured, NEW a \in outbox
               PROVE  a \in paid /\ order[a] # "CANCELLED" /\ \A i \in Items : SoldOneLine(a, i)
    BY DEF JobsAreFunded
  <2>1. a \in Attempts /\ Started(a) /\ Withdrawn(a) /\ Debited(a) /\ Progress(a)
    BY DEF IInv, Typed
  <2>2. req[a] \in Requests
    BY <2>1 DEF Started, Withdrawn
  <2>3. DOMAIN req[a].lines = 1 .. Len(req[a].lines)
    <3>1. req[a].lines \in Seq(Lines)
      BY <2>2, SagaAssumption
    <3> QED
      BY <3>1
  <2>4. ASSUME NEW i \in Items, NEW n \in 1 .. Len(req[a].lines), req[a].lines[n].item = i
        PROVE  hold[<<a, i>>] = [state |-> "sold", qty |-> req[a].lines[n].qty]
    <3>1. <<a, i>> \in Stock!Holds
      BY <2>1 DEF Stock!Holds
    <3>2. hold[<<a, i>>] \in Hold
      BY <3>1 DEF IInv, Typed, Hold, HoldStates
    <3>3. hold[<<a, i>>].state = "sold"
      BY <2>1, <2>4 DEF Progress, State
    <3>4. hold[<<a, i>>].qty = req[a].lines[n].qty
      BY <2>1, <2>4 DEF Measured, Done, Passed, Taken
    <3> QED
      BY <3>2, <3>3, <3>4 DEF Hold
  <2>5. \A i \in Items : SoldOneLine(a, i)
    BY <2>3, <2>4 DEF SoldOneLine, LinesOf
  <2> QED
    BY <2>1, <2>5 DEF Debited, Withdrawn
<1>2. Spec => []Measured
  BY InitInvariant, InitMeasured, StepKeeps, StepMeasured, PTL DEF Spec
<1> QED
  BY <1>1, <1>2, Inductive, PTL

\* Once create_order has answered 200, a request with the same key is answered
\* with an order that is stored and orders nothing, unless an order of that
\* key has been deleted.
THEOREM RepeatsReplayed == Spec => RepeatIsReplayed
<1> DEFINE Replayed ==
      \A a, b \in Attempts :
        (/\ pc[a] = "placed" /\ pc[b] = "idle" /\ pc'[b] # "idle"
         /\ SameKey(a, b)'
         /\ \A c \in Attempts : SameKey(a, c) => order[c] # "deleted")
        => pc'[b] = "replayed"
<1>1. IInv /\ [Next]_vars => [Replayed]_gateway
  <2> SUFFICES ASSUME IInv, Next, NEW a \in Attempts, NEW b \in Attempts,
                      pc[a] = "placed", pc[b] = "idle", pc'[b] # "idle", SameKey(a, b)',
                      \A c \in Attempts : SameKey(a, c) => order[c] # "deleted"
               PROVE  pc'[b] = "replayed"
    BY DEF vars, gateway
  <2>1. PICK r \in Requests : Arrive(b, r)
    <3>1. ASSUME NEW d \in Attempts, NEW l, Goto(d, l) PROVE b = d \/ pc'[b] = pc[b]
      BY <3>1 DEF Goto, IInv, Typed
    <3>2. ASSUME NEW d \in Attempts, NEW op \in Ops, NEW l, Return(d, op, l) PROVE pc'[b] = pc[b]
      BY <3>2 DEF Return, Awaits, Ops, Remote, IInv, Typed
    <3>3. ASSUME NEW d \in Attempts, Serve(d) PROVE FALSE
      BY <3>2, <3>3 DEF Serve, ServeReserve, Reserved, ServePay, ServeConfirm, ServeUpdate,
                        ServeRelease, Ops, Remote
    <3>4. ASSUME NEW d \in Attempts, Fail(d) PROVE FALSE
      <4>1. PICK op \in Ops : CallFails(d, op) \/ CallTimesOut(d, op)
        BY <3>4 DEF Fail, Ops
      <4>2. Goto(d, OnError(op)) /\ pc[d] # "idle"
        BY <3>2, <4>1 DEF CallFails, CallTimesOut, Awaits, Ops, Remote
      <4> QED
        BY <3>1, <4>2
    <3>5. ASSUME NEW d \in Attempts, Local(d) PROVE FALSE
      BY <3>1, <3>5 DEF Local, InsertOrder, MarkCancelled, Enqueue, StoreKey
    <3>6. ~Reap /\ ~Crash /\ \A d \in Attempts : ~Delete(d)
      BY DEF Reap, Crash, Delete, gateway, Busy
    <3>7. PICK d \in Attempts, r \in Requests : Arrive(d, r)
      BY <3>3, <3>4, <3>5, <3>6 DEF Next
    <3>8. d = b
      BY <3>1, <3>7 DEF Arrive
    <3> QED
      BY <3>7, <3>8
  <2>2. /\ req'[b] = r /\ req'[a] = req[a] /\ req[a].key # None
        /\ req[a].student = r.student /\ req[a].key = r.key
    BY <2>1 DEF Arrive, SameKey, IInv, Typed
  <2>3. Recorded(req[a].student, req[a].key) # {}
    BY <2>2 DEF IInv, KeyKept
  <2>4. Goto(b, "replayed")
    BY <2>1, <2>2, <2>3 DEF Arrive
  <2> QED
    BY <2>4 DEF Goto, IInv, Typed
<1> QED
  BY <1>1, Inductive, PTL DEF Spec, RepeatIsReplayed

\* The saga uses the stock service only as Inventory describes it, the
\* specification that StockServiceProofs shows the service to implement.
THEOREM StockServed == Spec => Stock!Spec
<1>1. Init => Stock!Init
  BY DEF Init
<1>2. IInv /\ [Next]_vars => [Stock!Next]_<<shelf, hold>>
  BY StepsOfStock DEF stock
<1> QED
  BY <1>1, <1>2, Inductive, PTL DEF Spec, Stock!Spec

\* Whatever create_order leaves undone, no unit of stock is made or lost: what
\* is not on the shelf is reserved for an order or confirmed to it.
THEOREM NoUnitLost == Spec => []UnitsKept
<1>1. IInv /\ Amounts /\ Kept => UnitsKept
  <2> SUFFICES ASSUME IInv, Amounts, Kept, NEW i \in Items
               PROVE  shelf[i] + MapThenSumSet(LAMBDA k : hold[k].qty, Promised(i)) = Stocked[i]
    BY DEF UnitsKept
  <2>1. Promised(i) \in SUBSET Promised(i)
    OBVIOUS
  <2>2. MapThenSumSet(LAMBDA k : hold[k].qty, Promised(i)) = SumOver(Units, Promised(i))
    BY <2>1, PromisedUnits
  <2> QED
    BY <2>2 DEF Kept
<1>2. Spec => []Amounts
  BY InitInvariant, InitAmounts, StepKeeps, StepAmounts, PTL DEF Spec
<1>3. Spec => []Kept
  BY <1>2, Inductive, InitKept, StepKept, PTL DEF Spec
<1> QED
  BY <1>1, <1>2, <1>3, Inductive, PTL

\* A student is debited the total of each order process_payment has paid, once,
\* and nothing else: a call that is served after the gateway has given up, or
\* after it has died, is no exception.
THEOREM EachOrderDebitedOnce == Spec => []DebitedOnce
<1>1. IInv /\ Accounts => DebitedOnce
  <2> SUFFICES ASSUME IInv, Accounts, NEW s \in Students
               PROVE  balance[s] + Charged(s) = Opening[s]
    BY DEF DebitedOnce
  <2>1. IsFiniteSet(DebitsOf(s))
    BY FS_Subset DEF DebitsOf, Accounts
  <2>2. \A a \in DebitsOf(s) : Totals[a] = Total(a)
    BY DEF DebitsOf, Totals, IInv, Typed
  <2>3. Charged(s) = SumOver(Totals, DebitsOf(s))
    BY <2>1, <2>2, TotalsAreSums DEF Charged
  <2> QED
    BY <2>3 DEF Accounts
<1>2. Spec => []Amounts
  BY InitInvariant, InitAmounts, StepKeeps, StepAmounts, PTL DEF Spec
<1>3. Spec => []Accounts
  BY <1>2, Inductive, InitAccounts, StepAccounts, PTL DEF Spec
<1> QED
  BY <1>1, <1>3, Inductive, PTL
=============================================================================
