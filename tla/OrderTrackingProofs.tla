------------------------ MODULE OrderTrackingProofs ------------------------
(***************************************************************************)
(* What the page shows is true, for any number of orders, of requests in   *)
(* flight, of faults and of events on their way.  The inductive invariant  *)
(* says that everything the page may come to show - an answer it has not   *)
(* taken, a change not announced, an event in a queue or on a wire - is    *)
(* something the order has already reached, and that the order's row never *)
(* goes back.                                                              *)
(***************************************************************************)
EXTENDS OrderTracking, TLAPS

\* A status and a pickup count the tracked order has reached.
Reached(status, pickup) ==
  /\ Rank(status) <= Rank(orders[Tracked].status)
  /\ pickup <= orders[Tracked].pickup

Honest(e) == e.order = Tracked => Reached(e.status, e.pickup)

\* An order that is not ready has no pickup window.
RowsShaped ==
  \A o \in Orders : orders[o].status \in {"QUEUED", "IN_PROGRESS"} => orders[o].pickup = 0

\* What a step of the feed keeps.
FeedTyped ==
  orders \in [Orders -> FeedRow] /\ unsaid \subseteq Event /\ statusQueue \in Seq(Event)

FeedHonest ==
  /\ \A e \in unsaid : Honest(e)
  /\ \A i \in 1 .. Len(statusQueue) : Honest(statusQueue[i])

\* What the page shows and its two effects hold.
PageTyped ==
  /\ page \in [platform : {"web", "mobile"}, status : Statuses, pickup : 0..2, err : BOOLEAN]
  /\ loads \in [Slots -> Answer \cup {Idle, Asked, Failed}]
  /\ socket \in {"off", "asking", "open", "waiting"}
  /\ strays \subseteq {"asking", "open"}

\* Once the page rests, its effects hold nothing that could wake it.
RestsForGood ==
  page.status \in Terminal =>
    /\ socket = "off"
    /\ \A s \in Slots : loads[s] \in Answer => loads[s].status \in Terminal

PageHonest ==
  /\ NeverAhead
  /\ \A s \in Slots : loads[s] \in Answer => Reached(loads[s].status, loads[s].pickup)
  /\ RestsForGood

\* What no effect owns: the retry, and the wire of a stray websocket.
StrayTyped ==
  retry \in Answer \cup {Idle, Failed} /\ strayWire \in Seq(Event) /\ faults \in 0..MaxFaults

RetryHonest == retry \in Answer => Reached(retry.status, retry.pickup)
WireHonest == \A i \in 1 .. Len(strayWire) : Honest(strayWire[i])

IInv ==
  /\ FeedTyped /\ PageTyped /\ StrayTyped
  /\ RowsShaped
  /\ FeedHonest /\ PageHonest /\ RetryHonest /\ WireHonest
-----------------------------------------------------------------------------

LEMMA RankOf ==
  /\ Rank("QUEUED") = 0 /\ Rank("IN_PROGRESS") = 1 /\ Rank("READY") = 2
  /\ Rank("COMPLETED") = 3 /\ Rank("CANCELLED") = 3 /\ Rank("GONE") = 4
BY DEF Rank

LEMMA RankType == \A s \in Statuses \cup {"GONE"} : Rank(s) \in Nat
BY RankOf DEF Statuses

\* What the kitchen or an administrator turns a row into is further on.
LEMMA AfterMoves ==
  ASSUME NEW row \in FeedRow,
         row.status \in {"QUEUED", "IN_PROGRESS"} => row.pickup = 0,
         NEW r \in After(row)
  PROVE  /\ r \in FeedRow /\ r.status \in Statuses
         /\ r.status \in {"QUEUED", "IN_PROGRESS"} => r.pickup = 0
         /\ Rank(row.status) <= Rank(r.status) /\ row.pickup <= r.pickup
<1>1. CASE row.status = "QUEUED"
  BY <1>1, RankOf DEF After, FeedRow, Statuses
<1>2. CASE row.status = "IN_PROGRESS"
  <2>1. r = [row EXCEPT !.status = "READY", !.pickup = 1]
    BY <1>2 DEF After
  <2>2. r = [status |-> "READY", pickup |-> 1]
    BY <2>1 DEF FeedRow
  <2> QED
    BY <1>2, <2>2, RankOf DEF FeedRow, Statuses
<1>3. CASE row.status = "READY"
  BY <1>3, RankOf DEF After, FeedRow, Statuses
<1>4. CASE row.status \notin {"QUEUED", "IN_PROGRESS", "READY"}
  BY <1>4 DEF After
<1> QED
  BY <1>1, <1>2, <1>3, <1>4

\* What the tracked order has reached it does not go back on.
Advances == \A s \in Statuses, p \in 0..2 : Reached(s, p) => Reached(s, p)'

LEMMA AdvancesIf ==
  ASSUME FeedTyped, FeedTyped', Tracked \in Orders,
         Rank(orders[Tracked].status) <= Rank(orders'[Tracked].status),
         orders[Tracked].pickup <= orders'[Tracked].pickup
  PROVE  Advances
<1>1. /\ orders[Tracked].status \in Statuses \cup {"GONE"} /\ orders[Tracked].pickup \in 0..2
      /\ orders'[Tracked].status \in Statuses \cup {"GONE"} /\ orders'[Tracked].pickup \in 0..2
  BY DEF FeedTyped, FeedRow
<1>2. /\ Rank(orders[Tracked].status) \in Nat /\ Rank(orders'[Tracked].status) \in Nat
      /\ \A s \in Statuses : Rank(s) \in Nat
  BY <1>1, RankType
<1>3. \A s \in Statuses, p \in 0..2 : Reached(s, p)' <=>
        Rank(s) <= Rank(orders'[Tracked].status) /\ p <= orders'[Tracked].pickup
  BY DEF Reached
<1> QED
  BY <1>1, <1>2, <1>3 DEF Advances, Reached

\* So what was said of it stays true.
LEMMA HonestStays ==
  ASSUME Advances, NEW e \in Event, Honest(e)
  PROVE  Honest(e)'
<1>1. e.status \in Statuses /\ e.pickup \in 0..2
  BY DEF Event
<1>2. Reached(e.status, e.pickup) => Reached(e.status, e.pickup)'
  BY <1>1 DEF Advances
<1> QED
  BY <1>2 DEF Honest

LEMMA ChangeKeeps ==
  ASSUME FeedTyped, FeedHonest, RowsShaped, NEW o \in Orders, Change(o)
  PROVE  FeedTyped' /\ FeedHonest' /\ RowsShaped' /\ Advances
<1> USE TrackingAssumption
<1>1. PICK row \in After(orders[o]) :
        /\ orders' = [orders EXCEPT ![o] = row]
        /\ unsaid' = unsaid \cup {[order |-> o, status |-> row.status, pickup |-> row.pickup]}
        /\ UNCHANGED statusQueue
  BY DEF Change
<1>2. /\ row \in FeedRow /\ row.status \in Statuses
      /\ row.status \in {"QUEUED", "IN_PROGRESS"} => row.pickup = 0
      /\ Rank(orders[o].status) <= Rank(row.status) /\ orders[o].pickup <= row.pickup
  BY AfterMoves DEF RowsShaped, FeedTyped
<1>3. row.pickup \in 0..2 /\ Rank(row.status) \in Nat
  BY <1>2, RankType DEF FeedRow
<1>4. FeedTyped' /\ RowsShaped'
  BY <1>1, <1>2, <1>3 DEF FeedTyped, RowsShaped, Event
<1>5. Advances
  <2>1. orders[Tracked].status \in Statuses \cup {"GONE"} /\ orders[Tracked].pickup \in 0..2
    BY DEF FeedTyped, FeedRow
  <2>2. Rank(orders[Tracked].status) \in Nat
    BY <2>1, RankType
  <2>3. /\ Rank(orders[Tracked].status) <= Rank(orders'[Tracked].status)
        /\ orders[Tracked].pickup <= orders'[Tracked].pickup
    BY <1>1, <1>2, <2>1, <2>2 DEF FeedTyped
  <2> QED
    BY <1>4, <2>3, AdvancesIf
<1>6. FeedHonest'
  <2>1. \A e \in unsaid : Honest(e)'
    BY <1>5, HonestStays DEF FeedHonest, FeedTyped
  <2>2. \A i \in 1 .. Len(statusQueue) : statusQueue[i] \in Event
    BY DEF FeedTyped
  <2>3. \A i \in 1 .. Len(statusQueue) : Honest(statusQueue[i])'
    BY <1>1, <1>5, <2>2, HonestStays DEF FeedHonest
  <2>4. o = Tracked => Reached(row.status, row.pickup)'
    BY <1>1, <1>3 DEF Reached, FeedTyped
  <2>5. Honest([order |-> o, status |-> row.status, pickup |-> row.pickup])'
    BY <2>4 DEF Honest
  <2> QED
    BY <1>1, <2>1, <2>3, <2>5 DEF FeedHonest
<1> QED
  BY <1>4, <1>5, <1>6

LEMMA WithdrawKeeps ==
  ASSUME FeedTyped, FeedHonest, RowsShaped, NEW o \in Orders, Withdraw(o)
  PROVE  FeedTyped' /\ FeedHonest' /\ RowsShaped' /\ Advances
<1> USE TrackingAssumption
<1>1. PICK s \in {"CANCELLED", "GONE"} :
        /\ orders[o].status # "GONE"
        /\ orders' = [orders EXCEPT ![o].status = s]
        /\ UNCHANGED <<unsaid, statusQueue>>
  BY DEF Withdraw
<1>2. FeedTyped' /\ RowsShaped'
  BY <1>1 DEF FeedTyped, RowsShaped, FeedRow, Statuses
<1>3. orders[o].status \in Statuses /\ Rank(orders[o].status) <= Rank(s)
  BY <1>1, RankOf DEF FeedTyped, FeedRow, Statuses
<1>4. orders[Tracked].status \in Statuses \cup {"GONE"} /\ orders[Tracked].pickup \in 0..2
  BY DEF FeedTyped, FeedRow
<1>5. Rank(orders[Tracked].status) \in Nat
  BY <1>4, RankType
<1>6. Advances
  <2>1. /\ Rank(orders[Tracked].status) <= Rank(orders'[Tracked].status)
        /\ orders[Tracked].pickup <= orders'[Tracked].pickup
    BY <1>1, <1>3, <1>4, <1>5 DEF FeedTyped
  <2> QED
    BY <1>2, <2>1, AdvancesIf
<1>7. FeedHonest'
  <2>1. \A e \in unsaid : Honest(e)'
    BY <1>6, HonestStays DEF FeedHonest, FeedTyped
  <2>2. \A i \in 1 .. Len(statusQueue) : statusQueue[i] \in Event
    BY DEF FeedTyped
  <2>3. \A i \in 1 .. Len(statusQueue) : Honest(statusQueue[i])'
    BY <1>1, <1>6, <2>2, HonestStays DEF FeedHonest
  <2> QED
    BY <1>1, <2>1, <2>3 DEF FeedHonest
<1> QED
  BY <1>2, <1>6, <1>7

LEMMA AnnouncementKeeps ==
  ASSUME FeedTyped, FeedHonest, RowsShaped, NEW e \in unsaid, Announce(e) \/ Forget(e)
  PROVE  FeedTyped' /\ FeedHonest' /\ RowsShaped' /\ Advances
<1>1. /\ UNCHANGED orders /\ unsaid' = unsaid \ {e} /\ e \in Event
      /\ statusQueue' \in {statusQueue, Append(statusQueue, e)}
  BY DEF Announce, Forget, FeedTyped
<1>2. FeedTyped' /\ RowsShaped' /\ Advances
  BY <1>1 DEF FeedTyped, RowsShaped, Advances, Reached
<1>3. \A f : Honest(f) => Honest(f)'
  BY <1>1 DEF Honest, Reached
<1>4. \A i \in 1 .. Len(statusQueue') :
        \/ statusQueue'[i] = e
        \/ i \in 1 .. Len(statusQueue) /\ statusQueue'[i] = statusQueue[i]
  BY <1>1 DEF FeedTyped
<1>5. FeedHonest'
  BY <1>1, <1>3, <1>4 DEF FeedHonest
<1> QED
  BY <1>2, <1>5

\* The feed keeps its types, takes no row back and announces what has happened.
LEMMA FeedStep ==
  ASSUME FeedTyped, FeedHonest, RowsShaped, FeedNext
  PROVE  FeedTyped' /\ FeedHonest' /\ RowsShaped' /\ Advances
BY ChangeKeeps, WithdrawKeeps, AnnouncementKeeps DEF FeedNext
-----------------------------------------------------------------------------
(* The page and its effects.                                               *)

\* The answers an effect keeps when it shows a status or an error.
Keeps(rest) ==
  /\ rest \in [Slots -> Answer \cup {Idle, Asked, Failed}]
  /\ \A s \in Slots : rest[s] = loads[s] \/ rest[s] = Idle

LEMMA FirstLoadType ==
  /\ FirstLoad \in [Slots -> {Idle, Asked}]
  /\ \A s \in Slots : FirstLoad[s] \notin Answer
BY TrackingAssumption DEF FirstLoad, FreshLoads

\* The page may show whatever the order has reached.
LEMMA ShowKeeps ==
  ASSUME PageTyped, PageHonest, UNCHANGED orders,
         NEW status \in Statuses, NEW pickup \in 0..2, Reached(status, pickup),
         NEW rest, Keeps(rest), Show(status, pickup, rest)
  PROVE  PageTyped' /\ PageHonest'
<1>1. /\ page' = [page EXCEPT !.status = status, !.pickup = pickup, !.err = FALSE]
      /\ page'.status = status /\ page'.pickup = pickup
  BY DEF Show, PageTyped
<1>2. NeverAhead'
  BY <1>1 DEF NeverAhead, Reached
<1>3. CASE status = page.status
  <2>1. loads' = rest /\ UNCHANGED <<socket, strays>>
    BY <1>3 DEF Show
  <2>2. PageTyped'
    BY <1>1, <2>1 DEF PageTyped, Keeps
  <2>3. \A s \in Slots : loads'[s] \in Answer => loads'[s] = loads[s]
    BY <2>1, TrackingAssumption DEF Keeps
  <2>4. RestsForGood'
    BY <1>1, <1>3, <2>1, <2>3 DEF RestsForGood, PageHonest
  <2>5. \A s \in Slots : loads'[s] \in Answer => Reached(loads[s].status, loads[s].pickup)'
    BY <2>3 DEF PageHonest, Reached
  <2> QED
    BY <1>2, <2>2, <2>4, <2>5 DEF PageHonest
<1>4. CASE status # page.status
  <2>1. /\ loads' = FirstLoad
        /\ socket' = IF HasToken /\ status \notin Terminal THEN "asking" ELSE "off"
        /\ strays' = LeftBehind
    BY <1>4 DEF Show
  <2>2. PageTyped'
    BY <1>1, <2>1, FirstLoadType DEF PageTyped, LeftBehind
  <2>3. RestsForGood'
    BY <1>1, <2>1, FirstLoadType DEF RestsForGood
  <2> QED
    BY <1>2, <2>1, <2>2, <2>3, FirstLoadType DEF PageHonest
<1> QED
  BY <1>3, <1>4

LEMMA ShowErrorKeeps ==
  ASSUME PageTyped, PageHonest, UNCHANGED orders, NEW rest, Keeps(rest), ShowError(rest)
  PROVE  PageTyped' /\ PageHonest'
<1>1. /\ page' = [page EXCEPT !.err = TRUE] /\ loads' = rest /\ UNCHANGED <<socket, strays>>
      /\ page'.status = page.status /\ page'.pickup = page.pickup
  BY DEF ShowError, PageTyped
<1>2. PageTyped'
  BY <1>1 DEF PageTyped, Keeps
<1>3. \A s \in Slots : loads'[s] \in Answer => loads'[s] = loads[s]
  BY <1>1, TrackingAssumption DEF Keeps
<1> QED
  BY <1>1, <1>2, <1>3 DEF PageHonest, NeverAhead, RestsForGood, Reached

\* An answer of the gateway is the order as it is.
LEMMA CurrentAnswerHonest ==
  ASSUME FeedTyped
  PROVE  /\ CurrentAnswer \in Answer \cup {Failed}
         /\ CurrentAnswer \in Answer =>
              /\ CurrentAnswer.status = orders[Tracked].status
              /\ Reached(CurrentAnswer.status, CurrentAnswer.pickup)
<1>1. orders[Tracked].status \in Statuses \cup {"GONE"} /\ orders[Tracked].pickup \in 0..2
  BY TrackingAssumption DEF FeedTyped, FeedRow
<1>2. Rank(orders[Tracked].status) \in Nat
  BY <1>1, RankType
<1> QED
  BY <1>1, <1>2, TrackingAssumption DEF CurrentAnswer, Answer, Reached

\* An order that has reached a status the page rests at stays at one.
LEMMA ReachedTerminal ==
  ASSUME NEW s \in Statuses, NEW t \in Statuses, s \in Terminal, Rank(s) <= Rank(t)
  PROVE  t \in Terminal
BY RankOf DEF Terminal, Statuses

\* An event that is honest may be shown.
LEMMA ShowEventKeeps ==
  ASSUME PageTyped, PageHonest, UNCHANGED orders, NEW e \in Event, Honest(e), ShowEvent(e)
  PROVE  PageTyped' /\ PageHonest'
<1>1. Keeps(loads)
  BY DEF Keeps, PageTyped
<1>2. CASE e.order = Tracked
  <2> DEFINE pickup == IF e.pickup = 0 THEN page.pickup ELSE e.pickup
  <2>1. e.status \in Statuses /\ pickup \in 0..2
    BY DEF Event, PageTyped
  <2>2. Reached(e.status, pickup)
    BY <1>2 DEF Honest, Reached, PageHonest, NeverAhead
  <2>3. Show(e.status, pickup, loads)
    BY <1>2 DEF ShowEvent
  <2> QED
    BY <1>1, <2>1, <2>2, <2>3, ShowKeeps
<1>3. CASE e.order # Tracked
  BY <1>3 DEF ShowEvent, PageTyped, PageHonest, NeverAhead, RestsForGood, Reached, Terminal
<1> QED
  BY <1>2, <1>3
-----------------------------------------------------------------------------
(* The invariant is inductive.                                             *)

LEMMA InitIInv == Init => IInv
<1> SUFFICES ASSUME Init PROVE IInv
  OBVIOUS
<1> USE TrackingAssumption
<1>1. /\ FeedTyped /\ FeedHonest /\ RowsShaped
      /\ orders[Tracked] = [status |-> "QUEUED", pickup |-> 0]
  BY DEF Init, FeedInit, FeedTyped, FeedHonest, RowsShaped, FeedRow, Statuses
<1>2. PageTyped
  <2>1. page \in [platform : {"web", "mobile"}, status : Statuses, pickup : 0..2, err : BOOLEAN]
    <3>1. /\ page.platform \in {"web", "mobile"} /\ page.status = "QUEUED" /\ page.pickup = 0
          /\ page.err = FALSE
          /\ page = [platform |-> page.platform, status |-> page.status,
                     pickup |-> page.pickup, err |-> page.err]
      BY DEF Init
    <3>2. page.err \in BOOLEAN
      BY <3>1, Zenon
    <3> QED
      BY <3>1, <3>2 DEF Statuses
  <2>2. socket \in {"off", "asking"} /\ strays = {} /\ loads = FirstLoad
    BY DEF Init
  <2> QED
    BY <2>1, <2>2, FirstLoadType DEF PageTyped
<1>3. page.status = "QUEUED" /\ page.pickup = 0
  BY DEF Init
<1>4. PageHonest
  BY <1>1, <1>3, FirstLoadType, RankOf DEF Init, PageHonest, NeverAhead, RestsForGood, Terminal
<1>5. StrayTyped /\ RetryHonest /\ WireHonest
  BY DEF Init, StrayTyped, RetryHonest, WireHonest
<1> QED
  BY <1>1, <1>2, <1>4, <1>5 DEF IInv

\* The feed moves and the page does not: what it holds stays true.
LEMMA FeedIInv ==
  ASSUME IInv, FeedNext, UNCHANGED <<client, faults>>
  PROVE  IInv'
<1> USE DEF IInv
<1>1. FeedTyped' /\ FeedHonest' /\ RowsShaped' /\ Advances
  BY FeedStep
<1>2. PageTyped' /\ StrayTyped'
  BY DEF client, PageTyped, StrayTyped
<1>3. ASSUME NEW a \in Answer, Reached(a.status, a.pickup)
      PROVE  Reached(a.status, a.pickup)'
  BY <1>1, <1>3 DEF Answer, Advances
<1>4. NeverAhead'
  <2>1. page.status \in Statuses /\ page.pickup \in 0..2
    BY DEF PageTyped
  <2>2. Reached(page.status, page.pickup)'
    BY <1>1, <2>1 DEF client, Advances, PageHonest, NeverAhead, Reached
  <2> QED
    BY <2>2 DEF client, NeverAhead, Reached
<1>5. PageHonest'
  BY <1>3, <1>4 DEF client, PageHonest, RestsForGood, Terminal, Reached
<1>6. RetryHonest'
  BY <1>3 DEF client, RetryHonest, Reached
<1>7. WireHonest'
  BY <1>1, HonestStays DEF client, WireHonest, StrayTyped, Honest, Reached
<1> QED
  BY <1>1, <1>2, <1>5, <1>6, <1>7

\* A request is made, or fails.
LEMMA AskIInv ==
  ASSUME IInv, NEW s \in Slots, Open(s), NEW answer \in {CurrentAnswer, Failed},
         loads' = [loads EXCEPT ![s] = answer],
         UNCHANGED <<feed, page, retry, socket, strays, strayWire>>, faults' \in 0..MaxFaults
  PROVE  IInv'
<1> USE DEF IInv
<1>1. /\ answer \in Answer \cup {Failed}
      /\ answer \in Answer => /\ answer.status = orders[Tracked].status
                              /\ Reached(answer.status, answer.pickup)
  BY CurrentAnswerHonest, TrackingAssumption
<1>2. PageTyped'
  BY <1>1 DEF PageTyped
<1>3. \A t \in Slots : loads'[t] \in Answer =>
        loads'[t] = loads[t] \/ (loads'[t] = answer /\ answer \in Answer)
  BY DEF PageTyped
<1>4. \A t \in Slots : loads'[t] \in Answer => Reached(loads[t].status, loads[t].pickup)'
  BY <1>1, <1>3 DEF PageHonest, Reached, feed
<1>5. page.status \in Terminal /\ answer \in Answer => answer.status \in Terminal
  BY <1>1, ReachedTerminal DEF Answer, PageHonest, NeverAhead, PageTyped
<1>6. RestsForGood'
  BY <1>3, <1>5 DEF RestsForGood, PageHonest, Terminal
<1>7. NeverAhead'
  BY DEF PageHonest, NeverAhead, feed
<1>8. /\ FeedTyped' /\ FeedHonest' /\ RowsShaped' /\ StrayTyped' /\ RetryHonest' /\ WireHonest'
  BY DEF feed, FeedTyped, FeedHonest, RowsShaped, StrayTyped, RetryHonest, WireHonest, Honest, Reached
<1> QED
  BY <1>2, <1>4, <1>6, <1>7, <1>8 DEF PageHonest

LEMMA ReceiveIInv ==
  ASSUME IInv, NEW s \in Slots, Receive(s)
  PROVE  IInv'
<1> USE DEF IInv
<1>1. PICK rest : rest = [loads EXCEPT ![s] = Idle]
  OBVIOUS
<1>2. UNCHANGED <<orders, unsaid, statusQueue, faults, retry, strayWire>> /\ Keeps(rest)
  BY <1>1 DEF Receive, feed, Keeps, PageTyped
<1>3. FeedTyped' /\ FeedHonest' /\ RowsShaped' /\ StrayTyped' /\ RetryHonest' /\ WireHonest'
  BY <1>2 DEF FeedTyped, FeedHonest, RowsShaped, StrayTyped, RetryHonest, WireHonest, Honest, Reached
<1>4. CASE loads[s] = Failed
  <2>1. ShowError(rest)
    BY <1>1, <1>4 DEF Receive
  <2>2. PageTyped' /\ PageHonest'
    BY <1>2, <2>1, ShowErrorKeeps
  <2> QED
    BY <1>3, <2>2
<1>5. CASE loads[s] # Failed
  <2>1. loads[s] \in Answer /\ Show(loads[s].status, loads[s].pickup, rest)
    BY <1>1, <1>5 DEF Receive, PageTyped
  <2>2. /\ loads[s].status \in Statuses /\ loads[s].pickup \in 0..2
        /\ Reached(loads[s].status, loads[s].pickup)
    BY <2>1 DEF Answer, PageHonest
  <2>3. PageTyped' /\ PageHonest'
    BY <1>2, <2>1, <2>2, ShowKeeps
  <2> QED
    BY <1>3, <2>3
<1> QED
  BY <1>4, <1>5

LEMMA RetryIInv ==
  ASSUME IInv, RetryStep
  PROVE  IInv'
<1> USE DEF IInv
<1>1. UNCHANGED <<orders, unsaid, statusQueue, faults, strayWire>>
  BY DEF RetryStep, Retry, ReceiveRetry, feed
<1>2. FeedTyped' /\ FeedHonest' /\ RowsShaped' /\ WireHonest'
  BY <1>1 DEF FeedTyped, FeedHonest, RowsShaped, WireHonest, Honest, Reached
<1>3. CASE Retry
  <2>1. retry' = CurrentAnswer /\ UNCHANGED <<page, loads, socket, strays>>
    BY <1>3 DEF Retry
  <2>2. StrayTyped' /\ RetryHonest'
    BY <1>1, <2>1, CurrentAnswerHonest DEF StrayTyped, RetryHonest, Reached
  <2>3. PageTyped' /\ PageHonest'
    BY <1>1, <2>1 DEF PageTyped, PageHonest, NeverAhead, RestsForGood, Terminal, Reached
  <2> QED
    BY <1>2, <2>2, <2>3
<1>4. CASE ReceiveRetry
  <2>1. Keeps(loads)
    BY DEF Keeps, PageTyped
  <2>2. StrayTyped' /\ RetryHonest'
    BY <1>1, <1>4, TrackingAssumption DEF ReceiveRetry, StrayTyped, RetryHonest
  <2>3. CASE retry = Failed
    <3>1. ShowError(loads)
      BY <1>4, <2>3 DEF ReceiveRetry
    <3>2. PageTyped' /\ PageHonest'
      BY <1>1, <2>1, <3>1, ShowErrorKeeps
    <3> QED
      BY <1>2, <2>2, <3>2
  <2>4. CASE retry # Failed
    <3>1. retry \in Answer /\ Show(retry.status, retry.pickup, loads)
      BY <1>4, <2>4 DEF ReceiveRetry, StrayTyped
    <3>2. /\ retry.status \in Statuses /\ retry.pickup \in 0..2
          /\ Reached(retry.status, retry.pickup)
      BY <3>1 DEF Answer, RetryHonest
    <3>3. PageTyped' /\ PageHonest'
      BY <1>1, <2>1, <3>1, <3>2, ShowKeeps
    <3> QED
      BY <1>2, <2>2, <3>3
  <2> QED
    BY <2>3, <2>4
<1> QED
  BY <1>3, <1>4 DEF RetryStep

\* A websocket connects, closes or waits; the page shows what it did.
LEMMA SocketIInv ==
  ASSUME IInv, UNCHANGED <<feed, page, loads, retry>>,
         socket' \in {"off", "asking", "open", "waiting"}, socket = "off" => socket' = "off",
         strays' \subseteq {"asking", "open"}, strayWire' \in {strayWire, <<>>},
         faults' \in 0..MaxFaults
  PROVE  IInv'
<1> USE DEF IInv
<1>1. FeedTyped' /\ FeedHonest' /\ RowsShaped' /\ RetryHonest'
  BY DEF feed, FeedTyped, FeedHonest, RowsShaped, RetryHonest, Honest, Reached
<1>2. PageTyped' /\ PageHonest'
  BY DEF feed, PageTyped, PageHonest, NeverAhead, RestsForGood, Terminal, Reached
<1>3. StrayTyped' /\ WireHonest'
  <2>1. CASE strayWire' = strayWire
    BY <2>1 DEF feed, StrayTyped, WireHonest, Honest, Reached
  <2>2. CASE strayWire' = <<>>
    BY <2>2 DEF feed, StrayTyped, WireHonest
  <2> QED
    BY <2>1, <2>2
<1> QED
  BY <1>1, <1>2, <1>3

\* The hub takes an event from the queue and sends it to the open sockets.
LEMMA BroadcastIInv ==
  ASSUME IInv, Broadcast
  PROVE  IInv'
<1> USE DEF IInv
<1> DEFINE e == Head(statusQueue)
<1>1. /\ statusQueue # <<>> /\ statusQueue' = Tail(statusQueue)
      /\ UNCHANGED <<orders, unsaid, retry, faults>>
      /\ strayWire' \in {strayWire, Append(strayWire, e)}
      /\ IF socket = "open" THEN ShowEvent(e) ELSE UNCHANGED <<page, loads, socket, strays>>
  BY DEF Broadcast
<1>2. e \in Event /\ Honest(e)
  <2>1. e = statusQueue[1] /\ 1 \in 1 .. Len(statusQueue)
    BY <1>1 DEF FeedTyped
  <2> QED
    BY <2>1 DEF FeedTyped, FeedHonest
<1>3. PageTyped' /\ PageHonest'
  <2>1. CASE socket = "open"
    BY <1>1, <1>2, <2>1, ShowEventKeeps
  <2>2. CASE socket # "open"
    BY <1>1, <2>2 DEF PageTyped, PageHonest, NeverAhead, RestsForGood, Terminal, Reached
  <2> QED
    BY <2>1, <2>2
<1>4. \A f : Honest(f) => Honest(f)'
  BY <1>1 DEF Honest, Reached
<1>5. FeedTyped' /\ RowsShaped' /\ StrayTyped' /\ RetryHonest'
  <2>1. Tail(statusQueue) \in Seq(Event) /\ Append(strayWire, e) \in Seq(Event)
    BY <1>1, <1>2 DEF FeedTyped, StrayTyped
  <2> QED
    BY <1>1, <2>1 DEF FeedTyped, RowsShaped, StrayTyped, RetryHonest, Reached
<1>6. FeedHonest'
  <2>1. \A i \in 1 .. Len(statusQueue') :
          i + 1 \in 1 .. Len(statusQueue) /\ statusQueue'[i] = statusQueue[i + 1]
    BY <1>1 DEF FeedTyped
  <2> QED
    BY <1>1, <1>4, <2>1 DEF FeedHonest
<1>7. WireHonest'
  <2>1. \A i \in 1 .. Len(strayWire') :
          strayWire'[i] = e \/ (i \in 1 .. Len(strayWire) /\ strayWire'[i] = strayWire[i])
    BY <1>1 DEF StrayTyped
  <2> QED
    BY <1>2, <1>4, <2>1 DEF WireHonest
<1> QED
  BY <1>3, <1>5, <1>6, <1>7

\* In chaos mode it sends it to nobody.
LEMMA HubChaosIInv ==
  ASSUME IInv, HubChaos
  PROVE  IInv'
<1> USE DEF IInv
<1>1. /\ statusQueue # <<>> /\ statusQueue' = Tail(statusQueue)
      /\ UNCHANGED <<orders, unsaid, page, loads, retry, socket, strays, strayWire>>
      /\ faults' \in 0..MaxFaults
  BY TrackingAssumption DEF HubChaos, client, Fault, StrayTyped
<1>2. FeedTyped' /\ RowsShaped' /\ StrayTyped' /\ RetryHonest' /\ WireHonest'
  BY <1>1 DEF FeedTyped, RowsShaped, StrayTyped, RetryHonest, WireHonest, Honest, Reached
<1>3. PageTyped' /\ PageHonest'
  BY <1>1 DEF PageTyped, PageHonest, NeverAhead, RestsForGood, Terminal, Reached
<1>4. \A i \in 1 .. Len(statusQueue') :
        i + 1 \in 1 .. Len(statusQueue) /\ statusQueue'[i] = statusQueue[i + 1]
  BY <1>1 DEF FeedTyped
<1>5. FeedHonest'
  BY <1>1, <1>4 DEF FeedHonest, Honest, Reached
<1> QED
  BY <1>2, <1>3, <1>5

LEMMA StrayIInv ==
  ASSUME IInv, OnStrayMessage
  PROVE  IInv'
<1> USE DEF IInv
<1> DEFINE e == Head(strayWire)
<1>1. /\ strayWire # <<>> /\ strayWire' = Tail(strayWire) /\ ShowEvent(e)
      /\ UNCHANGED <<orders, unsaid, statusQueue, faults, retry>>
  BY DEF OnStrayMessage, feed
<1>2. e \in Event /\ Honest(e)
  <2>1. e = strayWire[1] /\ 1 \in 1 .. Len(strayWire)
    BY <1>1 DEF StrayTyped
  <2> QED
    BY <2>1 DEF StrayTyped, WireHonest
<1>3. PageTyped' /\ PageHonest'
  BY <1>1, <1>2, ShowEventKeeps
<1>4. FeedTyped' /\ FeedHonest' /\ RowsShaped' /\ StrayTyped' /\ RetryHonest'
  BY <1>1 DEF FeedTyped, FeedHonest, RowsShaped, StrayTyped, RetryHonest, Honest, Reached
<1>5. \A i \in 1 .. Len(strayWire') :
        i + 1 \in 1 .. Len(strayWire) /\ strayWire'[i] = strayWire[i + 1]
  BY <1>1 DEF StrayTyped
<1>6. WireHonest'
  BY <1>1, <1>5 DEF WireHonest, Honest, Reached
<1> QED
  BY <1>3, <1>4, <1>6

LEMMA NextIInv == IInv /\ [Next]_vars => IInv'
<1> SUFFICES ASSUME IInv, [Next]_vars PROVE IInv'
  OBVIOUS
<1>1. CASE FeedNext /\ UNCHANGED <<client, faults>>
  BY <1>1, FeedIInv
<1>2. CASE \E s \in Slots : Poll(s) \/ CallFails(s)
  <2>1. PICK s \in Slots : Poll(s) \/ CallFails(s)
    BY <1>2
  <2>2. /\ Open(s)
        /\ \E answer \in {CurrentAnswer, Failed} : loads' = [loads EXCEPT ![s] = answer]
        /\ UNCHANGED <<feed, page, retry, socket, strays, strayWire>>
        /\ faults' \in 0..MaxFaults
    BY <2>1, TrackingAssumption DEF Poll, CallFails, Fault, IInv, StrayTyped, PageTyped
  <2> QED
    BY <2>2, AskIInv
<1>3. CASE \E s \in Slots : Receive(s)
  BY <1>3, ReceiveIInv
<1>4. CASE RetryStep
  BY <1>4, RetryIInv
<1>5. CASE Connect \/ Reconnect \/ SocketCloses
  <2>1. /\ UNCHANGED <<feed, page, loads, retry, strays, strayWire>>
        /\ socket' \in {"asking", "open", "waiting"} /\ socket # "off" /\ faults' \in 0..MaxFaults
    BY <1>5, TrackingAssumption DEF Connect, Reconnect, SocketCloses, Fault, IInv, StrayTyped
  <2> QED
    BY <2>1, SocketIInv DEF IInv, PageTyped
<1>6. CASE StrayConnects \/ StrayCloses
  <2>1. /\ UNCHANGED <<feed, page, loads, retry, socket>>
        /\ strays' \in {{"open"}, strays \ {"open"}} /\ strayWire' \in {strayWire, <<>>}
        /\ faults' \in 0..MaxFaults
    BY <1>6, TrackingAssumption DEF StrayConnects, StrayCloses, Fault, IInv, StrayTyped
  <2>2. strays' \subseteq {"asking", "open"}
    BY <2>1 DEF IInv, PageTyped
  <2> QED
    BY <2>1, <2>2, SocketIInv DEF IInv, PageTyped
<1>7. CASE Broadcast \/ HubChaos \/ OnStrayMessage
  BY <1>7, BroadcastIInv, HubChaosIInv, StrayIInv
<1>8. CASE UNCHANGED vars
  BY <1>8 DEF vars, feed, client, IInv, FeedTyped, FeedHonest, RowsShaped, PageTyped, PageHonest,
              NeverAhead, RestsForGood, Terminal, StrayTyped, RetryHonest, WireHonest, Honest, Reached
<1> QED
  BY <1>1, <1>2, <1>3, <1>4, <1>5, <1>6, <1>7, <1>8 DEF Next, PageStep, SocketStep
-----------------------------------------------------------------------------
(* The theorems.                                                           *)

LEMMA Inductive == Spec => []IInv
BY InitIInv, NextIInv, PTL DEF Spec

\* Every variable of the page, the hub and the feed has its type, with any
\* number of orders, requests, faults and events on their way.
THEOREM TypeCorrect == Spec => []TypeOK
<1>1. IInv => TypeOK
  BY DEF IInv, FeedTyped, PageTyped, StrayTyped, TypeOK
<1> QED
  BY <1>1, Inductive, PTL

\* The page never shows a status or a pickup window the order has not reached
\* (setOrder in the page's load, retry and onmessage), whichever answer or
\* event comes last.
THEOREM NothingAhead == Spec => []NeverAhead
<1>1. IInv => NeverAhead
  BY DEF IInv, PageHonest
<1> QED
  BY <1>1, Inductive, PTL

\* A page that rests at READY or a final status is taken back by the answer of
\* a retry or by an event on a stray websocket, and by nothing else.
THEOREM RestsUnlessStray == Spec => BackOnlyByRetry
<1> DEFINE Back == page.status \in Terminal /\ page'.status \notin Terminal
                     => retry' # retry \/ strayWire' # strayWire
<1>1. IInv /\ [Next]_vars => [Back]_page
  <2> SUFFICES ASSUME IInv, Next, page.status \in Terminal, page'.status \notin Terminal
               PROVE  retry' # retry \/ strayWire' # strayWire
    BY DEF vars, client
  <2>1. socket = "off" /\ \A s \in Slots : loads[s] \in Answer => loads[s].status \in Terminal
    BY DEF IInv, PageHonest, RestsForGood
  <2>2. page' # page
    OBVIOUS
  <2>3. CASE \E s \in Slots : Receive(s)
    <3>1. PICK s \in Slots : Receive(s)
      BY <2>3
    <3>2. CASE loads[s] = Failed
      BY <3>1, <3>2 DEF Receive, ShowError, IInv, PageTyped
    <3>3. CASE loads[s] # Failed
      <4>1. loads[s] \in Answer
        BY <3>1, <3>3 DEF Receive, IInv, PageTyped
      <4>2. page'.status = loads[s].status
        BY <3>1, <3>3 DEF Receive, Show, IInv, PageTyped
      <4> QED
        BY <2>1, <4>1, <4>2 DEF Terminal
    <3> QED
      BY <3>2, <3>3
  <2>4. CASE ReceiveRetry
    BY <2>4 DEF ReceiveRetry
  <2>5. CASE OnStrayMessage
    <3>1. strayWire \in Seq(Event) /\ strayWire # <<>> /\ strayWire' = Tail(strayWire)
      BY <2>5 DEF OnStrayMessage, IInv, StrayTyped
    <3>2. Len(strayWire') # Len(strayWire)
      BY <3>1
    <3> QED
      BY <3>2
  <2>6. ~Broadcast
    BY <2>1, <2>2 DEF Broadcast
  <2> QED
    BY <2>2, <2>3, <2>4, <2>5, <2>6
       DEF Next, PageStep, RetryStep, SocketStep, Poll, Retry, Connect, StrayConnects,
           Reconnect, SocketCloses, StrayCloses, HubChaos, CallFails, client
<1> QED
  BY <1>1, Inductive, PTL DEF Spec, BackOnlyByRetry
=============================================================================
