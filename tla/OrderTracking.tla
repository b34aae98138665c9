--------------------------- MODULE OrderTracking ----------------------------
(***************************************************************************)
(* The page that follows an order (web: app/orders/[id]/page.tsx, mobile:  *)
(* OrderScreen.tsx), the notification hub, and the orders they follow.     *)
(*                                                                         *)
(* The page has two effects, both run again when the shown status changes: *)
(* one loads the order at once and then every four seconds, and ignores    *)
(* the answers an earlier run has asked for; the other keeps a websocket   *)
(* open.  Both rest once the shown status is READY or final.               *)
(***************************************************************************)
EXTENDS OrderFeed, FiniteSets

CONSTANTS
  Tracked,       \* the order the page follows
  Slots,         \* requests of one effect that may be in flight
  Idle, Asked, Failed,
  MaxFaults,     \* calls that fail, sockets that close, events the hub drops
  MaxWaiting     \* events on their way to the page

Answer == [status : Statuses, pickup : 0..2]

ASSUME TrackingAssumption ==
  /\ Tracked \in Orders
  /\ Slots # {}
  /\ {Idle, Asked, Failed} \cap Answer = {}
  /\ MaxFaults \in Nat /\ MaxWaiting \in Nat

VARIABLES
  page,          \* what the page shows
  loads,         \* the requests of the current effect
  retry,         \* the request of the "Retry now" button
  socket,        \* the websocket of the current effect
  strays,        \* websockets left behind by earlier effects: "asking", "open"
  strayWire,     \* events sent to them
  faults

client == <<page, loads, retry, socket, strays, strayWire>>
vars == <<feed, client, faults>>

Terminal == {"READY", "COMPLETED", "CANCELLED"}

\* Nothing in the web client ever calls setToken: getToken() is null there.
HasToken == page.platform = "mobile"

FreshLoads(slot) == [s \in Slots |-> IF s = slot THEN Asked ELSE Idle]
FirstLoad == FreshLoads(CHOOSE s \in Slots : TRUE)

Init ==
  /\ FeedInit
  /\ page \in [platform : {"web", "mobile"}, status : {"QUEUED"}, pickup : {0}, err : {FALSE}]
  /\ loads = FirstLoad
  /\ retry = Idle
  /\ socket = IF HasToken THEN "asking" ELSE "off"
  /\ strays = {}
  /\ strayWire = <<>>
  /\ faults = 0

Fault ==
  /\ faults < MaxFaults
  /\ faults' = faults + 1

-----------------------------------------------------------------------------
(* Showing an order.                                                       *)

\* What the cleanup of the socket effect leaves: connect() looks at its flag
\* before it awaits the token and not after.
LeftBehind == IF socket = "asking" THEN strays \cup {"asking"} ELSE strays

\* Mutant: the cleanup of the polling effect does not cancel its requests.
ShowUncancelled(status, pickup, restLoads) ==
  /\ page' = [page EXCEPT !.status = status, !.pickup = pickup, !.err = FALSE]
  /\ loads' = restLoads
  /\ IF status = page.status
     THEN UNCHANGED <<socket, strays>>
     ELSE /\ socket' = IF HasToken /\ status \notin Terminal THEN "asking" ELSE "off"
          /\ strays' = LeftBehind

\* The page shows a status: if it is another one, both effects run again.  An
\* abstraction: setStatus, the render and the clean-up of both effects are one
\* step, so no old request is answered between the one and the other, where
\* the page would still take its answer.
Show(status, pickup, restLoads) ==
  /\ page' = [page EXCEPT !.status = status, !.pickup = pickup, !.err = FALSE]
  /\ IF status = page.status
     THEN /\ loads' = restLoads
          /\ UNCHANGED <<socket, strays>>
     ELSE /\ loads' = FirstLoad
          /\ socket' = IF HasToken /\ status \notin Terminal THEN "asking" ELSE "off"
          /\ strays' = LeftBehind

ShowError(restLoads) ==
  /\ page' = [page EXCEPT !.err = TRUE]
  /\ loads' = restLoads
  /\ UNCHANGED <<socket, strays>>

\* Mutant: a deleted order is still answered.
AnswerAlways == [status |-> orders[Tracked].status, pickup |-> orders[Tracked].pickup]

\* GET /api/orders/{id}, or the row of GET /api/orders/me: 404 once deleted.
CurrentAnswer ==
  IF orders[Tracked].status = "GONE" THEN Failed
  ELSE [status |-> orders[Tracked].status, pickup |-> orders[Tracked].pickup]

-----------------------------------------------------------------------------
(* The polling effect and the retry button.  A request is modelled from    *)
(* the moment the gateway reads the row, but for the one an effect starts  *)
(* with, which is asked once and may be answered much later.               *)

\* Mutant: the interval stops once cooking has started.
OpenWhileQueued(s) == loads[s] = Asked \/ (loads[s] = Idle /\ page.status = "QUEUED")

Open(s) == loads[s] = Asked \/ (loads[s] = Idle /\ page.status \notin Terminal)

Poll(s) ==
  /\ Open(s)
  /\ loads' = [loads EXCEPT ![s] = CurrentAnswer]
  /\ UNCHANGED <<feed, faults, page, retry, socket, strays, strayWire>>

CallFails(s) ==
  /\ Open(s) /\ Fault
  /\ loads' = [loads EXCEPT ![s] = Failed]
  /\ UNCHANGED <<feed, page, retry, socket, strays, strayWire>>

Receive(s) ==
  /\ loads[s] \notin {Idle, Asked}
  /\ LET rest == [loads EXCEPT ![s] = Idle] IN
       IF loads[s] = Failed THEN ShowError(rest)
       ELSE Show(loads[s].status, loads[s].pickup, rest)
  /\ UNCHANGED <<feed, faults, retry, strayWire>>

Retry ==
  /\ page.err /\ retry = Idle
  /\ retry' = CurrentAnswer
  /\ UNCHANGED <<feed, faults, page, loads, socket, strays, strayWire>>

\* No effect owns this request: its answer is shown however old it is.
ReceiveRetry ==
  /\ retry # Idle
  /\ retry' = Idle
  /\ IF retry = Failed THEN ShowError(loads) ELSE Show(retry.status, retry.pickup, loads)
  /\ UNCHANGED <<feed, faults, strayWire>>
-----------------------------------------------------------------------------
(* The websocket effect and the hub.                                       *)

Connect ==
  /\ socket = "asking"
  /\ socket' = "open"
  /\ UNCHANGED <<feed, faults, page, loads, retry, strays, strayWire>>

StrayConnects ==
  /\ "asking" \in strays
  /\ strays' = {"open"}
  /\ UNCHANGED <<feed, faults, page, loads, retry, socket, strayWire>>

SocketCloses ==
  /\ socket = "open" /\ Fault
  /\ socket' = "waiting"
  /\ UNCHANGED <<feed, page, loads, retry, strays, strayWire>>

StrayCloses ==
  /\ "open" \in strays /\ Fault
  /\ strays' = strays \ {"open"}
  /\ strayWire' = <<>>
  /\ UNCHANGED <<feed, page, loads, retry, socket>>

Reconnect ==
  /\ socket = "waiting"
  /\ socket' = "asking"
  /\ UNCHANGED <<feed, faults, page, loads, retry, strays, strayWire>>

ShowEvent(e) ==
  IF e.order = Tracked
  THEN Show(e.status, IF e.pickup = 0 THEN page.pickup ELSE e.pickup, loads)
  ELSE UNCHANGED <<page, loads, socket, strays>>

\* An event is acknowledged once its broadcast is scheduled, also when no
\* socket is there to get it.  What the wire to the open socket holds is left
\* in the queue: only a stray socket may lag behind.
Broadcast ==
  /\ statusQueue # <<>>
  /\ statusQueue' = Tail(statusQueue)
  /\ IF socket = "open" THEN ShowEvent(Head(statusQueue))
     ELSE UNCHANGED <<page, loads, socket, strays>>
  /\ strayWire' = IF "open" \in strays THEN Append(strayWire, Head(statusQueue)) ELSE strayWire
  /\ UNCHANGED <<orders, unsaid, retry, faults>>

\* In chaos mode the hub acknowledges an event and sends it to nobody.
HubChaos ==
  /\ statusQueue # <<>> /\ Fault
  /\ statusQueue' = Tail(statusQueue)
  /\ UNCHANGED <<orders, unsaid, client>>

OnStrayMessage ==
  /\ strayWire # <<>>
  /\ ShowEvent(Head(strayWire))
  /\ strayWire' = Tail(strayWire)
  /\ UNCHANGED <<feed, faults, retry>>
-----------------------------------------------------------------------------
PageStep == \E s \in Slots : Poll(s) \/ Receive(s)
RetryStep == Retry \/ ReceiveRetry
SocketStep == Connect \/ StrayConnects \/ Reconnect \/ OnStrayMessage

\* Bounds: changes that wait to be announced, events on their way.
Waiting ==
  /\ Cardinality(unsaid) <= 1
  /\ Len(statusQueue) + Len(strayWire) <= MaxWaiting

Next ==
  \/ FeedNext /\ UNCHANGED <<client, faults>> /\ Waiting'
  \/ PageStep \/ RetryStep \/ SocketStep \/ Broadcast
  \/ SocketCloses \/ StrayCloses \/ HubChaos \/ \E s \in Slots : CallFails(s)

\* The interval goes on ticking and every request is answered; nobody has to
\* press a button, no websocket has to open and no event to arrive.
PageFairness ==
  \A s \in Slots : WF_vars(Poll(s)) /\ WF_vars(Receive(s))

Spec == Init /\ [][Next]_vars
FairSpec == Spec /\ PageFairness
-----------------------------------------------------------------------------
(* Properties.                                                             *)

TypeOK ==
  /\ orders \in [Orders -> FeedRow]
  /\ unsaid \subseteq Event
  /\ statusQueue \in Seq(Event)
  /\ page \in [platform : {"web", "mobile"}, status : Statuses, pickup : 0..2, err : BOOLEAN]
  /\ loads \in [Slots -> Answer \cup {Idle, Asked, Failed}]
  /\ retry \in Answer \cup {Idle, Failed}
  /\ socket \in {"off", "asking", "open", "waiting"}
  /\ strays \subseteq {"asking", "open"}
  /\ strayWire \in Seq(Event)
  /\ faults \in 0..MaxFaults

Rank(status) == CASE status = "QUEUED" -> 0
                  [] status = "IN_PROGRESS" -> 1
                  [] status = "READY" -> 2
                  [] status \in {"COMPLETED", "CANCELLED"} -> 3
                  [] status = "GONE" -> 4

\* Polls, retries and pushed events arrive in any order, and still the page
\* never shows a status the order has not reached, nor a pickup window the
\* kitchen has not given: changes are announced after they are committed.
NeverAhead ==
  /\ Rank(page.status) <= Rank(orders[Tracked].status)
  /\ page.pickup <= orders[Tracked].pickup

\* A page that has said READY takes it back only for the answer of a retry, or
\* for an event on a websocket that an earlier effect has left open: the
\* answers older effects have asked for are ignored.
BackOnlyByRetry ==
  [][page.status \in Terminal /\ page'.status \notin Terminal
       => retry' # retry \/ strayWire' # strayWire]_page

\* Whatever becomes of the events, the page of an order that is ready or done
\* comes to say so, unless the order is deleted.
ReadyIsShown ==
  orders[Tracked].status \in Terminal
    ~> (page.status \in Terminal \/ orders[Tracked].status = "GONE")
=============================================================================
