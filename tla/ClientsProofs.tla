---------------------------- MODULE ClientsProofs ----------------------------
(***************************************************************************)
(* What the steps of the clients keep true: of the store front, for any    *)
(* number of tabs, users and units, and of the wallet page, for any number *)
(* of screens, opening balances and payments.                              *)
(***************************************************************************)
EXTENDS Clients, UnitSums, TLAPS

(* The store front's inductive invariant.                                  *)

OrderCalls == {c \in calls : c.kind = "order"}

\* What has been ordered and what is in the cart, or is being ordered, was
\* put into the cart; and one order is placed at a time.
Booked ==
  ~log.lost /\ ~log.doubtful =>
    /\ log.bought + cart <= log.added
    /\ \A c \in OrderCalls : log.bought + c.units <= log.added
    /\ \A c, d \in OrderCalls : c = d

StoreInv ==
  /\ TypeOK
  /\ IsFiniteSet(OrderCalls)
  /\ Bounded
  /\ Booked

-----------------------------------------------------------------------------
(* Parts of a step                                                         *)

\* A step that orders nothing and puts nothing into the cart.
LEMMA QuietKeeps ==
  ASSUME StoreInv,
         follows' = follows, {cookie', user'} \subseteq Someone,
         cart' \in Nat, cart' <= cart,
         tab' \in [Tabs -> Tab], \A t \in Tabs : tab'[t].lines <= log.added,
         calls' \subseteq Call, OrderCalls' \subseteq OrderCalls,
         log' \in Log, log'.added = log.added, log'.bought = log.bought,
         log.lost => log'.lost, log.doubtful => log'.doubtful
  PROVE  StoreInv'
<1>1. cart \in Nat /\ log.added \in Nat /\ log.added <= MaxUnits /\ log.bought \in Nat
  BY StorefrontAssumption DEF StoreInv, TypeOK, Log
<1>2. TypeOK' /\ Bounded'
  BY <1>1, StorefrontAssumption DEF StoreInv, TypeOK, Bounded
<1>3. IsFiniteSet(OrderCalls)'
  BY FS_Subset DEF StoreInv
<1>4. Booked'
  BY <1>1 DEF StoreInv, Booked
<1> QED
  BY <1>2, <1>3, <1>4 DEF StoreInv

LEMMA Counts ==
  ASSUME StoreInv
  PROVE  /\ {cart, log.added, log.bought} \subseteq Nat
         /\ cart <= log.added /\ log.added <= MaxUnits
         /\ cart' \in {cart, 0} => cart' \in Nat /\ cart' <= cart
         /\ \A t \in Tabs : tab[t].lines \in Nat /\ tab[t].lines <= log.added
BY StorefrontAssumption DEF StoreInv, TypeOK, Bounded, Log, Tab

LEMMA OnPageTab ==
  ASSUME StoreInv, NEW c \in calls, NEW new \in Tab, OnPage(c, new)
  PROVE  /\ tab' \in [Tabs -> Tab]
         /\ \A t \in Tabs : tab'[t] = tab[t] \/ tab'[t] = new
BY DEF OnPage, StoreInv, TypeOK, Call

\* Setting who is logged in, or busy, on a page leaves its lines.
LEMMA PageFields ==
  ASSUME StoreInv, NEW t \in Tabs, NEW who \in Someone, NEW busy \in BOOLEAN
  PROVE  /\ [tab[t] EXCEPT !.who = who] \in Tab
         /\ [tab[t] EXCEPT !.who = who].lines = tab[t].lines
         /\ [tab[t] EXCEPT !.busy = busy] \in Tab
         /\ [tab[t] EXCEPT !.busy = busy].lines = tab[t].lines
         /\ [tab[t] EXCEPT !.who = who, !.busy = busy] \in Tab
         /\ [tab[t] EXCEPT !.who = who, !.busy = busy].lines = tab[t].lines
BY DEF StoreInv, TypeOK, Tab

LEMMA MountedTab ==
  ASSUME StoreInv, NEW page \in Pages
  PROVE  Mounted(page) \in Tab /\ Mounted(page).lines <= log.added
<1>1. Mounted(page).lines \in {cart, 0}
  BY DEF Mounted
<1>2. cart \in Nat /\ log.added \in Nat /\ cart <= log.added
  BY DEF StoreInv, TypeOK, Bounded, Log
<1>3. Mounted(page) \in Tab
  BY <1>2 DEF Mounted, Tab, StoreInv, TypeOK, Someone
<1> QED
  BY <1>1, <1>2, <1>3

LEMMA NewCall ==
  ASSUME NEW t \in Tabs, NEW kind \in {"boot", "mount", "login", "logout", "order"},
         NEW as \in Someone, NEW units \in Nat
  PROVE  /\ CallOf(t, kind, as, units) \in Call
         /\ CallOf(t, kind, as, units).kind = kind
         /\ CallOf(t, kind, as, units).units = units
BY DEF CallOf, Call

LEMMA AsksCalls ==
  ASSUME NEW t \in Tabs, NEW page, NEW as \in Someone
  PROVE  \A c \in Asks(t, page, as) : c \in Call /\ c.kind # "order"
<1>1. \A c \in Asks(t, page, as) : \E kind \in {"boot", "mount"} : c = CallOf(t, kind, as, 0)
  BY DEF Asks
<1>2. \A kind \in {"boot", "mount"} :
        CallOf(t, kind, as, 0) \in Call /\ CallOf(t, kind, as, 0).kind = kind
  BY DEF CallOf, Call
<1> QED
  BY <1>1, <1>2

\* The log with a fault more.
LEMMA FaultLog ==
  ASSUME StoreInv, log.faults < MaxFaults, log' = [log EXCEPT !.faults = @ + 1]
  PROVE  /\ log' \in Log /\ log'.added = log.added /\ log'.bought = log.bought
         /\ log'.lost = log.lost /\ log'.doubtful = log.doubtful
BY StorefrontAssumption DEF StoreInv, TypeOK, Log

\* The image of a finite set is finite.
LEMMA ImageFinite ==
  ASSUME NEW S, IsFiniteSet(S), NEW g
  PROVE  IsFiniteSet({g[x] : x \in S})
<1> DEFINE T == {g[x] : x \in S}
           h == [x \in S |-> g[x]]
<1>1. h \in Surjection(S, T)
  BY DEF Surjection
<1> HIDE DEF h, T
<1>2. IsFiniteSet(T)
  BY <1>1, FS_Surjection
<1> QED
  BY <1>2 DEF T

-----------------------------------------------------------------------------
(* The session                                                             *)

\* The answer to a call of the session.
LEMMA AnswerKeeps ==
  ASSUME StoreInv, NEW c \in calls, calls' = calls \ {c},
         follows' = follows, {cookie', user'} \subseteq Someone,
         cart' \in {cart, 0},
         \/ tab' = tab
         \/ \E who \in Someone : OnPage(c, [tab[c.tab] EXCEPT !.who = who])
         \/ \E busy \in BOOLEAN : OnPage(c, [tab[c.tab] EXCEPT !.busy = busy])
         \/ \E who \in Someone, busy \in BOOLEAN :
              OnPage(c, [tab[c.tab] EXCEPT !.who = who, !.busy = busy]),
         \/ log' = log
         \/ log.faults < MaxFaults /\ log' = [log EXCEPT !.faults = @ + 1]
  PROVE  StoreInv'
<1>1. c.tab \in Tabs
  BY DEF StoreInv, TypeOK, Call
<1>2. tab' \in [Tabs -> Tab] /\ \A t \in Tabs : tab'[t].lines <= log.added
  <2>1. tab \in [Tabs -> Tab] /\ \A t \in Tabs : tab[t].lines <= log.added
    BY DEF StoreInv, TypeOK, Bounded
  <2>2. ASSUME NEW new \in Tab, new.lines = tab[c.tab].lines, OnPage(c, new)
        PROVE  tab' \in [Tabs -> Tab] /\ \A t \in Tabs : tab'[t].lines <= log.added
    BY <1>1, <2>1, <2>2, OnPageTab
  <2>3. CASE tab' = tab
    BY <2>1, <2>3
  <2>4. ASSUME NEW who \in Someone, OnPage(c, [tab[c.tab] EXCEPT !.who = who])
        PROVE  tab' \in [Tabs -> Tab] /\ \A t \in Tabs : tab'[t].lines <= log.added
    BY <1>1, <2>2, <2>4, PageFields
  <2>5. ASSUME NEW busy \in BOOLEAN, OnPage(c, [tab[c.tab] EXCEPT !.busy = busy])
        PROVE  tab' \in [Tabs -> Tab] /\ \A t \in Tabs : tab'[t].lines <= log.added
    BY <1>1, <2>2, <2>5, PageFields
  <2>6. ASSUME NEW who \in Someone, NEW busy \in BOOLEAN,
               OnPage(c, [tab[c.tab] EXCEPT !.who = who, !.busy = busy])
        PROVE  tab' \in [Tabs -> Tab] /\ \A t \in Tabs : tab'[t].lines <= log.added
    BY <1>1, <2>2, <2>6, PageFields
  <2> QED
    BY <2>3, <2>4, <2>5, <2>6
<1>3. calls' \subseteq Call /\ OrderCalls' \subseteq OrderCalls
  BY DEF StoreInv, TypeOK, OrderCalls
<1>4. /\ log' \in Log /\ log'.added = log.added /\ log'.bought = log.bought
      /\ log'.lost = log.lost /\ log'.doubtful = log.doubtful
  BY FaultLog DEF StoreInv, TypeOK
<1>5. cart' \in Nat /\ cart' <= cart
  BY Counts
<1> QED
  BY <1>2, <1>3, <1>4, <1>5, QuietKeeps

LEMMA SessionCallKeeps ==
  ASSUME StoreInv, NEW c \in calls,
         \/ BootAnswered(c) \/ BootFails(c) \/ MountAnswered(c) \/ MountFails(c)
         \/ LoggedIn(c) \/ LoginFails(c) \/ LoggedOut(c) \/ LogoutFails(c)
         \/ OrderFails(c)
  PROVE  StoreInv'
<1>1. {cookie, user, c.as, Nobody} \subseteq Someone
  BY DEF StoreInv, TypeOK, Call, Someone
<1>2. CASE BootAnswered(c) \/ BootFails(c)
  BY <1>1, <1>2, AnswerKeeps DEF BootAnswered, BootFails, Answer, Fails
<1>3. CASE MountAnswered(c) \/ MountFails(c)
  BY <1>1, <1>3, AnswerKeeps DEF MountAnswered, MountFails, Answer, Fails
<1>4. CASE LoggedIn(c) \/ LoginFails(c) \/ OrderFails(c)
  BY <1>1, <1>4, AnswerKeeps DEF LoggedIn, LoginFails, OrderFails, Answer
<1>5. CASE LoggedOut(c) \/ LogoutFails(c)
  BY <1>1, <1>5, AnswerKeeps DEF LoggedOut, LogoutFails, LeavesSession, Answer, Fails
<1> QED
  BY <1>2, <1>3, <1>4, <1>5

\* Sending a call of the session.
LEMMA SendKeeps ==
  ASSUME StoreInv, NEW t \in Tabs, NEW kind \in {"login", "logout"}, NEW as \in Someone,
         Send(t, kind, as, 0)
  PROVE  calls' \subseteq Call /\ OrderCalls' \subseteq OrderCalls
<1> DEFINE c == CallOf(t, kind, as, 0)
<1>1. c \in Call /\ c.kind = kind
  BY DEF CallOf, Call
<1>2. calls' = calls \cup {c} /\ calls \subseteq Call
  BY DEF Send, StoreInv, TypeOK
<1> QED
  BY <1>1, <1>2 DEF OrderCalls

LEMMA SubmitKeeps ==
  ASSUME StoreInv, NEW t \in Tabs, NEW u \in Users, Submit(t, u)
  PROVE  StoreInv'
<1>1. calls' \subseteq Call /\ OrderCalls' \subseteq OrderCalls
  BY SendKeeps DEF Submit, Someone
<1> DEFINE new == [tab[t] EXCEPT !.busy = TRUE]
<1>2. /\ tab' = [tab EXCEPT ![t] = new] /\ tab \in [Tabs -> Tab]
      /\ new \in Tab /\ new.lines = tab[t].lines
      /\ \A s \in Tabs : tab[s].lines <= log.added
  BY PageFields DEF Submit, StoreInv, TypeOK, Bounded
<1> HIDE DEF new
<1>3. tab' \in [Tabs -> Tab] /\ \A s \in Tabs : tab'[s].lines <= log.added
  BY <1>2
<1>4. /\ log' \in Log /\ log'.added = log.added /\ log'.bought = log.bought
      /\ log'.lost = log.lost /\ log'.doubtful = log.doubtful
  BY StorefrontAssumption DEF Submit, StoreInv, TypeOK, Log
<1> QED
  BY <1>1, <1>3, <1>4, QuietKeeps DEF Submit, StoreInv, TypeOK

LEMMA LogoutKeeps ==
  ASSUME StoreInv, NEW t \in Tabs, Logout(t)
  PROVE  StoreInv'
<1>1. calls' \subseteq Call /\ OrderCalls' \subseteq OrderCalls
  BY SendKeeps DEF Logout, Someone
<1> QED
  BY <1>1, QuietKeeps DEF Logout, StoreInv, TypeOK, Bounded

LEMMA ExpireKeeps == ASSUME StoreInv, Expire PROVE StoreInv'
  BY QuietKeeps DEF Expire, StoreInv, TypeOK, Bounded, OrderCalls, Someone

-----------------------------------------------------------------------------
(* The cart                                                                *)

LEMMA Assembled ==
  ASSUME StoreInv, UNCHANGED follows, {cookie', user'} \subseteq Someone,
         log' \in Log, cart' \in Nat, cart' <= log'.added,
         tab' \in [Tabs -> Tab], \A t \in Tabs : tab'[t].lines <= log'.added,
         calls' \subseteq Call, IsFiniteSet(OrderCalls'),
         ~log'.lost /\ ~log'.doubtful =>
           /\ log'.bought + cart' <= log'.added
           /\ \A c \in OrderCalls' : log'.bought + c.units <= log'.added
           /\ \A c, d \in OrderCalls' : c = d
  PROVE  StoreInv'
<1>1. log'.added \in Nat /\ log'.added <= MaxUnits
  BY StorefrontAssumption DEF Log
<1>2. cart' \in 0..MaxUnits
  BY <1>1, StorefrontAssumption
<1>3. TypeOK'
  BY <1>2 DEF StoreInv, TypeOK
<1> QED
  BY <1>3 DEF StoreInv, Bounded, Booked

LEMMA PageLines ==
  ASSUME StoreInv, NEW t \in Tabs, NEW n \in Nat, SetLines(t, n)
  PROVE  /\ cart' = n
         /\ tab' \in [Tabs -> Tab] /\ tab'[t].lines = n
         /\ \A s \in Tabs : tab'[s].lines \in {tab[s].lines, n}
<1> DEFINE new == [tab[t] EXCEPT !.lines = n]
<1>1. new \in Tab /\ new.lines = n
  BY DEF StoreInv, TypeOK, Tab
<1>2. tab' = [tab EXCEPT ![t] = new] /\ cart' = n /\ tab \in [Tabs -> Tab]
  BY DEF SetLines, StoreInv, TypeOK
<1> HIDE DEF new
<1> QED
  BY <1>1, <1>2

\* One unit more in the cart.
LEMMA MoreKeeps ==
  ASSUME StoreInv, log.added < MaxUnits,
         UNCHANGED <<follows, cookie, user, calls>>,
         log' \in Log, log'.added = log.added + 1, log'.bought = log.bought,
         log'.lost = log.lost,
         ~log'.doubtful => ~log.doubtful /\ cart' = cart + 1,
         cart' \in Nat, cart' <= log.added + 1,
         tab' \in [Tabs -> Tab], \A t \in Tabs : tab'[t].lines <= log.added + 1
  PROVE  StoreInv'
<1>1. /\ {cookie', user'} \subseteq Someone /\ calls' \subseteq Call
      /\ OrderCalls' = OrderCalls /\ IsFiniteSet(OrderCalls)
  BY DEF StoreInv, TypeOK, OrderCalls
<1>2. {cart, log.added, log.bought} \subseteq Nat /\ \A c \in OrderCalls : c.units \in Nat
  BY Counts DEF StoreInv, TypeOK, OrderCalls, Call
<1>3. ~log'.lost /\ ~log'.doubtful =>
        /\ log'.bought + cart' <= log'.added
        /\ \A c \in OrderCalls : log'.bought + c.units <= log'.added
        /\ \A c, d \in OrderCalls : c = d
  BY <1>2 DEF StoreInv, Booked
<1> QED
  BY <1>1, <1>3, Assembled

LEMMA AddKeeps ==
  ASSUME StoreInv, PhoneAdd \/ \E t \in Tabs : Add(t)
  PROVE  StoreInv'
<1>1. /\ log.added < MaxUnits /\ cart' = cart + 1
      /\ log' = [log EXCEPT !.added = @ + 1]
      /\ UNCHANGED <<follows, cookie, user, tab, calls>>
  BY DEF PhoneAdd, Add
<1>2. /\ log' \in Log /\ log'.added = log.added + 1 /\ log'.bought = log.bought
      /\ log'.lost = log.lost /\ log'.doubtful = log.doubtful
  BY <1>1, StorefrontAssumption DEF StoreInv, TypeOK, Log
<1>3. cart' \in Nat /\ cart' <= log.added + 1
  BY <1>1, Counts
<1>4. tab' \in [Tabs -> Tab] /\ \A t \in Tabs : tab'[t].lines <= log.added + 1
  BY <1>1, Counts DEF StoreInv, TypeOK
<1> QED
  BY <1>1, <1>2, <1>3, <1>4, MoreKeeps

LEMMA IncreaseKeeps ==
  ASSUME StoreInv, NEW t \in Tabs, Increase(t)
  PROVE  StoreInv'
<1>1. /\ log.added < MaxUnits /\ SetLines(t, tab[t].lines + 1)
      /\ UNCHANGED <<follows, cookie, user, calls>>
  BY DEF Increase
<1>2. /\ log' \in Log /\ log'.added = log.added + 1 /\ log'.bought = log.bought
      /\ log'.lost = log.lost
      /\ ~log'.doubtful => ~log.doubtful /\ tab[t].lines = cart
  <2>1. PICK d \in BOOLEAN : d = Doubt(t)
    BY DEF Doubt, StoreInv, TypeOK, Log
  <2>2. log' = [log EXCEPT !.added = @ + 1, !.doubtful = d]
    BY <2>1 DEF Increase
  <2>3. /\ log' \in Log /\ log'.added = log.added + 1 /\ log'.bought = log.bought
        /\ log'.lost = log.lost /\ log'.doubtful = d
    <3>0. log.added < MaxUnits
      BY <1>1
    <3>1. PICK more \in Log : more = [log EXCEPT !.added = @ + 1]
      <4>1. [log EXCEPT !.added = @ + 1] \in Log
        BY <3>0, StorefrontAssumption DEF StoreInv, TypeOK, Log
      <4> QED
        BY <4>1
    <3>2. /\ more.added = log.added + 1 /\ more.bought = log.bought /\ more.lost = log.lost
      BY <3>1 DEF StoreInv, TypeOK, Log
    <3>3. log' = [more EXCEPT !.doubtful = d]
      BY <2>2, <3>1
    <3> QED
      BY <3>2, <3>3 DEF Log
  <2> QED
    BY <2>1, <2>3 DEF Doubt
<1>3. tab[t].lines + 1 \in Nat
  BY Counts
<1>4. /\ cart' = tab[t].lines + 1
      /\ tab' \in [Tabs -> Tab]
      /\ \A s \in Tabs : tab'[s].lines \in {tab[s].lines, tab[t].lines + 1}
  BY <1>1, <1>3, PageLines
<1>5. cart' \in Nat /\ cart' <= log.added + 1 /\ \A s \in Tabs : tab'[s].lines <= log.added + 1
  BY <1>3, <1>4, Counts
<1> QED
  BY <1>1, <1>2, <1>4, <1>5, MoreKeeps

LEMMA DecreaseKeeps ==
  ASSUME StoreInv, NEW t \in Tabs, Decrease(t)
  PROVE  StoreInv'
<1>1. /\ tab[t].lines > 0 /\ SetLines(t, tab[t].lines - 1)
      /\ UNCHANGED <<follows, cookie, user, calls>>
  BY DEF Decrease
<1>2. /\ log' \in Log /\ log'.added = log.added /\ log'.bought = log.bought
      /\ log'.lost = log.lost /\ log'.doubtful = (log.doubtful \/ tab[t].lines # cart)
  BY DEF Decrease, Doubt, StoreInv, TypeOK, Log
<1>3. tab[t].lines - 1 \in Nat
  BY <1>1, Counts
<1>4. /\ cart' = tab[t].lines - 1
      /\ tab' \in [Tabs -> Tab]
      /\ \A s \in Tabs : tab'[s].lines \in {tab[s].lines, tab[t].lines - 1}
  BY <1>1, <1>3, PageLines
<1>5. cart' \in Nat /\ cart' <= log.added /\ \A s \in Tabs : tab'[s].lines <= log.added
  BY <1>3, <1>4, Counts
<1>6. /\ {cookie', user'} \subseteq Someone /\ calls' \subseteq Call
      /\ OrderCalls' = OrderCalls /\ IsFiniteSet(OrderCalls)
  BY <1>1 DEF StoreInv, TypeOK, OrderCalls
<1>7. ~log'.lost /\ ~log'.doubtful =>
        /\ log'.bought + cart' <= log'.added
        /\ \A c \in OrderCalls : log'.bought + c.units <= log'.added
        /\ \A c, d \in OrderCalls : c = d
  <2> SUFFICES ASSUME ~log'.lost, ~log'.doubtful
               PROVE  /\ log'.bought + cart' <= log'.added
                      /\ \A c \in OrderCalls : log'.bought + c.units <= log'.added
                      /\ \A c, d \in OrderCalls : c = d
    OBVIOUS
  <2>1. ~log.lost /\ ~log.doubtful /\ tab[t].lines = cart
    BY <1>2
  <2>2. /\ log.bought + cart <= log.added
        /\ \A c \in OrderCalls : log.bought + c.units <= log.added
        /\ \A c, d \in OrderCalls : c = d
    BY <2>1 DEF StoreInv, Booked
  <2>3. log.bought + (cart - 1) <= log.added
    BY <2>2, Counts
  <2> QED
    BY <1>2, <1>4, <2>1, <2>2, <2>3
<1> QED
  BY <1>1, <1>2, <1>4, <1>5, <1>6, <1>7, Assembled

LEMMA ClearKeeps ==
  ASSUME StoreInv, NEW t \in Tabs, Clear(t)
  PROVE  StoreInv'
<1>1. SetLines(t, 0) /\ UNCHANGED <<follows, cookie, user, calls, log>>
  BY DEF Clear
<1>2. /\ cart' = 0 /\ tab' \in [Tabs -> Tab]
      /\ \A s \in Tabs : tab'[s].lines \in {tab[s].lines, 0}
  BY <1>1, PageLines
<1>3. cart' <= cart /\ \A s \in Tabs : tab'[s].lines <= log.added
  BY <1>2, Counts
<1> QED
  BY <1>1, <1>2, <1>3, QuietKeeps DEF StoreInv, TypeOK, OrderCalls

LEMMA PhoneRemoveKeeps ==
  ASSUME StoreInv, PhoneRemove
  PROVE  StoreInv'
<1>1. cart' \in {cart - 1, 0} /\ cart > 0 /\ UNCHANGED <<follows, cookie, user, tab, calls, log>>
  BY DEF PhoneRemove
<1>2. cart' \in Nat /\ cart' <= cart /\ \A s \in Tabs : tab'[s].lines <= log.added
  BY <1>1, Counts
<1> QED
  BY <1>1, <1>2, QuietKeeps DEF StoreInv, TypeOK, OrderCalls

\* An order of what the cart holds, or one that leaves doubts.
LEMMA SendOrderKeeps ==
  ASSUME StoreInv, NEW t \in Tabs, NEW n \in Nat, Send(t, "order", cookie, n),
         tab' = [tab EXCEPT ![t].busy = TRUE], UNCHANGED <<follows, cookie, user, cart>>,
         log' \in Log, log'.added = log.added, log'.bought = log.bought, log'.lost = log.lost,
         ~log'.doubtful => ~log.doubtful /\ n = cart /\ OrderCalls = {}
  PROVE  StoreInv'
<1> DEFINE c == CallOf(t, "order", cookie, n)
<1>1. c \in Call /\ c.kind = "order" /\ c.units = n
  BY DEF CallOf, Call, StoreInv, TypeOK
<1>2. calls' = calls \cup {c} /\ calls \subseteq Call
  BY DEF Send, StoreInv, TypeOK
<1> HIDE DEF c
<1>3. OrderCalls' = OrderCalls \cup {c} /\ calls' \subseteq Call
  BY <1>1, <1>2 DEF OrderCalls
<1>4. IsFiniteSet(OrderCalls')
  BY <1>3, FS_AddElement DEF StoreInv
<1> DEFINE new == [tab[t] EXCEPT !.busy = TRUE]
<1>5. /\ tab' = [tab EXCEPT ![t] = new] /\ tab \in [Tabs -> Tab]
      /\ new \in Tab /\ new.lines = tab[t].lines
  BY PageFields DEF StoreInv, TypeOK
<1> HIDE DEF new
<1>6. tab' \in [Tabs -> Tab] /\ \A s \in Tabs : tab'[s].lines <= log'.added
  BY <1>5, Counts
<1>7. cart' \in Nat /\ cart' <= log'.added /\ {cookie', user'} \subseteq Someone
  BY Counts DEF StoreInv, TypeOK
<1>8. ~log'.lost /\ ~log'.doubtful =>
        /\ log'.bought + cart' <= log'.added
        /\ \A d \in OrderCalls' : log'.bought + d.units <= log'.added
        /\ \A d, e \in OrderCalls' : d = e
  <2> SUFFICES ASSUME ~log'.lost, ~log'.doubtful
               PROVE  /\ log'.bought + cart' <= log'.added
                      /\ \A d \in OrderCalls' : log'.bought + d.units <= log'.added
                      /\ \A d, e \in OrderCalls' : d = e
    OBVIOUS
  <2>1. log.bought + cart <= log.added
    BY DEF StoreInv, Booked
  <2>2. OrderCalls' = {c}
    BY <1>3
  <2> QED
    BY <1>1, <2>1, <2>2
<1> QED
  BY <1>3, <1>4, <1>6, <1>7, <1>8, Assembled

LEMMA PlaceKeeps ==
  ASSUME StoreInv, NEW t \in Tabs, Place(t)
  PROVE  StoreInv'
<1>1. /\ Send(t, "order", cookie, tab[t].lines)
      /\ tab' = [tab EXCEPT ![t].busy = TRUE] /\ UNCHANGED <<follows, cookie, user, cart>>
  BY DEF Place
<1>2. /\ log' \in Log /\ log'.added = log.added /\ log'.bought = log.bought
      /\ log'.lost = log.lost
      /\ log'.doubtful = (Doubt(t) \/ \E c \in calls : c.kind = "order")
  BY DEF Place, Doubt, StoreInv, TypeOK, Log
<1>3. ~log'.doubtful => ~log.doubtful /\ tab[t].lines = cart /\ OrderCalls = {}
  BY <1>2 DEF Doubt, OrderCalls
<1> QED
  BY <1>1, <1>2, <1>3, Counts, SendOrderKeeps

LEMMA PhonePlaceKeeps ==
  ASSUME StoreInv, PhonePlace
  PROVE  StoreInv'
<1>1. /\ Send(Handset, "order", cookie, cart)
      /\ tab' = [tab EXCEPT ![Handset].busy = TRUE] /\ UNCHANGED <<follows, cookie, user, cart>>
  BY DEF PhonePlace
<1>2. /\ log' \in Log /\ log'.added = log.added /\ log'.bought = log.bought
      /\ log'.lost = log.lost
      /\ log'.doubtful = (log.doubtful \/ calls # {})
  BY DEF PhonePlace, StoreInv, TypeOK, Log
<1>3. ~log'.doubtful => ~log.doubtful /\ OrderCalls = {}
  BY <1>2 DEF OrderCalls
<1>4. Handset \in Tabs
  BY StorefrontAssumption DEF Handset
<1> QED
  BY <1>1, <1>2, <1>3, <1>4, Counts, SendOrderKeeps

-----------------------------------------------------------------------------
(* Orders are answered, pages come and go                                  *)

LEMMA OrderAnswerKeeps ==
  ASSUME StoreInv, NEW c \in calls, OrderCreated(c) \/ OrderAnswerLost(c)
  PROVE  StoreInv'
<1>1. /\ c.kind = "order" /\ calls' = calls \ {c} /\ UNCHANGED <<follows, cookie, user>>
      /\ OnPage(c, [tab[c.tab] EXCEPT !.busy = FALSE])
  BY DEF OrderCreated, OrderAnswerLost, Answer
<1>2. c \in OrderCalls /\ c.units \in Nat /\ c.tab \in Tabs
  BY <1>1 DEF StoreInv, TypeOK, Call, OrderCalls
<1>3. tab' \in [Tabs -> Tab] /\ \A t \in Tabs : tab'[t].lines <= log.added
  <2> DEFINE new == [tab[c.tab] EXCEPT !.busy = FALSE]
  <2>1. OnPage(c, new)
    BY <1>1
  <2>2. new \in Tab /\ new.lines = tab[c.tab].lines
    BY <1>2 DEF StoreInv, TypeOK, Tab
  <2> HIDE DEF new
  <2> QED
    BY <1>2, <2>1, <2>2, OnPageTab, Counts
<1>4. OrderCalls' = OrderCalls \ {c} /\ calls' \subseteq Call
  BY <1>1 DEF OrderCalls, StoreInv, TypeOK
<1>5. IsFiniteSet(OrderCalls')
  BY <1>4, FS_RemoveElement DEF StoreInv
<1>6. {cookie', user'} \subseteq Someone
  BY <1>1 DEF StoreInv, TypeOK
<1>7. CASE OrderCreated(c)
  <2>1. cart' = 0 /\ log' = [log EXCEPT !.bought = @ + c.units]
    BY <1>7 DEF OrderCreated
  <2>2. /\ log' \in Log /\ log'.added = log.added /\ log'.bought = log.bought + c.units
        /\ log'.lost = log.lost /\ log'.doubtful = log.doubtful
    BY <1>2, <2>1 DEF StoreInv, TypeOK, Log
  <2>3. cart' \in Nat /\ cart' <= log'.added /\ \A t \in Tabs : tab'[t].lines <= log'.added
    BY <1>3, <2>1, <2>2, Counts
  <2>4. ~log'.lost /\ ~log'.doubtful =>
          /\ log'.bought + cart' <= log'.added
          /\ \A d \in OrderCalls' : log'.bought + d.units <= log'.added
          /\ \A d, e \in OrderCalls' : d = e
    <3> SUFFICES ASSUME ~log.lost, ~log.doubtful
                 PROVE  log'.bought + cart' <= log'.added /\ OrderCalls' = {}
      BY <2>2
    <3>1. log.bought + c.units <= log.added /\ OrderCalls = {c}
      BY <1>2 DEF StoreInv, Booked
    <3> QED
      BY <1>2, <1>4, <2>1, <2>2, <3>1, Counts
  <2> QED
    BY <1>1, <1>3, <1>4, <1>5, <1>6, <2>2, <2>3, <2>4, Assembled
<1>8. CASE OrderAnswerLost(c)
  <2>1. /\ cart' = cart /\ log.faults < MaxFaults
        /\ log' = [log EXCEPT !.bought = @ + c.units, !.lost = TRUE, !.faults = @ + 1]
    BY <1>8 DEF OrderAnswerLost
  <2>2. log' \in Log /\ log'.added = log.added /\ log'.lost
    <3>1. PICK b \in Nat, f \in 0..MaxFaults : b = log.bought + c.units /\ f = log.faults + 1
      BY <1>2, <2>1, StorefrontAssumption DEF StoreInv, TypeOK, Log
    <3>2. log' = [log EXCEPT !.bought = b, !.lost = TRUE, !.faults = f]
      BY <2>1, <3>1
    <3> QED
      BY <3>2 DEF StoreInv, TypeOK, Log
  <2>3. cart' \in Nat /\ cart' <= log'.added /\ \A t \in Tabs : tab'[t].lines <= log'.added
    BY <1>3, <2>1, <2>2, Counts
  <2> QED
    BY <1>1, <1>3, <1>4, <1>5, <1>6, <2>2, <2>3, Assembled
<1> QED
  BY <1>7, <1>8

LEMMA NavigateKeeps ==
  ASSUME StoreInv, NEW t \in Tabs, NEW page \in Pages, Navigate(t, page)
  PROVE  StoreInv'
<1> DEFINE g == [c \in calls |-> IF c.tab = t THEN [c EXCEPT !.here = FALSE] ELSE c]
           moved == {g[c] : c \in OrderCalls}
<1>1. /\ tab' = [tab EXCEPT ![t] = Mounted(page)]
      /\ calls' = {c \in calls : c.tab # t} \cup Orphans(t) \cup Asks(t, page, cookie)
      /\ UNCHANGED <<follows, cookie, user, cart, log>>
  BY DEF Navigate
<1>2. tab' \in [Tabs -> Tab] /\ \A s \in Tabs : tab'[s].lines <= log.added
  BY <1>1, MountedTab, Counts DEF StoreInv, TypeOK
<1>3. \A c \in calls : g[c] \in Call /\ g[c].kind = c.kind /\ g[c].units = c.units
  BY ZenonT(60) DEF StoreInv, TypeOK, Call
<1>4. \A c \in Asks(t, page, cookie) : c \in Call /\ c.kind # "order"
  BY AsksCalls DEF StoreInv, TypeOK
<1>5. \A c \in calls' : c \in Asks(t, page, cookie) \/ \E d \in calls : c = g[d]
  BY <1>1 DEF Orphans, Lasting
<1> HIDE DEF g
<1>6. calls' \subseteq Call
  BY <1>3, <1>4, <1>5
<1>7. OrderCalls' \subseteq moved
  BY <1>3, <1>4, <1>5 DEF OrderCalls
<1>8. IsFiniteSet(OrderCalls')
  <2>1. IsFiniteSet(moved)
    BY ImageFinite DEF StoreInv
  <2> QED
    BY <1>7, <2>1, FS_Subset
<1>9. ~log'.lost /\ ~log'.doubtful =>
        /\ log'.bought + cart' <= log'.added
        /\ \A c \in OrderCalls' : log'.bought + c.units <= log'.added
        /\ \A c, d \in OrderCalls' : c = d
  <2> SUFFICES ASSUME ~log.lost, ~log.doubtful
               PROVE  /\ log.bought + cart <= log.added
                      /\ \A c \in OrderCalls' : log.bought + c.units <= log.added
                      /\ \A c, d \in OrderCalls' : c = d
    BY <1>1
  <2>1. /\ log.bought + cart <= log.added
        /\ \A c \in OrderCalls : log.bought + c.units <= log.added
        /\ \A c, d \in OrderCalls : c = d
    BY DEF StoreInv, Booked
  <2>2. \A c \in OrderCalls' : \E d \in OrderCalls : c = g[d] /\ c.units = d.units
    BY <1>3, <1>7 DEF OrderCalls
  <2> QED
    BY <2>1, <2>2
<1> QED
  BY <1>1, <1>2, <1>6, <1>8, <1>9, Counts, Assembled DEF StoreInv, TypeOK

\* The units of what was served of the orders that are dropped.
LEMMA ServedUnits ==
  ASSUME StoreInv, NEW served, served \subseteq OrderCalls
  PROVE  /\ MapThenSumSet(LAMBDA c : c.units, served) \in Nat
         /\ served = {} => MapThenSumSet(LAMBDA c : c.units, served) = 0
<1> DEFINE f == [c \in served |-> c.units]
           Adds(g) == g = [s \in SUBSET served |-> IF s = {} THEN 0
                                                   ELSE Pick(s).units + g[s \ {Pick(s)}]]
           sum == CHOOSE g : Adds(g)
<1>1. MapThenSumSet(LAMBDA c : c.units, served) = sum[served]
  BY DEF MapThenSumSet, MapThenFoldSet, Pick
<1>2. IsFiniteSet(served)
  BY FS_Subset DEF StoreInv
<1>3. \A c \in served : f[c] \in Nat
  BY DEF StoreInv, TypeOK, Call, OrderCalls
<1>4. \A g : Adds(g) <=> Summing(g, f, served)
  <2> SUFFICES ASSUME NEW g PROVE Adds(g) <=> Summing(g, f, served)
    OBVIOUS
  <2>1. \A s \in SUBSET served : s # {} => Pick(s).units = f[Pick(s)]
    BY PickInSet
  <2> QED
    BY <2>1 DEF Summing
<1>5. \E g : Summing(g, f, served)
  BY <1>2, SummingExists
<1> HIDE DEF Adds, f
<1>6. Summing(sum, f, served)
  <2>1. \E g : Adds(g)
    BY <1>4, <1>5
  <2>2. Adds(sum)
    BY <2>1
  <2> HIDE DEF sum
  <2> QED
    BY <1>4, <2>2
<1> HIDE DEF sum
<1>7. served \in SUBSET served /\ SumOver(f, served) = sum[served]
  BY <1>2, <1>6, SumOverSumming
<1>8. SumOver(f, served) \in Nat
  BY <1>2, <1>3, <1>7, SumOverType DEF IntegersOn
<1>9. served = {} => SumOver(f, served) = 0
  BY SumOverEmpty
<1> QED
  BY <1>1, <1>7, <1>8, <1>9

LEMMA ReloadKeeps ==
  ASSUME StoreInv, NEW t \in Tabs, Reload(t)
  PROVE  StoreInv'
<1> DEFINE page == FirstPage(t)
<1>1. page \in Pages
  BY DEF FirstPage, Pages, StoreInv, TypeOK, Tab
<1>2. /\ tab' = [tab EXCEPT ![t] = Mounted(page)]
      /\ calls' = {c \in calls : c.tab # t} \cup Asks(t, page, cookie')
      /\ cart' \in {cart, 0}
      /\ UNCHANGED <<follows, user>>
  BY DEF Reload
<1>3. {cookie', user'} \subseteq Someone
  BY DEF Reload, StoreInv, TypeOK, Call
<1> HIDE DEF page
<1>4. tab' \in [Tabs -> Tab] /\ \A s \in Tabs : tab'[s].lines <= log.added
  BY <1>1, <1>2, MountedTab, Counts DEF StoreInv, TypeOK
<1>5. \A c \in Asks(t, page, cookie') : c \in Call /\ c.kind # "order"
  BY <1>3, AsksCalls
<1>6. calls' \subseteq Call /\ OrderCalls' \subseteq OrderCalls
  BY <1>2, <1>5 DEF OrderCalls, StoreInv, TypeOK
<1>7. cart' \in Nat /\ cart' <= cart
  BY <1>2, Counts
<1>8. PICK served \in SUBSET OrderCalls, n \in Nat :
        /\ log' = [log EXCEPT !.bought = @ + n, !.lost = @ \/ served # {}]
        /\ served = {} => n = 0
  <2>1. PICK served \in SUBSET OrderCalls :
          log' = [log EXCEPT !.bought = @ + MapThenSumSet(LAMBDA c : c.units, served),
                             !.lost = @ \/ served # {}]
    BY DEF Reload, OrderCalls
  <2> DEFINE n == MapThenSumSet(LAMBDA c : c.units, served)
  <2>2. n \in Nat /\ (served = {} => n = 0)
    BY ServedUnits
  <2>3. log' = [log EXCEPT !.bought = @ + n, !.lost = @ \/ served # {}]
    BY <2>1
  <2> HIDE DEF n
  <2> QED
    BY <2>2, <2>3
<1>9. PICK l \in BOOLEAN : l = (log.lost \/ served # {})
  BY DEF StoreInv, TypeOK, Log
<1>10. PICK more : more = log.bought + n
  OBVIOUS
<1>11. log' = [log EXCEPT !.bought = more, !.lost = l]
  BY <1>8, <1>9, <1>10
<1>12. more \in Nat
  BY <1>10, Counts
<1>13. /\ log' \in Log /\ log'.added = log.added /\ log'.bought = more
       /\ log'.lost = l /\ log'.doubtful = log.doubtful
  BY <1>11, <1>12 DEF StoreInv, TypeOK, Log
<1>14. CASE served = {}
  <2>1. log'.bought = log.bought /\ (log.lost => log'.lost)
    <3>1. n = 0
      BY <1>8, <1>14
    <3>2. more = log.bought
      BY <1>10, <3>1, Counts
    <3>3. log.lost => l
      BY <1>9
    <3> QED
      BY <1>13, <3>2, <3>3
  <2> QED
    BY <1>2, <1>3, <1>4, <1>6, <1>7, <1>13, <2>1, QuietKeeps
<1>15. CASE served # {}
  <2>1. log'.lost
    BY <1>9, <1>13, <1>15
  <2>2. IsFiniteSet(OrderCalls')
    BY <1>6, FS_Subset DEF StoreInv
  <2>3. cart' <= log'.added /\ \A s \in Tabs : tab'[s].lines <= log'.added
    BY <1>4, <1>7, <1>13, Counts
  <2> QED
    BY <1>2, <1>3, <1>4, <1>6, <1>7, <1>13, <2>1, <2>2, <2>3, Assembled
<1> QED
  BY <1>14, <1>15

LEMMA StoreStutters == ASSUME StoreInv, UNCHANGED vars PROVE StoreInv'
  BY DEF vars, StoreInv, TypeOK, Bounded, Booked, OrderCalls

LEMMA StoreKeeps == StoreInv /\ Next => StoreInv'
<1> SUFFICES ASSUME StoreInv, Next PROVE StoreInv'
  OBVIOUS
<1>1. CASE Expire \/ PhoneAdd \/ PhoneRemove \/ PhonePlace
  BY <1>1, ExpireKeeps, AddKeeps, PhoneRemoveKeeps, PhonePlaceKeeps
<1>2. ASSUME NEW t \in Tabs, NEW page \in Pages, Navigate(t, page) PROVE StoreInv'
  BY <1>2, NavigateKeeps
<1>3. ASSUME NEW t \in Tabs, NEW u \in Users, Submit(t, u) PROVE StoreInv'
  BY <1>3, SubmitKeeps
<1>4. ASSUME NEW t \in Tabs,
             Reload(t) \/ Logout(t) \/ Add(t) \/ Increase(t) \/ Decrease(t) \/ Clear(t) \/ Place(t)
      PROVE  StoreInv'
  BY <1>4, ReloadKeeps, LogoutKeeps, AddKeeps, IncreaseKeeps, DecreaseKeeps, ClearKeeps, PlaceKeeps
<1>5. ASSUME NEW t \in Tabs, Boot(t) \/ Mount(t) \/ Login(t) \/ Exit(t) \/ Order(t)
      PROVE  StoreInv'
  BY <1>5, SessionCallKeeps, OrderAnswerKeeps DEF Boot, Mount, Login, Exit, Order
<1> QED
  BY <1>1, <1>2, <1>3, <1>4, <1>5 DEF Next

LEMMA StoreBegins == Init => StoreInv
<1> SUFFICES ASSUME Init PROVE StoreInv
  OBVIOUS
<1>1. /\ follows \in {"session", "cart", "phone"} /\ cookie \in Someone /\ user = cookie
      /\ cart = 0
  BY DEF Init, Someone
<1>2. /\ Mounted("menu") \in Tab /\ Mounted("menu").lines = 0
  BY DEF Mounted, Tab, Pages, Someone
<1>3. tab \in [Tabs -> Tab] /\ \A t \in Tabs : tab[t].lines = 0
  BY <1>2 DEF Init
<1>4. \A c \in calls : c \in Call /\ c.kind # "order"
  BY <1>1, AsksCalls DEF Init
<1>5. OrderCalls = {}
  BY <1>4 DEF OrderCalls
<1>6. /\ log \in Log /\ log.added = 0 /\ log.bought = 0
  BY StorefrontAssumption DEF Init, Log
<1>7. TypeOK
  BY <1>1, <1>3, <1>4, <1>6, StorefrontAssumption DEF TypeOK
<1> QED
  BY <1>1, <1>3, <1>5, <1>6, <1>7, FS_EmptySet DEF StoreInv, Bounded, Booked

-----------------------------------------------------------------------------
(* The wallet page's inductive invariant.                                  *)

\* Which steps a build's payments have, and what it has in memory.
Builds ==
  /\ \A p \in paying : IF build = "phone" THEN p.step \notin {"paid", "told"}
                                          ELSE p.step # "read"
  /\ build # "demo" => \A t \in Screens : memory[t] = NoUser
  /\ build = "real" => stored # NoUser
  /\ build = "phone" /\ paying # {} => stored # NoUser

\* One payment is under way, on the only page that may have a user of its own.
Single ==
  /\ \A p, q \in paying : p = q
  /\ \A p \in paying : \A o \in Screens \ {p.page} : memory[o] = NoUser

\* The stored balance is the account's, but for a payment the real build has
\* been told of and the stored user has not.
StoredKept ==
  \/ stored \in {NoUser, account}
  \/ build = "real" /\ \E p \in paying : p.step = "paid"

\* What is still to be stored, or has been read, is the balance too.
PendingKept ==
  /\ \A t \in Screens : memory[t] \in {NoUser, account}
  /\ \A p \in paying :
       /\ p.step = "read" => p.balance = account
       /\ p.step = "paid" => \/ p.balance = account
                             \/ stored = NoUser /\ memory[p.page] = NoUser

WalletInv ==
  /\ WalletTypeOK
  /\ Builds
  /\ ~book.blurred => Single /\ StoredKept /\ PendingKept

-----------------------------------------------------------------------------
(* Parts of a step                                                         *)

LEMMA NoUserBalance == NoUser \notin Nat
  BY WalletPageAssumption

LEMMA MockTypes ==
  ASSUME WalletInv, NEW t \in Screens
  PROVE  MockUser(t) \in Balances /\ MockBalance(t) \in Nat /\ WhoAmI(t) \in Balances
<1>1. MockUser(t) \in Balances
  BY DEF WalletInv, WalletTypeOK, MockUser
<1> QED
  BY <1>1 DEF WalletInv, WalletTypeOK, MockBalance, WhoAmI, Balances

\* A payment goes on.
LEMMA StepEffect ==
  ASSUME WalletInv, NEW p \in paying, NEW balance \in Nat,
         NEW step \in {"asked", "read", "paid", "told", "checked"}, Steps(p, step, balance)
  PROVE  \E new \in Payment :
           /\ new.page = p.page /\ new.step = step /\ new.balance = balance
           /\ paying' = (paying \ {p}) \cup {new}
<1> DEFINE new == [p EXCEPT !.step = step, !.balance = balance]
<1>1. /\ new \in Payment
      /\ new.page = p.page /\ new.step = step /\ new.balance = balance
  BY DEF WalletInv, WalletTypeOK, Payment
<1>2. paying' = (paying \ {p}) \cup {new}
  BY DEF Steps
<1> HIDE DEF new
<1> QED
  BY <1>1, <1>2

\* A step that goes on with a payment, or ends it, and moves no other.
LEMMA PaymentTypes ==
  ASSUME WalletInv, NEW p \in paying, UNCHANGED build,
         \/ Ends(p)
         \/ \E new \in Payment :
              /\ IF build = "phone" THEN new.step \notin {"paid", "told"} ELSE new.step # "read"
              /\ paying' = (paying \ {p}) \cup {new},
         build # "demo" => memory' = memory,
         stored # NoUser => stored' # NoUser \/ build = "demo",
         account' \in Nat, stored' \in Balances, memory' \in [Screens -> Balances],
         counter' \in [Screens -> Nat], book' \in Book
  PROVE  WalletTypeOK' /\ Builds'
<1>1. paying' \subseteq Payment
  BY DEF Ends, WalletInv, WalletTypeOK
<1>2. WalletTypeOK'
  BY <1>1 DEF WalletInv, WalletTypeOK
<1>3. \A q \in paying' : IF build = "phone" THEN q.step \notin {"paid", "told"}
                                            ELSE q.step # "read"
  BY DEF Ends, WalletInv, Builds
<1> QED
  BY <1>2, <1>3 DEF WalletInv, Builds

LEMMA LossBook ==
  ASSUME WalletInv, Loss
  PROVE  build = "real" /\ book' \in Book /\ book'.blurred
<1>1. PICK n \in 0..MaxLosses : n = book.losses + 1
  BY WalletPageAssumption DEF Loss, WalletInv, WalletTypeOK, Book
<1>2. book' = [book EXCEPT !.losses = n, !.blurred = TRUE]
  BY <1>1 DEF Loss
<1> QED
  BY <1>2 DEF Loss, WalletInv, WalletTypeOK, Book

LEMMA BlurBook ==
  ASSUME WalletInv, NEW t, NEW others, Blur(t, others)
  PROVE  /\ book' \in Book
         /\ ~book'.blurred => ~book.blurred /\ Alone(t, others)
<1>1. PICK b \in BOOLEAN : b = (book.blurred \/ ~Alone(t, others))
  BY DEF WalletInv, WalletTypeOK, Book
<1>2. book' = [book EXCEPT !.blurred = b]
  BY <1>1 DEF Blur
<1>3. book' \in Book /\ book'.blurred = b
  BY <1>2 DEF WalletInv, WalletTypeOK, Book
<1> QED
  BY <1>1, <1>3

-----------------------------------------------------------------------------
(* The demo's and the phone's accounts                                     *)

LEMMA DemoLoginKeeps ==
  ASSUME WalletInv, NEW t \in Screens, NEW opening \in Openings, DemoLogin(t, opening)
  PROVE  WalletInv'
<1>1. /\ build = "demo" /\ memory' = [memory EXCEPT ![t] = opening]
      /\ counter' = [counter EXCEPT ![t] = opening] /\ stored' = opening /\ account' = opening
      /\ UNCHANGED <<build, paying>> /\ opening \in Nat
  BY WalletPageAssumption DEF DemoLogin
<1>2. book' \in Book /\ (~book'.blurred => Alone(t, paying))
  BY BlurBook DEF DemoLogin
<1>3. WalletTypeOK' /\ Builds'
  BY <1>1, <1>2 DEF WalletInv, WalletTypeOK, Balances, Builds
<1>4. ASSUME ~book'.blurred PROVE Single' /\ StoredKept' /\ PendingKept'
  <2>1. paying' = {} /\ \A o \in Screens \ {t} : memory[o] = NoUser
    BY <1>1, <1>2, <1>4 DEF Alone
  <2>2. \A o \in Screens : memory'[o] \in {NoUser, account'}
    BY <1>1, <2>1 DEF WalletInv, WalletTypeOK
  <2> QED
    BY <1>1, <2>1, <2>2 DEF Single, StoredKept, PendingKept
<1> QED
  BY <1>3, <1>4 DEF WalletInv

LEMMA DemoLogoutKeeps ==
  ASSUME WalletInv, NEW t \in Screens, DemoLogout(t)
  PROVE  WalletInv'
<1>1. /\ build = "demo" /\ memory' = [memory EXCEPT ![t] = NoUser] /\ stored' = NoUser
      /\ UNCHANGED <<build, account, counter, paying>>
  BY DEF DemoLogout
<1>2. book' \in Book /\ (~book'.blurred => ~book.blurred /\ Alone(t, paying))
  BY BlurBook DEF DemoLogout
<1>3. WalletTypeOK' /\ Builds'
  BY <1>1, <1>2 DEF WalletInv, WalletTypeOK, Balances, Builds
<1>4. ASSUME ~book'.blurred PROVE Single' /\ StoredKept' /\ PendingKept'
  <2>1. paying' = {} /\ \A o \in Screens \ {t} : memory[o] = NoUser
    BY <1>1, <1>2, <1>4 DEF Alone
  <2>2. \A o \in Screens : memory'[o] \in {NoUser, account'}
    BY <1>1, <2>1 DEF WalletInv, WalletTypeOK
  <2> QED
    BY <1>1, <2>1, <2>2 DEF Single, StoredKept, PendingKept
<1> QED
  BY <1>3, <1>4 DEF WalletInv

LEMMA EntersKeeps ==
  ASSUME WalletInv, NEW balance \in Nat, Enters(balance), counter' \in [Screens -> Nat]
  PROVE  WalletInv'
<1>1. /\ build = "phone" /\ stored = NoUser /\ stored' = balance /\ account' = balance
      /\ UNCHANGED <<build, memory, paying, book>>
  BY DEF Enters
<1>2. paying = {} /\ \A t \in Screens : memory[t] = NoUser
  BY <1>1 DEF WalletInv, Builds
<1>3. WalletTypeOK' /\ Builds'
  BY <1>1, <1>2 DEF WalletInv, WalletTypeOK, Balances, Builds
<1>4. Single' /\ StoredKept' /\ PendingKept'
  BY <1>1, <1>2 DEF Single, StoredKept, PendingKept
<1> QED
  BY <1>3, <1>4 DEF WalletInv

LEMMA PhoneAccountKeeps ==
  ASSUME WalletInv, PhoneRegister \/ \E opening \in Openings : PhoneLogin(opening)
  PROVE  WalletInv'
<1>1. CASE PhoneRegister
  BY <1>1, EntersKeeps DEF PhoneRegister, WalletInv, WalletTypeOK
<1>2. ASSUME NEW opening \in Openings, PhoneLogin(opening) PROVE WalletInv'
  <2>1. opening \in Nat /\ counter' = [counter EXCEPT ![Phone] = opening] /\ Enters(opening)
    BY <1>2, WalletPageAssumption DEF PhoneLogin
  <2>2. counter' \in [Screens -> Nat]
    BY <2>1 DEF WalletInv, WalletTypeOK
  <2> QED
    BY <2>1, <2>2, EntersKeeps
<1> QED
  BY <1>1, <1>2

-----------------------------------------------------------------------------
(* The pages                                                               *)

LEMMA MeKeeps ==
  ASSUME WalletInv, NEW t \in Screens, Me(t)
  PROVE  WalletInv'
<1>1. /\ build # "phone" /\ stored' = WhoAmI(t) /\ UNCHANGED <<build, account, memory, paying>>
  BY DEF Me
<1>2. counter' \in [Screens -> Nat]
  BY MockTypes DEF Me, WalletInv, WalletTypeOK
<1>3. book' \in Book /\ (~book'.blurred => ~book.blurred \/ (build = "real" /\ paying = {}))
  <2>1. PICK b \in BOOLEAN : b = (book.blurred /\ ~(build = "real" /\ paying = {}))
    BY DEF WalletInv, WalletTypeOK, Book
  <2>2. book' = [book EXCEPT !.blurred = b]
    BY <2>1 DEF Me
  <2>3. book' \in Book /\ book'.blurred = b
    BY <2>2 DEF WalletInv, WalletTypeOK, Book
  <2> QED
    BY <2>1, <2>3
<1>4. WalletTypeOK'
  BY <1>1, <1>2, <1>3, MockTypes DEF WalletInv, WalletTypeOK
<1>5. Builds'
  BY <1>1, NoUserBalance DEF WhoAmI, WalletInv, WalletTypeOK, Builds
<1>6. ASSUME ~book'.blurred PROVE Single' /\ StoredKept' /\ PendingKept'
  <2>1. CASE build = "real"
    <3>1. /\ stored' = account /\ stored # NoUser
          /\ \A o \in Screens : memory[o] = NoUser
      BY <1>1, <2>1 DEF WhoAmI, WalletInv, Builds
    <3>2. CASE paying = {}
      BY <1>1, <3>1, <3>2 DEF Single, StoredKept, PendingKept
    <3>3. CASE paying # {}
      <4>1. Single /\ StoredKept /\ PendingKept
        BY <1>3, <1>6, <3>3 DEF WalletInv
      <4> QED
        BY <1>1, <3>1, <4>1 DEF Single, StoredKept, PendingKept
    <3> QED
      BY <3>2, <3>3
  <2>2. CASE build = "demo"
    <3>1. Single /\ StoredKept /\ PendingKept
      BY <1>3, <1>6, <2>2 DEF WalletInv
    <3>2. stored' = MockUser(t) /\ stored \in {NoUser, account}
      BY <1>1, <2>2, <3>1 DEF WhoAmI, StoredKept
    <3>3. stored' \in {NoUser, account}
      BY <3>1, <3>2 DEF MockUser, PendingKept
    <3>4. ASSUME NEW p \in paying, stored = NoUser, memory[p.page] = NoUser
          PROVE  stored' = NoUser
      BY <3>1, <3>2, <3>4 DEF MockUser, Single
    <3> QED
      BY <1>1, <3>1, <3>3, <3>4 DEF Single, StoredKept, PendingKept
  <2> QED
    BY <1>1, <2>1, <2>2 DEF WalletInv, WalletTypeOK
<1> QED
  BY <1>4, <1>5, <1>6 DEF WalletInv

LEMMA LeaveKeeps ==
  ASSUME WalletInv, NEW t \in Screens, Leave(t)
  PROVE  WalletInv'
<1> DEFINE g(p) == [p EXCEPT !.here = @ /\ p.page # t]
<1>1. /\ paying' = {g(p) : p \in paying}
      /\ UNCHANGED <<build, account, stored, memory, counter, book>>
  BY DEF Leave
<1>2. ASSUME NEW p \in paying
      PROVE  /\ g(p) \in Payment
             /\ g(p).page = p.page /\ g(p).step = p.step /\ g(p).balance = p.balance
  <2>1. PICK b \in BOOLEAN : b = (p.here /\ p.page # t)
    BY DEF WalletInv, WalletTypeOK, Payment
  <2>2. g(p) = [p EXCEPT !.here = b]
    BY <2>1
  <2> HIDE DEF g
  <2> QED
    BY <2>2 DEF WalletInv, WalletTypeOK, Payment
<1> HIDE DEF g
<1>3. /\ paying' \subseteq Payment
      /\ \A q \in paying' : \E p \in paying :
           q = g(p) /\ q.page = p.page /\ q.step = p.step /\ q.balance = p.balance
      /\ \A p \in paying : \E q \in paying' : q.step = p.step
  BY <1>1, <1>2
<1>4. WalletTypeOK' /\ Builds'
  BY <1>1, <1>3, SMTT(20) DEF WalletInv, WalletTypeOK, Builds
<1>5. ASSUME ~book.blurred PROVE Single' /\ StoredKept' /\ PendingKept'
  <2>1. Single /\ StoredKept /\ PendingKept
    BY <1>5 DEF WalletInv
  <2>2. Single'
    BY <1>1, <1>3, <2>1 DEF Single
  <2>3. StoredKept'
    BY <1>1, <1>3, <2>1 DEF StoredKept
  <2>4. PendingKept'
    BY <1>1, <1>3, <2>1 DEF PendingKept
  <2> QED
    BY <2>2, <2>3, <2>4
<1> QED
  BY <1>1, <1>4, <1>5 DEF WalletInv

LEMMA RestartKeeps ==
  ASSUME WalletInv, NEW t \in Screens, Restart(t)
  PROVE  WalletInv'
<1>1. /\ memory' = [memory EXCEPT ![t] = NoUser] /\ counter' = [counter EXCEPT ![t] = 0]
      /\ paying' = {p \in paying : p.page # t} /\ UNCHANGED <<build, account, stored>>
  BY DEF Restart
<1>2. /\ book' \in Book
      /\ ~book'.blurred => ~book.blurred /\ ~(build = "real" /\ \E p \in paying : p.page = t)
  <2>1. PICK b \in BOOLEAN :
          b = (book.blurred \/ (build = "real" /\ \E p \in paying : p.page = t))
    BY DEF WalletInv, WalletTypeOK, Book
  <2>2. book' = [book EXCEPT !.blurred = b]
    BY <2>1 DEF Restart
  <2>3. book' \in Book /\ book'.blurred = b
    BY <2>2 DEF WalletInv, WalletTypeOK, Book
  <2> QED
    BY <2>1, <2>3
<1>3. WalletTypeOK' /\ Builds'
  BY <1>1, <1>2 DEF WalletInv, WalletTypeOK, Balances, Builds
<1>4. ASSUME ~book'.blurred PROVE Single' /\ StoredKept' /\ PendingKept'
  <2>1. Single /\ StoredKept /\ PendingKept
    BY <1>2, <1>4 DEF WalletInv
  <2>2. \A o \in Screens : memory'[o] = memory[o] \/ memory'[o] = NoUser
    BY <1>1 DEF WalletInv, WalletTypeOK
  <2>3. \A p \in paying' : p \in paying /\ p.page # t
    BY <1>1
  <2>4. StoredKept'
    BY <1>1, <1>2, <1>4, <2>1 DEF StoredKept
  <2>5. \A p \in paying' : memory[p.page] = NoUser => memory'[p.page] = NoUser
    BY <2>2, <2>3 DEF WalletInv, WalletTypeOK, Payment
  <2> QED
    BY <1>1, <2>1, <2>2, <2>3, <2>4, <2>5 DEF Single, PendingKept
<1> QED
  BY <1>3, <1>4 DEF WalletInv

-----------------------------------------------------------------------------
(* Payments                                                                *)

LEMMA ConfirmKeeps ==
  ASSUME WalletInv, NEW t \in Screens, NEW bank \in BOOLEAN, Confirm(t, bank)
  PROVE  WalletInv'
<1> DEFINE new == [page |-> t, bank |-> bank, here |-> TRUE, balance |-> 0, step |-> "asked"]
<1>1. /\ t \in Used /\ (build = "phone" => stored # NoUser)
      /\ paying' = paying \cup {new} /\ book.started < MaxTopups
      /\ UNCHANGED <<build, account, stored, memory, counter>>
  BY DEF Confirm
<1>2. new \in Payment /\ new.page = t /\ new.step = "asked"
  BY DEF Payment
<1> HIDE DEF new
<1>3. book' \in Book /\ (~book'.blurred => ~book.blurred /\ Alone(t, paying))
  <2>1. PICK b \in BOOLEAN : b = (book.blurred \/ ~Alone(t, paying))
    BY DEF WalletInv, WalletTypeOK, Book
  <2>2. PICK n \in 0..MaxTopups : n = book.started + 1
    BY <1>1, WalletPageAssumption DEF WalletInv, WalletTypeOK, Book
  <2>3. book' = [book EXCEPT !.started = n, !.blurred = b]
    BY <2>1, <2>2 DEF Confirm
  <2>4. book' \in Book /\ book'.blurred = b
    BY <2>3 DEF WalletInv, WalletTypeOK, Book
  <2> QED
    BY <2>1, <2>4
<1>4. WalletTypeOK' /\ Builds'
  BY <1>1, <1>2, <1>3 DEF WalletInv, WalletTypeOK, Builds
<1>5. ASSUME ~book'.blurred PROVE Single' /\ StoredKept' /\ PendingKept'
  <2>1. /\ Single /\ StoredKept /\ PendingKept
        /\ paying = {} /\ \A o \in Screens \ {t} : memory[o] = NoUser
    BY <1>3, <1>5 DEF WalletInv, Alone
  <2>2. paying' = {new}
    BY <1>1, <2>1
  <2> QED
    BY <1>1, <1>2, <2>1, <2>2 DEF Single, StoredKept, PendingKept
<1> QED
  BY <1>4, <1>5 DEF WalletInv

\* A step that only goes on with the payment.
LEMMA SubmittedKeeps ==
  ASSUME WalletInv, NEW p \in paying, Submitted(p)
  PROVE  WalletInv'
<1>1. /\ p.step = "asked" /\ Steps(p, "checked", 0)
      /\ UNCHANGED <<build, account, stored, memory, counter, book>>
  BY DEF Submitted, At
<1>2. PICK new \in Payment : /\ new.page = p.page /\ new.step = "checked"
                             /\ paying' = (paying \ {p}) \cup {new}
  BY <1>1, StepEffect
<1>3. WalletTypeOK' /\ Builds'
  BY <1>1, <1>2, PaymentTypes DEF WalletInv, WalletTypeOK
<1>4. ASSUME ~book.blurred PROVE Single' /\ StoredKept' /\ PendingKept'
  <2>1. Single /\ StoredKept /\ PendingKept
    BY <1>4 DEF WalletInv
  <2>2. paying = {p} /\ paying' = {new}
    BY <1>2, <2>1 DEF Single
  <2> QED
    BY <1>1, <1>2, <2>1, <2>2 DEF Single, StoredKept, PendingKept
<1> QED
  BY <1>1, <1>3, <1>4 DEF WalletInv

LEMMA CreditedKeeps ==
  ASSUME WalletInv, NEW p \in paying, Credited(p)
  PROVE  WalletInv'
<1>1. /\ build = "real" /\ account' = account + 1 /\ Steps(p, "paid", account + 1)
      /\ UNCHANGED <<build, stored, memory, counter, book>>
  BY DEF Credited
<1>2. account' \in Nat
  BY <1>1 DEF WalletInv, WalletTypeOK
<1>3. PICK new \in Payment : /\ new.page = p.page /\ new.step = "paid" /\ new.balance = account'
                             /\ paying' = (paying \ {p}) \cup {new}
  BY <1>1, <1>2, StepEffect
<1>4. WalletTypeOK' /\ Builds'
  BY <1>1, <1>2, <1>3, PaymentTypes DEF WalletInv, WalletTypeOK
<1>5. ASSUME ~book.blurred PROVE Single' /\ StoredKept' /\ PendingKept'
  <2>1. Single /\ \A t \in Screens : memory[t] = NoUser
    BY <1>1, <1>5 DEF WalletInv, Builds
  <2>2. paying = {p} /\ paying' = {new}
    BY <1>3, <2>1 DEF Single
  <2> QED
    BY <1>1, <1>3, <2>1, <2>2 DEF Single, StoredKept, PendingKept
<1> QED
  BY <1>1, <1>4, <1>5 DEF WalletInv

LEMMA AnswerLostKeeps ==
  ASSUME WalletInv, NEW p \in paying, AnswerLost(p)
  PROVE  WalletInv'
<1>1. /\ Ends(p) /\ account' \in {account, account + 1}
      /\ UNCHANGED <<build, stored, memory, counter>>
  BY DEF AnswerLost
<1>2. book' \in Book /\ book'.blurred
  BY LossBook DEF AnswerLost
<1>3. account' \in Nat
  BY <1>1 DEF WalletInv, WalletTypeOK
<1>4. WalletTypeOK' /\ Builds'
  BY <1>1, <1>2, <1>3, PaymentTypes DEF WalletInv, WalletTypeOK
<1> QED
  BY <1>2, <1>4 DEF WalletInv

\* persistMockBalance.
LEMMA PersistEffect ==
  ASSUME WalletInv, NEW t \in Screens, NEW balance \in Nat, Persist(t, balance)
  PROVE  /\ counter' \in [Screens -> Nat] /\ memory' \in [Screens -> Balances]
         /\ stored' \in Balances
         /\ stored' = IF stored # NoUser THEN balance ELSE NoUser
         /\ memory'[t] = IF memory[t] # NoUser THEN balance ELSE NoUser
         /\ \A o \in Screens \ {t} : memory'[o] = memory[o]
BY DEF Persist, WalletInv, WalletTypeOK, Balances

LEMMA DemoCreditedKeeps ==
  ASSUME WalletInv, NEW p \in paying, DemoCredited(p)
  PROVE  WalletInv'
<1> DEFINE t == p.page
           balance == MockBalance(t) + 1
<1>1. t \in Screens
  BY DEF WalletInv, WalletTypeOK, Payment
<1>2. MockBalance(t) \in Nat /\ balance \in Nat
  BY <1>1, MockTypes
<1>3. /\ build = "demo" /\ Persist(t, balance) /\ Steps(p, "paid", balance)
      /\ account' = IF MockUser(t) = NoUser THEN account ELSE account + 1
      /\ UNCHANGED <<build, book>>
  BY DEF DemoCredited
<1>4. /\ counter' \in [Screens -> Nat] /\ memory' \in [Screens -> Balances]
      /\ stored' \in Balances
      /\ stored' = IF stored # NoUser THEN balance ELSE NoUser
      /\ memory'[t] = IF memory[t] # NoUser THEN balance ELSE NoUser
      /\ \A o \in Screens \ {t} : memory'[o] = memory[o]
  <2> HIDE DEF balance, t
  <2> QED
    BY <1>1, <1>2, <1>3, PersistEffect
<1>5. PICK new \in Payment : /\ new.page = t /\ new.step = "paid" /\ new.balance = balance
                             /\ paying' = (paying \ {p}) \cup {new}
  BY <1>2, <1>3, StepEffect
<1>6. account' \in Nat
  BY <1>3 DEF WalletInv, WalletTypeOK
<1>7. WalletTypeOK' /\ Builds'
  BY <1>3, <1>4, <1>5, <1>6, PaymentTypes DEF WalletInv, WalletTypeOK
<1>8. ASSUME ~book.blurred PROVE Single' /\ StoredKept' /\ PendingKept'
  <2>1. Single /\ StoredKept /\ PendingKept
    BY <1>8 DEF WalletInv
  <2>2. paying = {p} /\ paying' = {new} /\ \A o \in Screens \ {t} : memory'[o] = NoUser
    BY <1>4, <1>5, <2>1 DEF Single
  <2>3. stored \in {NoUser, account} /\ memory[t] \in {NoUser, account}
    BY <1>1, <1>3, <2>1 DEF StoredKept, PendingKept
  <2>4. CASE MockUser(t) = NoUser
    <3>1. memory[t] = NoUser /\ stored = NoUser
      BY <2>4 DEF MockUser
    <3>2. memory'[t] = NoUser /\ stored' = NoUser
      BY <1>4, <3>1
    <3> QED
      BY <1>5, <2>2, <3>2 DEF Single, StoredKept, PendingKept
  <2>5. CASE MockUser(t) # NoUser
    <3>1. MockBalance(t) = account
      BY <2>3, <2>5 DEF MockUser, MockBalance
    <3>2. balance = account'
      BY <1>3, <2>5, <3>1
    <3>3. stored' \in {NoUser, account'} /\ \A o \in Screens : memory'[o] \in {NoUser, account'}
      BY <1>1, <1>4, <2>2, <3>2
    <3> QED
      BY <1>5, <2>2, <3>2, <3>3 DEF Single, StoredKept, PendingKept
  <2> QED
    BY <2>4, <2>5
<1> QED
  BY <1>3, <1>7, <1>8 DEF WalletInv

LEMMA PhoneReadsKeeps ==
  ASSUME WalletInv, NEW p \in paying, PhoneReads(p)
  PROVE  WalletInv'
<1>1. /\ build = "phone" /\ Steps(p, "read", MockBalance(Phone))
      /\ counter' = [counter EXCEPT ![Phone] = MockBalance(Phone)]
      /\ UNCHANGED <<build, account, stored, memory, book>>
  BY DEF PhoneReads
<1>2. Phone \in Screens /\ MockBalance(Phone) \in Nat
  BY MockTypes, WalletPageAssumption
<1>3. PICK new \in Payment : /\ new.page = p.page /\ new.step = "read"
                             /\ new.balance = MockBalance(Phone)
                             /\ paying' = (paying \ {p}) \cup {new}
  BY <1>1, <1>2, StepEffect
<1>4. counter' \in [Screens -> Nat]
  BY <1>1, <1>2 DEF WalletInv, WalletTypeOK
<1>5. WalletTypeOK' /\ Builds'
  BY <1>1, <1>3, <1>4, PaymentTypes DEF WalletInv, WalletTypeOK
<1>6. ASSUME ~book.blurred PROVE Single' /\ StoredKept' /\ PendingKept'
  <2>1. Single /\ StoredKept /\ PendingKept
    BY <1>6 DEF WalletInv
  <2>2. paying = {p} /\ paying' = {new}
    BY <1>3, <2>1 DEF Single
  <2>3. stored = account /\ memory[Phone] = NoUser /\ stored # NoUser
    BY <1>1, <1>2, <2>1 DEF WalletInv, Builds, StoredKept
  <2>4. MockBalance(Phone) = account
    BY <2>3 DEF MockUser, MockBalance
  <2> QED
    BY <1>1, <1>3, <2>1, <2>2, <2>3, <2>4 DEF Single, StoredKept, PendingKept
<1> QED
  BY <1>1, <1>5, <1>6 DEF WalletInv

LEMMA PhoneCreditedKeeps ==
  ASSUME WalletInv, NEW p \in paying, PhoneCredited(p)
  PROVE  WalletInv'
<1> DEFINE balance == p.balance + 1
<1>1. /\ build = "phone" /\ p.step = "read" /\ Persist(Phone, balance) /\ account' = account + 1
      /\ Steps(p, "checked", balance) /\ UNCHANGED <<build, book>>
  BY DEF PhoneCredited, At
<1>2. Phone \in Screens /\ balance \in Nat /\ account' \in Nat
  BY <1>1, WalletPageAssumption DEF WalletInv, WalletTypeOK, Payment
<1>3. PICK new \in Payment : /\ new.page = p.page /\ new.step = "checked"
                             /\ paying' = (paying \ {p}) \cup {new}
  BY <1>1, <1>2, StepEffect
<1>4. \A t \in Screens : memory[t] = NoUser
  BY <1>1 DEF WalletInv, Builds
<1>5. /\ counter' \in [Screens -> Nat] /\ memory' \in [Screens -> Balances]
      /\ stored' \in Balances
      /\ stored' = IF stored # NoUser THEN balance ELSE NoUser
      /\ \A t \in Screens : memory'[t] = NoUser
  <2> HIDE DEF balance
  <2>1. /\ counter' \in [Screens -> Nat] /\ memory' \in [Screens -> Balances]
        /\ stored' \in Balances
        /\ stored' = IF stored # NoUser THEN balance ELSE NoUser
        /\ memory'[Phone] = IF memory[Phone] # NoUser THEN balance ELSE NoUser
        /\ \A o \in Screens \ {Phone} : memory'[o] = memory[o]
    BY <1>1, <1>2, PersistEffect
  <2> QED
    BY <1>2, <1>4, <2>1
<1>6. memory' = memory /\ (stored # NoUser => stored' # NoUser)
  BY <1>2, <1>4, <1>5, NoUserBalance DEF WalletInv, WalletTypeOK
<1>7. WalletTypeOK' /\ Builds'
  BY <1>1, <1>2, <1>3, <1>5, <1>6, PaymentTypes DEF WalletInv, WalletTypeOK
<1>8. ASSUME ~book.blurred PROVE Single' /\ StoredKept' /\ PendingKept'
  <2>1. Single /\ StoredKept /\ PendingKept
    BY <1>8 DEF WalletInv
  <2>2. paying = {p} /\ paying' = {new}
    BY <1>3, <2>1 DEF Single
  <2>3. balance = account'
    BY <1>1, <2>1 DEF PendingKept
  <2> QED
    BY <1>1, <1>3, <1>5, <2>1, <2>2, <2>3 DEF Single, StoredKept, PendingKept
<1> QED
  BY <1>1, <1>7, <1>8 DEF WalletInv

LEMMA TellStoredKeeps ==
  ASSUME WalletInv, NEW p \in paying, TellStored(p)
  PROVE  WalletInv'
<1>1. /\ p.step = "paid" /\ p.balance \in Nat
      /\ stored' = IF stored # NoUser THEN p.balance ELSE NoUser
      /\ Steps(p, "told", p.balance)
      /\ UNCHANGED <<build, account, memory, counter, book>>
  BY DEF TellStored, At, WalletInv, WalletTypeOK, Payment
<1>2. PICK new \in Payment : /\ new.page = p.page /\ new.step = "told"
                             /\ paying' = (paying \ {p}) \cup {new}
  BY <1>1, StepEffect
<1>3. build # "phone"
  BY <1>1 DEF WalletInv, Builds
<1>4. stored' \in Balances /\ (stored # NoUser => stored' # NoUser)
  BY <1>1, NoUserBalance DEF Balances
<1>5. WalletTypeOK' /\ Builds'
  BY <1>1, <1>2, <1>3, <1>4, PaymentTypes DEF WalletInv, WalletTypeOK
<1>6. ASSUME ~book.blurred PROVE Single' /\ StoredKept' /\ PendingKept'
  <2>1. Single /\ StoredKept /\ PendingKept
    BY <1>6 DEF WalletInv
  <2>2. paying = {p} /\ paying' = {new}
    BY <1>2, <2>1 DEF Single
  <2>3. stored' \in {NoUser, account}
    BY <1>1, <2>1 DEF PendingKept
  <2> QED
    BY <1>1, <1>2, <2>1, <2>2, <2>3 DEF Single, StoredKept, PendingKept
<1> QED
  BY <1>1, <1>5, <1>6 DEF WalletInv

LEMMA CheckUserKeeps ==
  ASSUME WalletInv, NEW p \in paying, CheckUser(p)
  PROVE  WalletInv'
<1>1. /\ p.step = "told" /\ p.balance \in Nat /\ p.page \in Screens
      /\ Steps(p, "checked", p.balance)
      /\ UNCHANGED <<build, account, memory, counter>>
  BY DEF CheckUser, At, WalletInv, WalletTypeOK, Payment
<1>2. PICK new \in Payment : /\ new.page = p.page /\ new.step = "checked"
                             /\ paying' = (paying \ {p}) \cup {new}
  BY <1>1, StepEffect
<1>3. build # "phone"
  BY <1>1 DEF WalletInv, Builds
<1>4. CASE Loss /\ stored' = stored
  <2>1. book' \in Book /\ book'.blurred
    BY <1>4, LossBook
  <2>2. WalletTypeOK' /\ Builds'
    BY <1>1, <1>2, <1>3, <1>4, <2>1, PaymentTypes DEF WalletInv, WalletTypeOK
  <2> QED
    BY <2>1, <2>2 DEF WalletInv
<1>5. CASE stored' = WhoAmI(p.page) /\ book' = book
  <2>1. stored' \in Balances
    BY <1>1, <1>5, MockTypes
  <2>2. build = "real" => stored' = account /\ stored' # NoUser
    BY <1>5, NoUserBalance DEF WhoAmI, WalletInv, WalletTypeOK
  <2>3. build \in {"real", "demo"}
    BY <1>3 DEF WalletInv, WalletTypeOK
  <2>4. WalletTypeOK' /\ Builds'
    BY <1>1, <1>2, <1>3, <1>5, <2>1, <2>2, <2>3, PaymentTypes DEF WalletInv, WalletTypeOK
  <2>5. ASSUME ~book.blurred PROVE Single' /\ StoredKept' /\ PendingKept'
    <3>1. Single /\ StoredKept /\ PendingKept
      BY <2>5 DEF WalletInv
    <3>2. paying = {p} /\ paying' = {new}
      BY <1>2, <3>1 DEF Single
    <3>3. stored \in {NoUser, account} /\ memory[p.page] \in {NoUser, account}
      BY <1>1, <3>1, <3>2 DEF StoredKept, PendingKept
    <3>4. stored' \in {NoUser, account}
      BY <1>5, <2>2, <2>3, <3>3 DEF WhoAmI, MockUser
    <3> QED
      BY <1>1, <1>2, <3>1, <3>2, <3>4 DEF Single, StoredKept, PendingKept
  <2> QED
    BY <1>5, <2>4, <2>5 DEF WalletInv
<1> QED
  BY <1>4, <1>5 DEF CheckUser

LEMMA RefreshedKeeps ==
  ASSUME WalletInv, NEW p \in paying, Refreshed(p)
  PROVE  WalletInv'
<1>1. /\ p.step = "checked" /\ Ends(p) /\ UNCHANGED <<build, account, stored, memory, counter>>
  BY DEF Refreshed, At
<1>2. book' \in Book /\ (~book'.blurred => ~book.blurred)
  BY LossBook DEF Refreshed, WalletInv, WalletTypeOK
<1>3. WalletTypeOK' /\ Builds'
  BY <1>1, <1>2, PaymentTypes DEF WalletInv, WalletTypeOK
<1>4. ASSUME ~book.blurred PROVE Single' /\ StoredKept' /\ PendingKept'
  <2>1. Single /\ StoredKept /\ PendingKept
    BY <1>4 DEF WalletInv
  <2>2. paying = {p} /\ paying' = {}
    BY <1>1, <2>1 DEF Single, Ends
  <2> QED
    BY <1>1, <2>1, <2>2 DEF Single, StoredKept, PendingKept
<1> QED
  BY <1>2, <1>3, <1>4 DEF WalletInv

LEMMA WalletStutters == ASSUME WalletInv, UNCHANGED walletVars PROVE WalletInv'
  BY DEF walletVars, WalletInv, WalletTypeOK, Builds, Single, StoredKept, PendingKept

LEMMA WalletKeeps == WalletInv /\ WalletNext => WalletInv'
<1> SUFFICES ASSUME WalletInv, WalletNext PROVE WalletInv'
  OBVIOUS
<1>1. CASE PhoneRegister \/ \E opening \in Openings : PhoneLogin(opening)
  BY <1>1, PhoneAccountKeeps
<1>2. ASSUME NEW t \in Screens, NEW opening \in Openings, DemoLogin(t, opening) PROVE WalletInv'
  BY <1>2, DemoLoginKeeps
<1>3. ASSUME NEW t \in Screens, DemoLogout(t) \/ Me(t) \/ Leave(t) \/ Restart(t)
      PROVE  WalletInv'
  BY <1>3, DemoLogoutKeeps, MeKeeps, LeaveKeeps, RestartKeeps
<1>4. ASSUME NEW t \in Screens, NEW bank \in BOOLEAN, Confirm(t, bank) PROVE WalletInv'
  BY <1>4, ConfirmKeeps
<1>5. ASSUME NEW p \in paying,
             Submitted(p) \/ Credited(p) \/ AnswerLost(p) \/ DemoApi(p) \/ WebHandler(p)
      PROVE  WalletInv'
  BY <1>5, SubmittedKeeps, CreditedKeeps, AnswerLostKeeps, DemoCreditedKeeps, PhoneReadsKeeps,
     PhoneCreditedKeeps, TellStoredKeeps, CheckUserKeeps, RefreshedKeeps
     DEF DemoApi, WebHandler
<1> QED
  BY <1>1, <1>2, <1>3, <1>4, <1>5 DEF WalletNext

LEMMA WalletBegins == WalletInit => WalletInv
<1> SUFFICES ASSUME WalletInit PROVE WalletInv
  OBVIOUS
<1>1. account \in Nat /\ account # NoUser
  BY WalletPageAssumption DEF WalletInit
<1>2. WalletTypeOK
  BY <1>1, WalletPageAssumption DEF WalletInit, WalletTypeOK, Balances, Book
<1>3. Builds /\ Single /\ StoredKept /\ PendingKept
  BY <1>1 DEF WalletInit, Builds, Single, StoredKept, PendingKept
<1> QED
  BY <1>2, <1>3 DEF WalletInv

-----------------------------------------------------------------------------
(* Theorems                                                                *)

ClientsInv == part \in {"store", "wallet"} /\ StoreInv /\ WalletInv

\* The pages of the shop and of the wallet, their calls and what the browser or
\* the phone stores keep together as ClientsInv says, whatever the pages and
\* the gateway do.
THEOREM Inductive == ClientsSpec => []ClientsInv
<1>1. ClientsInit => ClientsInv
  BY StoreBegins, WalletBegins DEF ClientsInit, ClientsInv
<1>2. ClientsInv /\ [ClientsNext]_clientVars => ClientsInv'
  <2> SUFFICES ASSUME ClientsInv, [ClientsNext]_clientVars PROVE ClientsInv'
    OBVIOUS
  <2>1. (Next \/ UNCHANGED vars) /\ (WalletNext \/ UNCHANGED walletVars) /\ part' = part
    BY DEF ClientsNext, clientVars
  <2> QED
    BY <2>1, StoreKeeps, StoreStutters, WalletKeeps, WalletStutters DEF ClientsInv
<1> QED
  BY <1>1, <1>2, PTL DEF ClientsSpec

\* Every variable of the clients has its type, no handler of the wallet page is
\* in a step it cannot be in, and neither the stored cart nor the lines a cart
\* page shows are more than was ever put into the cart (add of the menu, inc, dec
\* and remove of the cart page).
THEOREM TypeCorrect == ClientsSpec => []ClientsTypeOK
<1>1. ClientsInv => ClientsTypeOK
  BY DEF ClientsInv, StoreInv, WalletInv, ClientsTypeOK
<1> QED
  BY <1>1, Inductive, PTL

\* Nobody orders more than was put into the cart, however many pages and tabs
\* place, fail, leave and reload, unless an order is placed again after its
\* answer was lost, from a page the cart has left behind, or next to another
\* (placeOrder of app/cart/page.tsx and place of the phone's CartScreen.tsx).
THEOREM NothingTwice == ClientsSpec => []OrderedOnce
<1>1. ClientsInv => OrderedOnce
  BY Counts DEF ClientsInv, StoreInv, Booked, OrderedOnce
<1> QED
  BY <1>1, Inductive, PTL

\* Once no payment is under way the stored balance is the account's
\* (onConfirmPay of the wallet page, the phone's topup), whatever pages are
\* left, reloaded or logged out of meanwhile, as long as payments do not
\* overlap and one page at a time has a user of its own, or, with the real
\* API, since the user was last asked for.
THEOREM MoneyIsKept == ClientsSpec => []MoneyKept
<1>1. ClientsInv => MoneyKept
  BY DEF ClientsInv, WalletInv, StoredKept, MoneyKept
<1> QED
  BY <1>1, Inductive, PTL
=============================================================================
