----------------------------- MODULE Storefront -----------------------------
(***************************************************************************)
(* A browser, or a phone, against the real API: who is logged in, and the  *)
(* cart.                                                                   *)
(*                                                                         *)
(* The cookie is the session; the user and the cart in localStorage are    *)
(* copies every tab shares, and each tab keeps copies of its own: the user *)
(* of the login page, the lines of the cart page.  A call carries the      *)
(* cookie of the moment it is sent; its answer comes at any later moment,  *)
(* to a page that may have gone.  Navigating cancels what /auth/me was     *)
(* asked for, and nothing else.                                            *)
(*                                                                         *)
(* The cart never reads the stored user and the session never the cart,    *)
(* so a behaviour follows one of the two.  The one that follows the cart is *)
(* logged in at first and leaves the login page alone.  So does the one     *)
(* that follows the phone's cart, a store in memory; its cookie stands for *)
(* the token the phone has kept, which nothing on it deletes.              *)
(***************************************************************************)
EXTENDS Naturals, FiniteSets, FiniteSetsExt

CONSTANTS
  Tabs, Users, Nobody,
  MaxUnits,      \* units ever put into the cart; see RoomToOrder
  MaxLogins,     \* logins tried
  MaxFaults      \* requests that fail or whose answer is lost

ASSUME StorefrontAssumption ==
  /\ Tabs # {} /\ Nobody \notin Users
  /\ {MaxUnits, MaxLogins, MaxFaults} \subseteq Nat

VARIABLES
  follows,       \* "session", "cart" or "phone"
  cookie,        \* whose session the browser's cookie is
  user,          \* cafeteria:user
  cart,          \* cafeteria:cart, or the phone's store: how many units
  tab,
  calls,         \* calls in flight
  log            \* auxiliary, see Log

vars == <<follows, cookie, user, cart, tab, calls, log>>

Someone == Users \cup {Nobody}
Pages == {"menu", "login", "cart"}
Tab == [page : Pages, who : Someone, lines : Nat, busy : BOOLEAN]

\* here: the component that made the call is still mounted.
Call == [tab : Tabs, kind : {"boot", "mount", "login", "logout", "order"},
         as : Someone, units : Nat, here : BOOLEAN]

\* added, bought: units put into the cart, and ordered; doubtful: a cart
\* page has used lines that were not the cart any more, or an order was placed
\* while another was under way;
\* lost: the answer to an order was; logins and faults are bounded.
Log == [added : 0..MaxUnits, bought : Nat, doubtful : BOOLEAN, lost : BOOLEAN,
        logins : 0..MaxLogins, faults : 0..MaxFaults]

CallOf(t, kind, as, units) ==
  [tab |-> t, kind |-> kind, as |-> as, units |-> units, here |-> TRUE]

\* A page is mounted: the login page reads the stored user, the cart page the
\* stored cart, once.
Mounted(page) ==
  [page |-> page, who |-> IF page = "login" THEN user ELSE Nobody,
   lines |-> IF page = "cart" /\ follows = "cart" THEN cart ELSE 0, busy |-> FALSE]

\* AuthBootstrap asks for the user on every page, the login page once more.
Asks(t, page, as) ==
  IF follows # "session" THEN {}
  ELSE {CallOf(t, "boot", as, 0)}
         \cup IF page = "login" THEN {CallOf(t, "mount", as, 0)} ELSE {}

\* The phone shows one stack of screens.
Handset == CHOOSE t \in Tabs : TRUE

Init ==
  /\ follows \in {"session", "cart", "phone"}
  /\ cookie \in IF follows = "session" THEN {Nobody} ELSE Users
  /\ user = cookie /\ cart = 0
  /\ tab = [t \in Tabs |-> Mounted("menu")]
  /\ calls = UNION {Asks(t, "menu", cookie) : t \in Tabs}
  /\ log = [added |-> 0, bought |-> 0, doubtful |-> FALSE, lost |-> FALSE,
            logins |-> 0, faults |-> 0]
-----------------------------------------------------------------------------
(* Pages come and go.                                                      *)

Cancelled(c) == c.kind \in {"boot", "mount"}

\* Two calls of a page that is left may be told apart.
Lasting(t) == {c \in calls : c.tab = t /\ ~Cancelled(c)}
Orphans(t) == {[c EXCEPT !.here = FALSE] : c \in Lasting(t)}

Navigate(t, page) ==
  /\ page # tab[t].page
  /\ page \in IF follows = "session" THEN Pages ELSE {"menu", "cart"}
  /\ follows = "phone" => t = Handset
  /\ Cardinality(Orphans(t)) = Cardinality(Lasting(t))  \* a bound: see Orphans
  /\ tab' = [tab EXCEPT ![t] = Mounted(page)]
  /\ calls' = {c \in calls : c.tab # t} \cup Orphans(t) \cup Asks(t, page, cookie)
  /\ UNCHANGED <<follows, cookie, user, cart, log>>

\* The phone's app begins with the menu when it has a token.
FirstPage(t) == IF follows = "phone" THEN "menu" ELSE tab[t].page

\* What a page that is reloaded, or an app that is restarted, waits for is
\* dropped.  The gateway may have served it: the cookie may be set already,
\* the order placed.
Reload(t) ==
  LET dropped(kind) == {c \in calls : c.tab = t /\ c.kind = kind} IN
  /\ cookie' \in {cookie} \cup {c.as : c \in dropped("login") \cup dropped("logout")}
  /\ \E served \in SUBSET {c \in dropped("order") : c.as # Nobody} :
       log' = [log EXCEPT !.bought = @ + MapThenSumSet(LAMBDA c : c.units, served),
                          !.lost = @ \/ served # {}]
  /\ cart' = IF follows = "phone" THEN 0 ELSE cart
  /\ tab' = [tab EXCEPT ![t] = Mounted(FirstPage(t))]
  /\ calls' = {c \in calls : c.tab # t} \cup Asks(t, FirstPage(t), cookie')
  /\ UNCHANGED <<follows, user>>

\* The token expires and the cookie with it.
Expire ==
  /\ cookie # Nobody
  /\ cookie' = Nobody
  /\ UNCHANGED <<follows, user, cart, tab, calls, log>>

Answer(c, kind) == c \in calls /\ c.kind = kind /\ calls' = calls \ {c}
Fails(c, kind) ==
  /\ Answer(c, kind)
  /\ log.faults < MaxFaults
  /\ log' = [log EXCEPT !.faults = @ + 1]

\* What a handler does to its page, if the page is still there.
OnPage(c, new) == tab' = IF c.here THEN [tab EXCEPT ![c.tab] = new] ELSE tab

\* A bound: a page makes one call of a kind at a time.
Send(t, kind, as, units) ==
  /\ \A c \in calls : ~(c.tab = t /\ c.kind = kind /\ c.here)
  /\ calls' = calls \cup {CallOf(t, kind, as, units)}
-----------------------------------------------------------------------------
(* The session.                                                            *)

\* Mutant: 401 leaves the stored user alone.
BootKeepsUser(c) ==
  /\ Answer(c, "boot")
  /\ user' = IF c.as = Nobody THEN user ELSE c.as
  /\ UNCHANGED <<follows, cookie, cart, tab, log>>

\* AuthBootstrap: the user of the session, or, without one, nobody.
BootAnswered(c) ==
  /\ Answer(c, "boot")
  /\ user' = c.as
  /\ UNCHANGED <<follows, cookie, cart, tab, log>>

\* Any error is taken for a missing session.
BootFails(c) ==
  /\ Fails(c, "boot")
  /\ user' = Nobody
  /\ UNCHANGED <<follows, cookie, cart, tab>>

MountAnswered(c) ==
  /\ Answer(c, "mount")
  /\ IF c.as = Nobody THEN UNCHANGED <<user, tab>>
     ELSE user' = c.as /\ OnPage(c, [tab[c.tab] EXCEPT !.who = c.as])
  /\ UNCHANGED <<follows, cookie, cart, log>>

MountFails(c) == Fails(c, "mount") /\ UNCHANGED <<follows, cookie, user, cart, tab>>

Submit(t, u) ==
  /\ tab[t].page = "login" /\ tab[t].who = Nobody /\ ~tab[t].busy
  /\ log.logins < MaxLogins
  /\ log' = [log EXCEPT !.logins = @ + 1]
  /\ Send(t, "login", u, 0)
  /\ tab' = [tab EXCEPT ![t].busy = TRUE]
  /\ UNCHANGED <<follows, cookie, user, cart>>

LoggedIn(c) ==
  /\ Answer(c, "login")
  /\ cookie' = c.as /\ user' = c.as
  /\ OnPage(c, [tab[c.tab] EXCEPT !.who = c.as, !.busy = FALSE])
  /\ UNCHANGED <<follows, cart, log>>

\* 401, 409, 422, or no answer.
LoginFails(c) ==
  /\ Answer(c, "login")
  /\ OnPage(c, [tab[c.tab] EXCEPT !.busy = FALSE])
  /\ UNCHANGED <<follows, cookie, user, cart, log>>

Logout(t) ==
  /\ tab[t].page = "login" /\ tab[t].who # Nobody
  /\ Send(t, "logout", Nobody, 0)
  /\ UNCHANGED <<follows, cookie, user, cart, tab, log>>

LeavesSession(c) ==
  /\ user' = Nobody /\ cart' = 0
  /\ OnPage(c, [tab[c.tab] EXCEPT !.who = Nobody])

LoggedOut(c) ==
  /\ Answer(c, "logout")
  /\ cookie' = Nobody
  /\ LeavesSession(c)
  /\ UNCHANGED <<follows, log>>

\* The cookie stays; the page says the same.
LogoutFails(c) ==
  /\ Fails(c, "logout")
  /\ LeavesSession(c)
  /\ UNCHANGED <<follows, cookie>>
-----------------------------------------------------------------------------
(* The cart.                                                               *)

\* The menu changes the stored cart, the cart page its own copy of it, which
\* it then stores.
Add(t) ==
  /\ follows = "cart" /\ tab[t].page = "menu" /\ log.added < MaxUnits
  /\ cart' = cart + 1
  /\ log' = [log EXCEPT !.added = @ + 1]
  /\ UNCHANGED <<follows, cookie, user, tab, calls>>

\* What the page holds may not be the cart any more.
Doubt(t) == log.doubtful \/ tab[t].lines # cart
SetLines(t, n) == tab' = [tab EXCEPT ![t].lines = n] /\ cart' = n

Increase(t) ==
  /\ tab[t].lines > 0 /\ log.added < MaxUnits
  /\ SetLines(t, tab[t].lines + 1)
  /\ log' = [log EXCEPT !.added = @ + 1, !.doubtful = Doubt(t)]
  /\ UNCHANGED <<follows, cookie, user, calls>>

\* Mutant: a line of no units stays.
DecreaseBelow(t) ==
  /\ tab[t].page = "cart"
  /\ SetLines(t, tab[t].lines - 1)
  /\ log' = [log EXCEPT !.doubtful = Doubt(t)]
  /\ UNCHANGED <<follows, cookie, user, calls>>

Decrease(t) ==
  /\ tab[t].lines > 0
  /\ SetLines(t, tab[t].lines - 1)
  /\ log' = [log EXCEPT !.doubtful = Doubt(t)]
  /\ UNCHANGED <<follows, cookie, user, calls>>

\* "Clear cart", or "Remove" for the last line.
Clear(t) ==
  /\ tab[t].lines > 0
  /\ SetLines(t, 0)
  /\ UNCHANGED <<follows, cookie, user, calls, log>>

\* A bound: what is bought, or being bought, may exceed MaxUnits once.
RoomToOrder == log.bought + MapThenSumSet(LAMBDA c : c.units, calls) <= MaxUnits

Place(t) ==
  /\ tab[t].lines > 0 /\ ~tab[t].busy /\ RoomToOrder
  /\ Send(t, "order", cookie, tab[t].lines)
  /\ tab' = [tab EXCEPT ![t].busy = TRUE]
  /\ log' = [log EXCEPT !.doubtful =
       Doubt(t) \/ \E c \in calls : c.kind = "order"]
  /\ UNCHANGED <<follows, cookie, user, cart>>

\* The screens of the phone share the store: the cart screen has no copy.
PhoneAdd ==
  /\ follows = "phone" /\ log.added < MaxUnits
  /\ tab[Handset].page = "menu" \/ cart > 0
  /\ cart' = cart + 1
  /\ log' = [log EXCEPT !.added = @ + 1]
  /\ UNCHANGED <<follows, cookie, user, tab, calls>>

\* The buttons of the lines, and "Clear cart", are not disabled by busy.
PhoneRemove ==
  /\ follows = "phone" /\ tab[Handset].page = "cart" /\ cart > 0
  /\ cart' \in {cart - 1, 0}
  /\ UNCHANGED <<follows, cookie, user, tab, calls, log>>

PhonePlace ==
  /\ follows = "phone" /\ tab[Handset].page = "cart"
  /\ cart > 0 /\ ~tab[Handset].busy /\ RoomToOrder
  /\ Send(Handset, "order", cookie, cart)
  /\ tab' = [tab EXCEPT ![Handset].busy = TRUE]
  /\ log' = [log EXCEPT !.doubtful = @ \/ calls # {}]
  /\ UNCHANGED <<follows, cookie, user, cart>>

\* Mutant: the order page clears the cart, not the handler.
OrderKeepsCart(c) ==
  /\ Answer(c, "order") /\ c.as # Nobody
  /\ OnPage(c, [tab[c.tab] EXCEPT !.busy = FALSE])
  /\ log' = [log EXCEPT !.bought = @ + c.units]
  /\ UNCHANGED <<follows, cookie, user, cart>>

\* The button is enabled again, with the lines, until the order page is there.
OrderCreated(c) ==
  /\ Answer(c, "order") /\ c.as # Nobody
  /\ cart' = 0
  /\ OnPage(c, [tab[c.tab] EXCEPT !.busy = FALSE])
  /\ log' = [log EXCEPT !.bought = @ + c.units]
  /\ UNCHANGED <<follows, cookie, user>>

\* The cart is kept, and placing it again is a new order: there is no key.
OrderFails(c) ==
  /\ Answer(c, "order")
  /\ OnPage(c, [tab[c.tab] EXCEPT !.busy = FALSE])
  /\ UNCHANGED <<follows, cookie, user, cart, log>>

OrderAnswerLost(c) ==
  /\ Answer(c, "order") /\ c.as # Nobody
  /\ log.faults < MaxFaults
  /\ log' = [log EXCEPT !.bought = @ + c.units, !.lost = TRUE, !.faults = @ + 1]
  /\ OnPage(c, [tab[c.tab] EXCEPT !.busy = FALSE])
  /\ UNCHANGED <<follows, cookie, user, cart>>
-----------------------------------------------------------------------------
Boot(t) == \E c \in calls : c.tab = t /\ (BootAnswered(c) \/ BootFails(c))
Mount(t) == \E c \in calls : c.tab = t /\ (MountAnswered(c) \/ MountFails(c))
Login(t) == \E c \in calls : c.tab = t /\ (LoggedIn(c) \/ LoginFails(c))
Exit(t) == \E c \in calls : c.tab = t /\ (LoggedOut(c) \/ LogoutFails(c))
Order(t) ==
  \E c \in calls : c.tab = t /\ (OrderCreated(c) \/ OrderFails(c) \/ OrderAnswerLost(c))

Next ==
  \/ Expire
  \/ PhoneAdd \/ PhoneRemove \/ PhonePlace
  \/ \E t \in Tabs :
       \/ \E page \in Pages : Navigate(t, page)
       \/ \E u \in Users : Submit(t, u)
       \/ Reload(t) \/ Logout(t)
       \/ Boot(t) \/ Mount(t) \/ Login(t) \/ Exit(t) \/ Order(t)
       \/ Add(t) \/ Increase(t) \/ Decrease(t) \/ Clear(t) \/ Place(t)

\* Every call is answered, or fails; what people do is their choice.
Fairness ==
  \A t \in Tabs : /\ WF_vars(Boot(t)) /\ WF_vars(Mount(t)) /\ WF_vars(Login(t))
                  /\ WF_vars(Exit(t)) /\ WF_vars(Order(t))

Spec == Init /\ [][Next]_vars
FairSpec == Spec /\ Fairness
-----------------------------------------------------------------------------
(* Properties.                                                             *)

TypeOK ==
  /\ follows \in {"session", "cart", "phone"}
  /\ {cookie, user} \subseteq Someone
  /\ cart \in 0..MaxUnits
  /\ tab \in [Tabs -> Tab]
  /\ calls \subseteq Call
  /\ log \in Log

\* No more units are in the cart, or on a page, than were put into it.
Bounded ==
  /\ cart <= log.added
  /\ \A t \in Tabs : tab[t].lines <= log.added

\* Nobody orders more than was put into the cart, unless an order is placed
\* again after its answer was lost, from a page whose lines the cart does not
\* hold any more, or while another is under way.
OrderedOnce == log.bought > log.added => log.lost \/ log.doubtful

\* Whatever a late answer or a failed request has left in localStorage, as
\* long as pages are opened the stored user comes to be the session's.
UserSettles ==
  \A u \in Someone :
    <>[](cookie = u) /\ []<>(\E c \in calls : c.kind = "boot") => <>[](user = u)
=============================================================================
