----------------------------- MODULE WalletPage -----------------------------
(***************************************************************************)
(* The wallet page of the web client and the wallet screen of the phone,   *)
(* against the API their build was made for: the real one, or the mock of  *)
(* lib/api.ts ("demo") and the phone's ("phone"), which live in the client *)
(* and keep a student's balance in three places: the user of the loaded    *)
(* page, the stored user and a counter.                                    *)
(*                                                                         *)
(* One student, whose top-ups all have the same amount.  Paying takes      *)
(* several awaited steps, which leaving the page does not cancel.          *)
(***************************************************************************)
EXTENDS Naturals, FiniteSets

CONSTANTS
  Screens,       \* tabs of the browser; the phone is the first of them
  Phone,
  NoUser,
  Openings,      \* balances an account of the demo starts with
  MaxTopups,     \* top-ups started
  MaxLosses      \* requests that fail or whose answer is lost

ASSUME WalletPageAssumption ==
  /\ Phone \in Screens /\ NoUser \notin Nat
  /\ Openings # {} /\ Openings \subseteq Nat
  /\ {MaxTopups, MaxLosses} \subseteq Nat

VARIABLES
  build,         \* "real", "demo" or "phone"
  account,       \* the gateway's account, or what the demo owes since the login
  stored,        \* the balance of the stored user
  memory,        \* that of the user of a loaded page (mockAuthUser)
  counter,       \* mockAccountBalance
  paying,        \* handlers that run: onConfirmPay, the phone's topup
  book           \* auxiliary, see Book

walletVars == <<build, account, stored, memory, counter, paying, book>>

Balances == Nat \cup {NoUser}

\* here: the page that made the payment is still shown.
Payment == [page : Screens, bank : BOOLEAN, here : BOOLEAN, balance : Nat,
            step : {"asked", "read", "paid", "told", "checked"}]

\* blurred: payments have overlapped, two pages have a user of their own, or,
\* in the real build, a request has failed since the user was last asked for.
Book == [started : 0..MaxTopups, losses : 0..MaxLosses, blurred : BOOLEAN]

Used == IF build = "phone" THEN {Phone} ELSE Screens

WalletInit ==
  /\ build \in {"real", "demo", "phone"}
  /\ account \in Openings
  /\ stored = IF build = "real" THEN account ELSE NoUser
  /\ memory = [t \in Screens |-> NoUser]
  /\ counter = [t \in Screens |-> 0]
  /\ paying = {}
  /\ book = [started |-> 0, losses |-> 0, blurred |-> FALSE]

\* Nothing else knows the balance: no other payment, no user on another page.
Alone(t, others) == others = {} /\ \A o \in Screens \ {t} : memory[o] = NoUser
Blur(t, others) == book' = [book EXCEPT !.blurred = @ \/ ~Alone(t, others)]

Loss ==
  /\ build = "real" /\ book.losses < MaxLosses
  /\ book' = [book EXCEPT !.losses = @ + 1, !.blurred = TRUE]
-----------------------------------------------------------------------------
(* The mock APIs.                                                          *)

\* resolveMockUser and resolveMockBalance.
MockUser(t) == IF memory[t] # NoUser THEN memory[t] ELSE stored
MockBalance(t) == IF MockUser(t) # NoUser THEN MockUser(t) ELSE counter[t]

\* Mutant: the user of the page keeps the balance it had.
PersistStoredOnly(t, balance) ==
  /\ counter' = [counter EXCEPT ![t] = balance]
  /\ stored' = IF stored # NoUser THEN balance ELSE stored
  /\ UNCHANGED memory

\* persistMockBalance.
Persist(t, balance) ==
  /\ counter' = [counter EXCEPT ![t] = balance]
  /\ memory' = [memory EXCEPT ![t] = IF @ # NoUser THEN balance ELSE @]
  /\ stored' = IF stored # NoUser THEN balance ELSE stored

\* A login, or a registration, and the page's setUser.  The mock's table of
\* users is never written back: a login brings the opening balance again and
\* what was topped up before it is gone, so account starts anew here.
DemoLogin(t, opening) ==
  /\ build = "demo"
  /\ memory' = [memory EXCEPT ![t] = opening]
  /\ counter' = [counter EXCEPT ![t] = opening]
  /\ stored' = opening
  /\ account' = opening
  /\ Blur(t, paying)
  /\ UNCHANGED <<build, paying>>

\* Only this page's user is forgotten.
DemoLogout(t) ==
  /\ build = "demo" /\ MockUser(t) # NoUser
  /\ memory' = [memory EXCEPT ![t] = NoUser]
  /\ stored' = NoUser
  /\ Blur(t, paying)
  /\ UNCHANGED <<build, account, counter, paying>>

\* The phone goes to its login screen when it has no token; nothing on it
\* logs out.  A registration does not touch the counter.
Enters(balance) ==
  /\ build = "phone" /\ stored = NoUser
  /\ stored' = balance /\ account' = balance
  /\ UNCHANGED <<build, memory, paying, book>>

PhoneLogin(opening) ==
  /\ Enters(opening)
  /\ counter' = [counter EXCEPT ![Phone] = opening]

PhoneRegister == Enters(0) /\ UNCHANGED counter
-----------------------------------------------------------------------------
(* What the rest of the client does.                                       *)

WhoAmI(t) == IF build = "real" THEN account ELSE MockUser(t)

\* Any page that is opened asks /auth/me and stores the user.
Me(t) ==
  /\ build # "phone"
  /\ stored' = WhoAmI(t)
  /\ counter' = [counter EXCEPT ![t] = IF build = "demo" THEN MockBalance(t) ELSE @]
  /\ book' = [book EXCEPT !.blurred = @ /\ ~(build = "real" /\ paying = {})]
  /\ UNCHANGED <<build, account, memory, paying>>

\* The wallet is left, and may be opened again.
Leave(t) ==
  /\ paying' = {[p EXCEPT !.here = @ /\ p.page # t] : p \in paying}
  /\ paying' # paying
  /\ UNCHANGED <<build, account, stored, memory, counter, book>>

\* A reload, or a restart of the phone's app: what is awaited is lost, and
\* what the modules have in memory.
Restart(t) ==
  /\ t \in Used
  /\ memory' = [memory EXCEPT ![t] = NoUser]
  /\ counter' = [counter EXCEPT ![t] = 0]
  /\ paying' = {p \in paying : p.page # t}
  /\ book' = [book EXCEPT !.blurred =
       @ \/ (build = "real" /\ \E p \in paying : p.page = t)]
  /\ UNCHANGED <<build, account, stored>>
-----------------------------------------------------------------------------
(* Paying.                                                                 *)

\* Amount and details are checked before the step that confirms is reached.
Confirm(t, bank) ==
  /\ t \in Used
  /\ build = "phone" => stored # NoUser
  /\ \A p \in paying : p.page = t => ~p.here
  /\ book.started < MaxTopups
  /\ paying' = paying \cup
       {[page |-> t, bank |-> bank, here |-> TRUE, balance |-> 0, step |-> "asked"]}
  /\ paying' # paying
  /\ book' = [book EXCEPT !.started = @ + 1, !.blurred = @ \/ ~Alone(t, paying)]
  /\ UNCHANGED <<build, account, stored, memory, counter>>

Steps(p, step, balance) ==
  paying' = (paying \ {p}) \cup {[p EXCEPT !.step = step, !.balance = balance]}
Ends(p) == paying' = paying \ {p}
At(p, step) == p \in paying /\ p.step = step

\* What is paid to a bank is left to be verified.
Submitted(p) ==
  /\ At(p, "asked") /\ p.bank
  /\ Steps(p, "checked", 0)
  /\ UNCHANGED <<build, account, stored, memory, counter, book>>

Credited(p) ==
  /\ build = "real" /\ At(p, "asked") /\ ~p.bank
  /\ account' = account + 1
  /\ Steps(p, "paid", account + 1)
  /\ UNCHANGED <<build, stored, memory, counter, book>>

\* The page says that the payment has failed.
AnswerLost(p) ==
  /\ At(p, "asked") /\ Loss
  /\ account' \in {account, IF p.bank THEN account ELSE account + 1}
  /\ Ends(p)
  /\ UNCHANGED <<build, stored, memory, counter>>

DemoCredited(p) ==
  /\ build = "demo" /\ At(p, "asked") /\ ~p.bank
  /\ Persist(p.page, MockBalance(p.page) + 1)
  /\ account' = IF MockUser(p.page) = NoUser THEN account ELSE account + 1
  /\ Steps(p, "paid", MockBalance(p.page) + 1)
  /\ UNCHANGED <<build, book>>

\* persistMockBalance((await resolveMockBalance()) + amount)
PhoneReads(p) ==
  /\ build = "phone" /\ At(p, "asked") /\ ~p.bank
  /\ Steps(p, "read", MockBalance(Phone))
  /\ counter' = [counter EXCEPT ![Phone] = MockBalance(Phone)]
  /\ UNCHANGED <<build, account, stored, memory, book>>

PhoneCredited(p) ==
  /\ build = "phone" /\ At(p, "read")
  /\ Persist(Phone, p.balance + 1)
  /\ account' = account + 1
  /\ Steps(p, "checked", p.balance + 1)
  /\ UNCHANGED <<build, book>>

\* Three seconds later: the balance of the answer is stored.
TellStored(p) ==
  /\ At(p, "paid")
  /\ stored' = IF stored # NoUser THEN p.balance ELSE stored
  /\ Steps(p, "told", p.balance)
  /\ UNCHANGED <<build, account, memory, counter, book>>

\* Then the user of /auth/me, if it answers with one.
CheckUser(p) ==
  /\ At(p, "told")
  /\ \/ stored' = WhoAmI(p.page) /\ UNCHANGED book
     \/ UNCHANGED stored /\ Loss
  /\ Steps(p, "checked", p.balance)
  /\ UNCHANGED <<build, account, memory, counter>>

\* refreshAll: the page says "success", or "failed" if that fails.
Refreshed(p) ==
  /\ At(p, "checked")
  /\ UNCHANGED book \/ Loss
  /\ Ends(p)
  /\ UNCHANGED <<build, account, stored, memory, counter>>
-----------------------------------------------------------------------------
DemoApi(p) == DemoCredited(p) \/ PhoneReads(p) \/ PhoneCredited(p)
WebHandler(p) == TellStored(p) \/ CheckUser(p) \/ Refreshed(p)

WalletNext ==
  \/ \E t \in Screens, opening \in Openings : DemoLogin(t, opening)
  \/ PhoneRegister \/ \E opening \in Openings : PhoneLogin(opening)
  \/ \E t \in Screens : DemoLogout(t) \/ Me(t) \/ Leave(t) \/ Restart(t)
  \/ \E t \in Screens, bank \in BOOLEAN : Confirm(t, bank)
  \/ \E p \in paying : \/ Submitted(p) \/ Credited(p) \/ AnswerLost(p)
                       \/ DemoApi(p) \/ WebHandler(p)
-----------------------------------------------------------------------------
(* Properties.                                                             *)

WalletTypeOK ==
  /\ build \in {"real", "demo", "phone"}
  /\ account \in Nat
  /\ stored \in Balances
  /\ memory \in [Screens -> Balances] /\ counter \in [Screens -> Nat]
  /\ paying \subseteq Payment
  /\ book \in Book

\* Once no payment is under way the stored balance is the account's, as long
\* as payments do not overlap and one page at a time has a user of its own
\* (mock APIs), or since the user was last asked for (real API).
MoneyKept ==
  paying = {} /\ stored # NoUser /\ ~book.blurred => stored = account
=============================================================================
