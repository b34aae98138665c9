---------------------------- MODULE ListScreens -----------------------------
(***************************************************************************)
(* The screens that show rows of the gateway and change them: the panels   *)
(* of the admin dashboard (AdminDashboardClient.tsx and the proxies under  *)
(* app/api/admin), the kitchen board, "My Orders", the wallet page and the *)
(* menu; and the lists of the phone.  They share nothing, so a behaviour   *)
(* follows one of them, and one row of it.                                 *)
(*                                                                         *)
(* A screen loads its list when it is mounted, some poll, some have a      *)
(* filter, and a handler awaits its request and then, mostly, the list.    *)
(* No load is cancelled when a newer one is asked for.  A load is modelled *)
(* from the moment the gateway reads the row; a write is served and        *)
(* answered in one step, or its answer is lost.                            *)
(***************************************************************************)
EXTENDS Naturals, Sequences, SequencesExt, FiniteSets, FiniteSetsExt

CONSTANTS
  Handlers,      \* calls of the handlers of a screen that may be running
  Filters,       \* choices of a select, or slots of the menu
  Idle, Unread,
  MaxLoads,      \* loads in flight, some screens begin with two
  MaxChanges,    \* changes of the row
  MaxFaults      \* requests that fail or whose answer is lost

ASSUME ScreensAssumption ==
  /\ IsFiniteSet(Handlers)
  /\ Filters # {} /\ Unread \notin Filters
  /\ {MaxLoads, MaxChanges, MaxFaults} \subseteq Nat /\ MaxLoads >= 2

VARIABLES
  screen,        \* the screen that is followed
  session,       \* the cookie is one the gateway accepts, an admin's if need be
  row,           \* the row in the gateway, and how often it has changed
  filter,        \* what is selected
  shown,         \* the row in the list
  picked,        \* the edit form holds the row
  loads,         \* loads in flight, the oldest first
  work,          \* running handlers
  busy,          \* the flag that disables the buttons
  wrote,         \* auxiliary: the last change the gateway has acknowledged
  faults

vars == <<screen, session, row, filter, shown, picked, loads, work, busy, wrote, faults>>

Dashboard == {"menuAdmin", "windows", "slots", "visibility", "topups", "peak", "chaos"}
Polled == {"chaos", "board", "myOrders"}
Filtered == {"topups", "wallet", "menu"}
Phone == {"phoneMenu", "phoneOrders", "phoneWallet"}
AllScreens == Dashboard \cup Polled \cup Filtered \cup Phone

\* What others do to a row of each screen: "none" there is no row, "open" it
\* is in use, a top-up is pending, a service up, an order under way.
Life(s) ==
  CASE s = "menuAdmin" -> {<<"none", "open">>, <<"open", "open">>}
    [] s = "windows" -> {<<"none", "open">>, <<"open", "open">>, <<"open", "none">>}
    [] s \in {"topups", "wallet", "phoneWallet"} -> {<<"none", "open">>, <<"open", "closed">>}
    [] s = "chaos" -> {<<"open", "closed">>, <<"closed", "open">>}
    [] s \in {"board", "myOrders", "phoneOrders"} ->
         {<<"none", "open">>, <<"open", "open">>, <<"open", "closed">>, <<"closed", "none">>}
    [] OTHER -> {<<"open", "open">>}

Ops == {"createItem", "updateItem", "toggle", "createWindow", "updateWindow", "deleteWindow",
        "saveItems", "assign", "review", "saveVisibility", "savePeak", "chaos", "recover",
        "status", "delete", "topup", "quickTopup"}

States == {"none", "open", "closed"}
FirstState(s) == IF <<"none", "open">> \in Life(s) THEN "none" ELSE "open"

\* tag says what the list shows: the answer to the newest load, an answer
\* overtaken by a newer one, that of a handler which loads what was selected
\* when it was called, or that the last load has failed.
Shown == [state : States, asof : 0..MaxChanges, filter : Filters \cup {Unread},
          tag : {"fresh", "late", "closure", "failed"}]
Load == [ok : BOOLEAN, state : States, asof : 0..MaxChanges, filter : Filters, late : BOOLEAN,
         tag : {"fresh", "closure"}, by : Handlers \cup {Idle}]
Route == [from : SUBSET States, to : SUBSET States]
Work == [op : Ops, route : Route, filter : Filters, step : {"sent", "reload"}]

\* What the gateway, or a proxy in front of it, answers to a load.  Without a
\* token it answers 401, to GET /api/menu too; the phone sends the menu's
\* without the header and with the cookie that its login has set.
Read(r, f, tag, by) ==
  [ok |-> session, state |-> r.state, asof |-> r.clock, filter |-> f, late |-> FALSE,
   tag |-> tag, by |-> by]

\* Two effects load the top-ups, and the wallet, when they are mounted.
Mounts == IF screen \in {"topups", "wallet"} THEN 2 ELSE 1

Init ==
  /\ screen \in AllScreens
  /\ session = TRUE
  /\ row = [state |-> FirstState(screen), clock |-> 0]
  /\ filter = CHOOSE f \in Filters : TRUE
  /\ shown = [state |-> "none", asof |-> 0, filter |-> Unread, tag |-> "failed"]
  /\ picked = FALSE
  /\ loads = [k \in 1..Mounts |-> Read(row, filter, "fresh", Idle)]
  /\ work = [h \in Handlers |-> Idle]
  /\ busy = FALSE
  /\ wrote = 0
  /\ faults = 0

Fault ==
  /\ faults < MaxFaults
  /\ faults' = faults + 1

Became(state) == row' = [state |-> state, clock |-> row.clock + 1]

Sent(h) == work[h] # Idle /\ work[h].step = "sent"

\* The bounds leave room for the change and the load of every request sent.
Unanswered == Quantify(Handlers, Sent)
RoomToChange == row.clock + Unanswered < MaxChanges
RoomToLoad == Len(loads) + Unanswered < MaxLoads

\* The token expires: it is not renewed.
Expire ==
  /\ session /\ session' = FALSE
  /\ UNCHANGED <<screen, row, filter, shown, picked, loads, work, busy, wrote, faults>>

Elsewhere ==
  /\ RoomToChange
  /\ \E step \in Life(screen) : step[1] = row.state /\ Became(step[2])
  /\ UNCHANGED <<screen, session, filter, shown, picked, loads, work, busy, wrote, faults>>
-----------------------------------------------------------------------------
(* Loads.                                                                  *)

\* Mutant: the list has two intervals.
AskTwice(load) == loads' = loads \o <<load, load>>

Ask(load) == loads' = Append(loads, load)

\* loads[n] is answered: what was asked before it is late by now.
Overtaking(n) ==
  RemoveAt([k \in DOMAIN loads |-> [loads[k] EXCEPT !.late = @ \/ k < n]], n)

\* setMenuBusy(false) and its likes run when any handler ends.
Ends(h) ==
  /\ work' = [work EXCEPT ![h] = Idle]
  /\ busy' = FALSE

\* A handler that was waiting for the load goes on and ends.
EndsAfter(load) ==
  IF load.by = Idle THEN UNCHANGED <<work, busy, picked>>
  ELSE /\ Ends(load.by)
       /\ picked' = (picked /\ work[load.by].op \notin {"createWindow", "deleteWindow"})

\* A service that does not answer its health check in time counts as down.
Displays(load) == IF screen = "chaos" THEN {load.state, "closed"} ELSE {load.state}

Receive(n) ==
  /\ n \in DOMAIN loads /\ loads[n].ok
  /\ \E state \in Displays(loads[n]) : shown' =
       [state |-> state, asof |-> loads[n].asof, filter |-> loads[n].filter,
        tag |-> IF loads[n].late THEN "late" ELSE loads[n].tag]
  /\ loads' = Overtaking(n)
  /\ EndsAfter(loads[n])
  /\ UNCHANGED <<screen, session, row, filter, wrote, faults>>

LoadFails(n) ==
  /\ n \in DOMAIN loads
  /\ IF loads[n].ok THEN Fault ELSE UNCHANGED faults
  /\ shown' = [shown EXCEPT !.tag = "failed"]
  /\ loads' = Overtaking(n)
  /\ EndsAfter(loads[n])
  /\ UNCHANGED <<screen, session, row, filter, wrote>>

\* setInterval: the dashboard's health, the board and "My Orders".
Poll ==
  /\ screen \in Polled /\ RoomToLoad
  /\ Ask(Read(row, filter, "fresh", Idle))
  /\ UNCHANGED <<screen, session, row, filter, shown, picked, work, busy, wrote, faults>>

\* Mutant: the effect does not depend on what is selected.
SelectOnly(f) ==
  /\ screen \in Filtered /\ f # filter
  /\ filter' = f
  /\ UNCHANGED <<screen, session, row, shown, picked, loads, work, busy, wrote, faults>>

\* The effect that runs when another filter, or another slot, is selected.
Select(f) ==
  /\ screen \in Filtered /\ f # filter /\ RoomToLoad
  /\ filter' = f
  /\ Ask(Read(row, f, "fresh", Idle))
  /\ UNCHANGED <<screen, session, row, shown, picked, work, busy, wrote, faults>>

\* A button that loads again: the slots' and the wallet's.
Refresh ==
  /\ screen = "wallet" \/ (screen = "slots" /\ ~busy)
  /\ RoomToLoad
  /\ Ask(Read(row, filter, "fresh", Idle))
  /\ UNCHANGED <<screen, session, row, filter, shown, picked, work, busy, wrote, faults>>
-----------------------------------------------------------------------------
(* Handlers: what is pressed, on which rows the gateway does it, what      *)
(* becomes of the row.                                                     *)

Press(op, route) ==
  /\ RoomToChange /\ RoomToLoad
  /\ busy' = TRUE
  /\ \E h \in Handlers :
       /\ work[h] = Idle
       /\ work' = [work EXCEPT ![h] =
            [op |-> op, route |-> route, filter |-> filter, step |-> "sent"]]
  /\ UNCHANGED <<screen, session, row, filter, shown, picked, loads, wrote, faults>>

Panel(s) == screen = s /\ ~busy
Listed == shown.state = "open"

\* "Edit" in a row, "Select" in "My Orders", and the buttons that undo them.
Pick ==
  /\ screen \in {"menuAdmin", "windows", "myOrders"} /\ Listed
  /\ picked' = TRUE
  /\ UNCHANGED <<screen, session, row, filter, shown, loads, work, busy, wrote, faults>>

ClearForm ==
  /\ screen = "myOrders" \/ Panel("menuAdmin") \/ Panel("windows")
  /\ picked' = FALSE
  /\ UNCHANGED <<screen, session, row, filter, shown, loads, work, busy, wrote, faults>>

PostMenu == [from |-> {"none"}, to |-> {"open"}]
CreateMenuItem == Panel("menuAdmin") /\ Press("createItem", PostMenu)

PutMenuItem == [from |-> {"open"}, to |-> {"open"}]
UpdateMenuItem == Panel("menuAdmin") /\ picked /\ Press("updateItem", PutMenuItem)

\* The button of a row is not disabled by menuBusy.
PatchMenuItem == [from |-> {"open"}, to |-> {"open"}]
ToggleAvailability == screen = "menuAdmin" /\ Listed /\ Press("toggle", PatchMenuItem)

PostWindow == [from |-> {"none"}, to |-> {"open"}]
CreateWindow == Panel("windows") /\ Press("createWindow", PostWindow)

PutWindow == [from |-> {"open"}, to |-> {"open"}]
UpdateWindow == Panel("windows") /\ picked /\ Press("updateWindow", PutWindow)

RemoveWindow == [from |-> {"open"}, to |-> {"none"}]
DeleteWindow == Panel("windows") /\ picked /\ Press("deleteWindow", RemoveWindow)

PostWindowItems == [from |-> {"open"}, to |-> {"open"}]
SaveWindowItems == Panel("windows") /\ picked /\ Press("saveItems", PostWindowItems)

PostSlotItems == [from |-> {"open"}, to |-> {"open"}]
AssignSlotItems == Panel("slots") /\ Press("assign", PostSlotItems)

PutVisibility == [from |-> {"open"}, to |-> {"open"}]
SaveRamadanVisibility == Panel("visibility") /\ Press("saveVisibility", PutVisibility)

PostReview == [from |-> {"open"}, to |-> {"closed"}]
ReviewTopup == Panel("topups") /\ Listed /\ Press("review", PostReview)

PutPeakMode == [from |-> {"open"}, to |-> {"open"}]
SavePeakMode == Panel("peak") /\ Press("savePeak", PutPeakMode)

\* A service is put into its chaos mode ("kill") or taken out of it.
PostChaos(actions) ==
  [from |-> {"open", "closed"},
   to |-> {IF a = "kill" THEN "closed" ELSE "open" : a \in actions}]
RunChaos == Panel("chaos") /\ Press("chaos", PostChaos({"kill", "restart"}))
RecoverAll == Panel("chaos") /\ Press("recover", PostChaos({"restart"}))

\* The board disables one button, that of the action it has started last.
SetStatus == [from |-> {"open"}, to |-> {"open", "closed"}]
ChangeStatus == Panel("board") /\ Listed /\ Press("status", SetStatus)
BusyElsewhere ==
  /\ screen = "board" /\ busy
  /\ busy' = FALSE
  /\ UNCHANGED <<screen, session, row, filter, shown, picked, loads, work, wrote, faults>>

RemoveOrder == [from |-> {"open", "closed"}, to |-> {"none"}]
DeleteSelected ==
  Panel("myOrders") /\ picked /\ shown.state # "none" /\ Press("delete", RemoveOrder)

\* A demo top-up is completed at once, one by bank is left to be verified.
PostTopup == [from |-> {"none"}, to |-> {"open", "closed"}]
ConfirmPay == Panel("wallet") /\ Press("topup", PostTopup)
QuickTopup == Panel("phoneWallet") /\ Press("quickTopup", PostTopup)
-----------------------------------------------------------------------------
(* Their answers.                                                          *)

\* Mutant: the list is not loaded again.
NoReload(op) == FALSE

Reloads(op) == op \notin {"saveVisibility", "savePeak", "chaos", "recover", "delete"}
ShowsAnswer(op) == op \in {"saveVisibility", "savePeak", "delete"}

Admitted(h) == session /\ row.state \in work[h].route.from
Accepted(h) == Admitted(h) /\ \E s \in work[h].route.to : Became(s)

\* What was selected when the handler was called is what it loads.
LoadAgain(h) ==
  /\ Ask(Read(row', work[h].filter, IF work[h].filter = filter THEN "fresh" ELSE "closure", h))
  /\ work' = [work EXCEPT ![h].step = "reload"]
  /\ picked' = (picked /\ work[h].op # "createItem")
  /\ UNCHANGED <<busy, shown>>

\* The row of the answer is shown, or the deleted row is taken off the list.
ShowAnswer(h) ==
  /\ shown' = [state |-> row'.state, asof |-> row'.clock, filter |-> filter, tag |-> "fresh"]
  /\ loads' = [k \in DOMAIN loads |-> [loads[k] EXCEPT !.late = TRUE]]
  /\ Ends(h)
  /\ picked' = (picked /\ work[h].op # "delete")

\* The services' health is not loaded again: it is polled.
Acknowledged(h) ==
  /\ Sent(h) /\ Accepted(h)
  /\ wrote' = IF screen = "chaos" THEN wrote ELSE row'.clock
  /\ \/ Reloads(work[h].op) /\ LoadAgain(h)
     \/ ShowsAnswer(work[h].op) /\ ShowAnswer(h)
     \/ /\ ~Reloads(work[h].op) /\ ~ShowsAnswer(work[h].op)
        /\ Ends(h)
        /\ UNCHANGED <<shown, loads, picked>>
  /\ UNCHANGED <<screen, session, filter, faults>>

\* Mutant: the flag is cleared only if the request succeeds.
RefusedStaysBusy(h) ==
  /\ Sent(h) /\ ~Admitted(h)
  /\ work' = [work EXCEPT ![h] = Idle]
  /\ UNCHANGED <<screen, session, row, filter, shown, picked, loads, busy, wrote, faults>>

\* 401, 403, 404, 409 or 422.
Refused(h) ==
  /\ Sent(h) /\ ~Admitted(h)
  /\ Ends(h)
  /\ UNCHANGED <<screen, session, row, filter, shown, picked, loads, wrote, faults>>

\* 503, or no answer: the gateway may have made the change.
WriteFails(h) ==
  /\ Sent(h) /\ Fault
  /\ Accepted(h) \/ UNCHANGED row
  /\ Ends(h)
  /\ UNCHANGED <<screen, session, filter, shown, picked, loads, wrote>>
-----------------------------------------------------------------------------
MenuPanel == CreateMenuItem \/ UpdateMenuItem \/ ToggleAvailability \/ Pick \/ ClearForm
WindowsPanel == CreateWindow \/ UpdateWindow \/ DeleteWindow \/ SaveWindowItems
OtherPanels == \/ AssignSlotItems \/ SaveRamadanVisibility \/ ReviewTopup \/ SavePeakMode
               \/ RunChaos \/ RecoverAll
Pages == ChangeStatus \/ BusyElsewhere \/ DeleteSelected \/ ConfirmPay \/ QuickTopup

Next ==
  \/ Elsewhere \/ Expire \/ Poll \/ Refresh \/ \E f \in Filters : Select(f)
  \/ \E n \in 1..MaxLoads : Receive(n) \/ LoadFails(n)
  \/ MenuPanel \/ WindowsPanel \/ OtherPanels \/ Pages
  \/ \E h \in Handlers : Acknowledged(h) \/ Refused(h) \/ WriteFails(h)

\* Intervals tick and every request is answered; nobody has to press anything.
Fairness ==
  /\ WF_vars(Poll) /\ WF_vars(Receive(1) \/ LoadFails(1))
  /\ \A h \in Handlers : WF_vars(Acknowledged(h) \/ Refused(h) \/ WriteFails(h))

Spec == Init /\ [][Next]_vars
FairSpec == Spec /\ Fairness
-----------------------------------------------------------------------------
(* Properties.                                                             *)

TypeOK ==
  /\ screen \in AllScreens /\ session \in BOOLEAN
  /\ row \in [state : States, clock : 0..MaxChanges]
  /\ filter \in Filters
  /\ shown \in Shown
  /\ loads \in Seq(Load) /\ Len(loads) <= MaxLoads
  /\ work \in [Handlers -> Work \cup {Idle}]
  /\ {picked, busy} \subseteq BOOLEAN
  /\ wrote \in 0..MaxChanges /\ faults \in 0..MaxFaults

Quiet == loads = <<>> /\ \A h \in Handlers : work[h] = Idle

\* A change that has been acknowledged is in the list once the screen is at
\* rest, unless the load after it has failed or an older answer came last:
\* two handlers may run at a time and nothing cancels what they have asked.
ReadYourWrites ==
  Quiet /\ shown.tag \in {"fresh", "closure"} => shown.asof >= wrote

\* A list belongs to what is selected, unless the answers to two selections
\* have crossed, or a handler loads what was selected when it was called.
ListMatchesFilter ==
  Quiet /\ shown.tag = "fresh" => shown.filter = filter

\* Buttons do not stay disabled, and a polled list comes to show a row that
\* changes no more, in whatever order the answers come.
ScreensSettle ==
  /\ busy ~> ~busy
  /\ \A c \in 0..MaxChanges :
       <>[](session /\ screen \in Polled /\ row.clock = c) => <>[](shown.asof = c)
=============================================================================
