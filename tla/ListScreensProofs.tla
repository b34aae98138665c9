-------------------------- MODULE ListScreensProofs --------------------------
(***************************************************************************)
(* What the lists show, for any number of handlers, filters, loads in      *)
(* flight and changes.  A screen at rest shows what was written and        *)
(* selected because of the load that was asked for last: it is either      *)
(* still awaited, or whatever it has left behind is late.                  *)
(***************************************************************************)
EXTENDS ListScreens, SequenceTheorems, FiniteSetTheorems, TLAPS

\* Every handler whose request is unanswered has room for the change and for
\* the load it may cause.
Awaited == {h \in Handlers : Sent(h)}
Room == row.clock + Unanswered <= MaxChanges /\ Len(loads) + Unanswered <= MaxLoads

\* The handlers that neither load nor show their answer belong to one panel.
ChaosOnly ==
  \A h \in Handlers :
    work[h] # Idle /\ ~Reloads(work[h].op) /\ ~ShowsAnswer(work[h].op) => screen = "chaos"

\* What is shown, or will be if a load is answered now, has what has been
\* acknowledged and belongs to what is selected.
Current(asof, tag, f) ==
  /\ tag \in {"fresh", "closure"} => asof >= wrote
  /\ tag = "fresh" => f = filter
LoadIsCurrent(load) == Current(load.asof, load.tag, load.filter)
ListIsCurrent == Current(shown.asof, shown.tag, shown.filter)

\* The load asked for last will bring the list up to date; once it has been
\* answered, or has failed, nothing older counts any more.
LastLoadCounts ==
  \/ loads # <<>> /\ LoadIsCurrent(loads[Len(loads)])
  \/ (\A n \in DOMAIN loads : loads[n].late) /\ ListIsCurrent

IInv == TypeOK /\ Room /\ ChaosOnly /\ wrote <= row.clock /\ LastLoadCounts
-----------------------------------------------------------------------------
(* Counting the requests, and the loads that are left.                     *)

LEMMA AwaitedCounts ==
  /\ IsFiniteSet(Awaited) /\ Unanswered = Cardinality(Awaited)
  /\ Unanswered \in Nat
<1>1. IsFiniteSet(Awaited)
  BY ScreensAssumption, FS_Subset DEF Awaited
<1>2. Unanswered = Cardinality(Awaited)
  BY DEF Unanswered, Quantify, Awaited
<1> QED
  BY <1>1, <1>2, FS_CardinalityType

LEMMA MoreToCount ==
  ASSUME NEW S, IsFiniteSet(S), NEW x, NEW T \in SUBSET (S \cup {x})
  PROVE  Cardinality(T) <= Cardinality(S) + 1
<1>1. /\ IsFiniteSet(S \cup {x})
      /\ Cardinality(S \cup {x}) = IF x \in S THEN Cardinality(S) ELSE Cardinality(S) + 1
  BY FS_AddElement
<1>2. IsFiniteSet(T) /\ Cardinality(T) <= Cardinality(S \cup {x})
  BY <1>1, FS_Subset
<1>3. Cardinality(S) \in Nat /\ Cardinality(T) \in Nat
  BY <1>2, FS_CardinalityType
<1> QED
  BY <1>1, <1>2, <1>3

LEMMA FewerToCount ==
  ASSUME NEW S, IsFiniteSet(S), NEW x \in S, NEW T \in SUBSET (S \ {x})
  PROVE  Cardinality(T) + 1 <= Cardinality(S)
<1>1. IsFiniteSet(S \ {x}) /\ Cardinality(S \ {x}) = Cardinality(S) - 1
  BY FS_RemoveElement
<1>2. IsFiniteSet(T) /\ Cardinality(T) <= Cardinality(S \ {x})
  BY <1>1, FS_Subset
<1>3. Cardinality(S) \in Nat /\ Cardinality(T) \in Nat
  BY <1>2, FS_CardinalityType
<1> QED
  BY <1>1, <1>2, <1>3

\* RemoveAt leaves the elements before the place, and those after it.
LEMMA Removing ==
  ASSUME NEW S, NEW s \in Seq(S), NEW n \in 1..Len(s)
  PROVE  /\ RemoveAt(s, n) \in Seq(S)
         /\ Len(RemoveAt(s, n)) = Len(s) - 1
         /\ \A k \in 1..(Len(s) - 1) :
              RemoveAt(s, n)[k] = IF k < n THEN s[k] ELSE s[k + 1]
<1> DEFINE front == SubSeq(s, 1, n - 1)
           back == SubSeq(s, n + 1, Len(s))
<1>1. n \in Nat /\ Len(s) \in Nat /\ 1 <= n /\ n <= Len(s) /\ \A k \in 1..Len(s) : s[k] \in S
  BY LenProperties
<1>2. /\ front \in Seq(S) /\ Len(front) = n - 1
      /\ \A k \in 1..(n - 1) : front[k] = s[k]
  <2>1. \A k \in 1..(n - 1) : s[k] \in S
    BY <1>1
  <2>2. n - 1 \in Int /\ 1 \in Int
    BY <1>1
  <2>3. /\ front \in Seq(S)
        /\ Len(front) = IF 1 <= n - 1 THEN n - 1 - 1 + 1 ELSE 0
        /\ \A k \in 1..(n - 1 - 1 + 1) : front[k] = s[1 + k - 1]
    BY <2>1, <2>2, SubSeqProperties, SMT
  <2> QED
    BY <1>1, <2>3
<1>3. /\ back \in Seq(S) /\ Len(back) = Len(s) - n
      /\ \A k \in 1..(Len(s) - n) : back[k] = s[n + k]
  <2>1. \A k \in (n + 1)..Len(s) : s[k] \in S
    BY <1>1
  <2>2. n + 1 \in Int /\ Len(s) \in Int
    BY <1>1
  <2>3. /\ back \in Seq(S)
        /\ Len(back) = IF n + 1 <= Len(s) THEN Len(s) - (n + 1) + 1 ELSE 0
        /\ \A k \in 1..(Len(s) - (n + 1) + 1) : back[k] = s[n + 1 + k - 1]
    BY <2>1, <2>2, SubSeqProperties, SMT
  <2> QED
    BY <1>1, <2>3
<1> HIDE DEF front, back
<1>4. /\ front \o back \in Seq(S)
      /\ Len(front \o back) = Len(front) + Len(back)
      /\ \A k \in 1..(Len(front) + Len(back)) :
           (front \o back)[k] = IF k <= Len(front) THEN front[k] ELSE back[k - Len(front)]
  BY <1>2, <1>3, ConcatProperties
<1>5. RemoveAt(s, n) = front \o back
  BY DEF RemoveAt, front, back
<1> HIDE DEF front, back
<1>6. Len(front) + Len(back) = Len(s) - 1
  BY <1>1, <1>2, <1>3
<1>7. ASSUME NEW k \in 1..(Len(s) - 1)
      PROVE  (front \o back)[k] = IF k < n THEN s[k] ELSE s[k + 1]
  <2>1. (front \o back)[k] = IF k <= n - 1 THEN front[k] ELSE back[k - (n - 1)]
    BY <1>2, <1>4, <1>6
  <2>2. CASE k < n
    <3>1. k \in 1..(n - 1)
      BY <2>2, <1>1
    <3> QED
      BY <3>1, <2>1, <2>2, <1>1, <1>2
  <2>3. CASE ~(k < n)
    <3>1. k - (n - 1) \in 1..(Len(s) - n) /\ n + (k - (n - 1)) = k + 1 /\ ~(k <= n - 1)
      BY <2>3, <1>1
    <3> QED
      BY <3>1, <2>1, <2>3, <1>3
  <2> QED
    BY <2>2, <2>3
<1> QED
  BY <1>4, <1>5, <1>6, <1>7
LEMMA AwaitedCountsNext ==
  /\ IsFiniteSet(Awaited') /\ Unanswered' = Cardinality(Awaited')
  /\ Unanswered' \in Nat
<1>1. (IsFiniteSet(Awaited) /\ Unanswered = Cardinality(Awaited) /\ Unanswered \in Nat)'
  BY AwaitedCounts, PTL
<1> QED
  BY <1>1

LEMMA OneMore ==
  ASSUME NEW h, Awaited' \subseteq Awaited \cup {h}
  PROVE  Unanswered' <= Unanswered + 1
  BY AwaitedCounts, AwaitedCountsNext, MoreToCount

LEMMA OneLess ==
  ASSUME NEW h \in Awaited, Awaited' \subseteq Awaited \ {h}
  PROVE  Unanswered' + 1 <= Unanswered
  BY AwaitedCounts, AwaitedCountsNext, FewerToCount

LEMMA NoMore == ASSUME Awaited' \subseteq Awaited PROVE Unanswered' <= Unanswered
  BY AwaitedCounts, AwaitedCountsNext, FS_Subset

LEMMA SameHandlers == ASSUME work' = work PROVE Unanswered' = Unanswered /\ Awaited' = Awaited
<1>1. Awaited' = Awaited
  BY DEF Awaited, Sent
<1> QED
  BY <1>1, AwaitedCounts, AwaitedCountsNext

\* The bounds, as numbers.
LEMMA Bounds ==
  ASSUME TypeOK
  PROVE  /\ row.clock \in Nat /\ row.state \in States /\ Len(loads) \in Nat
         /\ MaxLoads \in Nat /\ MaxChanges \in Nat /\ MaxFaults \in Nat
         /\ wrote \in Nat /\ faults \in Nat /\ DOMAIN loads = 1..Len(loads)
         /\ \A n \in DOMAIN loads : loads[n] \in Load
  BY ScreensAssumption, LenProperties DEF TypeOK

\* A load of what the gateway has now, put at the end.
LEMMA Asking ==
  ASSUME TypeOK, NEW load \in Load
  PROVE  /\ Append(loads, load) \in Seq(Load)
         /\ Append(loads, load) # <<>>
         /\ Len(Append(loads, load)) = Len(loads) + 1
         /\ Append(loads, load)[Len(loads) + 1] = load
  BY DEF TypeOK

\* Polls, selections and the buttons that load again.
LEMMA AskKeeps ==
  ASSUME IInv, RoomToLoad, NEW f \in Filters, filter' = f,
         Ask(Read(row, f, "fresh", Idle)),
         UNCHANGED <<screen, session, row, shown, picked, work, busy, wrote, faults>>
  PROVE  IInv'
<1> PICK load : load = Read(row, f, "fresh", Idle)
  OBVIOUS
<1>0. TypeOK
  BY DEF IInv
<1>1. /\ load \in Load /\ load.asof = row.clock /\ load.tag = "fresh" /\ load.filter = f
  BY <1>0 DEF Read, Load, TypeOK
<1>2. loads' = Append(loads, load)
  BY DEF Ask
<1>3. loads' \in Seq(Load) /\ loads' # <<>> /\ Len(loads') = Len(loads) + 1
      /\ loads'[Len(loads')] = load
  BY <1>0, <1>1, <1>2, Asking
<1>4. Unanswered' = Unanswered /\ Unanswered \in Nat
  BY SameHandlers, AwaitedCounts
<1>5. Len(loads') + Unanswered' <= MaxLoads /\ Len(loads') <= MaxLoads
  BY <1>0, <1>3, <1>4, Bounds DEF RoomToLoad
<1>6. TypeOK'
  BY <1>0, <1>3, <1>5 DEF TypeOK
<1>7. Room' /\ ChaosOnly' /\ (wrote <= row.clock)'
  BY <1>4, <1>5 DEF IInv, Room, ChaosOnly
<1>8. LoadIsCurrent(load)'
  <2>1. row.clock >= wrote
    BY <1>0, Bounds DEF IInv
  <2> QED
    BY <1>1, <2>1 DEF LoadIsCurrent, Current
<1>9. LastLoadCounts'
  BY <1>3, <1>8 DEF LastLoadCounts, LoadIsCurrent, Current
<1> QED
  BY <1>6, <1>7, <1>9 DEF IInv

LEMMA PollKeeps == ASSUME IInv, Poll PROVE IInv'
<1>1. filter \in Filters
  BY DEF IInv, TypeOK
<1> QED
  BY <1>1, AskKeeps DEF Poll

LEMMA RefreshKeeps == ASSUME IInv, Refresh PROVE IInv'
<1>1. filter \in Filters
  BY DEF IInv, TypeOK
<1> QED
  BY <1>1, AskKeeps DEF Refresh

LEMMA SelectKeeps == ASSUME IInv, NEW f \in Filters, Select(f) PROVE IInv'
  BY AskKeeps DEF Select
-----------------------------------------------------------------------------
(* Handlers begin and end.                                                 *)

\* A handler that is called has room for what it may cause.
LEMMA PressKeeps ==
  ASSUME IInv, NEW op \in Ops, NEW route \in Route, Press(op, route),
         Reloads(op) \/ ShowsAnswer(op) \/ screen = "chaos"
  PROVE  IInv'
<1>0. TypeOK
  BY DEF IInv
<1> PICK w : w = [op |-> op, route |-> route, filter |-> filter, step |-> "sent"]
  OBVIOUS
<1>1. w \in Work /\ w.op = op
  BY <1>0 DEF Work, TypeOK
<1>2. PICK h \in Handlers : work[h] = Idle /\ work' = [work EXCEPT ![h] = w]
  BY DEF Press
<1>3. Awaited' \subseteq Awaited \cup {h}
  BY <1>0, <1>2 DEF Awaited, Sent, TypeOK
<1>4. Unanswered' <= Unanswered + 1 /\ Unanswered \in Nat /\ Unanswered' \in Nat
  BY <1>3, OneMore, AwaitedCounts, AwaitedCountsNext
<1>5. TypeOK'
  BY <1>0, <1>1, <1>2 DEF Press, TypeOK
<1>6. Room' /\ (wrote <= row.clock)'
  BY <1>0, <1>4, Bounds, SMTT(20) DEF Press, RoomToChange, RoomToLoad, Room, IInv
<1>7. ChaosOnly'
  BY <1>0, <1>1, <1>2 DEF Press, ChaosOnly, IInv, TypeOK, Reloads, ShowsAnswer
<1>8. LastLoadCounts'
  BY DEF Press, IInv, LastLoadCounts, LoadIsCurrent, ListIsCurrent, Current
<1> QED
  BY <1>5, <1>6, <1>7, <1>8 DEF IInv

LEMMA RoomLeft ==
  ASSUME NEW c \in Nat, NEW u \in Nat, NEW v \in Nat, NEW m \in Nat,
         c + u <= m, v + 1 <= u
  PROVE  c + 1 \in 0..m /\ c + 1 + v <= m /\ c + v <= m /\ c <= c + 1 /\ c <= c
  OBVIOUS

\* Handlers that go on as before or have ended.
OnlyEnds ==
  /\ work' \in [Handlers -> Work \cup {Idle}]
  /\ \A h \in Handlers : work'[h] \in {work[h], Idle}

LEMMA OnlyEndsKeeps ==
  ASSUME TypeOK, OnlyEnds, ChaosOnly, screen' = screen
  PROVE  ChaosOnly' /\ Unanswered' <= Unanswered
<1>1. Awaited' \subseteq Awaited
  BY DEF Awaited, Sent, OnlyEnds
<1> QED
  BY <1>1, NoMore DEF OnlyEnds, ChaosOnly, Reloads, ShowsAnswer

\* finally: the handler is done and the buttons are enabled.
LEMMA Ending ==
  ASSUME TypeOK, NEW h \in Handlers, Ends(h)
  PROVE  /\ OnlyEnds /\ busy' \in BOOLEAN
         /\ Sent(h) => Unanswered' + 1 <= Unanswered
<1>1. OnlyEnds /\ busy' \in BOOLEAN
  BY DEF Ends, OnlyEnds, TypeOK
<1>2. ASSUME Sent(h) PROVE Unanswered' + 1 <= Unanswered
  <2>1. h \in Awaited /\ Awaited' \subseteq Awaited \ {h}
    BY <1>2 DEF Awaited, Sent, Ends, TypeOK
  <2> QED
    BY <2>1, OneLess
<1> QED
  BY <1>1, <1>2

\* The gateway changes the row, or does not, for a request it is answering.
LEMMA ChangeKeeps ==
  ASSUME IInv, NEW h \in Handlers, Sent(h),
         Accepted(h) \/ row' = row, Unanswered' + 1 <= Unanswered
  PROVE  /\ row' \in [state : States, clock : 0..MaxChanges]
         /\ row'.clock + Unanswered' <= MaxChanges
         /\ row.clock <= row'.clock
         /\ Accepted(h) => row'.clock = row.clock + 1
<1>0. TypeOK
  BY DEF IInv
<1>1. Unanswered \in Nat /\ Unanswered' \in Nat
  BY AwaitedCounts, AwaitedCountsNext
<1>2. row.clock + Unanswered <= MaxChanges
  BY DEF IInv, Room
<1> PICK c : c = row.clock
  OBVIOUS
<1> PICK u : u = Unanswered
  OBVIOUS
<1> PICK v : v = Unanswered'
  OBVIOUS
<1>n. /\ c \in Nat /\ u \in Nat /\ v \in Nat /\ MaxChanges \in Nat
      /\ c + u <= MaxChanges /\ v + 1 <= u
  BY <1>0, <1>1, <1>2, Bounds
<1>3. CASE Accepted(h)
  <2>1. work[h] \in Work
    BY <1>0 DEF Sent, TypeOK
  <2>2. PICK s \in States : row' = [state |-> s, clock |-> row.clock + 1]
    BY <1>3, <2>1 DEF Accepted, Became, Work, Route
  <2>3. row'.clock = c + 1
    BY <2>2
  <2>4. c + 1 \in 0..MaxChanges /\ c + 1 + v <= MaxChanges /\ c <= c + 1
    BY <1>n, RoomLeft
  <2> QED
    BY <2>2, <2>3, <2>4
<1>4. CASE row' = row /\ ~Accepted(h)
  <2>1. row'.clock = c /\ row' \in [state : States, clock : 0..MaxChanges]
    BY <1>0, <1>4 DEF TypeOK
  <2>2. c + v <= MaxChanges /\ c <= c
    BY <1>n, RoomLeft
  <2> QED
    BY <1>4, <2>1, <2>2
<1> QED
  BY <1>3, <1>4

\* The gateway says no, or does not say.
LEMMA RefusalKeeps ==
  ASSUME IInv, NEW h \in Handlers, Sent(h), Ends(h),
         Accepted(h) \/ row' = row, faults' \in 0..MaxFaults,
         UNCHANGED <<screen, session, filter, shown, picked, loads, wrote>>
  PROVE  IInv'
<1>0. TypeOK /\ Unanswered \in Nat /\ Unanswered' \in Nat
  BY AwaitedCounts, AwaitedCountsNext DEF IInv
<1>1. OnlyEnds /\ busy' \in BOOLEAN /\ Unanswered' + 1 <= Unanswered
  BY <1>0, Ending
<1>2. /\ row' \in [state : States, clock : 0..MaxChanges]
      /\ row'.clock + Unanswered' <= MaxChanges
      /\ row.clock <= row'.clock
  BY <1>1, ChangeKeeps
<1>3. TypeOK'
  BY <1>0, <1>1, <1>2 DEF TypeOK, OnlyEnds
<1>4. Room'
  <2>1. Len(loads) \in Nat /\ MaxLoads \in Nat /\ Len(loads) + Unanswered <= MaxLoads
    BY <1>0, Bounds DEF Room, IInv
  <2>2. Len(loads) + Unanswered' <= MaxLoads
    BY <1>0, <1>1, <2>1, RoomLeft
  <2> QED
    BY <1>2, <2>2 DEF Room
<1>5. (wrote <= row.clock)'
  <2>1. row'.clock \in Nat /\ row.clock \in Nat /\ wrote \in Nat /\ wrote <= row.clock
    BY <1>0, <1>2, Bounds DEF IInv
  <2> QED
    BY <1>2, <2>1
<1>6. ChaosOnly'
  BY <1>0, <1>1, OnlyEndsKeeps DEF IInv
<1>7. LastLoadCounts'
  BY DEF IInv, LastLoadCounts, LoadIsCurrent, ListIsCurrent, Current
<1> QED
  BY <1>3, <1>4, <1>5, <1>6, <1>7 DEF IInv

LEMMA RefusedKeeps == ASSUME IInv, NEW h \in Handlers, Refused(h) PROVE IInv'
<1>1. faults \in 0..MaxFaults
  BY DEF IInv, TypeOK
<1> QED
  BY <1>1, RefusalKeeps DEF Refused

LEMMA FaultCounts == ASSUME TypeOK, Fault PROVE faults' \in 0..MaxFaults
  BY ScreensAssumption DEF Fault, TypeOK

LEMMA WriteFailsKeeps == ASSUME IInv, NEW h \in Handlers, WriteFails(h) PROVE IInv'
<1>1. faults' \in 0..MaxFaults
  BY FaultCounts DEF IInv, WriteFails
<1> QED
  BY <1>1, RefusalKeeps DEF WriteFails
-----------------------------------------------------------------------------
(* Loads are answered.                                                     *)

\* The loads that are left are the ones there were, some of them late now.
LEMMA Left ==
  ASSUME TypeOK, NEW n \in DOMAIN loads, loads' = Overtaking(n)
  PROVE  /\ loads' \in Seq(Load) /\ Len(loads') = Len(loads) - 1
         /\ \A k \in DOMAIN loads' :
              LET m == IF k < n THEN k ELSE k + 1
              IN  /\ m \in DOMAIN loads
                  /\ loads'[k] = [loads[m] EXCEPT !.late = @ \/ m < n]
<1> PICK s : s = [k \in DOMAIN loads |-> [loads[k] EXCEPT !.late = @ \/ k < n]]
  OBVIOUS
<1>1. /\ DOMAIN loads = 1..Len(loads) /\ Len(loads) \in Nat
      /\ \A k \in DOMAIN loads : loads[k] \in Load
  BY Bounds
<1>2. ASSUME NEW k \in DOMAIN loads PROVE [loads[k] EXCEPT !.late = @ \/ k < n] \in Load
  <2>1. PICK l : l = (loads[k].late \/ k < n)
    OBVIOUS
  <2>2. l \in BOOLEAN /\ [loads[k] EXCEPT !.late = @ \/ k < n] = [loads[k] EXCEPT !.late = l]
    BY <2>1
  <2>3. loads[k] \in Load
    BY <1>1
  <2> QED
    BY <2>2, <2>3 DEF Load
<1>3. s \in Seq(Load) /\ Len(s) = Len(loads)
  BY <1>1, <1>2
<1>4. loads' = RemoveAt(s, n) /\ n \in 1..Len(s)
  BY <1>1, <1>3 DEF Overtaking
<1>5. /\ loads' \in Seq(Load) /\ Len(loads') = Len(s) - 1
      /\ \A k \in 1..(Len(s) - 1) : loads'[k] = IF k < n THEN s[k] ELSE s[k + 1]
  <2>1. /\ RemoveAt(s, n) \in Seq(Load) /\ Len(RemoveAt(s, n)) = Len(s) - 1
        /\ \A k \in 1..(Len(s) - 1) :
             RemoveAt(s, n)[k] = IF k < n THEN s[k] ELSE s[k + 1]
    BY <1>3, <1>4, Removing
  <2> QED
    BY <1>4, <2>1
<1>6. DOMAIN loads' = 1..(Len(loads) - 1)
  BY <1>1, <1>3, <1>5
<1>7. ASSUME NEW k \in DOMAIN loads', NEW m, m = IF k < n THEN k ELSE k + 1
      PROVE  m \in DOMAIN loads /\ loads'[k] = [loads[m] EXCEPT !.late = @ \/ m < n]
  <2>1. m \in DOMAIN loads
    BY <1>1, <1>6, <1>7
  <2>2. loads'[k] = s[m]
    BY <1>3, <1>5, <1>6, <1>7
  <2> QED
    BY <2>1, <2>2
<1> QED
  BY <1>3, <1>5, <1>7

\* The last load stays the last, or nothing is left that is not late.
LEMMA LastLeft ==
  ASSUME TypeOK, NEW n \in DOMAIN loads, loads' = Overtaking(n)
  PROVE  /\ n # Len(loads) =>
              /\ loads' # <<>>
              /\ loads'[Len(loads')].asof = loads[Len(loads)].asof
              /\ loads'[Len(loads')].tag = loads[Len(loads)].tag
              /\ loads'[Len(loads')].filter = loads[Len(loads)].filter
         /\ n = Len(loads) => \A k \in DOMAIN loads' : loads'[k].late
         /\ (\A k \in DOMAIN loads : loads[k].late) => \A k \in DOMAIN loads' : loads'[k].late
<1>1. /\ loads' \in Seq(Load) /\ Len(loads') = Len(loads) - 1
      /\ \A k \in DOMAIN loads' :
           LET m == IF k < n THEN k ELSE k + 1
           IN  /\ m \in DOMAIN loads
               /\ loads'[k] = [loads[m] EXCEPT !.late = @ \/ m < n]
  BY Left
<1>2. /\ DOMAIN loads = 1..Len(loads) /\ Len(loads) \in Nat /\ DOMAIN loads' = 1..Len(loads')
      /\ \A k \in DOMAIN loads : loads[k] \in Load
  BY <1>1, Bounds
<1>3. ASSUME NEW k \in DOMAIN loads', NEW m, m = IF k < n THEN k ELSE k + 1
      PROVE  /\ m \in DOMAIN loads
             /\ loads'[k].asof = loads[m].asof /\ loads'[k].tag = loads[m].tag
             /\ loads'[k].filter = loads[m].filter
             /\ loads'[k].late <=> loads[m].late \/ m < n
  <2>1. m \in DOMAIN loads /\ loads'[k] = [loads[m] EXCEPT !.late = @ \/ m < n]
    BY <1>1, <1>3
  <2>2. loads[m] \in Load
    BY <1>2, <2>1
  <2>3. PICK l : l = (loads[m].late \/ m < n)
    OBVIOUS
  <2>4. loads'[k] = [loads[m] EXCEPT !.late = l]
    BY <2>1, <2>3
  <2>5. l \in BOOLEAN
    BY <2>3
  <2> QED
    BY <2>1, <2>2, <2>3, <2>4 DEF Load
<1>4. ASSUME n # Len(loads)
      PROVE  /\ Len(loads') \in DOMAIN loads'
             /\ Len(loads) = IF Len(loads') < n THEN Len(loads') ELSE Len(loads') + 1
  BY <1>1, <1>2, <1>4
<1>5. ASSUME n # Len(loads)
      PROVE  /\ loads' # <<>>
             /\ loads'[Len(loads')].asof = loads[Len(loads)].asof
             /\ loads'[Len(loads')].tag = loads[Len(loads)].tag
             /\ loads'[Len(loads')].filter = loads[Len(loads)].filter
  BY <1>3, <1>4, <1>5
<1>6. ASSUME n = Len(loads), NEW k \in DOMAIN loads' PROVE loads'[k].late
  <2>1. k < n
    BY <1>1, <1>2, <1>6
  <2> QED
    BY <2>1, <1>3
<1>7. ASSUME \A k \in DOMAIN loads : loads[k].late, NEW k \in DOMAIN loads' PROVE loads'[k].late
  BY <1>3, <1>7
<1> QED
  BY <1>5, <1>6, <1>7

LEMMA EndsAfterKeeps ==
  ASSUME TypeOK, NEW load \in Load, EndsAfter(load)
  PROVE  OnlyEnds /\ busy' \in BOOLEAN /\ picked' \in BOOLEAN
<1>1. CASE load.by = Idle
  BY <1>1 DEF EndsAfter, OnlyEnds, TypeOK
<1>2. CASE load.by # Idle
  <2>1. load.by \in Handlers /\ Ends(load.by)
    BY <1>2 DEF EndsAfter, Load
  <2>2. picked' \in BOOLEAN
    BY <1>2 DEF EndsAfter, TypeOK
  <2> QED
    BY <2>1, <2>2, Ending
<1> QED
  BY <1>1, <1>2

\* What an answered load shows, or a failed one says, is current if it was
\* the last; if everything was late it is late too.
LEMMA AnswerKeeps ==
  ASSUME IInv, NEW n \in DOMAIN loads, loads' = Overtaking(n), EndsAfter(loads[n]),
         shown' \in Shown, faults' \in 0..MaxFaults,
         \/ shown'.tag = "failed"
         \/ /\ shown'.asof = loads[n].asof /\ shown'.filter = loads[n].filter
            /\ shown'.tag = IF loads[n].late THEN "late" ELSE loads[n].tag,
         UNCHANGED <<screen, session, row, filter, wrote>>
  PROVE  IInv'
<1>0. TypeOK /\ loads[n] \in Load /\ Unanswered \in Nat /\ Unanswered' \in Nat
  BY Bounds, AwaitedCounts, AwaitedCountsNext DEF IInv
<1>1. loads' \in Seq(Load) /\ Len(loads') = Len(loads) - 1
  BY <1>0, Left
<1>2. OnlyEnds /\ busy' \in BOOLEAN /\ picked' \in BOOLEAN
  BY <1>0, EndsAfterKeeps
<1>3. ChaosOnly' /\ Unanswered' <= Unanswered
  BY <1>0, <1>2, OnlyEndsKeeps DEF IInv
<1>4. TypeOK'
  <2>1. Len(loads') <= MaxLoads
    BY <1>0, <1>1, Bounds DEF TypeOK
  <2> QED
    BY <1>0, <1>1, <1>2, <2>1 DEF TypeOK, OnlyEnds
<1>5. Room' /\ (wrote <= row.clock)'
  <2>1. /\ Len(loads) \in Nat /\ row.clock \in Nat /\ MaxLoads \in Nat /\ MaxChanges \in Nat
        /\ row.clock + Unanswered <= MaxChanges /\ Len(loads) + Unanswered <= MaxLoads
    BY <1>0, Bounds DEF IInv, Room
  <2>2. /\ row.clock + Unanswered' <= MaxChanges
        /\ Len(loads) - 1 + Unanswered' <= MaxLoads
    BY <1>0, <1>3, <2>1
  <2> QED
    BY <1>1, <2>2 DEF IInv, Room
<1>6. LastLoadCounts'
  <2>1. CASE loads # <<>> /\ LoadIsCurrent(loads[Len(loads)]) /\ n # Len(loads)
    BY <1>0, <2>1, LastLeft DEF LastLoadCounts, LoadIsCurrent, Current
  <2>2. CASE loads # <<>> /\ LoadIsCurrent(loads[Len(loads)]) /\ n = Len(loads)
    <3>1. \A k \in DOMAIN loads' : loads'[k].late
      BY <1>0, <2>2, LastLeft
    <3>2. ListIsCurrent'
      BY <2>2 DEF LoadIsCurrent, ListIsCurrent, Current
    <3> QED
      BY <3>1, <3>2 DEF LastLoadCounts
  <2>3. CASE \A k \in DOMAIN loads : loads[k].late
    <3>1. \A k \in DOMAIN loads' : loads'[k].late
      BY <1>0, <2>3, LastLeft
    <3>2. ListIsCurrent'
      BY <2>3 DEF ListIsCurrent, Current
    <3> QED
      BY <3>1, <3>2 DEF LastLoadCounts
  <2> QED
    BY <2>1, <2>2, <2>3 DEF IInv, LastLoadCounts
<1> QED
  BY <1>3, <1>4, <1>5, <1>6 DEF IInv

LEMMA ReceiveKeeps == ASSUME IInv, NEW n, Receive(n) PROVE IInv'
<1>1. TypeOK /\ n \in DOMAIN loads /\ loads[n] \in Load
  BY Bounds DEF IInv, Receive
<1>2. PICK state \in Displays(loads[n]) : shown' =
        [state |-> state, asof |-> loads[n].asof, filter |-> loads[n].filter,
         tag |-> IF loads[n].late THEN "late" ELSE loads[n].tag]
  BY DEF Receive
<1>3. state \in States
  BY <1>1 DEF Displays, States, Load
<1>4. shown' \in Shown
  BY <1>1, <1>2, <1>3 DEF Shown, Load
<1>5. faults' \in 0..MaxFaults
  BY <1>1 DEF Receive, TypeOK
<1> QED
  BY <1>1, <1>2, <1>4, <1>5, AnswerKeeps DEF Receive

LEMMA LoadFailsKeeps == ASSUME IInv, NEW n, LoadFails(n) PROVE IInv'
<1>1. TypeOK /\ n \in DOMAIN loads
  BY DEF IInv, LoadFails
<1>2. shown' \in Shown /\ shown'.tag = "failed"
  BY <1>1 DEF LoadFails, TypeOK, Shown
<1>3. faults' \in 0..MaxFaults
  BY <1>1, FaultCounts DEF LoadFails, TypeOK
<1> QED
  BY <1>1, <1>2, <1>3, AnswerKeeps DEF LoadFails
-----------------------------------------------------------------------------
(* Requests are acknowledged.                                              *)

LEMMA WroteKeeps ==
  ASSUME IInv, NEW h \in Handlers, Sent(h), Accepted(h), Unanswered' + 1 <= Unanswered,
         wrote' = IF screen = "chaos" THEN wrote ELSE row'.clock
  PROVE  /\ row' \in [state : States, clock : 0..MaxChanges]
         /\ row'.clock + Unanswered' <= MaxChanges
         /\ wrote' \in 0..MaxChanges /\ wrote' <= row'.clock
<1>1. /\ row' \in [state : States, clock : 0..MaxChanges]
      /\ row'.clock + Unanswered' <= MaxChanges
      /\ row.clock <= row'.clock
  BY ChangeKeeps
<1>2. /\ row.clock \in Nat /\ row'.clock \in 0..MaxChanges /\ wrote \in 0..MaxChanges
      /\ wrote <= row.clock
  BY <1>1, Bounds DEF IInv, TypeOK
<1>3. wrote' \in 0..MaxChanges /\ wrote' <= row'.clock
  <2>1. CASE screen = "chaos"
    BY <1>1, <1>2, <2>1
  <2>2. CASE screen # "chaos"
    BY <1>2, <2>2
  <2> QED
    BY <2>1, <2>2
<1> QED
  BY <1>1, <1>3

\* The handler awaits the list, which has its change.
LEMMA LoadAgainKeeps ==
  ASSUME IInv, NEW h \in Handlers, Sent(h), Accepted(h), LoadAgain(h),
         wrote' = IF screen = "chaos" THEN wrote ELSE row'.clock,
         UNCHANGED <<screen, session, filter, faults>>
  PROVE  IInv'
<1>0. TypeOK /\ Unanswered \in Nat /\ Unanswered' \in Nat /\ work[h] \in Work
  BY AwaitedCounts, AwaitedCountsNext DEF IInv, TypeOK, Sent
<1> PICK w : w = [work[h] EXCEPT !.step = "reload"]
  OBVIOUS
<1>1. w \in Work /\ w.op = work[h].op /\ w.step = "reload" /\ work' = [work EXCEPT ![h] = w]
  <2>1. w \in Work /\ w.op = work[h].op /\ w.step = "reload"
    BY <1>0 DEF Work
  <2> QED
    BY <2>1 DEF LoadAgain
<1>2. h \in Awaited /\ Awaited' \subseteq Awaited \ {h}
  BY <1>0, <1>1 DEF Awaited, Sent, TypeOK
<1>3. Unanswered' + 1 <= Unanswered
  BY <1>2, OneLess
<1>4. /\ row' \in [state : States, clock : 0..MaxChanges]
      /\ row'.clock + Unanswered' <= MaxChanges
      /\ wrote' \in 0..MaxChanges /\ wrote' <= row'.clock
  BY <1>3, WroteKeeps
<1> PICK load : load = Read(row', work[h].filter,
                            IF work[h].filter = filter THEN "fresh" ELSE "closure", h)
  OBVIOUS
<1>5. /\ load \in Load /\ load.asof = row'.clock
      /\ load.tag = "fresh" => load.filter = filter
  <2>1. work[h].filter \in Filters /\ row'.state \in States /\ row'.clock \in 0..MaxChanges
    BY <1>0, <1>4 DEF Work
  <2>2. session \in BOOLEAN
    BY <1>0 DEF TypeOK
  <2> QED
    BY <2>1, <2>2 DEF Read, Load
<1>6. loads' = Append(loads, load)
  BY DEF LoadAgain, Ask
<1>7. /\ loads' \in Seq(Load) /\ loads' # <<>> /\ Len(loads') = Len(loads) + 1
      /\ loads'[Len(loads')] = load
  BY <1>0, <1>5, <1>6, Asking
<1>8. Len(loads') + Unanswered' <= MaxLoads /\ Len(loads') <= MaxLoads
  <2>1. Len(loads) \in Nat /\ MaxLoads \in Nat /\ Len(loads) + Unanswered <= MaxLoads
    BY <1>0, Bounds DEF IInv, Room
  <2>2. /\ Len(loads) + 1 + Unanswered' <= MaxLoads
        /\ Len(loads) + 1 \in 0..MaxLoads
    BY <1>0, <1>3, <2>1, RoomLeft
  <2> QED
    BY <1>7, <2>2
<1>9. TypeOK'
  <2>1. picked' \in BOOLEAN
    BY <1>0 DEF LoadAgain, TypeOK
  <2> QED
    BY <1>0, <1>1, <1>4, <1>7, <1>8, <2>1 DEF TypeOK, LoadAgain
<1>10. ChaosOnly'
  BY <1>0, <1>1 DEF IInv, ChaosOnly, TypeOK, Sent, Reloads, ShowsAnswer
<1>11. LastLoadCounts'
  BY <1>4, <1>5, <1>7 DEF LastLoadCounts, LoadIsCurrent, Current
<1> QED
  BY <1>4, <1>8, <1>9, <1>10, <1>11 DEF IInv, Room

\* The answer is shown: no load that is still under way counts.
LEMMA ShowAnswerKeeps ==
  ASSUME IInv, NEW h \in Handlers, Sent(h), Accepted(h), ShowAnswer(h),
         wrote' = IF screen = "chaos" THEN wrote ELSE row'.clock,
         UNCHANGED <<screen, session, filter, faults>>
  PROVE  IInv'
<1>0. TypeOK /\ Unanswered \in Nat /\ Unanswered' \in Nat
  BY AwaitedCounts, AwaitedCountsNext DEF IInv
<1>1. OnlyEnds /\ busy' \in BOOLEAN /\ Unanswered' + 1 <= Unanswered
  BY <1>0, Ending DEF ShowAnswer
<1>2. /\ row' \in [state : States, clock : 0..MaxChanges]
      /\ row'.clock + Unanswered' <= MaxChanges
      /\ wrote' \in 0..MaxChanges /\ wrote' <= row'.clock
  BY <1>1, WroteKeeps
<1>3. ChaosOnly'
  BY <1>0, <1>1, OnlyEndsKeeps DEF IInv
<1>4. /\ loads' \in Seq(Load) /\ Len(loads') = Len(loads)
      /\ \A n \in DOMAIN loads' : loads'[n].late
  <2>1. /\ loads' = [k \in 1..Len(loads) |-> [loads[k] EXCEPT !.late = TRUE]]
        /\ Len(loads) \in Nat
    BY <1>0, Bounds DEF ShowAnswer
  <2>2. \A k \in 1..Len(loads) :
           /\ [loads[k] EXCEPT !.late = TRUE] \in Load
           /\ [loads[k] EXCEPT !.late = TRUE].late
    BY <1>0, Bounds, ZenonT(60) DEF Load
  <2>3. loads' \in Seq(Load) /\ Len(loads') = Len(loads) /\ DOMAIN loads' = 1..Len(loads)
    BY <2>1, <2>2
  <2>4. \A n \in 1..Len(loads) : loads'[n] = [loads[n] EXCEPT !.late = TRUE]
    BY <2>1
  <2>5. \A n \in 1..Len(loads) : loads'[n].late
    BY <2>2, <2>4
  <2> QED
    BY <2>3, <2>5
<1>5. /\ shown' \in Shown /\ shown'.asof = row'.clock /\ shown'.filter = filter
      /\ shown'.tag = "fresh"
  <2>1. shown' = [state |-> row'.state, asof |-> row'.clock, filter |-> filter, tag |-> "fresh"]
    BY DEF ShowAnswer
  <2> QED
    BY <1>0, <1>2, <2>1 DEF Shown, TypeOK
<1>6. TypeOK'
  <2>1. picked' \in BOOLEAN
    BY <1>0 DEF ShowAnswer, TypeOK
  <2> QED
    BY <1>0, <1>1, <1>2, <1>4, <1>5, <2>1 DEF TypeOK, OnlyEnds
<1>7. Room'
  <2>1. Len(loads) \in Nat /\ MaxLoads \in Nat /\ Len(loads) + Unanswered <= MaxLoads
    BY <1>0, Bounds DEF IInv, Room
  <2>2. Len(loads) + Unanswered' <= MaxLoads
    BY <1>0, <1>1, <2>1, RoomLeft
  <2> QED
    BY <1>2, <1>4, <2>2 DEF Room
<1>8. LastLoadCounts'
  BY <1>2, <1>4, <1>5 DEF LastLoadCounts, ListIsCurrent, Current
<1> QED
  BY <1>2, <1>3, <1>6, <1>7, <1>8 DEF IInv

\* Only the services' health is neither loaded again nor shown.
LEMMA AcknowledgedKeeps == ASSUME IInv, NEW h \in Handlers, Acknowledged(h) PROVE IInv'
<1>1. CASE LoadAgain(h)
  BY <1>1, LoadAgainKeeps DEF Acknowledged
<1>2. CASE ShowAnswer(h)
  BY <1>2, ShowAnswerKeeps DEF Acknowledged
<1>3. CASE /\ ~Reloads(work[h].op) /\ ~ShowsAnswer(work[h].op) /\ Ends(h)
           /\ UNCHANGED <<shown, loads, picked>>
  <2>1. screen = "chaos"
    BY <1>3 DEF Acknowledged, IInv, ChaosOnly, Sent
  <2>2. faults' \in 0..MaxFaults /\ wrote' = wrote
    BY <2>1 DEF Acknowledged, IInv, TypeOK
  <2> QED
    BY <1>3, <2>2, RefusalKeeps DEF Acknowledged
<1> QED
  BY <1>1, <1>2, <1>3 DEF Acknowledged
-----------------------------------------------------------------------------
(* The screen is used, and others change the row.                          *)

\* Steps that touch nothing that is asked, selected or acknowledged.
LEMMA AsideKeeps ==
  ASSUME IInv, session' \in BOOLEAN, picked' \in BOOLEAN, busy' \in BOOLEAN,
         UNCHANGED <<screen, row, filter, shown, loads, work, wrote, faults>>
  PROVE  IInv'
<1>1. Unanswered' = Unanswered
  BY SameHandlers
<1>2. TypeOK'
  BY DEF IInv, TypeOK
<1>3. Room' /\ ChaosOnly' /\ (wrote <= row.clock)'
  BY <1>1 DEF IInv, Room, ChaosOnly
<1>4. LastLoadCounts'
  BY DEF IInv, LastLoadCounts, LoadIsCurrent, ListIsCurrent, Current
<1> QED
  BY <1>2, <1>3, <1>4 DEF IInv

LEMMA ElsewhereKeeps == ASSUME IInv, Elsewhere PROVE IInv'
<1>0. TypeOK /\ Unanswered \in Nat /\ Unanswered' = Unanswered
  BY SameHandlers, AwaitedCounts DEF IInv, Elsewhere
<1>1. PICK step \in Life(screen) : Became(step[2])
  BY DEF Elsewhere
<1>2. step[2] \in States
  BY <1>1 DEF Life, States
<1>3. row' = [state |-> step[2], clock |-> row.clock + 1]
  BY <1>1 DEF Became
<1>4. row.clock + 1 \in 0..MaxChanges /\ row.clock + 1 + Unanswered <= MaxChanges
  BY <1>0, Bounds DEF Elsewhere, RoomToChange
<1>5. TypeOK'
  BY <1>0, <1>2, <1>3, <1>4 DEF Elsewhere, TypeOK
<1>6. Room' /\ (wrote <= row.clock)'
  <2>1. wrote <= row.clock + 1
    BY <1>0, Bounds DEF IInv
  <2> QED
    BY <1>0, <1>3, <1>4, <2>1 DEF Elsewhere, IInv, Room
<1>7. ChaosOnly'
  BY DEF Elsewhere, IInv, ChaosOnly
<1>8. LastLoadCounts'
  BY DEF Elsewhere, IInv, LastLoadCounts, LoadIsCurrent, ListIsCurrent, Current
<1> QED
  BY <1>5, <1>6, <1>7, <1>8 DEF IInv
\* Every button presses a handler of its panel.
Pressed ==
  \E op \in Ops, route \in Route :
    Press(op, route) /\ (Reloads(op) \/ ShowsAnswer(op) \/ screen = "chaos")

LEMMA MenuPresses ==
  CreateMenuItem \/ UpdateMenuItem \/ ToggleAvailability => Pressed
<1>1. {"createItem", "updateItem", "toggle"} \subseteq Ops
  BY DEF Ops
<1>2. {PostMenu, PutMenuItem, PatchMenuItem} \subseteq Route
  BY DEF Route, States, PostMenu, PutMenuItem, PatchMenuItem
<1>3. Reloads("createItem") /\ Reloads("updateItem") /\ Reloads("toggle")
  BY DEF Reloads
<1> QED
  BY <1>1, <1>2, <1>3 DEF Pressed, CreateMenuItem, UpdateMenuItem, ToggleAvailability

LEMMA WindowPresses == WindowsPanel => Pressed
<1>1. {"createWindow", "updateWindow", "deleteWindow", "saveItems"} \subseteq Ops
  BY DEF Ops
<1>2. {PostWindow, PutWindow, RemoveWindow, PostWindowItems} \subseteq Route
  BY DEF Route, States, PostWindow, PutWindow, RemoveWindow, PostWindowItems
<1>3. /\ Reloads("createWindow") /\ Reloads("updateWindow")
      /\ Reloads("deleteWindow") /\ Reloads("saveItems")
  BY DEF Reloads
<1> QED
  BY <1>1, <1>2, <1>3
     DEF Pressed, WindowsPanel, CreateWindow, UpdateWindow, DeleteWindow, SaveWindowItems

LEMMA PanelPresses == OtherPanels => Pressed
<1>1. {"assign", "saveVisibility", "review", "savePeak", "chaos", "recover"} \subseteq Ops
  BY DEF Ops
<1>2. {PostSlotItems, PutVisibility, PostReview, PutPeakMode} \subseteq Route
  BY DEF Route, States, PostSlotItems, PutVisibility, PostReview, PutPeakMode
<1>3. \A actions : PostChaos(actions) \in Route
  BY DEF Route, States, PostChaos
<1>4. /\ Reloads("assign") /\ Reloads("review")
      /\ ShowsAnswer("saveVisibility") /\ ShowsAnswer("savePeak")
  BY DEF Reloads, ShowsAnswer
<1>5. RunChaos \/ RecoverAll => Pressed
  BY <1>1, <1>3 DEF Pressed, RunChaos, RecoverAll, Panel
<1> QED
  BY <1>1, <1>2, <1>4, <1>5
     DEF Pressed, OtherPanels, AssignSlotItems, SaveRamadanVisibility, ReviewTopup, SavePeakMode

LEMMA PagePresses == ChangeStatus \/ DeleteSelected \/ ConfirmPay \/ QuickTopup => Pressed
<1>1. {"status", "delete", "topup", "quickTopup"} \subseteq Ops
  BY DEF Ops
<1>2. {SetStatus, RemoveOrder, PostTopup} \subseteq Route
  BY DEF Route, States, SetStatus, RemoveOrder, PostTopup
<1>3. /\ Reloads("status") /\ ShowsAnswer("delete") /\ Reloads("topup")
      /\ Reloads("quickTopup")
  BY DEF Reloads, ShowsAnswer
<1> QED
  BY <1>1, <1>2, <1>3 DEF Pressed, ChangeStatus, DeleteSelected, ConfirmPay, QuickTopup

LEMMA PressedKeeps == ASSUME IInv, Pressed PROVE IInv'
  BY PressKeeps DEF Pressed

LEMMA ButtonsKeep ==
  ASSUME IInv, MenuPanel \/ WindowsPanel \/ OtherPanels \/ Pages
  PROVE  IInv'
<1>1. session \in BOOLEAN /\ picked \in BOOLEAN /\ busy \in BOOLEAN
  BY DEF IInv, TypeOK
<1>2. CASE Pressed
  BY <1>2, PressedKeeps
<1>3. CASE Pick \/ ClearForm \/ BusyElsewhere
  BY <1>1, <1>3, AsideKeeps DEF Pick, ClearForm, BusyElsewhere
<1> QED
  BY <1>2, <1>3, MenuPresses, WindowPresses, PanelPresses, PagePresses
     DEF MenuPanel, Pages
-----------------------------------------------------------------------------
(* The invariant.                                                          *)

\* Before any load is answered the last one will show everything.
LEMMA Begins == Init => IInv
<1> SUFFICES ASSUME Init PROVE IInv
  OBVIOUS
<1> PICK load : load = Read(row, filter, "fresh", Idle)
  OBVIOUS
<1>1. Mounts \in 1..2 /\ MaxLoads \in Nat /\ MaxChanges \in Nat /\ MaxFaults \in Nat
      /\ MaxLoads >= 2
  BY ScreensAssumption DEF Mounts
<1>2. row \in [state : States, clock : 0..MaxChanges] /\ row.clock = 0
  BY <1>1 DEF Init, FirstState, States
<1>3. filter \in Filters
  BY ScreensAssumption DEF Init
<1>4. /\ load \in Load /\ load.asof = 0 /\ load.tag = "fresh" /\ load.filter = filter
  BY <1>2, <1>3 DEF Init, Read, Load
<1>5. loads = [k \in 1..Mounts |-> load]
  BY DEF Init
<1>6. loads \in Seq(Load) /\ Len(loads) = Mounts /\ loads # <<>> /\ loads[Len(loads)] = load
  BY <1>1, <1>4, <1>5
<1>7. shown \in Shown
  BY <1>1, ScreensAssumption DEF Init, Shown, States
<1>8. TypeOK
  <2>1. work \in [Handlers -> Work \cup {Idle}] /\ {picked, busy} \subseteq BOOLEAN
    BY DEF Init
  <2>2. wrote \in 0..MaxChanges /\ faults \in 0..MaxFaults /\ Len(loads) <= MaxLoads
    BY <1>1, <1>6 DEF Init
  <2>3. screen \in AllScreens /\ session \in BOOLEAN
    BY DEF Init
  <2> QED
    BY <1>2, <1>3, <1>6, <1>7, <2>1, <2>2, <2>3 DEF TypeOK
<1>9. Unanswered = 0
  <2>1. Awaited = {}
    BY DEF Init, Awaited, Sent
  <2> QED
    BY <2>1, AwaitedCounts, FS_EmptySet
<1>10. Room /\ ChaosOnly /\ wrote <= row.clock
  BY <1>1, <1>2, <1>6, <1>9 DEF Init, Room, ChaosOnly
<1>11. LastLoadCounts
  <2>1. wrote = 0
    BY DEF Init
  <2>2. LoadIsCurrent(load)
    BY <1>4, <2>1 DEF LoadIsCurrent, Current
  <2> QED
    BY <1>6, <2>2 DEF LastLoadCounts
<1> QED
  BY <1>8, <1>10, <1>11 DEF IInv

LEMMA Keeps == IInv /\ [Next]_vars => IInv'
<1> SUFFICES ASSUME IInv, [Next]_vars PROVE IInv'
  OBVIOUS
<1>0. session \in BOOLEAN /\ picked \in BOOLEAN /\ busy \in BOOLEAN
  BY DEF IInv, TypeOK
<1>1. CASE Elsewhere \/ Poll \/ Refresh \/ \E f \in Filters : Select(f)
  BY <1>1, ElsewhereKeeps, PollKeeps, RefreshKeeps, SelectKeeps
<1>2. CASE Expire
  BY <1>0, <1>2, AsideKeeps DEF Expire
<1>3. CASE \E n \in 1..MaxLoads : Receive(n) \/ LoadFails(n)
  BY <1>3, ReceiveKeeps, LoadFailsKeeps
<1>4. CASE MenuPanel \/ WindowsPanel \/ OtherPanels \/ Pages
  BY <1>4, ButtonsKeep
<1>5. CASE \E h \in Handlers : Acknowledged(h) \/ Refused(h) \/ WriteFails(h)
  BY <1>5, AcknowledgedKeeps, RefusedKeeps, WriteFailsKeeps
<1>6. CASE UNCHANGED vars
  BY <1>0, <1>6, AsideKeeps DEF vars
<1> QED
  BY <1>1, <1>2, <1>3, <1>4, <1>5, <1>6 DEF Next

\* Whatever is pressed, answered, overtaken or lost, the load that was asked
\* for last is still to come, or nothing older can be taken for new.
THEOREM Inductive == Spec => []IInv
<1> QED
  BY Begins, Keeps, PTL DEF Spec

\* Every variable of a screen has its type: the loads and changes that the
\* running handlers may still cause stay within the bounds.
THEOREM TypeCorrect == Spec => []TypeOK
<1>1. IInv => TypeOK
  BY DEF IInv
<1> QED
  BY <1>1, Inductive, PTL

\* A screen at rest shows what the gateway has acknowledged (the handlers of
\* AdminDashboardClient.tsx, the board, "My Orders", the wallets), unless its
\* last load has failed or was overtaken.
THEOREM OwnWritesRead == Spec => []ReadYourWrites
<1>1. IInv => ReadYourWrites
  BY DEF IInv, LastLoadCounts, ListIsCurrent, Current, ReadYourWrites, Quiet
<1> QED
  BY <1>1, Inductive, PTL

\* A screen at rest shows what is selected (the status of the top-ups, the
\* wallet's filter, the slot of MenuClient.tsx), unless its last load has
\* failed, was overtaken, or was asked for by a handler called before.
THEOREM SelectionShown == Spec => []ListMatchesFilter
<1>1. IInv => ListMatchesFilter
  BY DEF IInv, LastLoadCounts, ListIsCurrent, Current, ListMatchesFilter, Quiet
<1> QED
  BY <1>1, Inductive, PTL
=============================================================================
