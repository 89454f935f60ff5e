-------------------------- MODULE WorkOrdersProofs --------------------------
(***************************************************************************)
(* Proofs about WorkOrders, for every set of orders and every bound.       *)
(*                                                                         *)
(* The single-flight of a lane is decided from two readings of different   *)
(* age: the statuses of the poll's snapshot and the windows of now.  The   *)
(* inductive invariant says what the older reading is still good for.      *)
(***************************************************************************)
EXTENDS WorkOrders, TLAPS

(* The keys this pass may kill or ignore as terminal.                      *)
Shut == watch["closed"] \cup watch["reap"] \cup watch["bound"] \cup watch["retire"]
Chosen == watch["next"] \cup watch["spawn"]

(* The order of every terminal entry was closed since its claim.           *)
ReleasedWhenFinal == \A k \in Keys : cm[k].st \in Final => released[k]
(* No order is both taken as terminal and about to be claimed or spawned.  *)
PlanConsistent == Shut \cap Chosen = {}
(* What the snapshot showed terminal has been closed since its claim.      *)
ShutIsReleased == \A k \in Shut : win[k] # "none" => released[k]
(* Before a spawn the lane holds only windows the snapshot showed terminal.*)
SpawnAlone ==
  \A k \in watch["spawn"], j \in Keys :
    Lane(j) = Lane(k) /\ win[j] # "none" => j \in watch["closed"]
OneSpawn == \A j, k \in watch["spawn"] : j = k
(* Two sessions of a lane run only if one of them was released.            *)
Running(k) == win[k] \in {"live", "closing"}
OneUnreleased ==
  \A j, k \in Keys : j # k /\ Lane(j) = Lane(k) /\ Running(j) /\ Running(k)
                     => released[j] \/ released[k]

LaneInv ==
  /\ ReleasedWhenFinal /\ PlanConsistent /\ ShutIsReleased
  /\ SpawnAlone /\ OneSpawn /\ OneUnreleased

-----------------------------------------------------------------------------
(* Type correctness.                                                       *)

LEMMA RestingType == Resting \in [PhaseNames \cup {"closed"} -> SUBSET Keys]
  BY DEF Resting

LEMMA AgeZero == 0 \in 0..MaxAge
  BY BoundsAssumption

LEMMA AbsentType == \A s \in Statuses : Absent \in Entry /\ [Absent EXCEPT !.st = s] \in Entry
  BY AgeZero DEF Absent, Entry, Statuses

LEMMA LeaveType ==
  ASSUME NEW w \in [PhaseNames \cup {"closed"} -> SUBSET Keys], Leave(w)
  PROVE  watch' \in [PhaseNames \cup {"closed"} -> SUBSET Keys]
  BY RestingType DEF Leave

(* A landed write of well-formed entries keeps the ConfigMap's history.    *)
LEMMA WriteType ==
  ASSUME TypeOK, NEW c \in [Keys -> Entry], Write(c)
  PROVE  /\ cm' \in [Keys -> Entry]
         /\ released' \in [Keys -> BOOLEAN]
  BY DEF Write, TypeOK

CMType ==
  /\ cm \in [Keys -> Entry] /\ older \in [Keys -> SUBSET Keys]
  /\ released \in [Keys -> BOOLEAN]

LEMMA SetStatusType ==
  ASSUME TypeOK, NEW k \in Keys, NEW s \in Statuses, SetStatus(k, s)
  PROVE  CMType'
<1>1. WithStatus(k, s) \in [Keys -> Entry]
  <2>1. cm \in [Keys -> Entry]
    BY DEF TypeOK
  <2> QED
    BY <2>1, AgeZero DEF WithStatus, Entry
<1>2. Write(WithStatus(k, s)) /\ older' = older
  BY DEF SetStatus
<1> QED
  BY <1>1, <1>2, WriteType DEF CMType, TypeOK

LEMMA FaultType == TypeOK /\ Fault => faults' \in 0..MaxFaults
<1>1. TypeOK => faults \in 0..MaxFaults
  BY DEF TypeOK
<1> QED
  BY <1>1, BoundsAssumption DEF Fault

LEMMA LostType ==
  ASSUME TypeOK, Lost
  PROVE  CMType' /\ faults' \in 0..MaxFaults
<1>1. faults' \in 0..MaxFaults
  BY FaultType DEF Lost
<1> QED
  BY <1>1 DEF Lost, cmVars, CMType, TypeOK

LEMMA TryType ==
  ASSUME TypeOK, NEW k \in Keys, NEW s \in Statuses, TrySetStatus(k, s)
  PROVE  CMType' /\ faults' \in 0..MaxFaults
<1>1. CASE SetStatus(k, s) /\ UNCHANGED faults
  BY <1>1, SetStatusType DEF TypeOK
<1>2. CASE Lost
  BY <1>2, LostType
<1> QED
  BY <1>1, <1>2 DEF TrySetStatus

LEMMA WriteEntryType ==
  ASSUME TypeOK, NEW k \in Keys, WriteEntry(k)
  PROVE  CMType'
<1>1. [cm EXCEPT ![k] = [Absent EXCEPT !.st = "pending"]] \in [Keys -> Entry]
  BY AbsentType DEF TypeOK, Statuses
<1>2. older' \in [Keys -> SUBSET Keys]
  BY DEF WriteEntry, TypeOK
<1> QED
  BY <1>1, <1>2, WriteType DEF WriteEntry, CMType

(* The promotions in flight.                                               *)
InCalls == {Idle} \cup [stage : {"check", "write"}, of : RemKeys]

LEMMA CallType ==
  ASSUME TypeOK, NEW c \in Callers, NEW r \in RemKeys, Call(c, r)
  PROVE  promo' \in [Callers -> InCalls]
<1>1. [stage |-> "check", of |-> r] \in InCalls
  BY DEF InCalls
<1> QED
  BY <1>1 DEF Call, TypeOK, InCalls

LEMMA ReturnType ==
  ASSUME TypeOK, NEW c \in Callers, Return(c)
  PROVE  promo' \in [Callers -> InCalls] /\ win' \in [Keys -> Windows]
  BY DEF Return, TypeOK, InCalls, Windows

LEMMA KillType ==
  ASSUME TypeOK, NEW S, Kill(S)
  PROVE  promo' \in [Callers -> InCalls] /\ win' \in [Keys -> Windows]
  BY DEF Kill, TypeOK, InCalls, Windows

(* A call in flight names the rem order it promotes.                       *)
LEMMA InFlight ==
  ASSUME TypeOK, NEW c \in Callers, promo[c].stage \in {"check", "write"}
  PROVE  /\ promo[c].of \in RemKeys
         /\ EscFor(c, promo[c].of) \in Keys
         /\ [promo EXCEPT ![c].stage = "write"] \in [Callers -> InCalls]
<1>1. promo[c] \in [stage : {"check", "write"}, of : RemKeys]
  BY DEF TypeOK, Idle
<1>2. promo[c].of \in RemKeys
  BY <1>1
<1>3. EscFor(c, promo[c].of) \in Keys
  BY <1>2, KeysAssumption DEF EscFor, Keys
<1>4. [promo[c] EXCEPT !.stage = "write"] \in InCalls
  BY <1>1 DEF InCalls
<1>5. [promo EXCEPT ![c].stage = "write"] \in [Callers -> InCalls]
  BY <1>4 DEF TypeOK, InCalls
<1> QED
  BY <1>2, <1>3, <1>5

Plans == [PhaseNames \cup {"closed"} -> SUBSET Keys]

LEMMA PollType == TypeOK /\ Poll => watch' \in Plans
<1> SUFFICES ASSUME TypeOK, Poll PROVE watch' \in Plans
  OBVIOUS
<1>1. PICK next \in Choices, flush \in {FALSE, DigestOn} :
        LET closed == {k \in Keys : Terminal(k)}
            held   == {k \in closed : win[k] # "none"} IN
        Leave([Resting EXCEPT
          !.closed = held,
          !.bad    = {k \in StrayKeys : cm[k].st = "pending"},
          !.orphan = {k \in Keys : cm[k].st = "claimed" /\ Aged(k, Quiet)},
          !.hung   = WoStale,
          !.reap   = {k \in closed : ~cm[k].reaped /\ Aged(k, Expired)},
          !.bound  = IF Cardinality(held) > ReapMax THEN held ELSE {},
          !.retire = {k \in closed : cm[k].digested /\ Aged(k, Retired)},
          !.next   = next,
          !.digest = IF flush THEN {k \in closed : ~cm[k].digested} ELSE {}])
  BY DEF Poll
<1>2. next \in SUBSET Keys
  BY DEF Choices, OldestPending, Pending
<1>3. WoStale \in SUBSET Keys /\ {k \in StrayKeys : cm[k].st = "pending"} \in SUBSET Keys
  BY DEF WoStale, Keys
<1> QED
  BY <1>1, <1>2, <1>3, RestingType, LeaveType DEF Plans, PhaseNames

-----------------------------------------------------------------------------
LEMMA TypeStep == TypeOK /\ [Next]_vars => TypeOK'
<1> SUFFICES ASSUME TypeOK, [Next]_vars PROVE TypeOK'
  OBVIOUS
<1> USE DEF InCalls, Plans
<1>1. ASSUME NEW k \in Keys, FileCheck(k) PROVE TypeOK'
  BY <1>1 DEF FileCheck, cmVars, TypeOK
<1>2. ASSUME NEW k \in Keys, FileWrite(k) PROVE TypeOK'
  <2>1. CMType' /\ faults' \in 0..MaxFaults
    BY <1>2, WriteEntryType, LostType DEF FileWrite, TypeOK
  <2> QED
    BY <1>2, <2>1 DEF FileWrite, TypeOK, CMType
<1>3. ASSUME NEW k \in Keys, Requeue(k) PROVE TypeOK'
  <2>1. [cm EXCEPT ![k].st = "pending"] \in [Keys -> Entry]
    BY <1>3 DEF TypeOK, Entry, Statuses
  <2> QED
    BY <1>3, <2>1, WriteType DEF Requeue, TypeOK
<1>4. ASSUME NEW c \in Callers, PromoCheck(c) PROVE TypeOK'
  <2>1. promo' \in [Callers -> InCalls] /\ win' \in [Keys -> Windows]
    BY <1>4, InFlight, ReturnType DEF PromoCheck, TypeOK
  <2> QED
    BY <1>4, <2>1 DEF PromoCheck, cmVars, TypeOK
<1>5. ASSUME NEW c \in Callers, PromoWrite(c) PROVE TypeOK'
  <2>1. promo' \in [Callers -> InCalls] /\ win' \in [Keys -> Windows]
    BY <1>5, ReturnType DEF PromoWrite
  <2>2. CMType' /\ faults' \in 0..MaxFaults
    BY <1>5, InFlight, WriteEntryType, LostType DEF PromoWrite, TypeOK
  <2> QED
    BY <1>5, <2>1, <2>2 DEF PromoWrite, TypeOK, CMType
<1>6. ASSUME NEW k \in Keys, ReportDone(k) PROVE TypeOK'
  BY <1>6, SetStatusType DEF ReportDone, TypeOK, CMType, Statuses
<1>7. ASSUME NEW k \in Keys, ReportFailed(k) PROVE TypeOK'
  BY <1>7, SetStatusType DEF ReportFailed, TypeOK, CMType, Statuses
<1>8. ASSUME NEW k \in Keys, Escalate(k) PROVE TypeOK'
  <2>1. promo' \in [Callers -> InCalls]
    BY <1>8, CallType DEF Escalate, Callers
  <2>2. CMType'
    BY <1>8, SetStatusType DEF Escalate, Statuses
  <2> QED
    BY <1>8, <2>1, <2>2 DEF Escalate, TypeOK, CMType
<1>9. ASSUME NEW k \in Keys, Heartbeat(k) PROVE TypeOK'
  <2> DEFINE s == IF cm[k].st = "absent" THEN "blank" ELSE cm[k].st
  <2>1. cm \in [Keys -> Entry] /\ s \in Statuses
    BY DEF TypeOK, Entry, Statuses
  <2>2. [cm EXCEPT ![k].age = 0, ![k].st = s] \in [Keys -> Entry]
    BY <2>1, AgeZero DEF Entry
  <2>3. cm' \in [Keys -> Entry] /\ released' \in [Keys -> BOOLEAN]
    BY <1>9, <2>2, WriteType DEF Heartbeat
  <2>4. beats' \in 0..MaxBeats
    BY <1>9, BoundsAssumption DEF Heartbeat, TypeOK
  <2> QED
    BY <1>9, <2>3, <2>4 DEF Heartbeat, TypeOK
<1>10. ASSUME NEW k \in Keys, Exit(k) PROVE TypeOK'
  BY <1>10 DEF Exit, cmVars, TypeOK, Windows
<1>11. ASSUME NEW k \in Keys, CloseOut(k) PROVE TypeOK'
  <2>1. CMType' /\ faults' \in 0..MaxFaults
    BY <1>11, SetStatusType, TryType, LostType DEF CloseOut, Statuses, TypeOK
  <2>2. promo' \in [Callers -> InCalls]
    BY <1>11, CallType DEF CloseOut, Callers, TypeOK
  <2>3. win' \in [Keys -> Windows]
    BY <1>11 DEF CloseOut, TypeOK, Windows
  <2> QED
    BY <1>11, <2>1, <2>2, <2>3 DEF CloseOut, TypeOK, CMType
<1>12. ASSUME RespScan PROVE TypeOK'
  BY <1>12 DEF RespScan, cmVars, TypeOK
<1>13. ASSUME NEW k \in RemKeys, RespMark(k) PROVE TypeOK'
  <2>1. CMType' /\ faults' \in 0..MaxFaults
    BY <1>13, TryType DEF RespMark, Statuses, Keys
  <2>2. promo' \in [Callers -> InCalls]
    BY <1>13, CallType DEF RespMark, Callers
  <2> QED
    BY <1>13, <2>1, <2>2 DEF RespMark, TypeOK, CMType
<1>14. ASSUME RespCrash PROVE TypeOK'
  <2>1. faults' \in 0..MaxFaults
    BY <1>14, FaultType DEF RespCrash
  <2> QED
    BY <1>14, <2>1 DEF RespCrash, cmVars, TypeOK
<1>15. ASSUME Poll PROVE TypeOK'
  BY <1>15, PollType DEF Poll, cmVars, TypeOK
<1>16. ASSUME NEW k \in Keys, BadKey(k) PROVE TypeOK'
  <2>1. CMType' /\ faults' \in 0..MaxFaults
    BY <1>16, TryType DEF BadKey, Statuses
  <2>2. watch' \in Plans
    BY <1>16, LeaveType DEF BadKey, TypeOK
  <2> QED
    BY <1>16, <2>1, <2>2 DEF BadKey, TypeOK, CMType
<1>17. ASSUME NEW k \in Keys, Orphan(k) PROVE TypeOK'
  <2>1. CMType' /\ faults' \in 0..MaxFaults
    BY <1>17, TryType, SetStatusType, LostType, BoundsAssumption
    DEF Orphan, Statuses, Fault, cmVars, CMType, TypeOK
  <2>2. promo' \in [Callers -> InCalls]
    BY <1>17, CallType DEF Orphan, Callers, TypeOK
  <2>3. watch' \in Plans
    BY <1>17, LeaveType DEF Orphan, TypeOK
  <2> QED
    BY <1>17, <2>1, <2>2, <2>3 DEF Orphan, TypeOK, CMType
<1>18. ASSUME NEW k \in Keys, Hung(k) PROVE TypeOK'
  <2>1. CMType' /\ faults' \in 0..MaxFaults
    BY <1>18, TryType DEF Hung, Statuses, cmVars, CMType, TypeOK
  <2>2. watch' \in Plans
    BY <1>18, LeaveType DEF Hung, TypeOK
  <2> QED
    BY <1>18, <2>1, <2>2 DEF Hung, TypeOK, CMType
<1>19. ASSUME Reap PROVE TypeOK'
  <2>1. watch' \in Plans
    BY <1>19, LeaveType DEF Reap, TypeOK, PhaseNames
  <2> QED
    BY <1>19, <2>1, KillType DEF Reap, cmVars, TypeOK
<1>20. ASSUME Stamp PROVE TypeOK'
  <2>1. watch' \in Plans
    BY <1>20, LeaveType DEF Stamp, TypeOK
  <2>2. \A k \in Keys : [cm[k] EXCEPT !.reaped = TRUE] \in Entry
    BY DEF TypeOK, Entry
  <2>3. CMType' /\ faults' \in 0..MaxFaults
    BY <1>20, <2>2, WriteType, LostType DEF Stamp, CMType, TypeOK
  <2> QED
    BY <1>20, <2>1, <2>3 DEF Stamp, TypeOK, CMType
<1>21. ASSUME Bound PROVE TypeOK'
  <2>1. watch' \in Plans
    BY <1>21, LeaveType DEF Bound, TypeOK
  <2>2. PICK S : Kill(S)
    BY <1>21 DEF Bound
  <2> QED
    BY <1>21, <2>1, <2>2, KillType DEF Bound, cmVars, TypeOK
<1>22. ASSUME Retire PROVE TypeOK'
  <2>1. watch' \in Plans
    BY <1>22, LeaveType DEF Retire, TypeOK, PhaseNames
  <2> QED
    BY <1>22, <2>1, KillType DEF Retire, cmVars, TypeOK
<1>23. ASSUME Drop PROVE TypeOK'
  <2>1. watch' \in Plans
    BY <1>23, LeaveType DEF Drop, TypeOK
  <2>2. Absent \in Entry
    BY AbsentType DEF Statuses
  <2>3. CMType' /\ faults' \in 0..MaxFaults
    BY <1>23, <2>2, WriteType, LostType DEF Drop, CMType, TypeOK
  <2> QED
    BY <1>23, <2>1, <2>3 DEF Drop, TypeOK, CMType
<1>24. ASSUME NEW k \in Keys, Claim(k) PROVE TypeOK'
  <2>1. WithStatus(k, "claimed") \in [Keys -> Entry]
    <3>1. cm \in [Keys -> Entry] /\ "claimed" \in Statuses
      BY DEF TypeOK, Statuses
    <3> QED
      BY <3>1, AgeZero DEF WithStatus, Entry
  <2>2. CMType' /\ faults' \in 0..MaxFaults
    BY <1>24, <2>1, LostType DEF Claim, cmVars, CMType, TypeOK
  <2> DEFINE rest == [watch EXCEPT !.next = @ \ {k}]
  <2>3. rest \in Plans /\ [rest EXCEPT !.spawn = {k}] \in Plans
    BY DEF TypeOK
  <2>4. Leave(rest) \/ Leave([rest EXCEPT !.spawn = {k}])
    BY <1>24 DEF Claim
  <2>5. watch' \in Plans
    BY <2>3, <2>4, LeaveType
  <2> QED
    BY <1>24, <2>2, <2>5 DEF Claim, TypeOK, CMType
<1>25. ASSUME NEW k \in Keys, Spawn(k) PROVE TypeOK'
  <2>1. watch' \in Plans
    BY <1>25, LeaveType DEF Spawn, TypeOK
  <2>2. CMType' /\ faults' \in 0..MaxFaults
    BY <1>25, SetStatusType, BoundsAssumption
    DEF Spawn, Statuses, Fault, cmVars, CMType, TypeOK
  <2>3. win' \in [Keys -> Windows]
    BY <1>25 DEF Spawn, TypeOK, Windows
  <2> QED
    BY <1>25, <2>1, <2>2, <2>3 DEF Spawn, TypeOK, CMType
<1>26. ASSUME Digest PROVE TypeOK'
  <2>1. watch' \in Plans
    BY <1>26, LeaveType DEF Digest, TypeOK, PhaseNames
  <2>2. faults' \in 0..MaxFaults
    BY <1>26, FaultType DEF Digest, TypeOK
  <2> QED
    BY <1>26, <2>1, <2>2 DEF Digest, TypeOK, cmVars
<1>27. ASSUME Mark PROVE TypeOK'
  <2>1. watch' \in Plans
    BY <1>27, LeaveType DEF Mark, TypeOK
  <2> DEFINE marked(k) == [cm[k] EXCEPT !.digested = TRUE,
                             !.st = IF cm[k].st = "absent" THEN "blank" ELSE cm[k].st]
  <2>2. ASSUME NEW k \in Keys PROVE marked(k) \in Entry
    <3>1. cm[k] \in Entry
      BY DEF TypeOK
    <3>2. (IF cm[k].st = "absent" THEN "blank" ELSE cm[k].st) \in Statuses
      BY <3>1 DEF Entry, Statuses
    <3> QED
      BY <3>1, <3>2 DEF Entry
  <2>3. CMType' /\ faults' \in 0..MaxFaults
    BY <1>27, <2>2, WriteType, LostType DEF Mark, CMType, TypeOK
  <2> QED
    BY <1>27, <2>1, <2>3 DEF Mark, TypeOK, CMType
<1>28. ASSUME Restart PROVE TypeOK'
  BY <1>28, BoundsAssumption, RestingType DEF Restart, Fault, cmVars, TypeOK, Windows
<1>29. ASSUME NEW k \in Keys, Age(k) PROVE TypeOK'
  <2>1. cm[k].age + 1 \in 0..MaxAge
    BY <1>29, BoundsAssumption DEF Age, TypeOK, Entry
  <2>2. cm \in [Keys -> Entry]
    BY DEF TypeOK
  <2>3. [cm EXCEPT ![k].age = @ + 1] \in [Keys -> Entry]
    BY <2>1, <2>2 DEF Entry
  <2> QED
    BY <1>29, <2>3 DEF Age, TypeOK
<1>30. CASE UNCHANGED vars
  BY <1>30 DEF vars, cmVars, TypeOK
<1> QED
  BY <1>1, <1>2, <1>3, <1>4, <1>5, <1>6, <1>7, <1>8, <1>9, <1>10, <1>11, <1>12, <1>13,
     <1>14, <1>15, <1>16, <1>17, <1>18, <1>19, <1>20, <1>21, <1>22, <1>23, <1>24, <1>25,
     <1>26, <1>27, <1>28, <1>29, <1>30
  DEF Next, WatcherStep, SessionStep

(* Every reachable state is well typed: no status, plan or call outside    *)
(* the ones the scripts write ever appears.                                *)
THEOREM TypeCorrect == Spec => []TypeOK
<1>1. Init => TypeOK
  <2>1. Absent \in Entry
    BY AbsentType DEF Statuses
  <2> QED
    BY <2>1, RestingType, BoundsAssumption DEF Init, TypeOK, Windows
<1> QED
  BY <1>1, TypeStep, PTL DEF Spec

-----------------------------------------------------------------------------
(* Lanes.  Every step but Poll, Claim and Spawn only closes orders, takes  *)
(* windows away and shortens the plan; each of these preserves LaneInv.    *)

Closes ==
  \A k \in Keys : /\ released[k] => released'[k]
                  /\ cm'[k].st \in Final => released'[k]
TakesAway ==
  \A k \in Keys : /\ win'[k] # "none" => win[k] # "none"
                  /\ Running(k)' => Running(k)
Shortens ==
  /\ Shut' \subseteq Shut /\ Chosen' \subseteq Chosen
  /\ watch'["spawn"] \subseteq watch["spawn"]
  /\ watch'["spawn"] = {} \/ watch'["closed"] = watch["closed"]

LEMMA Benign ==
  ASSUME TypeOK, LaneInv, Closes, TakesAway, Shortens
  PROVE  LaneInv'
<1>1. ReleasedWhenFinal'
  BY DEF Closes, ReleasedWhenFinal
<1>2. PlanConsistent'
  BY DEF Shortens, LaneInv, PlanConsistent
<1>3. ShutIsReleased'
  <2>1. Shut \subseteq Keys
    BY DEF Shut, TypeOK, PhaseNames
  <2> QED
    BY <2>1 DEF Shortens, Closes, TakesAway, LaneInv, ShutIsReleased
<1>4. SpawnAlone'
  BY DEF Shortens, TakesAway, LaneInv, SpawnAlone, Lane
<1>5. OneSpawn'
  BY DEF Shortens, LaneInv, OneSpawn
<1>6. OneUnreleased'
  BY DEF Closes, TakesAway, LaneInv, OneUnreleased, Lane
<1> QED
  BY <1>1, <1>2, <1>3, <1>4, <1>5, <1>6 DEF LaneInv

LEMMA WriteCloses == ASSUME NEW c, Write(c) PROVE Closes
  BY DEF Write, Closes

LEMMA KeptCloses == ASSUME LaneInv, UNCHANGED cmVars PROVE Closes
  BY DEF cmVars, Closes, LaneInv, ReleasedWhenFinal

LEMMA SetCloses == ASSUME LaneInv, NEW k, NEW s, TrySetStatus(k, s) PROVE Closes
  BY WriteCloses, KeptCloses DEF TrySetStatus, SetStatus, Lost

LEMMA KeptTakes == ASSUME UNCHANGED win PROVE TakesAway
  BY DEF TakesAway, Running

LEMMA KillTakes == ASSUME NEW S, Kill(S) PROVE TakesAway
  BY DEF Kill, TakesAway, Running

LEMMA ReturnTakes == ASSUME TypeOK, NEW c \in Callers, Return(c) PROVE TakesAway
  BY DEF Return, TakesAway, Running, TypeOK

LEMMA KeptShortens == ASSUME UNCHANGED watch PROVE Shortens
  BY DEF Shortens, Shut, Chosen

LEMMA RestShortens == ASSUME watch' = Resting PROVE Shortens
<1>1. \A f \in PhaseNames \cup {"closed"} : watch'[f] = {}
  BY DEF Resting
<1> QED
  BY <1>1 DEF Shortens, Shut, Chosen, PhaseNames

LEMMA LeaveShortens ==
  ASSUME NEW w, Leave(w), w["closed"] = watch["closed"],
         w["reap"] \subseteq watch["reap"], w["bound"] \subseteq watch["bound"],
         w["retire"] \subseteq watch["retire"],
         w["next"] \subseteq watch["next"], w["spawn"] \subseteq watch["spawn"]
  PROVE  Shortens
<1>1. CASE watch' = Resting
  BY <1>1, RestShortens
<1>2. CASE watch' = w
  BY <1>2 DEF Shortens, Shut, Chosen
<1> QED
  BY <1>1, <1>2 DEF Leave

LEMMA PollLane == ASSUME TypeOK, LaneInv, Poll PROVE LaneInv'
<1>1. PICK next \in Choices, flush \in {FALSE, DigestOn} :
        LET closed == {k \in Keys : Terminal(k)}
            held   == {k \in closed : win[k] # "none"} IN
        Leave([Resting EXCEPT
          !.closed = held,
          !.bad    = {k \in StrayKeys : cm[k].st = "pending"},
          !.orphan = {k \in Keys : cm[k].st = "claimed" /\ Aged(k, Quiet)},
          !.hung   = WoStale,
          !.reap   = {k \in closed : ~cm[k].reaped /\ Aged(k, Expired)},
          !.bound  = IF Cardinality(held) > ReapMax THEN held ELSE {},
          !.retire = {k \in closed : cm[k].digested /\ Aged(k, Retired)},
          !.next   = next,
          !.digest = IF flush THEN {k \in closed : ~cm[k].digested} ELSE {}])
  BY DEF Poll
<1>2. Closes /\ UNCHANGED <<cmVars, win>>
  BY KeptCloses DEF Poll
<1>3. \A k \in next : k \in Keys /\ cm[k].st = "pending"
  BY DEF Choices, OldestPending, Pending
<1>4. /\ Shut' \subseteq {k \in Keys : Terminal(k)}
      /\ Chosen' \subseteq next
      /\ watch'["spawn"] = {}
  <2>1. CASE watch' = Resting
    BY <2>1 DEF Resting, Shut, Chosen, PhaseNames
  <2>2. CASE watch' # Resting
    BY <1>1, <2>2 DEF Leave, Resting, Shut, Chosen, PhaseNames
  <2> QED
    BY <2>1, <2>2
<1>5. ReleasedWhenFinal'
  BY <1>2 DEF Closes, ReleasedWhenFinal
<1>6. PlanConsistent'
  BY <1>3, <1>4 DEF PlanConsistent, Terminal, Final
<1>7. ShutIsReleased'
  BY <1>2, <1>4 DEF ShutIsReleased, LaneInv, ReleasedWhenFinal, Terminal, cmVars
<1>8. SpawnAlone' /\ OneSpawn'
  BY <1>4 DEF SpawnAlone, OneSpawn
<1>9. OneUnreleased'
  BY <1>2 DEF OneUnreleased, LaneInv, Running, Lane, cmVars
<1> QED
  BY <1>5, <1>6, <1>7, <1>8, <1>9 DEF LaneInv

LEMMA ClaimLane == ASSUME TypeOK, LaneInv, NEW k \in Keys, Claim(k) PROVE LaneInv'
<1> DEFINE rest == [watch EXCEPT !.next = @ \ {k}]
<1>1. /\ watch["spawn"] = {} /\ k \in watch["next"] /\ UNCHANGED win
      /\ watch \in [PhaseNames \cup {"closed"} -> SUBSET Keys]
  BY DEF Claim, At, Rank, PhaseNames, TypeOK
<1>2. /\ rest["closed"] = watch["closed"] /\ rest["reap"] = watch["reap"]
      /\ rest["bound"] = watch["bound"] /\ rest["retire"] = watch["retire"]
      /\ rest["next"] = watch["next"] \ {k} /\ rest["spawn"] = watch["spawn"]
      /\ rest \in [PhaseNames \cup {"closed"} -> SUBSET Keys]
  BY <1>1 DEF PhaseNames
<1>3. CASE Leave(rest) /\ UNCHANGED cmVars
  <2>1. Shortens
    BY <1>2, <1>3, LeaveShortens
  <2> QED
    BY <1>1, <1>3, <2>1, KeptCloses, KeptTakes, Benign
<1>4. CASE /\ ~LaneActive(Lane(k))
           /\ cm' = WithStatus(k, "claimed")
           /\ released' = [released EXCEPT ![k] = FALSE]
           /\ Leave([rest EXCEPT !.spawn = {k}])
  <2> DEFINE w == [rest EXCEPT !.spawn = {k}]
  <2>1. /\ w["closed"] = watch["closed"] /\ w["reap"] = watch["reap"]
        /\ w["bound"] = watch["bound"] /\ w["retire"] = watch["retire"]
        /\ w["next"] = watch["next"] \ {k} /\ w["spawn"] = {k}
    BY <1>2 DEF PhaseNames
  <2>2. watch' = w
    BY <1>4, <2>1 DEF Leave, PhaseNames
  <2>3. Shut' = Shut /\ Chosen' = watch["next"]
    BY <1>1, <2>1, <2>2 DEF Shut, Chosen
  <2>4. k \notin Shut
    BY <1>1 DEF LaneInv, PlanConsistent, Chosen
  <2>5. \A j \in Keys : Lane(j) = Lane(k) /\ win[j] # "none" => j \in watch["closed"]
    BY <1>4 DEF LaneActive
  <2>6. win[k] = "none"
    BY <2>4, <2>5 DEF Shut
  <2>7. cm \in [Keys -> Entry] /\ released \in [Keys -> BOOLEAN]
    BY DEF TypeOK
  <2>8. /\ cm'[k].st = "claimed"
        /\ \A j \in Keys : j # k => cm'[j] = cm[j] /\ released'[j] = released[j]
    BY <1>4, <2>7 DEF WithStatus, Entry
  <2>9. ReleasedWhenFinal'
    BY <2>8 DEF ReleasedWhenFinal, LaneInv, Final
  <2>10. PlanConsistent'
    BY <2>3 DEF PlanConsistent, LaneInv, Chosen
  <2>11. ShutIsReleased'
    <3>1. Shut \subseteq Keys
      BY <1>1 DEF Shut, PhaseNames
    <3> QED
      BY <1>1, <2>3, <2>4, <2>8, <3>1 DEF ShutIsReleased, LaneInv
  <2>12. SpawnAlone'
    BY <1>1, <2>1, <2>2, <2>5 DEF SpawnAlone, Lane
  <2>13. OneSpawn'
    BY <2>1, <2>2 DEF OneSpawn
  <2>14. OneUnreleased'
    BY <1>1, <2>6, <2>8 DEF OneUnreleased, LaneInv, Running, Lane
  <2> QED
    BY <2>9, <2>10, <2>11, <2>12, <2>13, <2>14 DEF LaneInv
<1> QED
  BY <1>3, <1>4 DEF Claim, Lost

LEMMA SpawnLane == ASSUME TypeOK, LaneInv, NEW k \in Keys, Spawn(k) PROVE LaneInv'
<1>1. Shortens
  BY LeaveShortens DEF Spawn, TypeOK, PhaseNames
<1>2. CASE UNCHANGED win
  <2>1. Closes
    BY <1>2, WriteCloses, KeptCloses DEF Spawn, SetStatus, cmVars
  <2> QED
    BY <1>1, <1>2, <2>1, KeptTakes, Benign
<1>3. CASE win' = [win EXCEPT ![k] = "live"] /\ UNCHANGED cmVars
  <2>1. k \in watch["spawn"] /\ k \notin Shut
    BY DEF Spawn, LaneInv, PlanConsistent, Chosen
  <2>2. \A j \in watch["spawn"] : j = k
    BY <2>1 DEF LaneInv, OneSpawn
  <2>3. watch'["spawn"] = {}
    <3>1. CASE watch' = Resting
      BY <3>1 DEF Resting, PhaseNames
    <3>2. CASE watch' = [watch EXCEPT !.spawn = {}]
      BY <3>2 DEF TypeOK, PhaseNames
    <3> QED
      BY <3>1, <3>2 DEF Spawn, Leave
  <2>4. \A j \in Keys : j # k => win'[j] = win[j]
    BY <1>3 DEF TypeOK
  <2>5. ReleasedWhenFinal' /\ released' = released
    BY <1>3 DEF ReleasedWhenFinal, LaneInv, cmVars
  <2>6. PlanConsistent'
    BY <1>1 DEF Shortens, PlanConsistent, LaneInv
  <2>7. Shut \subseteq Keys
    BY DEF Shut, TypeOK, PhaseNames
  <2>8. ShutIsReleased'
    BY <1>1, <2>1, <2>4, <2>5, <2>7 DEF Shortens, ShutIsReleased, LaneInv
  <2>9. SpawnAlone' /\ OneSpawn'
    BY <2>3 DEF SpawnAlone, OneSpawn
  <2>10. ASSUME NEW j \in Keys, j # k, Lane(j) = Lane(k), Running(j) PROVE released[j]
    <3>1. j \in watch["closed"]
      BY <2>1, <2>10 DEF LaneInv, SpawnAlone, Running
    <3> QED
      BY <2>10, <3>1 DEF LaneInv, ShutIsReleased, Shut, Running
  <2>11. OneUnreleased'
    BY <2>4, <2>5, <2>10 DEF OneUnreleased, LaneInv, Running, Lane
  <2> QED
    BY <2>5, <2>6, <2>8, <2>9, <2>11 DEF LaneInv
<1> QED
  BY <1>2, <1>3 DEF Spawn

(* The watcher's writes and kills only shorten the plan.                   *)
LEMMA WatcherShortens ==
  ASSUME TypeOK, NEW k \in Keys,
         \/ BadKey(k) \/ Orphan(k) \/ Hung(k) \/ Reap \/ Stamp \/ Bound
         \/ Retire \/ Drop \/ Digest \/ Mark
  PROVE  Shortens
<1> USE DEF PhaseNames
<1>1. watch \in [PhaseNames \cup {"closed"} -> SUBSET Keys]
  BY DEF TypeOK
<1>2. CASE BadKey(k)
  BY <1>1, <1>2, LeaveShortens DEF BadKey
<1>3. CASE Orphan(k)
  BY <1>1, <1>3, LeaveShortens DEF Orphan
<1>4. CASE Hung(k)
  BY <1>1, <1>4, LeaveShortens DEF Hung
<1>5. CASE Reap
  BY <1>1, <1>5, LeaveShortens DEF Reap
<1>6. CASE Stamp
  BY <1>1, <1>6, LeaveShortens DEF Stamp
<1>7. CASE Bound
  BY <1>1, <1>7, LeaveShortens DEF Bound
<1>8. CASE Retire
  BY <1>1, <1>8, LeaveShortens DEF Retire
<1>9. CASE Drop
  BY <1>1, <1>9, LeaveShortens DEF Drop
<1>10. CASE Digest
  BY <1>1, <1>10, LeaveShortens DEF Digest
<1>11. CASE Mark
  BY <1>1, <1>11, LeaveShortens DEF Mark
<1> QED
  BY <1>2, <1>3, <1>4, <1>5, <1>6, <1>7, <1>8, <1>9, <1>10, <1>11

LEMMA LaneStep == ASSUME TypeOK, LaneInv, [Next]_vars PROVE LaneInv'
<1> USE Benign, KeptCloses, KeptTakes, KeptShortens
<1>1. ASSUME NEW k \in Keys, FileCheck(k) \/ FileWrite(k) \/ Requeue(k) PROVE LaneInv'
  BY <1>1, WriteCloses DEF FileCheck, FileWrite, Requeue, WriteEntry, Lost
<1>2. ASSUME NEW c \in Callers, PromoCheck(c) \/ PromoWrite(c) PROVE LaneInv'
  BY <1>2, WriteCloses, ReturnTakes DEF PromoCheck, PromoWrite, WriteEntry, Lost
<1>3. ASSUME NEW k \in Keys, ReportDone(k) \/ ReportFailed(k) \/ Escalate(k) \/ Heartbeat(k)
      PROVE LaneInv'
  BY <1>3, WriteCloses DEF ReportDone, ReportFailed, Escalate, Heartbeat, SetStatus
<1>4. ASSUME NEW k \in Keys, Exit(k) PROVE LaneInv'
  <2>1. TakesAway
    BY <1>4 DEF Exit, TakesAway, Running, TypeOK
  <2> QED
    BY <1>4, <2>1 DEF Exit
<1>5. ASSUME NEW k \in Keys, CloseOut(k) PROVE LaneInv'
  <2>1. TakesAway
    BY <1>5 DEF CloseOut, TakesAway, Running, TypeOK
  <2>2. Closes
    BY <1>5, WriteCloses, SetCloses DEF CloseOut, SetStatus, Lost
  <2> QED
    BY <1>5, <2>1, <2>2 DEF CloseOut
<1>6. ASSUME RespScan \/ RespCrash \/ \E k \in RemKeys : RespMark(k) PROVE LaneInv'
  BY <1>6, SetCloses DEF RespScan, RespCrash, RespMark
<1>7. ASSUME NEW k \in Keys, BadKey(k) \/ Orphan(k) \/ Hung(k) PROVE LaneInv'
  <2>1. Shortens
    BY <1>7, WatcherShortens
  <2>2. Closes
    BY <1>7, WriteCloses, SetCloses DEF BadKey, Orphan, Hung, SetStatus, Lost, cmVars
  <2>3. UNCHANGED win
    BY <1>7 DEF BadKey, Orphan, Hung
  <2> QED
    BY <2>1, <2>2, <2>3
<1>8. ASSUME Reap \/ Bound \/ Retire PROVE LaneInv'
  <2>1. Shortens
    BY <1>8, LeaveShortens DEF Reap, Bound, Retire, TypeOK, PhaseNames
  <2>2. TakesAway
    BY <1>8, KillTakes DEF Reap, Bound, Retire
  <2> QED
    BY <1>8, <2>1, <2>2 DEF Reap, Bound, Retire
<1>9. ASSUME Stamp \/ Drop \/ Mark \/ Digest PROVE LaneInv'
  <2>1. Shortens
    BY <1>9, LeaveShortens DEF Stamp, Drop, Mark, Digest, TypeOK, PhaseNames
  <2>2. Closes
    BY <1>9, WriteCloses DEF Stamp, Drop, Mark, Digest, Lost, Closes, LaneInv, ReleasedWhenFinal
  <2> QED
    BY <1>9, <2>1, <2>2 DEF Stamp, Drop, Mark, Digest
<1>10. ASSUME Restart PROVE LaneInv'
  <2>1. TakesAway
    BY <1>10 DEF Restart, TakesAway, Running
  <2> QED
    BY <1>10, <2>1, RestShortens DEF Restart
<1>11. ASSUME NEW k \in Keys, Age(k) PROVE LaneInv'
  <2>1. Closes
    BY <1>11 DEF Age, Closes, LaneInv, ReleasedWhenFinal, TypeOK, Entry
  <2> QED
    BY <1>11, <2>1 DEF Age
<1>12. CASE UNCHANGED vars
  BY <1>12 DEF vars
<1> QED
  BY <1>1, <1>2, <1>3, <1>4, <1>5, <1>6, <1>7, <1>8, <1>9, <1>10, <1>11, <1>12,
     PollLane, ClaimLane, SpawnLane
  DEF Next, WatcherStep, SessionStep

LEMMA LaneInvariant == Spec => [](TypeOK /\ LaneInv)
<1>1. Init => LaneInv
  BY DEF Init, Resting, PhaseNames, Absent, Final, Running, LaneInv, Shut, Chosen,
         ReleasedWhenFinal, PlanConsistent, ShutIsReleased, SpawnAlone, OneSpawn, OneUnreleased
<1>2. TypeOK /\ LaneInv /\ [Next]_vars => LaneInv'
  BY LaneStep
<1> QED
  BY <1>1, <1>2, TypeCorrect, PTL DEF Spec

(* Two sessions of one lane never both work on an open order, whatever the *)
(* orders, the lanes, the faults and the interleaving with the other pods. *)
THEOREM LanesAreSingleFlight == Spec => []SingleFlight
<1>1. TypeOK /\ LaneInv => SingleFlight
  <2> SUFFICES ASSUME TypeOK, LaneInv, NEW j \in Keys, NEW k \in Keys, j # k,
                      Working(j), Working(k), Lane(j) = Lane(k)
               PROVE  FALSE
    BY DEF SingleFlight
  <2>1. CASE j \in watch["spawn"] /\ k \in watch["spawn"]
    BY <2>1 DEF LaneInv, OneSpawn
  <2>2. CASE Running(j) /\ Running(k)
    BY <2>2 DEF LaneInv, OneUnreleased, Working
  <2>3. ASSUME NEW a \in Keys, NEW b \in Keys, Lane(a) = Lane(b),
               a \in watch["spawn"], Running(b)
        PROVE  released[b]
    BY <2>3 DEF LaneInv, SpawnAlone, ShutIsReleased, Shut, Running
  <2> QED
    BY <2>1, <2>2, <2>3 DEF Working, Running
<1> QED
  BY <1>1, LaneInvariant, PTL

(* A session is only ever spawned under a name that no window holds, also  *)
(* when its order was re-filed while its previous window was still there.  *)
THEOREM SpawnsAreFresh == Spec => []SpawnFindsNoWindow
<1>1. TypeOK /\ LaneInv => SpawnFindsNoWindow
  <2> SUFFICES ASSUME TypeOK, LaneInv, NEW k \in watch["spawn"], win[k] # "none"
               PROVE  FALSE
    BY DEF SpawnFindsNoWindow
  <2>1. k \in Keys
    BY DEF TypeOK, PhaseNames
  <2>2. k \in watch["closed"]
    BY <2>1 DEF LaneInv, SpawnAlone
  <2> QED
    BY <2>2 DEF LaneInv, PlanConsistent, Shut, Chosen
<1> QED
  BY <1>1, LaneInvariant, PTL

(* The sweeps act on a snapshot that other pods and the sessions have      *)
(* overtaken, and still never kill the window of a session whose order has *)
(* been open all the time since its claim.                                 *)
THEOREM SweepsAreSafe == Spec => SweepsSpareWorking
<1> DEFINE A == watch' # watch /\ faults' = faults =>
                  \A k \in Keys : Working(k) /\ win[k] # "none" => win'[k] # "none"
<1>1. TypeOK /\ LaneInv /\ [Next]_vars => [A]_vars
  <2> SUFFICES ASSUME TypeOK, LaneInv, Next, watch' # watch, faults' = faults,
                      NEW k \in Keys, Working(k), win[k] # "none"
               PROVE  win'[k] # "none"
    OBVIOUS
  <2>1. faults + 1 # faults
    BY BoundsAssumption DEF TypeOK
  <2>2. k \notin Shut
    BY DEF LaneInv, ShutIsReleased, Working
  <2>3. WatcherStep
    BY <2>1 DEF Next, SessionStep, ReportDone, ReportFailed, Escalate, Heartbeat, Exit,
       CloseOut, FileCheck, FileWrite, Requeue, Age, PromoCheck, PromoWrite,
       RespScan, RespCrash, RespMark, Restart, Fault
  <2>4. ASSUME Reap \/ Retire PROVE win'[k] # "none"
    BY <2>2, <2>4 DEF Reap, Retire, Kill, Shut
  <2>5. ASSUME Bound PROVE win'[k] # "none"
    <3>1. PICK S \in SUBSET {j \in watch.bound : win[j] # "none"} : Kill(S)
      BY <2>5 DEF Bound
    <3> QED
      BY <2>2, <3>1 DEF Kill, Shut
  <2>6. ASSUME NEW j \in Keys, Spawn(j) PROVE win'[k] # "none"
    BY <2>6 DEF Spawn, TypeOK
  <2> QED
    BY <2>3, <2>4, <2>5, <2>6
    DEF WatcherStep, Poll, Stamp, Drop, Digest, Mark, BadKey, Orphan, Hung, Claim
<1> QED
  BY <1>1, LaneInvariant, PTL DEF Spec, SweepsSpareWorking
-----------------------------------------------------------------------------
(* Entries.  Retention ends the session before it deletes the entry, and   *)
(* deletes before it claims or marks: what may write to an entry without   *)
(* setting its status finds one.                                           *)

Known(k) == cm[k].st # "absent"
EntryInv ==
  /\ NeverBlank
  /\ \A k \in Keys : win[k] = "live" \/ k \in watch["spawn"] \/ k \in watch["mark"] => Known(k)
  /\ \A k \in watch["drop"] : win[k] # "live"
  /\ watch["retire"] \cup watch["drop"] # {} => watch["spawn"] = {} /\ watch["mark"] = {}

(* A write that takes no entry away and leaves none blank, a step that     *)
(* starts no session, a plan that gains no entry to delete or to mark.     *)
Keeps ==
  \A k \in Keys : /\ cm'[k].st = "blank" => cm[k].st = "blank"
                  /\ cm'[k].st = "absent" => cm[k].st = "absent"
StartsNone == \A k \in Keys : win'[k] = "live" => win[k] = "live"
Narrows ==
  /\ watch'["spawn"] \subseteq watch["spawn"] /\ watch'["mark"] \subseteq watch["mark"]
  /\ watch'["drop"] \subseteq watch["drop"] /\ watch'["retire"] \subseteq watch["retire"]

LEMMA EntryBenign ==
  ASSUME TypeOK, EntryInv, Keeps, StartsNone, Narrows
  PROVE  EntryInv'
<1>1. watch["drop"] \subseteq Keys
  BY DEF TypeOK, PhaseNames
<1>2. NeverBlank'
  BY DEF EntryInv, NeverBlank, Keeps
<1>3. \A k \in Keys : win'[k] = "live" \/ k \in watch'["spawn"] \/ k \in watch'["mark"] => cm'[k].st # "absent"
  BY DEF EntryInv, Known, Keeps, StartsNone, Narrows
<1>4. \A k \in watch'["drop"] : win'[k] # "live"
  BY <1>1 DEF EntryInv, StartsNone, Narrows
<1>5. watch'["retire"] \cup watch'["drop"] # {} => watch'["spawn"] = {} /\ watch'["mark"] = {}
  BY DEF EntryInv, Narrows
<1> QED
  BY <1>2, <1>3, <1>4, <1>5 DEF EntryInv, Known

LEMMA KeptKeeps == ASSUME UNCHANGED cmVars PROVE Keeps
  BY DEF cmVars, Keeps

LEMMA SetKeeps ==
  ASSUME TypeOK, NEW k \in Keys, NEW s \in {"done", "failed", "escalated", "claimed"}, cm' = WithStatus(k, s)
  PROVE  Keeps
  BY DEF WithStatus, Keeps, TypeOK, Entry

LEMMA TryKeeps ==
  ASSUME TypeOK, NEW k \in Keys, NEW s \in {"done", "failed", "escalated"}, TrySetStatus(k, s)
  PROVE  Keeps
  BY SetKeeps, KeptKeeps DEF TrySetStatus, SetStatus, Write, Lost

LEMMA EntryKeeps == ASSUME TypeOK, NEW k \in Keys, WriteEntry(k) PROVE Keeps
  BY DEF WriteEntry, Write, Keeps, TypeOK, Entry, Absent

LEMMA KeptStarts == ASSUME UNCHANGED win PROVE StartsNone
  BY DEF StartsNone

LEMMA KillStarts == ASSUME NEW S, Kill(S) PROVE StartsNone
  BY DEF Kill, StartsNone

LEMMA ReturnStarts == ASSUME TypeOK, NEW c \in Callers, Return(c) PROVE StartsNone
  BY DEF Return, StartsNone, TypeOK

LEMMA KeptNarrows == ASSUME UNCHANGED watch PROVE Narrows
  BY DEF Narrows

LEMMA RestNarrows == ASSUME watch' = Resting PROVE Narrows
  BY DEF Resting, Narrows, PhaseNames

LEMMA LeaveNarrows ==
  ASSUME NEW w, Leave(w), w["spawn"] \subseteq watch["spawn"], w["mark"] \subseteq watch["mark"],
         w["drop"] \subseteq watch["drop"], w["retire"] \subseteq watch["retire"]
  PROVE  Narrows
<1>1. CASE watch' = Resting
  BY <1>1, RestNarrows
<1>2. CASE watch' = w
  BY <1>2 DEF Narrows
<1> QED
  BY <1>1, <1>2 DEF Leave

(* What is left of the plan, phase by phase, after some of it is replaced. *)
LEMMA LeaveGives ==
  ASSUME NEW w \in Plans, Leave(w), NEW f \in PhaseNames
  PROVE  watch'[f] = w[f]
<1>1. CASE watch' = Resting
  BY <1>1 DEF Leave, Resting, PhaseNames
<1> QED
  BY <1>1 DEF Leave

(* The sessions, the other pods and time.                                  *)
LEMMA OthersKeepEntries ==
  ASSUME TypeOK, EntryInv, Next, ~WatcherStep
  PROVE  EntryInv'
<1> USE EntryBenign, KeptKeeps, KeptStarts, KeptNarrows
<1>1. ASSUME NEW k \in Keys, FileCheck(k) \/ FileWrite(k) PROVE EntryInv'
  BY <1>1, EntryKeeps DEF FileCheck, FileWrite, Lost
<1>2. ASSUME NEW k \in Keys, Requeue(k) PROVE EntryInv'
  <2>1. Keeps
    BY <1>2 DEF Requeue, Write, Keeps, TypeOK, Entry
  <2> QED
    BY <1>2, <2>1 DEF Requeue
<1>3. ASSUME NEW c \in Callers, PromoCheck(c) PROVE EntryInv'
  BY <1>3, ReturnStarts DEF PromoCheck
<1>4. ASSUME NEW c \in Callers, PromoWrite(c) PROVE EntryInv'
  <2>1. Keeps
    BY <1>4, InFlight, EntryKeeps DEF PromoWrite, Lost
  <2> QED
    BY <1>4, <2>1, ReturnStarts DEF PromoWrite
<1>5. ASSUME NEW k \in Keys, ReportDone(k) \/ ReportFailed(k) \/ Escalate(k) PROVE EntryInv'
  BY <1>5, SetKeeps DEF ReportDone, ReportFailed, Escalate, SetStatus, Write
<1>6. ASSUME NEW k \in Keys, Heartbeat(k) PROVE EntryInv'
  (* The session lives, so the entry is there.                             *)
  <2>1. Known(k)
    BY <1>6 DEF Heartbeat, EntryInv
  <2>2. Keeps
    BY <1>6, <2>1 DEF Heartbeat, Write, Keeps, Known, TypeOK, Entry
  <2> QED
    BY <1>6, <2>2 DEF Heartbeat
<1>7. ASSUME NEW k \in Keys, Exit(k) PROVE EntryInv'
  <2>1. StartsNone
    BY <1>7 DEF Exit, StartsNone, TypeOK
  <2> QED
    BY <1>7, <2>1 DEF Exit
<1>8. ASSUME NEW k \in Keys, CloseOut(k) PROVE EntryInv'
  <2>1. StartsNone
    BY <1>8 DEF CloseOut, StartsNone, TypeOK
  <2>2. Keeps
    BY <1>8, SetKeeps, TryKeeps DEF CloseOut, SetStatus, Write, Lost
  <2> QED
    BY <1>8, <2>1, <2>2 DEF CloseOut
<1>9. ASSUME RespScan \/ RespCrash \/ Restart PROVE EntryInv'
  <2>1. StartsNone
    BY <1>9 DEF RespScan, RespCrash, Restart, StartsNone
  <2> QED
    BY <1>9, <2>1, RestNarrows DEF RespScan, RespCrash, Restart
<1>10. ASSUME NEW k \in RemKeys, RespMark(k) PROVE EntryInv'
  BY <1>10, TryKeeps DEF RespMark, Keys
<1>11. ASSUME NEW k \in Keys, Age(k) PROVE EntryInv'
  <2>1. Keeps
    BY <1>11 DEF Age, Keeps, TypeOK, Entry
  <2> QED
    BY <1>11, <2>1 DEF Age
<1> QED
  BY <1>1, <1>2, <1>3, <1>4, <1>5, <1>6, <1>7, <1>8, <1>9, <1>10, <1>11 DEF Next, SessionStep

(* The watcher.                                                            *)
LEMMA WatcherKeepsEntries ==
  ASSUME TypeOK, EntryInv, WatcherStep
  PROVE  EntryInv'
<1> USE DEF PhaseNames
<1>0. watch \in Plans
  BY DEF TypeOK, Plans
<1>1. CASE Poll
  <2>1. /\ watch'["spawn"] = {} /\ watch'["mark"] = {} /\ watch'["drop"] = {}
        /\ UNCHANGED <<cm, win>>
    <3>1. CASE watch' = Resting
      BY <1>1, <3>1 DEF Poll, Resting, cmVars
    <3>2. CASE watch' # Resting
      BY <1>1, <3>2 DEF Poll, Leave, Resting, cmVars
    <3> QED
      BY <3>1, <3>2
  <2> QED
    BY <2>1 DEF EntryInv, NeverBlank, Known
<1>2. ASSUME NEW k \in Keys, BadKey(k) \/ Hung(k) PROVE EntryInv'
  <2>1. Narrows
    BY <1>0, <1>2, LeaveNarrows DEF BadKey, Hung, Plans
  <2>2. Keeps
    BY <1>2, TryKeeps, KeptKeeps DEF BadKey, Hung
  <2> QED
    BY <1>2, <2>1, <2>2, EntryBenign, KeptStarts DEF BadKey, Hung
<1>3. ASSUME NEW k \in Keys, Orphan(k) PROVE EntryInv'
  <2>1. Narrows
    BY <1>0, <1>3, LeaveNarrows DEF Orphan, Plans
  <2>2. Keeps
    BY <1>3, SetKeeps, TryKeeps, KeptKeeps DEF Orphan, SetStatus, Write, Lost
  <2> QED
    BY <1>3, <2>1, <2>2, EntryBenign, KeptStarts DEF Orphan
<1>4. CASE Reap \/ Bound
  <2>1. Narrows
    BY <1>0, <1>4, LeaveNarrows DEF Reap, Bound, Plans
  <2>2. StartsNone
    BY <1>4, KillStarts DEF Reap, Bound
  <2> QED
    BY <1>4, <2>1, <2>2, EntryBenign, KeptKeeps DEF Reap, Bound
<1>5. CASE Stamp
  <2>1. Narrows
    BY <1>0, <1>5, LeaveNarrows DEF Stamp, Plans
  <2>2. Keeps
    BY <1>5, KeptKeeps DEF Stamp, Write, Lost, Keeps, TypeOK, Entry
  <2> QED
    BY <1>5, <2>1, <2>2, EntryBenign, KeptStarts DEF Stamp
<1>6. CASE Retire
  (* The sessions of the entries to delete are killed here.                *)
  <2> DEFINE w == [watch EXCEPT !.retire = {}, !.drop = watch.retire]
  <2>1. w \in Plans /\ w["spawn"] = watch["spawn"] /\ w["mark"] = watch["mark"] /\ w["retire"] = {}
        /\ w["drop"] = watch["retire"]
    BY <1>0 DEF Plans
  <2>2. /\ watch'["spawn"] = watch["spawn"] /\ watch'["mark"] = watch["mark"]
        /\ watch'["drop"] = watch["retire"] /\ UNCHANGED cm
    BY <1>6, <2>1, LeaveGives DEF Retire, cmVars
  <2>3. watch["retire"] \subseteq Keys /\ \A k \in watch["retire"] : win'[k] # "live"
    BY <1>0, <1>6 DEF Retire, Kill, Plans
  <2>4. StartsNone
    BY <1>6, KillStarts DEF Retire
  <2>5. watch["retire"] # {}
    BY <1>6 DEF Retire, At
  <2> QED
    BY <2>2, <2>3, <2>4, <2>5 DEF EntryInv, NeverBlank, Known, StartsNone
<1>7. CASE Drop
  <2>1. watch["spawn"] = {} /\ watch["mark"] = {}
    BY <1>7 DEF Drop, At, EntryInv
  <2>2. Narrows
    BY <1>0, <1>7, LeaveNarrows DEF Drop, Plans
  <2>3. CASE UNCHANGED cmVars
    BY <1>7, <2>2, <2>3, EntryBenign, KeptKeeps, KeptStarts DEF Drop
  <2>4. CASE cm' = [k \in Keys |-> IF k \in watch.drop THEN Absent ELSE cm[k]]
    <3>1. NeverBlank'
      BY <2>4 DEF EntryInv, NeverBlank, Absent
    <3>2. \A k \in Keys : win'[k] = "live" => cm'[k].st # "absent"
      BY <1>7, <2>4 DEF Drop, EntryInv, Known, Absent
    <3>3. watch'["spawn"] = {} /\ watch'["mark"] = {}
      BY <2>1, <2>2 DEF Narrows
    <3>4. \A k \in watch'["drop"] : win'[k] # "live"
      BY <1>7, <2>2 DEF Drop, Narrows, EntryInv
    <3> QED
      BY <3>1, <3>2, <3>3, <3>4 DEF EntryInv, Known
  <2> QED
    BY <1>7, <2>3, <2>4 DEF Drop, Write, Lost
<1>8. ASSUME NEW k \in Keys, Claim(k) PROVE EntryInv'
  <2> DEFINE rest == [watch EXCEPT !.next = @ \ {k}]
  <2>1. rest \in Plans /\ [rest EXCEPT !.spawn = {k}] \in Plans
    BY <1>0 DEF Plans
  <2>2. \A f \in {"spawn", "mark", "drop", "retire"} : rest[f] = watch[f]
    BY <1>0 DEF Plans
  <2>3. CASE Leave(rest) /\ UNCHANGED cmVars
    <3>1. Narrows
      BY <2>2, <2>3, LeaveNarrows
    <3> QED
      BY <1>8, <2>3, <3>1, EntryBenign, KeptKeeps, KeptStarts DEF Claim
  <2>4. CASE cm' = WithStatus(k, "claimed") /\ Leave([rest EXCEPT !.spawn = {k}])
    (* Nothing is left to retire or to drop.                               *)
    <3>1. watch["retire"] = {} /\ watch["drop"] = {}
      BY <1>8 DEF Claim, At, Rank
    <3>2. /\ watch'["spawn"] = {k} /\ watch'["mark"] = watch["mark"]
          /\ watch'["drop"] = {} /\ watch'["retire"] = {}
      BY <2>1, <2>2, <2>4, <3>1, LeaveGives DEF Plans
    <3>3. Keeps
      BY <2>4, SetKeeps
    <3>4. cm'[k].st = "claimed" /\ UNCHANGED win
      BY <1>8, <2>4 DEF Claim, WithStatus, TypeOK, Entry
    <3> QED
      BY <3>2, <3>3, <3>4 DEF EntryInv, NeverBlank, Known, Keeps
  <2> QED
    BY <1>8, <2>3, <2>4 DEF Claim, Lost
<1>9. ASSUME NEW k \in Keys, Spawn(k) PROVE EntryInv'
  <2>1. Narrows
    BY <1>0, <1>9, LeaveNarrows DEF Spawn, Plans
  <2>2. Keeps
    BY <1>9, SetKeeps, KeptKeeps DEF Spawn, SetStatus, Write
  <2>3. CASE UNCHANGED win
    BY <2>1, <2>2, <2>3, EntryBenign, KeptStarts
  <2>4. CASE win' = [win EXCEPT ![k] = "live"]
    <3>1. k \in watch["spawn"] /\ watch["retire"] = {} /\ watch["drop"] = {}
      BY <1>9 DEF Spawn, At, Rank
    <3>2. watch'["retire"] = {} /\ watch'["drop"] = {}
      BY <2>1, <3>1 DEF Narrows
    <3>3. \A j \in Keys : win'[j] = "live" => win[j] = "live" \/ j = k
      BY <2>4 DEF TypeOK
    <3> QED
      BY <2>1, <2>2, <3>1, <3>2, <3>3 DEF EntryInv, NeverBlank, Known, Keeps, Narrows
  <2> QED
    BY <1>9, <2>3, <2>4 DEF Spawn
<1>10. CASE Digest
  (* What is to be marked is read afresh, after the entries were deleted.  *)
  <2> DEFINE n == {k \in Keys : Terminal(k) /\ ~cm[k].digested}
             w == [watch EXCEPT !.digest = {}, !.mark = n]
  <2>1. UNCHANGED <<cm, win>> /\ watch["retire"] = {} /\ watch["drop"] = {}
    BY <1>10 DEF Digest, At, Rank, cmVars
  <2>2. CASE Leave(w)
    <3>1. w \in Plans /\ w["spawn"] = watch["spawn"] /\ w["drop"] = {} /\ w["retire"] = {} /\ w["mark"] = n
      BY <1>0, <2>1 DEF Plans
    <3>2. /\ watch'["spawn"] = watch["spawn"] /\ watch'["drop"] = {} /\ watch'["retire"] = {}
          /\ watch'["mark"] = n
      BY <2>2, <3>1, LeaveGives
    <3> QED
      BY <2>1, <3>2 DEF EntryInv, NeverBlank, Known, Terminal, Final
  <2>3. CASE Leave([watch EXCEPT !.digest = {}])
    <3>1. Narrows
      BY <1>0, <2>3, LeaveNarrows DEF Plans
    <3> QED
      BY <1>10, <3>1, EntryBenign, KeptKeeps, KeptStarts DEF Digest
  <2> QED
    BY <1>10, <2>2, <2>3 DEF Digest
<1>11. CASE Mark
  <2>1. Narrows
    BY <1>0, <1>11, LeaveNarrows DEF Mark, Plans
  <2>2. Keeps
    <3>1. CASE cm' = [k \in Keys |-> IF k \notin watch.mark THEN cm[k]
                  ELSE [cm[k] EXCEPT !.digested = TRUE,
                          !.st = IF cm[k].st = "absent" THEN "blank" ELSE cm[k].st]]
      <4>1. \A k \in Keys : k \in watch["mark"] => cm[k].st # "absent"
        BY DEF EntryInv, Known
      <4>2. \A k \in Keys : cm'[k].st = cm[k].st
        <5> TAKE k \in Keys
        <5>1. CASE k \notin watch["mark"] BY <3>1, <5>1
        <5>2. CASE k \in watch["mark"]
          <6>1. cm[k] \in Entry /\ cm[k].st # "absent" BY <4>1, <5>2 DEF TypeOK
          <6>2. cm'[k] = [cm[k] EXCEPT !.digested = TRUE, !.st = cm[k].st] BY <3>1, <5>2, <6>1
          <6>3. QED BY <6>1, <6>2 DEF Entry
        <5>3. QED BY <5>1, <5>2
      <4> QED
        BY <4>2 DEF Keeps
    <3> QED
      BY <1>11, <3>1, KeptKeeps DEF Mark, Write, Lost
  <2> QED
    BY <1>11, <2>1, <2>2, EntryBenign, KeptStarts DEF Mark
<1> QED
  BY <1>1, <1>2, <1>3, <1>4, <1>5, <1>6, <1>7, <1>8, <1>9, <1>10, <1>11 DEF WatcherStep

(* However late a heartbeat or a digest mark lands, it finds an entry with *)
(* a status: none is brought back without one.                             *)
THEOREM EntriesKeepStatus == Spec => []NeverBlank
<1>1. Init => EntryInv
  BY DEF Init, EntryInv, NeverBlank, Known, Absent, Resting, PhaseNames
<1>2. TypeOK /\ EntryInv /\ [Next]_vars => EntryInv'
  <2> SUFFICES ASSUME TypeOK, EntryInv, [Next]_vars PROVE EntryInv'
    OBVIOUS
  <2>1. CASE UNCHANGED vars
    BY <2>1, EntryBenign, KeptKeeps, KeptStarts, KeptNarrows DEF vars
  <2> QED
    BY <2>1, OthersKeepEntries, WatcherKeepsEntries
<1>3. EntryInv => NeverBlank
  BY DEF EntryInv
<1> QED
  BY <1>1, <1>2, <1>3, TypeCorrect, PTL DEF Spec

-----------------------------------------------------------------------------
(* Escalations.  A session that says done still holds its window, so what  *)
(* the pass decided of the order before finds the window there.            *)

VerdictInv ==
  /\ watch["bad"] \subseteq StrayKeys /\ watch["hung"] \subseteq WoKeys
  /\ \A k \in EscKeys : cm[k].st = "done" =>
       /\ k \notin watch["spawn"]
       /\ k \in watch["orphan"] \cup watch["next"] => win[k] # "none"

(* No new verdict, no window taken, nothing more to claim, spawn or sweep. *)
NoNewDone == \A k \in EscKeys : cm'[k].st = "done" => cm[k].st = "done"
KeepsWindows == \A k \in EscKeys : win'[k] = "none" => win[k] = "none"
Dwindles ==
  /\ watch'["spawn"] \subseteq watch["spawn"] /\ watch'["orphan"] \subseteq watch["orphan"]
  /\ watch'["next"] \subseteq watch["next"] /\ watch'["bad"] \subseteq watch["bad"]
  /\ watch'["hung"] \subseteq watch["hung"]

LEMMA EscApart == EscKeys \subseteq Keys /\ EscKeys \cap (WoKeys \cup RemKeys \cup StrayKeys) = {}
  BY KeysAssumption DEF Keys

LEMMA VerdictBenign ==
  ASSUME VerdictInv, NoNewDone, KeepsWindows, Dwindles
  PROVE  VerdictInv'
  BY DEF VerdictInv, NoNewDone, KeepsWindows, Dwindles

LEMMA KeptNoDone == ASSUME UNCHANGED cmVars PROVE NoNewDone
  BY DEF cmVars, NoNewDone

LEMMA SetNoDone ==
  ASSUME TypeOK, NEW k \in Keys, NEW s \in {"failed", "escalated", "claimed"}, cm' = WithStatus(k, s)
  PROVE  NoNewDone
  BY EscApart DEF WithStatus, NoNewDone, TypeOK, Entry

LEMMA TryNoDone ==
  ASSUME TypeOK, NEW k \in Keys, NEW s \in {"failed", "escalated"}, TrySetStatus(k, s)
  PROVE  NoNewDone
  BY SetNoDone, KeptNoDone DEF TrySetStatus, SetStatus, Write, Lost

LEMMA EntryNoDone == ASSUME TypeOK, NEW k \in Keys, WriteEntry(k) PROVE NoNewDone
  BY EscApart DEF WriteEntry, Write, NoNewDone, TypeOK, Entry, Absent

(* The mark of the digest makes no entry done that was not.                *)
LEMMA MarkSparesDone ==
  ASSUME TypeOK, Mark, NEW k \in EscKeys
  PROVE  cm'[k].st = "done" <=> cm[k].st = "done"
<1>1. CASE UNCHANGED cm
  BY <1>1
<1>2. CASE cm' = [j \in Keys |-> IF j \notin watch.mark THEN cm[j]
                  ELSE [cm[j] EXCEPT !.digested = TRUE,
                          !.st = IF cm[j].st = "absent" THEN "blank" ELSE cm[j].st]]
  <2>1. k \in Keys /\ cm[k] \in Entry
    BY EscApart DEF TypeOK
  <2>2. CASE k \notin watch.mark
    BY <1>2, <2>1, <2>2
  <2>3. CASE k \in watch.mark
    <3>1. cm'[k] = [cm[k] EXCEPT !.digested = TRUE, !.st = IF cm[k].st = "absent" THEN "blank" ELSE cm[k].st]
      BY <1>2, <2>1, <2>3
    <3>2. cm'[k].st = IF cm[k].st = "absent" THEN "blank" ELSE cm[k].st
      BY <2>1, <3>1 DEF Entry
    <3> QED
      BY <3>2
  <2> QED
    BY <2>2, <2>3
<1> QED
  BY <1>1, <1>2 DEF Mark, Write, Lost, cmVars

LEMMA KeptWindows == ASSUME UNCHANGED win PROVE KeepsWindows
  BY DEF KeepsWindows

LEMMA ReturnWindows == ASSUME TypeOK, NEW c \in Callers, Return(c) PROVE KeepsWindows
  BY EscApart DEF Return, KeepsWindows, TypeOK

LEMMA KeptDwindles == ASSUME UNCHANGED watch PROVE Dwindles
  BY DEF Dwindles

LEMMA LeaveDwindles ==
  ASSUME NEW w, Leave(w), w["spawn"] \subseteq watch["spawn"], w["orphan"] \subseteq watch["orphan"],
         w["next"] \subseteq watch["next"], w["bad"] \subseteq watch["bad"], w["hung"] \subseteq watch["hung"]
  PROVE  Dwindles
<1>1. CASE watch' = Resting
  BY <1>1 DEF Resting, Dwindles, PhaseNames
<1>2. CASE watch' = w
  BY <1>2 DEF Dwindles
<1> QED
  BY <1>1, <1>2 DEF Leave

LEMMA OthersKeepVerdicts ==
  ASSUME TypeOK, LaneInv, VerdictInv, Next, ~WatcherStep
  PROVE  VerdictInv'
<1> USE VerdictBenign, KeptNoDone, KeptWindows, KeptDwindles
<1>1. ASSUME NEW k \in Keys, FileCheck(k) \/ FileWrite(k) PROVE VerdictInv'
  BY <1>1, EntryNoDone DEF FileCheck, FileWrite, Lost
<1>2. ASSUME NEW k \in Keys, Requeue(k) PROVE VerdictInv'
  <2>1. NoNewDone
    BY <1>2, EscApart DEF Requeue, Write, NoNewDone, TypeOK, Entry
  <2> QED
    BY <1>2, <2>1 DEF Requeue
<1>3. ASSUME NEW c \in Callers, PromoCheck(c) PROVE VerdictInv'
  BY <1>3, ReturnWindows DEF PromoCheck
<1>4. ASSUME NEW c \in Callers, PromoWrite(c) PROVE VerdictInv'
  <2>1. NoNewDone
    BY <1>4, InFlight, EntryNoDone DEF PromoWrite, Lost
  <2> QED
    BY <1>4, <2>1, ReturnWindows DEF PromoWrite
<1>5. ASSUME NEW k \in Keys, ReportDone(k) PROVE VerdictInv'
  (* The session is in its window, and nothing is spawned into one.        *)
  <2>1. win[k] # "none" /\ UNCHANGED <<win, watch>>
    BY <1>5 DEF ReportDone
  <2>2. k \notin watch["spawn"]
    BY <2>1 DEF LaneInv, SpawnAlone, PlanConsistent, Shut, Chosen
  <2>3. \A j \in Keys : j # k => cm'[j] = cm[j]
    BY <1>5 DEF ReportDone, SetStatus, Write, WithStatus, TypeOK
  <2> QED
    BY <2>1, <2>2, <2>3, EscApart DEF VerdictInv
<1>6. ASSUME NEW k \in Keys, ReportFailed(k) \/ Escalate(k) PROVE VerdictInv'
  BY <1>6, SetNoDone DEF ReportFailed, Escalate, SetStatus, Write
<1>7. ASSUME NEW k \in Keys, Heartbeat(k) PROVE VerdictInv'
  <2>1. NoNewDone
    BY <1>7, EscApart DEF Heartbeat, Write, NoNewDone, TypeOK, Entry
  <2> QED
    BY <1>7, <2>1 DEF Heartbeat
<1>8. ASSUME NEW k \in Keys, Exit(k) PROVE VerdictInv'
  <2>1. KeepsWindows
    BY <1>8, EscApart DEF Exit, KeepsWindows, TypeOK
  <2> QED
    BY <1>8, <2>1 DEF Exit
<1>9. ASSUME NEW k \in Keys, CloseOut(k) PROVE VerdictInv'
  <2>1. KeepsWindows
    BY <1>9, EscApart DEF CloseOut, KeepsWindows, TypeOK
  <2>2. NoNewDone
    BY <1>9, SetNoDone, TryNoDone, KeptNoDone DEF CloseOut, SetStatus, Write, Lost
  <2> QED
    BY <1>9, <2>1, <2>2 DEF CloseOut
<1>10. ASSUME RespScan \/ RespCrash PROVE VerdictInv'
  BY <1>10 DEF RespScan, RespCrash
<1>11. ASSUME NEW k \in RemKeys, RespMark(k) PROVE VerdictInv'
  BY <1>11, TryNoDone DEF RespMark, Keys
<1>12. ASSUME Restart PROVE VerdictInv'
  BY <1>12 DEF Restart, VerdictInv, Resting, PhaseNames
<1>13. ASSUME NEW k \in Keys, Age(k) PROVE VerdictInv'
  <2>1. NoNewDone
    BY <1>13, EscApart DEF Age, NoNewDone, TypeOK, Entry
  <2> QED
    BY <1>13, <2>1 DEF Age
<1> QED
  BY <1>1, <1>2, <1>3, <1>4, <1>5, <1>6, <1>7, <1>8, <1>9, <1>10, <1>11, <1>12, <1>13
  DEF Next, SessionStep

(* The watcher gives no verdict done, and kills only what it saw terminal. *)
LEMMA WatcherKeepsVerdicts ==
  ASSUME TypeOK, LaneInv, VerdictInv, WatcherStep
  PROVE  VerdictInv'
<1> USE DEF PhaseNames
<1>0. watch \in Plans
  BY DEF TypeOK, Plans
<1>1. CASE Poll
  <2>1. PICK next \in Choices : /\ watch'["next"] \subseteq next /\ watch'["spawn"] = {}
                                /\ watch'["orphan"] \subseteq {k \in Keys : cm[k].st = "claimed"}
                                /\ watch'["bad"] \subseteq StrayKeys /\ watch'["hung"] \subseteq WoKeys
    BY <1>1 DEF Poll, Leave, Resting, WoStale
  <2>2. \A k \in next : cm[k].st = "pending"
    BY DEF Choices, OldestPending, Pending
  <2>3. UNCHANGED cm
    BY <1>1 DEF Poll, cmVars
  <2> QED
    BY <2>1, <2>2, <2>3 DEF VerdictInv
<1>2. ASSUME NEW k \in Keys, BadKey(k) \/ Hung(k) PROVE VerdictInv'
  <2>1. Dwindles
    BY <1>0, <1>2, LeaveDwindles DEF BadKey, Hung, Plans
  <2>2. NoNewDone
    BY <1>2, TryNoDone, KeptNoDone DEF BadKey, Hung
  <2> QED
    BY <1>2, <2>1, <2>2, VerdictBenign, KeptWindows DEF BadKey, Hung
<1>3. ASSUME NEW k \in Keys, Orphan(k) PROVE VerdictInv'
  <2>1. Dwindles
    BY <1>0, <1>3, LeaveDwindles DEF Orphan, Plans
  <2>2. NoNewDone
    BY <1>3, SetNoDone, TryNoDone, KeptNoDone DEF Orphan, SetStatus, Write, Lost
  <2> QED
    BY <1>3, <2>1, <2>2, VerdictBenign, KeptWindows DEF Orphan
<1>4. CASE Reap \/ Bound \/ Retire
  <2>1. watch["orphan"] = {} /\ UNCHANGED cm
    BY <1>4 DEF Reap, Bound, Retire, At, Rank, cmVars
  <2>2. Dwindles
    BY <1>0, <1>4, LeaveDwindles DEF Reap, Bound, Retire, Plans
  <2>3. PICK S \in SUBSET Shut : Kill(S)
    BY <1>4 DEF Reap, Bound, Retire, Shut
  <2>4. \A k \in Keys \ Shut : win'[k] = win[k]
    BY <2>3 DEF Kill
  <2> QED
    BY <2>1, <2>2, <2>4, EscApart DEF VerdictInv, Dwindles, LaneInv, PlanConsistent, Chosen
<1>5. CASE Stamp \/ Drop \/ Digest
  <2>1. Dwindles
    BY <1>0, <1>5, LeaveDwindles DEF Stamp, Drop, Digest, Plans
  <2>2. NoNewDone
    BY <1>5, EscApart DEF Stamp, Drop, Digest, Write, Lost, cmVars, NoNewDone, TypeOK, Entry, Absent
  <2> QED
    BY <1>5, <2>1, <2>2, VerdictBenign, KeptWindows DEF Stamp, Drop, Digest
<1>6. CASE Mark
  <2>1. Dwindles
    BY <1>0, <1>6, LeaveDwindles DEF Mark, Plans
  <2>2. NoNewDone
    BY <1>6, MarkSparesDone DEF NoNewDone
  <2> QED
    BY <1>6, <2>1, <2>2, VerdictBenign, KeptWindows DEF Mark
<1>7. ASSUME NEW k \in Keys, Claim(k) PROVE VerdictInv'
  <2> DEFINE rest == [watch EXCEPT !.next = @ \ {k}]
  <2>1. rest \in Plans /\ [rest EXCEPT !.spawn = {k}] \in Plans
    BY <1>0 DEF Plans
  <2>2. CASE Leave(rest) /\ UNCHANGED cmVars
    <3>1. Dwindles
      BY <1>0, <2>2, LeaveDwindles DEF Plans
    <3> QED
      BY <1>7, <2>2, <3>1, VerdictBenign, KeptNoDone, KeptWindows DEF Claim
  <2>3. CASE cm' = WithStatus(k, "claimed") /\ Leave([rest EXCEPT !.spawn = {k}])
    <3>1. /\ watch'["spawn"] = {k} /\ watch'["orphan"] = watch["orphan"] /\ watch'["next"] \subseteq watch["next"]
          /\ watch'["bad"] = watch["bad"] /\ watch'["hung"] = watch["hung"]
      BY <1>0, <2>1, <2>3, LeaveGives DEF Plans
    <3>2. NoNewDone
      BY <2>3, SetNoDone
    <3>3. cm'[k].st = "claimed" /\ UNCHANGED win
      BY <1>7, <2>3 DEF Claim, WithStatus, TypeOK, Entry
    <3> QED
      BY <3>1, <3>2, <3>3 DEF VerdictInv, NoNewDone
  <2> QED
    BY <1>7, <2>2, <2>3 DEF Claim, Lost
<1>8. ASSUME NEW k \in Keys, Spawn(k) PROVE VerdictInv'
  <2>1. Dwindles
    BY <1>0, <1>8, LeaveDwindles DEF Spawn, Plans
  <2>2. NoNewDone
    BY <1>8, SetNoDone, KeptNoDone DEF Spawn, SetStatus, Write
  <2>3. KeepsWindows
    BY <1>8, EscApart DEF Spawn, KeepsWindows, TypeOK
  <2> QED
    BY <2>1, <2>2, <2>3, VerdictBenign
<1> QED
  BY <1>1, <1>2, <1>3, <1>4, <1>5, <1>6, <1>7, <1>8 DEF WatcherStep

LEMMA VerdictInvariant == Spec => []VerdictInv
<1>1. Init => VerdictInv
  BY DEF Init, VerdictInv, Resting, PhaseNames
<1>2. TypeOK /\ LaneInv /\ VerdictInv /\ [Next]_vars => VerdictInv'
  <2> SUFFICES ASSUME TypeOK, LaneInv, VerdictInv, [Next]_vars PROVE VerdictInv'
    OBVIOUS
  <2>1. CASE UNCHANGED vars
    BY <2>1, VerdictBenign, KeptNoDone, KeptWindows, KeptDwindles DEF vars
  <2> QED
    BY <2>1, OthersKeepVerdicts, WatcherKeepsVerdicts
<1> QED
  BY <1>1, <1>2, LaneInvariant, PTL DEF Spec

(* The watcher's sweeps, claims and failed spawns never overturn the done  *)
(* of an escalation session, however old the snapshot they work from.      *)
THEOREM EscalationsAreSpared == Spec => EscVerdictStands
<1> DEFINE A == watch' # watch =>
                  \A k \in EscKeys : cm[k].st = "done" => cm'[k].st \in {"done", "absent"}
<1>1. TypeOK /\ LaneInv /\ VerdictInv /\ [Next]_vars => [A]_vars
  <2> SUFFICES ASSUME TypeOK, LaneInv, VerdictInv, Next, watch' # watch,
                      NEW k \in EscKeys, cm[k].st = "done"
               PROVE  cm'[k].st \in {"done", "absent"}
    OBVIOUS
  <2> USE EscApart
  <2>1. CASE Restart
    BY <2>1 DEF Restart, cmVars
  <2>2. CASE Poll \/ Reap \/ Bound \/ Retire \/ Digest
    BY <2>2 DEF Poll, Reap, Bound, Retire, Digest, cmVars
  <2>3. CASE Stamp \/ Drop
    BY <2>3 DEF Stamp, Drop, Write, Lost, cmVars, TypeOK, Entry, Absent
  <2>4. CASE Mark
    BY <2>4, MarkSparesDone
  <2>5. ASSUME NEW j \in Keys, BadKey(j) \/ Hung(j) PROVE cm'[k].st = "done"
    <3>1. j # k
      BY <2>5 DEF BadKey, Hung, VerdictInv
    <3> QED
      BY <2>5, <3>1 DEF BadKey, Hung, TrySetStatus, SetStatus, Write, WithStatus, Lost, cmVars, TypeOK
  <2>6. ASSUME NEW j \in Keys, Orphan(j) PROVE cm'[k].st = "done"
    (* An order that was done after the snapshot has its window.           *)
    <3>1. j = k => win[j] # "none"
      BY <2>6 DEF Orphan, VerdictInv
    <3> QED
      BY <2>6, <3>1 DEF Orphan, TrySetStatus, SetStatus, Write, WithStatus, Lost, cmVars, TypeOK
  <2>7. ASSUME NEW j \in Keys, Claim(j) PROVE cm'[k].st = "done"
    (* The window, which the snapshot does not show terminal, is the lane's. *)
    <3>1. j = k => LaneActive(Lane(j))
      BY <2>7 DEF Claim, LaneActive, VerdictInv, LaneInv, PlanConsistent, Shut, Chosen
    <3> QED
      BY <2>7, <3>1 DEF Claim, WithStatus, Lost, cmVars, TypeOK
  <2>8. ASSUME NEW j \in Keys, Spawn(j) PROVE cm'[k].st = "done"
    <3>1. j # k
      BY <2>8 DEF Spawn, VerdictInv
    <3> QED
      BY <2>8, <3>1 DEF Spawn, SetStatus, Write, WithStatus, cmVars, TypeOK
  <2>9. WatcherStep \/ Restart
    BY DEF Next, SessionStep, ReportDone, ReportFailed, Escalate, Heartbeat, Exit,
       CloseOut, FileCheck, FileWrite, Requeue, Age, PromoCheck, PromoWrite,
       RespScan, RespCrash, RespMark
  <2> QED
    BY <2>1, <2>2, <2>3, <2>4, <2>5, <2>6, <2>7, <2>8, <2>9 DEF WatcherStep
<1> QED
  BY <1>1, LaneInvariant, VerdictInvariant, PTL DEF Spec, EscVerdictStands

=============================================================================
