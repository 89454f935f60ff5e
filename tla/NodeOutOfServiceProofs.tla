------------------------ MODULE NodeOutOfServiceProofs ----------------------
(***************************************************************************)
(* What TLAPS proves of NodeOutOfService and of its dates, for any nodes,  *)
(* classes, limits and deadline: its types, that a taint that lands was    *)
(* justified while the Job that applies it ran, that it only comes off a   *)
(* settled node, and that dates become days without an error.              *)
(*                                                                         *)
(* JobInv is the inductive invariant.  What a Job holds about a node may   *)
(* be stale, but never older than the Job: whatever it read or decided was *)
(* true at some moment of its life, and the histories cases and backs say  *)
(* so; job.ticks bounds that life.                                         *)
(* DateInv is that of the calendar: days_from_civil gains a day with each, *)
(* which over the last of February needs what a year from March to March   *)
(* counts (YearLength), within an era of 400 years and across two.         *)
(***************************************************************************)
EXTENDS DatedNodes, FiniteSetTheorems, TLAPS

SeesDead(n) == /\ job.view[n].ready = "Unknown" /\ ~job.view[n].tainted
               /\ job.view[n].age > Limit(n, Masters)
SeesBack(n) == /\ job.view[n].ready = "True" /\ job.view[n].tainted
               /\ job.view[n].age >= Settle

(* The histories hold what is so now.                                      *)
HistoryCurrent ==
  job.at # "idle" => \A n \in Nodes : (Case(n) => n \in cases) /\ (Back(n) => n \in backs)

(* What the listing says was so at some moment of the Job.                 *)
ViewWasSo ==
  job.at \in {"masters", "exclude"} => \A n \in Nodes :
    /\ SeesDead(n) /\ Cardinality(SeenUnready) <= MaxUnready => n \in cases
    /\ SeesBack(n) => n \in backs

(* So was what the Job decided.                                            *)
PlanWasSo ==
  job.at = "apply" => job.taint \subseteq cases /\ job.untaint \subseteq backs

(* No decision is taken without the control-plane names.                   *)
ClassKnown == job.at \in {"exclude", "apply"} => job.control = Masters

JobInv == TypeOK /\ HistoryCurrent /\ ViewWasSo /\ PlanWasSo /\ ClassKnown

-----------------------------------------------------------------------------
LEMMA CappedType == ASSUME NEW i \in Nat, NEW max \in Nat
                    PROVE  Capped(i, max) \in 0..max /\ Capped(i, max) <= i
BY DEF Capped

LEMMA AgeSeenBounds ==
  ASSUME TypeOK, NEW n \in Nodes
  PROVE  AgeSeen(n) \in 0..MaxAge /\ AgeSeen(n) <= age[n]
BY NodesAssumption DEF TypeOK, AgeSeen

(* The histories after a step that follows them.                           *)
LEMMA Followed ==
  ASSUME TypeOK, Follow
  PROVE  /\ cases' \subseteq Nodes /\ backs' \subseteq Nodes
         /\ HistoryCurrent'
         /\ job'.at # "idle" => cases \subseteq cases' /\ backs \subseteq backs'
BY DEF TypeOK, Follow, HistoryCurrent

(* The histories in a step that leaves what they follow alone.             *)
LEMMA Untouched ==
  ASSUME HistoryCurrent, UNCHANGED <<ready, age, taint, history>>,
         job'.at # "idle" => job.at # "idle"
  PROVE  HistoryCurrent'
BY DEF HistoryCurrent, Case, Dead, Back, Unadjudicated, history

(* The empty Job.                                                          *)
LEMMA IdleType == /\ Unread \in [Nodes -> Reading] /\ Idle.taint = {} /\ Idle.untaint = {}
                  /\ Idle.at = "idle" /\ Idle.ticks = 0 /\ Idle.control = {}
                  /\ Idle.view = Unread
BY NodesAssumption DEF Unread, Reading, Conditions, Idle

(* The invariant across a step that moves histories but neither what the   *)
(* Job read nor the plan, except that the plan may shrink.                 *)
LEMMA Kept ==
  ASSUME JobInv, TypeOK', Follow,
         job'.at = job.at, job'.view = job.view, job'.control = job.control,
         job'.taint \subseteq job.taint, job'.untaint \subseteq job.untaint
  PROVE  JobInv'
<1>1. HistoryCurrent' /\ (job'.at # "idle" => cases \subseteq cases' /\ backs \subseteq backs')
  BY Followed DEF JobInv
<1>2. ViewWasSo'
  <2> SUFFICES ASSUME job'.at \in {"masters", "exclude"}, NEW n \in Nodes
               PROVE  /\ SeesDead(n)' /\ (Cardinality(SeenUnready) <= MaxUnready)'
                           => n \in cases'
                      /\ SeesBack(n)' => n \in backs'
    BY DEF ViewWasSo
  <2>1. SeesDead(n)' = SeesDead(n) /\ SeesBack(n)' = SeesBack(n) /\ SeenUnready' = SeenUnready
    BY DEF SeesDead, SeesBack, SeenUnready, Limit
  <2>2. /\ SeesDead(n) /\ Cardinality(SeenUnready) <= MaxUnready => n \in cases
        /\ SeesBack(n) => n \in backs
    BY DEF JobInv, ViewWasSo
  <2> QED BY <1>1, <2>1, <2>2
<1>3. PlanWasSo'
  BY <1>1 DEF JobInv, PlanWasSo
<1>4. ClassKnown'
  BY DEF JobInv, ClassKnown
<1> QED BY <1>1, <1>2, <1>3, <1>4 DEF JobInv

-----------------------------------------------------------------------------
(* The initial state: no Job runs and every node has settled.              *)
LEMMA InitJob == Init => JobInv
<1> SUFFICES ASSUME Init PROVE JobInv
  OBVIOUS
<1>1. TypeOK
  BY NodesAssumption, IdleType
     DEF Init, TypeOK, Idle, Conditions, Effects, Stages
<1>2. HistoryCurrent
  BY IdleType DEF Init, HistoryCurrent
<1>3. job.at = "idle"
  BY IdleType DEF Init
<1> QED BY <1>1, <1>2, <1>3 DEF JobInv, ViewWasSo, PlanWasSo, ClassKnown

(* A Job that ends, whatever ended it, leaves nothing behind.              *)
LEMMA Ended ==
  ASSUME JobInv, job' = Idle, UNCHANGED cluster, Follow,
         faults' \in 0..MaxFaults
  PROVE  JobInv'
<1>1. TypeOK'
  BY IdleType, Followed, NodesAssumption DEF JobInv, TypeOK, Idle, Stages, cluster
<1>2. HistoryCurrent'
  BY Followed DEF JobInv
<1>3. job'.at = "idle"
  BY IdleType
<1> QED BY <1>1, <1>2, <1>3 DEF JobInv, ViewWasSo, PlanWasSo, ClassKnown

LEMMA FaultType == ASSUME TypeOK, Fault PROVE faults' \in 0..MaxFaults
BY NodesAssumption DEF TypeOK, Fault

(* Every step of the Job, the clock, the cluster and a human keeps it.     *)
LEMMA JobStepKeeps == JobInv /\ [Next]_vars => JobInv'
<1> SUFFICES ASSUME JobInv, [Next]_vars PROVE JobInv'
  OBVIOUS
<1> USE DEF JobInv
<1>1. CASE Start
  <2>1. job' = [Idle EXCEPT !.at = "list"]
    BY <1>1 DEF Start
  <2>2. job' \in [at : Stages, ticks : 0..JobSpan, view : [Nodes -> Reading],
                  control : SUBSET Masters, untaint : SUBSET Nodes, taint : SUBSET Nodes]
    BY <2>1, IdleType, NodesAssumption DEF Idle, Stages
  <2>3. TypeOK'
    BY <1>1, <2>2, Followed DEF Start, TypeOK, cluster
  <2>4. HistoryCurrent'
    BY <1>1, Followed DEF Start
  <2>5. job'.at = "list"
    BY <2>1, IdleType DEF Idle
  <2> QED BY <2>3, <2>4, <2>5 DEF ViewWasSo, PlanWasSo, ClassKnown
<1>2. CASE List
  <2>1. job'.view = [n \in Nodes |-> [ready |-> ready[n], age |-> AgeSeen(n),
                                      tainted |-> taint[n] # "none"]]
    BY <1>2 DEF List, TypeOK
  <2>2. job'.view \in [Nodes -> Reading]
    BY <2>1, AgeSeenBounds DEF Reading, TypeOK
  <2>3. TypeOK'
    BY <1>2, <2>2 DEF List, TypeOK, Stages, cluster, history
  <2>4. HistoryCurrent'
    BY <1>2, Untouched DEF List, cluster
  <2>5. ViewWasSo'
    <3> SUFFICES ASSUME NEW n \in Nodes
                 PROVE  /\ SeesDead(n)' /\ (Cardinality(SeenUnready) <= MaxUnready)'
                             => n \in cases'
                        /\ SeesBack(n)' => n \in backs'
      BY DEF ViewWasSo
    <3>0. ASSUME NEW k \in Nodes
          PROVE  /\ job'.view[k].ready = ready[k]
                 /\ job'.view[k].age = AgeSeen(k)
                 /\ job'.view[k].tainted <=> taint[k] # "none"
      <4> DEFINE marked == taint[k] # "none"
      <4>1. job'.view[k] = [ready |-> ready[k], age |-> AgeSeen(k), tainted |-> marked]
        BY <2>1, Zenon
      <4> HIDE DEF marked
      <4>2. job'.view[k].ready = ready[k] /\ job'.view[k].age = AgeSeen(k)
        BY <4>1
      <4>3. job'.view[k].tainted = marked
        BY <4>1
      <4> QED BY <4>2, <4>3, Zenon DEF marked
    <3>1. SeenUnready' = Unadjudicated
      BY <3>0, Zenon DEF SeenUnready, Unadjudicated
    <3>2. /\ AgeSeen(n) \in Nat /\ AgeSeen(n) <= age[n] /\ age[n] \in Nat
          /\ Limit(n, Masters) \in Nat /\ Settle \in Nat
      BY AgeSeenBounds, NodesAssumption DEF TypeOK, Limit
    <3>3. SeesDead(n)' => Dead(n)
      <4>1. SeesDead(n)' => ready[n] = "Unknown" /\ taint[n] = "none" /\ AgeSeen(n) > Limit(n, Masters)
        BY <3>0, Zenon DEF SeesDead, Limit
      <4> QED BY <3>2, <4>1 DEF Dead
    <3>4. SeesBack(n)' => Back(n)
      BY <3>0, <3>2 DEF SeesBack, Back
    <3>5. cases' = cases /\ backs' = backs
      BY <1>2 DEF List, history
    <3>6. (Case(n) => n \in cases) /\ (Back(n) => n \in backs)
      BY <1>2 DEF HistoryCurrent, List
    <3> QED BY <3>1, <3>3, <3>4, <3>5, <3>6 DEF Case
  <2>6. job'.at = "masters"
    BY <1>2 DEF List, TypeOK
  <2> QED BY <2>3, <2>4, <2>5, <2>6 DEF PlanWasSo, ClassKnown
<1>3. CASE ListMasters
  <2>1. CASE job' = Idle
    <3>1. faults' \in 0..MaxFaults
      BY <1>3, FaultType DEF ListMasters, TypeOK
    <3> QED BY <1>3, <2>1, <3>1, Ended DEF ListMasters
  <2>2. CASE job' = [job EXCEPT !.at = "exclude", !.control = Masters] /\ UNCHANGED faults
    <3>1. TypeOK'
      BY <1>3, <2>2, Followed DEF ListMasters, TypeOK, Stages, cluster
    <3>2. HistoryCurrent' /\ (job'.at # "idle" => cases \subseteq cases' /\ backs \subseteq backs')
      BY <1>3, Followed DEF ListMasters
    <3>3. /\ job'.at = "exclude" /\ job'.view = job.view /\ job'.ticks = job.ticks
          /\ job'.control = Masters /\ job.at = "masters"
          /\ cases \subseteq cases' /\ backs \subseteq backs'
      BY <1>3, <2>2, <3>2 DEF ListMasters, TypeOK
    <3>4. ViewWasSo'
      BY <3>3 DEF ViewWasSo, SeesDead, SeesBack, SeenUnready, Limit
    <3> QED BY <3>1, <3>2, <3>3, <3>4 DEF PlanWasSo, ClassKnown
  <2> QED BY <1>3, <2>1, <2>2 DEF ListMasters
<1>4. CASE Decide
  <2>1. /\ job.at = "exclude" /\ job'.at = "apply" /\ job'.untaint = SeenBack
        /\ job'.taint = Guarded /\ job'.ticks = job.ticks /\ job'.control = job.control
        /\ job'.view = Unread /\ cases' = cases /\ backs' = backs
    BY <1>4 DEF Decide, TypeOK, history
  <2>2. SeenBack \subseteq Nodes /\ Guarded \subseteq Nodes
    BY DEF SeenBack, Guarded, SeenDead
  <2>3. TypeOK'
    BY <1>4, <2>2, IdleType DEF Decide, TypeOK, Stages, cluster, history
  <2>4. HistoryCurrent'
    BY <1>4, Untouched DEF Decide, cluster
  <2>5. \A n \in Guarded : SeesDead(n) /\ Cardinality(SeenUnready) <= MaxUnready
    <3> SUFFICES ASSUME NEW n \in Guarded
                 PROVE  SeesDead(n) /\ Cardinality(SeenUnready) <= MaxUnready
      OBVIOUS
    <3>1. ~(Cardinality(SeenUnready) > MaxUnready) /\ n \in SeenDead
      BY DEF Guarded
    <3>2. IsFiniteSet(SeenUnready)
      BY NodesAssumption, FS_Subset DEF SeenUnready
    <3>3. Cardinality(SeenUnready) \in Nat
      BY <3>2, FS_CardinalityType
    <3>4. job.control = Masters
      BY <2>1 DEF ClassKnown
    <3> QED BY <3>1, <3>3, <3>4, NodesAssumption DEF SeenDead, SeesDead
  <2>6. \A n \in SeenBack : SeesBack(n)
    BY DEF SeenBack, SeesBack
  <2>7. PlanWasSo'
    BY <2>1, <2>2, <2>5, <2>6 DEF PlanWasSo, ViewWasSo
  <2> QED BY <2>1, <2>3, <2>4, <2>7 DEF ViewWasSo, ClassKnown
<1>5. CASE Finish
  BY <1>5, Ended DEF Finish, TypeOK
<1>6. CASE Killed
  BY <1>6, Ended, FaultType DEF Killed
<1>7. ASSUME NEW n \in Nodes, Untaint(n) PROVE JobInv'
  <2>1. /\ Follow /\ job' = [job EXCEPT !.untaint = @ \ {n}]
        /\ UNCHANGED <<ready, age, excluded>> /\ faults' \in 0..MaxFaults
        /\ taint' = taint \/ taint' = [taint EXCEPT ![n] = "none"]
    BY <1>7, FaultType DEF Untaint, TypeOK
  <2>2. TypeOK'
    BY <2>1, Followed DEF TypeOK, Effects
  <2> QED BY <2>1, <2>2, Kept DEF TypeOK
<1>8. ASSUME NEW n \in Nodes, Taint(n) PROVE JobInv'
  <2>1. /\ Follow /\ job' = [job EXCEPT !.taint = @ \ {n}]
        /\ UNCHANGED <<ready, age, excluded>> /\ faults' \in 0..MaxFaults
        /\ taint' = taint \/ taint' = [taint EXCEPT ![n] = Effect(n, job.control)]
    BY <1>8, FaultType DEF Taint, TypeOK
  <2>2. TypeOK'
    BY <2>1, Followed DEF TypeOK, Effects, Effect
  <2> QED BY <2>1, <2>2, Kept DEF TypeOK
<1>9. CASE Tick
  <2>1. age' \in [Nodes -> 0..MaxAge]
    <3>1. \A n \in Nodes : age[n] + 1 \in Nat
      BY NodesAssumption DEF JobInv, TypeOK
    <3>2. \A n \in Nodes : Capped(age[n] + 1, MaxAge) \in 0..MaxAge
      BY <3>1, CappedType, NodesAssumption
    <3> QED BY <1>9, <3>2 DEF Tick
  <2>2. CASE job.at = "idle"
    <3>1. TypeOK'
      BY <1>9, <2>1, <2>2, Followed DEF Tick, TypeOK
    <3> QED BY <1>9, <2>2, <3>1, Kept DEF Tick
  <2>3. CASE job.at # "idle"
    <3>1. job' = [job EXCEPT !.ticks = @ + 1] /\ job.ticks < JobSpan
      BY <1>9, <2>3 DEF Tick
    <3>2. TypeOK'
      BY <1>9, <2>1, <3>1, Followed, NodesAssumption DEF Tick, TypeOK
    <3> QED BY <1>9, <3>1, <3>2, Kept DEF Tick, TypeOK
  <2> QED BY <2>2, <2>3
<1>10. ASSUME NEW n \in Nodes, Label(n) PROVE JobInv'
  <2>1. TypeOK'
    BY <1>10, NodesAssumption DEF Label, TypeOK, history
  <2>2. HistoryCurrent'
    BY <1>10, Untouched DEF Label
  <2> QED BY <1>10, <2>1, <2>2
          DEF Label, history, ViewWasSo, PlanWasSo, ClassKnown,
              SeesDead, SeesBack, SeenUnready, Limit
<1>11. ASSUME NEW n \in Nodes, NEW c \in Conditions, Change(n, c) PROVE JobInv'
  <2>1. TypeOK'
    BY <1>11, Followed, NodesAssumption DEF Change, TypeOK
  <2> QED BY <1>11, <2>1, Kept DEF Change, TypeOK
<1>12. CASE UNCHANGED vars
  BY <1>12 DEF vars, cluster, history, TypeOK, HistoryCurrent, Case, Dead, Back, Unadjudicated,
               ViewWasSo, PlanWasSo, ClassKnown, SeesDead, SeesBack, SeenUnready, Limit
<1> QED
  BY <1>1, <1>2, <1>3, <1>4, <1>5, <1>6, <1>7, <1>8, <1>9, <1>10, <1>11, <1>12
  DEF Next, JobStep

-----------------------------------------------------------------------------
(* The calendar. *)

(* The days before the first of March of a year, as days_from_civil counts them. *)
Marches(z) ==
  LET era == z \div 400
      yoe == z - era * 400
  IN era * 146097 + yoe * 365 + yoe \div 4 - yoe \div 100

(* The era of a year, and where its years pass into the next. *)
LEMMA Division ==
  ASSUME NEW z \in Nat
  PROVE  /\ z \div 400 \in Nat /\ z - (z \div 400) * 400 \in 0..399
         /\ z - (z \div 400) * 400 # 399 => (z + 1) \div 400 = z \div 400
         /\ z - (z \div 400) * 400 = 399 => (z + 1) \div 400 = z \div 400 + 1
OBVIOUS

(* The four-year and hundred-year counts step at the multiples. *)
LEMMA Fours ==
  ASSUME NEW r \in Nat
  PROVE  /\ (r + 1) \div 4 = r \div 4 + (IF (r + 1) % 4 = 0 THEN 1 ELSE 0)
         /\ (r + 1) \div 100 = r \div 100 + (IF (r + 1) % 100 = 0 THEN 1 ELSE 0)
         /\ r \div 4 \in Nat /\ r \div 100 \in Nat
OBVIOUS

(* From one first of March to the next there are 366 days when that year is a leap year. *)
LEMMA YearLength ==
  ASSUME NEW z \in Nat
  PROVE  Marches(z + 1) = Marches(z) + (IF Calendar!Leap(z + 1) THEN 366 ELSE 365)
<1> DEFINE e == z \div 400
<1> DEFINE r == z - e * 400
<1>1. e \in Nat /\ r \in 0..399 BY Division
<1>2. CASE r # 399
  <2>1. (z + 1) \div 400 = e BY <1>2, Division
  <2>2. (z + 1) - e * 400 = r + 1 BY <1>1
  <2>3. Marches(z + 1) = e * 146097 + (r + 1) * 365 + (r + 1) \div 4 - (r + 1) \div 100
    BY <2>1, <2>2 DEF Marches
  <2>4. Marches(z) = e * 146097 + r * 365 + r \div 4 - r \div 100 BY DEF Marches
  <2>5. z + 1 = e * 400 + (r + 1) BY <1>1
  <2>6. Calendar!Leap(z + 1) <=> (r + 1) % 4 = 0 /\ (r + 1) % 100 # 0
    <3> HIDE DEF e, r
    <3>1. /\ (z + 1) % 4 = 0 <=> (r + 1) % 4 = 0
          /\ (z + 1) % 100 = 0 <=> (r + 1) % 100 = 0
          /\ (z + 1) % 400 # 0
      BY <1>1, <1>2, <2>5
    <3>2. QED BY <3>1 DEF Calendar!Leap
  <2> HIDE DEF e, r
  <2>7. (r + 1) % 100 = 0 => (r + 1) % 4 = 0 BY <1>1
  <2>8. QED BY <1>1, <2>3, <2>4, <2>6, <2>7, Fours
<1>3. CASE r = 399
  <2>1. (z + 1) \div 400 = e + 1 BY <1>3, Division
  <2>2. (z + 1) - (e + 1) * 400 = 0 BY <1>1, <1>3
  <2>3. Marches(z + 1) = (e + 1) * 146097 BY <1>1, <2>1, <2>2 DEF Marches
  <2>4. Marches(z) = e * 146097 + 399 * 365 + 99 - 3 BY <1>1, <1>3 DEF Marches
  <2>5. z + 1 = (e + 1) * 400 BY <1>1, <1>3
  <2> HIDE DEF e, r
  <2>6. Calendar!Leap(z + 1) BY <1>1, <2>5 DEF Calendar!Leap
  <2>7. QED BY <1>1, <2>3, <2>4, <2>6
<1>4. QED BY <1>2, <1>3

(* What days_from_civil adds to that: the days since the first of March. *)
SinceMarch(month, day) == (153 * (month + (IF month > 2 THEN -3 ELSE 9)) + 2) \div 5 + day - 1

(* The conversion is the sum of the two. *)
LEMMA Converted ==
  ASSUME NEW z \in Nat, z > 0, NEW month \in 1..12, NEW day \in Nat
  PROVE  Calendar!DaysFromCivil(z, month, day) =
           (IF month <= 2 THEN Marches(z - 1) ELSE Marches(z)) + SinceMarch(month, day) - 719468
BY DEF Calendar!DaysFromCivil, Marches, SinceMarch

(* Both are integers, and a day later is a day more. *)
LEMMA MarchesInt == ASSUME NEW z \in Nat PROVE Marches(z) \in Int
BY Division DEF Marches

LEMMA SinceInt == ASSUME NEW month \in 1..12, NEW day \in Nat
  PROVE /\ SinceMarch(month, day) \in Int
        /\ SinceMarch(month, day + 1) = SinceMarch(month, day) + 1
BY DEF SinceMarch

(* February apart, the months are as long as (153 * month + 2) \div 5 makes them. *)
LEMMA MonthLength ==
  ASSUME NEW z \in Nat, NEW month \in 1..11, month # 2
  PROVE  SinceMarch(month + 1, 1) = SinceMarch(month, Calendar!LastDay(z, month)) + 1
<1>1. month \in {1, 3, 4, 5, 6, 7, 8, 9, 10, 11} OBVIOUS
<1>2. Calendar!LastDay(z, month) = IF month \in {4, 6, 9, 11} THEN 30 ELSE 31 BY DEF Calendar!LastDay
<1>3. QED BY <1>1, <1>2 DEF SinceMarch

(* A date of the calendar, from the first year on, and its days. *)
DateInv ==
  /\ y \in Nat /\ y > 0 /\ m \in 1..12 /\ d \in 1..Calendar!LastDay(y, m) /\ days \in Nat
  /\ Calendar!DaysMatch

(* The months of the calendar have 28 to 31 days. *)
LEMMA LastDays == ASSUME NEW z \in Nat, NEW month \in 1..12 PROVE Calendar!LastDay(z, month) \in 28..31
BY DEF Calendar!LastDay

(* Each day that passes is one more, whether the month or the year ends with it. *)
LEMMA DatesStep == ASSUME DateInv, Calendar!Next PROVE DateInv'
<1>1. /\ y \in Nat /\ y > 0 /\ m \in 1..12 /\ d \in Nat /\ d >= 1 /\ days \in Nat /\ days' = days + 1
      /\ d <= Calendar!LastDay(y, m) /\ Calendar!LastDay(y, m) \in Nat /\ Marches(y - 1) \in Int /\ Marches(y) \in Int
  BY LastDays, MarchesInt DEF DateInv, Calendar!Next
<1>2. days = (IF m <= 2 THEN Marches(y - 1) ELSE Marches(y)) + SinceMarch(m, d) - 719468
  BY <1>1, Converted DEF DateInv, Calendar!DaysMatch
<1>3. CASE Calendar!SameMonth
  <2>1. y' = y /\ m' = m /\ d' = d + 1 /\ d' \in 1..Calendar!LastDay(y', m') BY <1>1, <1>3 DEF Calendar!SameMonth
  <2>2. SinceMarch(m, d + 1) = SinceMarch(m, d) + 1 /\ SinceMarch(m, d) \in Int BY <1>1, SinceInt
  <2>3. Calendar!DaysFromCivil(y, m, d + 1) = days + 1 BY <1>1, <1>2, <2>2, Converted
  <2>4. QED BY <1>1, <2>1, <2>3 DEF DateInv, Calendar!DaysMatch
<1>4. CASE Calendar!NextMonth
  <2>1. y' = y /\ m' = m + 1 /\ d' = 1 /\ m \in 1..11 /\ d = Calendar!LastDay(y, m)
    BY <1>1, <1>4 DEF Calendar!NextMonth
  <2>2. d' \in 1..Calendar!LastDay(y', m') BY <2>1, <1>1, LastDays
  <2>3. Calendar!DaysFromCivil(y, m + 1, 1) = days + 1
    <3>1. CASE m = 2
      <4>1. Marches(y) = Marches(y - 1) + (IF Calendar!Leap(y) THEN 366 ELSE 365)
        <5>1. y - 1 \in Nat /\ (y - 1) + 1 = y BY <1>1
        <5>2. QED BY <5>1, YearLength
      <4>2. d = IF Calendar!Leap(y) THEN 29 ELSE 28 BY <2>1, <3>1 DEF Calendar!LastDay
      <4>3. SinceMarch(3, 1) = 0 /\ SinceMarch(2, d) = 337 + d - 1 BY <1>1 DEF SinceMarch
      <4>4. Calendar!DaysFromCivil(y, 3, 1) = Marches(y) - 719468 BY <1>1, <4>3, Converted
      <4>5. QED BY <1>1, <1>2, <3>1, <4>1, <4>2, <4>3, <4>4
    <3>2. CASE m # 2
      <4>1. SinceMarch(m + 1, 1) = SinceMarch(m, d) + 1 BY <1>1, <2>1, <3>2, MonthLength
      <4>2. SinceMarch(m, d) \in Int BY <1>1, SinceInt
      <4>3. Calendar!DaysFromCivil(y, m + 1, 1) =
              (IF m + 1 <= 2 THEN Marches(y - 1) ELSE Marches(y)) + SinceMarch(m + 1, 1) - 719468
        BY <1>1, <2>1, Converted
      <4>4. QED BY <1>1, <1>2, <2>1, <3>2, <4>1, <4>2, <4>3
    <3>3. QED BY <3>1, <3>2
  <2>4. QED BY <1>1, <2>1, <2>2, <2>3 DEF DateInv, Calendar!DaysMatch
<1>5. CASE Calendar!NextYear
  <2>1. y' = y + 1 /\ m' = 1 /\ d' = 1 /\ m = 12 /\ d = 31 BY <1>1, <1>5 DEF Calendar!NextYear, Calendar!LastDay
  <2>2. d' \in 1..Calendar!LastDay(y', m') BY <2>1, <1>1, LastDays
  <2>3. SinceMarch(12, 31) = 305 /\ SinceMarch(1, 1) = 306 BY DEF SinceMarch
  <2>4. Calendar!DaysFromCivil(y + 1, 1, 1) = Marches(y) + 306 - 719468
    <3>1. y + 1 \in Nat /\ y + 1 > 0 /\ (y + 1) - 1 = y BY <1>1
    <3>2. QED BY <2>3, <3>1, Converted
  <2>5. Calendar!DaysFromCivil(y + 1, 1, 1) = days + 1 BY <1>1, <1>2, <2>1, <2>3, <2>4
  <2>6. QED BY <1>1, <2>1, <2>2, <2>5 DEF DateInv, Calendar!DaysMatch
<1>6. QED BY <1>3, <1>4, <1>5 DEF Calendar!Next

LEMMA DatesInit == Calendar!Init => DateInv
<1>1. Calendar!DaysFromCivil(1970, 1, 1) = 0 BY DEF Calendar!DaysFromCivil
<1>2. QED BY <1>1 DEF Calendar!Init, DateInv, Calendar!DaysMatch, Calendar!LastDay

-----------------------------------------------------------------------------
(* A step is one of the controller, or of the calendar, or of neither.     *)
LEMMA EachSteps ==
  ASSUME [DatedNext]_<<walking, vars, date>>
  PROVE  [Next]_vars /\ (Calendar!Next \/ UNCHANGED date)
BY DEF DatedNext

LEMMA JobInvariant == DatedSpec => []JobInv
<1>1. DatedInit => JobInv
  BY InitJob DEF DatedInit
<1>2. ASSUME JobInv, [DatedNext]_<<walking, vars, date>> PROVE JobInv'
  BY <1>2, EachSteps, JobStepKeeps
<1> QED BY <1>1, <1>2, PTL DEF DatedSpec

-----------------------------------------------------------------------------
(* Every reachable state is well typed; in particular no Job outlives its  *)
(* deadline.                                                               *)
THEOREM TypeCorrect == DatedSpec => []TypeOK
<1>1. JobInv => TypeOK
  BY DEF JobInv
<1> QED BY <1>1, JobInvariant, PTL

(* A taint only lands on a node that was, while the Job ran, silent past   *)
(* its limit within the budget of open failures, with the effect of its    *)
(* class: however stale the listing is when `kubectl taint` runs.          *)
THEOREM TaintsAreJustified == DatedSpec => TaintIsJustified
<1> DEFINE A == \A n \in Nodes : taint[n] = "none" /\ taint'[n] # "none" =>
                  n \in cases /\ taint'[n] = Effect(n, Masters)
<1>1. ASSUME JobInv, [Next]_vars PROVE [A]_vars
  <2> SUFFICES ASSUME Next, NEW n \in Nodes, taint[n] = "none", taint'[n] # "none"
               PROVE  n \in cases /\ taint'[n] = Effect(n, Masters)
    BY <1>1 DEF A
  <2>1. ASSUME NEW k \in Nodes, Taint(k)
        PROVE  n \in cases /\ taint'[n] = Effect(n, Masters)
    <3>1. n = k /\ taint'[n] = Effect(n, job.control)
      BY <1>1, <2>1 DEF Taint, JobInv, TypeOK
    <3>2. job.at = "apply" /\ n \in job.taint
      BY <2>1, <3>1 DEF Taint
    <3>3. n \in cases /\ job.control = Masters
      BY <1>1, <3>2 DEF JobInv, PlanWasSo, ClassKnown
    <3> QED BY <3>1, <3>3
  <2>2. ASSUME NEW k \in Nodes, Untaint(k) PROVE FALSE
    BY <1>1, <2>2 DEF Untaint, JobInv, TypeOK
  <2> QED
    BY <2>1, <2>2 DEF Next, JobStep, Start, List, ListMasters, Decide, Finish, Killed, Tick,
                      Label, Change, cluster
<1>2. ASSUME JobInv, [DatedNext]_<<walking, vars, date>> PROVE [A]_vars
  BY <1>1, <1>2, EachSteps
<1> QED BY <1>2, JobInvariant, PTL DEF DatedSpec, TaintIsJustified

(* The taint only comes off a node that was settled while the Job ran.     *)
THEOREM UntaintsAreSettled == DatedSpec => UntaintIsSettled
<1> DEFINE A == \A n \in Nodes : taint[n] # "none" /\ taint'[n] = "none" => n \in backs
<1>1. ASSUME JobInv, [Next]_vars PROVE [A]_vars
  <2> SUFFICES ASSUME Next, NEW n \in Nodes, taint[n] # "none", taint'[n] = "none"
               PROVE  n \in backs
    BY <1>1 DEF A
  <2>1. ASSUME NEW k \in Nodes, Untaint(k) PROVE n \in backs
    <3>1. n = k /\ job.at = "apply" /\ n \in job.untaint
      BY <1>1, <2>1 DEF Untaint, JobInv, TypeOK
    <3> QED BY <1>1, <3>1 DEF JobInv, PlanWasSo
  <2>2. ASSUME NEW k \in Nodes, Taint(k) PROVE FALSE
    BY <1>1, <2>2 DEF Taint, JobInv, TypeOK, Effect
  <2> QED
    BY <2>1, <2>2 DEF Next, JobStep, Start, List, ListMasters, Decide, Finish, Killed, Tick,
                      Label, Change, cluster
<1>2. ASSUME JobInv, [DatedNext]_<<walking, vars, date>> PROVE [A]_vars
  BY <1>1, <1>2, EachSteps
<1> QED BY <1>2, JobInvariant, PTL DEF DatedSpec, UntaintIsSettled

(* The days counted with integer arithmetic are those that passed since    *)
(* the epoch, for every date from 1970 on: over the ends of months, leap   *)
(* days, and the centuries that are leap years and those that are not.     *)
THEOREM DaysDoMatch == DatedSpec => []DaysMatch
<1>1. DatedInit => DateInv
  BY DatesInit DEF DatedInit
<1>2. ASSUME DateInv, [DatedNext]_<<walking, vars, date>> PROVE DateInv'
  <2>1. CASE Calendar!Next
    BY <1>2, <2>1, DatesStep
  <2>2. CASE UNCHANGED date
    BY <1>2, <2>2 DEF date, DateInv, Calendar!DaysMatch
  <2> QED BY <1>2, <2>1, <2>2, EachSteps
<1>3. DateInv => DaysMatch
  BY DEF DateInv, DaysMatch
<1> QED BY <1>1, <1>2, <1>3, PTL DEF DatedSpec
=============================================================================
