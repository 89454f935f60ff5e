------------------------ MODULE AlertResponderProofs ------------------------
(***************************************************************************)
(* What TLAPS proves of AlertResponder, for any alerts, windows and        *)
(* bounds: its types, that an incident is diagnosed once, that a pair is   *)
(* left alone for its cooldown, and that pages are capped.                 *)
(*                                                                         *)
(* The argument about the state ConfigMap is one about ages.  What a run   *)
(* did is at most RunSpan younger than the entry that says so, since the   *)
(* entry carries the time the run started; so an entry old enough to be    *)
(* dropped is about an incident that is out of scope or about a cooldown   *)
(* that is over.                                                           *)
(***************************************************************************)
EXTENDS AlertResponder, FiniteSetTheorems, TLAPS

Later  == {"run", "judge", "handoff", "page", "count", "escalate"}
Chosen == Later \cup {"summon"}

(* A unit names an alert, and a namespace.                                 *)
UnitKnown == job.at \in Chosen => job.unit # {} /\ job.space \in Spaces

(* What a run follows still fires; only what fires has a claim.            *)
LiveFires == job.live \subseteq firing /\ \A a \in Alerts \ firing : claim[a] = Gone

(* A claim is as old as its incident, but for the time a run takes, and an *)
(* incident that was diagnosed and has none is out of scope.               *)
ClaimAges(a) == claim[a] # Gone => claim[a] <= age[a] + RunSpan \/ age[a] >= MaxAge
ClaimsLast   == /\ \A a \in Alerts : ClaimAges(a)
                /\ \A a \in diagnosed : claim[a] # Gone \/ age[a] >= MaxAge

(* So a run never holds an incident that was diagnosed.                    *)
NoneTwice ==
  /\ job.at = "poll" => \A a \in diagnosed : a \in job.handled \/ age[a] >= MaxAge + job.ticks
  /\ job.at = "claim" => job.elig \cap job.live \cap diagnosed = {}
  /\ job.at = "summon" => /\ job.unit \cap job.live \cap diagnosed = {}
                          /\ \A a \in job.unit \cap job.live : claim[a] # Gone

OnceInv == LiveFires /\ ClaimsLast /\ NoneTwice

(* A pair that was diagnosed within the cooldown is marked, by itself or   *)
(* by a storm.                                                             *)
Rested(p) == since[p] + RunSpan >= Cooldown
Marked(p) == \E k \in {p, Wide(p[1])} : cool[k] <= since[p] + RunSpan
Cooled    == \A p \in Pairs : Rested(p) \/ Marked(p)

(* So a run never holds a pair that has not rested.                        *)
NoneTired ==
  /\ job.at = "poll" => \A a \in Alerts \ job.cooling : Rested(Pair(a))
  /\ job.at = "claim" => \A a \in job.elig : Rested(Pair(a))
  /\ job.at = "summon" => \A a \in job.unit : /\ Rested(Pair(a))
                                              /\ cool[CoolKey(job.unit, a)] <= job.ticks

CoolInv == Cooled /\ NoneTired

(* The pages of the hour are counted, but for the one a run is about to    *)
(* count and those whose count was lost; a run that lived through the turn *)
(* of the hour goes on counting the last one.                              *)
Owed(h) == IF job.at = "count" /\ job.hours = h THEN 1 ELSE 0
Counted ==
  /\ booked[0] <= count + faults + Owed(0) /\ booked[1] <= MaxPages + faults
  /\ job.at # "idle" =>
       /\ job.sent <= MaxPages /\ (job.at = "count" => job.sent < MaxPages)
       /\ job.hours = 0 => job.sent = count
       /\ job.hours = 1 => /\ clock < job.ticks
                           /\ booked[1] <= job.sent + faults + Owed(1)

ResponderInv == TypeOK /\ UnitKnown /\ OnceInv /\ CoolInv /\ Counted

-----------------------------------------------------------------------------
LEMMA CappedType == ASSUME NEW i \in Nat, NEW max \in Nat
                    PROVE  /\ Capped(i, max) \in 0..max
                           /\ Capped(i, max) = i \/ (Capped(i, max) = max /\ i > max)
BY DEF Capped

LEMMA BoundsType == /\ Gone \in Nat /\ Oldest \in Nat /\ Gone = Oldest + 1
                    /\ Oldest = Ttl + RunSpan /\ RunSpan \in Nat /\ Ttl \in Nat
                    /\ Cooldown \in Nat /\ MaxAge \in Nat /\ Hour \in Nat \ {0}
                    /\ MaxPages \in Nat /\ MaxFaults \in Nat /\ Ttl >= Cooldown
                    /\ Ttl >= MaxAge + RunSpan /\ RunSpan <= Hour /\ Storm \in Nat
BY AlertsAssumption DEF Gone, Oldest

LEMMA OlderType == ASSUME NEW i \in 0..Gone
                   PROVE  /\ Older(i) \in 0..Gone /\ (Older(i) = Gone <=> i = Gone)
                          /\ i # Gone => Older(i) <= i + 1
BY BoundsType DEF Older, Capped

LEMMA KeysOf == \A a \in Alerts : /\ Pair(a) \in Pairs /\ Pair(a) \in CoolKeys
                                  /\ Wide(NameOf[a]) \in CoolKeys /\ NameOf[a] \in Names
                                  /\ SpaceOf[a] \in Spaces /\ Pair(a)[1] = NameOf[a]
BY DEF Pair, Pairs, CoolKeys, Wide, Names, Spaces

LEMMA JobFields ==
  ASSUME TypeOK
  PROVE  /\ job.at \in {"idle", "poll", "claim", "summon"} \cup Later
         /\ job.ticks \in 0..RunSpan /\ job.hours \in 0..1 /\ job.sent \in Nat
         /\ job.handled \subseteq Alerts /\ job.cooling \subseteq Alerts
         /\ job.elig \subseteq Alerts /\ job.live \subseteq Alerts /\ job.unit \subseteq Alerts
         /\ job.space \in Spaces \cup {All}
         /\ job.action \in {"none", "investigate", "urgent"}
         /\ job \in Jobs
BY DEF TypeOK, Jobs, Later

LEMMA IdleType == Idle \in Jobs /\ Idle.at = "idle" /\ Idle.live = {} /\ Idle.ticks = 0
                  /\ Idle.hours = 0
BY BoundsType DEF Idle, Jobs

(* The units of a set of alerts are alerts, of one name when they storm.   *)
LEMMA UnitsOf ==
  ASSUME TypeOK, NEW unit \in Units
  PROVE  /\ unit \subseteq job.elig /\ unit \subseteq Alerts
         /\ \A a \in unit, b \in unit : CoolKey(unit, a) = CoolKey(unit, b)
         /\ \A a \in unit : CoolKey(unit, a) \in {Pair(a), Wide(NameOf[a])}
<1>1. job.elig \subseteq Alerts
  BY JobFields
<1>2. CASE Storms # {}
  <2>1. PICK n \in Names : unit = Named(n) /\ Cardinality(Named(n)) >= Storm
    BY <1>2 DEF Units, Storms
  <2> QED BY <1>1, <2>1 DEF Named, CoolKey
<1>3. CASE Storms = {}
  <2>1. PICK a \in job.elig : unit = {a}
    BY <1>3 DEF Units
  <2> QED BY <1>1, <2>1 DEF CoolKey
<1> QED BY <1>2, <1>3

LEMMA StateWriteType ==
  ASSUME TypeOK, NEW claims, NEW keys, StateWrite(claims, keys)
  PROVE  claim' \in [Alerts -> 0..Gone] /\ cool' \in [CoolKeys -> 0..Gone]
BY JobFields, BoundsType DEF StateWrite, TypeOK

LEMMA OrderType ==
  ASSUME TypeOK, UnitKnown, job.at = "handoff"
  PROVE  OrderKey \in Names \X Spaces \X Nat
<1>1. job.unit # {} /\ job.space \in Spaces /\ job.unit \subseteq Alerts
  BY JobFields DEF UnitKnown, Chosen, Later
<1>2. (CHOOSE a \in job.unit : TRUE) \in Alerts
  BY <1>1
<1>3. Condition[1] \in Names /\ Condition[2] \in Spaces
  BY <1>1, <1>2, KeysOf DEF Condition
<1>4. Cardinality(job.unit) \in Nat
  BY <1>1, AlertsAssumption, FS_Subset, FS_CardinalityType
<1> QED BY <1>3, <1>4 DEF OrderKey

-----------------------------------------------------------------------------
(* Types, and the unit of a run.                                           *)
LEMMA InitType == Init => TypeOK /\ UnitKnown
<1> SUFFICES ASSUME Init PROVE TypeOK /\ UnitKnown
  OBVIOUS
<1>1. job \in Jobs /\ job.at = "idle"
  BY IdleType DEF Init
<1>2. /\ 0 \in 0..(MaxAge + RunSpan) /\ Gone \in 0..Gone /\ 0 \in 0..MaxPages /\ 0 \in 0..(Hour - 1)
      /\ 0 \in 0..MaxFaults /\ Cooldown \in 0..Cooldown
  BY BoundsType
<1>3. TypeOK
  BY <1>1, <1>2 DEF Init, TypeOK
<1> QED BY <1>1, <1>3 DEF UnitKnown, Chosen, Later

LEMMA TickType == ASSUME TypeOK, UnitKnown, Tick PROVE TypeOK' /\ UnitKnown'
<1> DEFINE turn == clock + 1 = Hour
<1>1. /\ due' \in BOOLEAN /\ firing' = firing /\ orders' = orders /\ faults' = faults
      /\ diagnosed' = diagnosed
  BY DEF Tick
<1>2. age' \in [Alerts -> 0..(MaxAge + RunSpan)]
  <2>1. \A a \in Alerts : (IF a \in firing THEN Capped(age[a] + 1, MaxAge + RunSpan) ELSE 0)
                          \in 0..(MaxAge + RunSpan)
    <3>1. \A a \in Alerts : age[a] + 1 \in Nat
      BY BoundsType DEF TypeOK
    <3> QED BY <3>1, BoundsType DEF Capped
  <2> QED BY <2>1 DEF Tick
<1>3. claim' \in [Alerts -> 0..Gone] /\ cool' \in [CoolKeys -> 0..Gone]
  BY OlderType DEF Tick, TypeOK
<1>4. since' \in [Pairs -> 0..Cooldown]
  <2>1. \A q \in Pairs : Capped(since[q] + 1, Cooldown) \in 0..Cooldown
    <3>1. \A q \in Pairs : since[q] + 1 \in Nat
      BY BoundsType DEF TypeOK
    <3> QED BY <3>1, BoundsType DEF Capped
  <2> QED BY <2>1 DEF Tick
<1>5. clock' \in 0..(Hour - 1) /\ count' \in 0..MaxPages /\ booked' \in [0..1 -> Nat]
  BY BoundsType DEF Tick, TypeOK
<1>6. /\ job' \in Jobs /\ job'.at = job.at /\ job'.unit = job.unit /\ job'.space = job.space
  <2>1. CASE job.at = "idle"
    BY <2>1, JobFields DEF Tick
  <2>2. CASE job.at # "idle"
    <3>1. job.ticks + 1 \in 0..RunSpan
      BY <2>2, JobFields, BoundsType DEF Tick, InTime
    <3> DEFINE h == IF turn THEN 1 ELSE job.hours
    <3>2. job' = [job EXCEPT !.ticks = job.ticks + 1, !.hours = h]
      BY <2>2 DEF Tick
    <3>3. h \in 0..1
      BY JobFields
    <3> HIDE DEF h
    <3> QED BY <3>1, <3>2, <3>3, JobFields DEF Jobs
  <2> QED BY <2>1, <2>2
<1>7. TypeOK'
  BY <1>1, <1>2, <1>3, <1>4, <1>5, <1>6 DEF TypeOK
<1> QED BY <1>6, <1>7 DEF UnitKnown

LEMMA AlertType ==
  ASSUME TypeOK, UnitKnown, NEW a \in Alerts, Fire(a) \/ Resolve(a)
  PROVE  TypeOK' /\ UnitKnown'
<1>1. CASE Fire(a)
  BY <1>1 DEF Fire, TypeOK, UnitKnown, state, history
<1>2. CASE Resolve(a)
  <2>1. /\ job' \in Jobs /\ job'.at = job.at /\ job'.unit = job.unit /\ job'.space = job.space
    BY <1>2, JobFields DEF Resolve, Jobs
  <2>2. TypeOK'
    BY <1>2, <2>1, BoundsType DEF Resolve, TypeOK
  <2> QED BY <2>1, <2>2 DEF UnitKnown
<1> QED BY <1>1, <1>2

LEMMA FaultType == ASSUME TypeOK, Fault \/ UNCHANGED faults
                   PROVE  faults' \in 0..MaxFaults /\ faults' >= faults /\ faults' \in Nat
BY BoundsType DEF Fault, TypeOK

LEMMA ChooseType ==
  ASSUME TypeOK, UnitKnown, LiveFires, Start \/ Poll \/ Claim \/ ClaimRefused \/ Summon
  PROVE  TypeOK' /\ UnitKnown'
<1>0. faults' \in 0..MaxFaults
  BY FaultType DEF Start, Poll, Claim, ClaimRefused, Summon, history
<1>1. CASE Start
  <2>1. job' \in Jobs /\ job'.at \in {"idle", "poll"}
    <3>1. CASE job' = job
      BY <1>1, <3>1, JobFields DEF Start
    <3>2. CASE job' # job
      <4> DEFINE handled == {a \in Alerts : claim[a] # Gone}
                 cooling == {a \in Alerts : Cooling(a)}
      <4>1. job' = [Idle EXCEPT !.at = "poll", !.sent = count, !.handled = handled,
                               !.cooling = cooling]
        BY <1>1, <3>2 DEF Start
      <4>2. handled \in SUBSET Alerts /\ cooling \in SUBSET Alerts /\ count \in Nat
        BY BoundsType DEF TypeOK
      <4> HIDE DEF handled, cooling
      <4> QED BY <4>1, <4>2, IdleType DEF Jobs
    <3> QED BY <3>1, <3>2
  <2> QED BY <1>0, <1>1, <2>1 DEF Start, TypeOK, UnitKnown, Chosen, Later, alerts, state, history
<1>2. CASE Poll
  <2>1. job' \in Jobs /\ job'.at \in {"idle", "claim"}
    <3>1. CASE job' = Idle
      BY <3>1, IdleType
    <3>2. CASE job' # Idle
      <4>1. PICK elig \in SUBSET Alerts :
              job' = [job EXCEPT !.at = "claim", !.elig = elig, !.live = elig,
                                 !.handled = {}, !.cooling = {}]
        BY <1>2, <3>2 DEF Poll, TypeOK
      <4> QED BY <4>1, JobFields DEF Jobs
    <3> QED BY <3>1, <3>2
  <2> QED BY <1>0, <1>2, <2>1 DEF Poll, TypeOK, UnitKnown, Chosen, Later, alerts, state, history
<1>3. CASE Claim
  <2>1. PICK unit \in Units : \E a \in unit :
          /\ StateWrite(unit \cap job.live, {CoolKey(unit, a)})
          /\ job' = [job EXCEPT !.at = "summon", !.unit = unit, !.space = SpaceOf[a], !.elig = {}]
    BY <1>3 DEF Claim
  <2>2. PICK a \in unit :
          /\ StateWrite(unit \cap job.live, {CoolKey(unit, a)})
          /\ job' = [job EXCEPT !.at = "summon", !.unit = unit, !.space = SpaceOf[a], !.elig = {}]
    BY <2>1
  <2>6. unit \subseteq Alerts /\ SpaceOf[a] \in Spaces
    BY UnitsOf, KeysOf
  <2>3. job' \in Jobs /\ job'.unit = unit /\ job'.space = SpaceOf[a]
    BY <2>2, <2>6, JobFields DEF Jobs
  <2>4. claim' \in [Alerts -> 0..Gone] /\ cool' \in [CoolKeys -> 0..Gone]
    BY <2>2, StateWriteType
  <2>5. TypeOK'
    BY <1>0, <1>3, <2>3, <2>4 DEF Claim, TypeOK, alerts, history
  <2> QED BY <2>6, <2>3, <2>5 DEF UnitKnown
<1>4. CASE ClaimRefused
  <2>1. job' \in Jobs /\ job'.at \in {"idle", "claim"}
    <3>1. CASE job' = Idle
      BY <3>1, IdleType
    <3>2. CASE job' # Idle
      <4>1. PICK unit \in Units : job' = [job EXCEPT !.elig = @ \ unit, !.live = @ \ unit]
        BY <1>4, <3>2 DEF ClaimRefused
      <4> QED BY <1>4, <4>1, JobFields DEF Jobs, ClaimRefused
    <3> QED BY <3>1, <3>2
  <2>2. claim' \in [Alerts -> 0..Gone] /\ cool' \in [CoolKeys -> 0..Gone]
    BY <1>4, StateWriteType DEF ClaimRefused, TypeOK
  <2> QED BY <1>0, <1>4, <2>1, <2>2 DEF ClaimRefused, TypeOK, UnitKnown, Chosen, Later, alerts, history
<1>5. CASE Summon
  <2>1. job' \in Jobs /\ job'.unit = job.unit /\ job'.space = job.space
    BY <1>5, JobFields DEF Summon, Jobs
  <2>2. since' \in [Pairs -> 0..Cooldown]
    BY <1>5, BoundsType DEF Summon, TypeOK
  <2>3. diagnosed' \subseteq firing /\ firing' = firing
    BY <1>5 DEF Summon, LiveFires, TypeOK, alerts
  <2> QED BY <1>0, <1>5, <2>1, <2>2, <2>3, JobFields
          DEF Summon, TypeOK, UnitKnown, Chosen, alerts, state
<1> QED BY <1>1, <1>2, <1>3, <1>4, <1>5

(* What is left of a run after its summons: its steps, or its end.         *)
Rest == Return \/ Judge \/ Handoff \/ Page \/ Count \/ Escalate \/ Killed

Moves == /\ job.at \in Later /\ job'.at \in Later /\ job' \in Jobs
         /\ job'.unit = job.unit /\ job'.space = job.space /\ job'.live = job.live
         /\ job'.ticks = job.ticks /\ job'.hours = job.hours /\ job'.sent = job.sent

LEMMA RestMoves ==
  ASSUME TypeOK, Rest
  PROVE  /\ job' = Idle \/ Moves
         /\ UNCHANGED <<firing, age, clock, due, diagnosed, since>>
         /\ UNCHANGED <<claim, cool>> \/ StateWrite({}, {})
         /\ Fault \/ UNCHANGED faults
<1>1. /\ UNCHANGED <<firing, age, clock, due, diagnosed, since>>
      /\ UNCHANGED <<claim, cool>> \/ StateWrite({}, {})
      /\ Fault \/ UNCHANGED faults
  BY DEF Rest, Return, Judge, Handoff, Page, Count, Escalate, Killed, alerts, state, history
<1>2. ASSUME job' # Idle PROVE Moves
  <2>1. job.at \in Later /\ \E at \in Later, action \in {"none", "investigate", "urgent"} :
          job' = [job EXCEPT !.at = at, !.action = action]
    <3>1. CASE Return
      <4>1. CASE \E action \in {"investigate", "urgent"} :
                   job' = [job EXCEPT !.at = "judge", !.action = action]
        BY <3>1, <4>1 DEF Return, Later
      <4>2. CASE job' = [job EXCEPT !.at = "escalate"]
        <5>1. job' = [job EXCEPT !.at = "escalate", !.action = job.action]
          BY <4>2, JobFields DEF Jobs
        <5> QED BY <3>1, <5>1, JobFields DEF Return, Later
      <4> QED BY <1>2, <3>1, <4>1, <4>2 DEF Return
    <3>2. CASE Judge \/ Handoff \/ Page
      <4>1. job.at \in Later /\ \E at \in {"handoff", "page", "count"} : job' = [job EXCEPT !.at = at]
        BY <1>2, <3>2 DEF Judge, Handoff, Page, Later
      <4>2. PICK at \in {"handoff", "page", "count"} : job' = [job EXCEPT !.at = at]
        BY <4>1
      <4>3. job' = [job EXCEPT !.at = at, !.action = job.action]
        BY <4>2, JobFields DEF Jobs
      <4> QED BY <4>1, <4>3, JobFields DEF Later
    <3>3. CASE Count \/ Escalate \/ Killed
      BY <1>2, <3>3 DEF Count, Escalate, Killed
    <3> QED BY <3>1, <3>2, <3>3 DEF Rest
  <2>2. PICK at \in Later, action \in {"none", "investigate", "urgent"} :
          job' = [job EXCEPT !.at = at, !.action = action]
    BY <2>1
  <2> QED BY <2>1, <2>2, JobFields DEF Moves, Jobs, Later
<1> QED BY <1>1, <1>2

LEMMA RestType ==
  ASSUME TypeOK, UnitKnown, Counted, Rest
  PROVE  TypeOK' /\ UnitKnown'
<1>1. faults' \in 0..MaxFaults
  BY FaultType, RestMoves
<1>2. job' \in Jobs
  BY RestMoves, IdleType DEF Moves
<1>3. UnitKnown'
  BY RestMoves, IdleType DEF Moves, UnitKnown, Chosen, Later
<1>4. claim' \in [Alerts -> 0..Gone] /\ cool' \in [CoolKeys -> 0..Gone]
  BY RestMoves, StateWriteType DEF TypeOK
<1>5. orders' \subseteq (Names \X Spaces \X Nat)
  <2>1. CASE Handoff
    <3>1. OrderKey \in Names \X Spaces \X Nat
      BY <2>1, OrderType DEF Handoff
    <3> QED BY <2>1, <3>1 DEF Handoff, TypeOK
  <2> QED BY <2>1 DEF Rest, Return, Judge, Page, Count, Escalate, Killed, TypeOK
<1>6. count' \in 0..MaxPages
  <2>1. CASE Count
    <3>1. job.sent \in Nat /\ job.sent < MaxPages
      BY <2>1, JobFields DEF Count, Counted
    <3> QED BY <2>1, <3>1, BoundsType DEF Count, TypeOK, state
  <2> QED BY <2>1 DEF Rest, Return, Judge, Handoff, Page, Escalate, Killed, TypeOK, state
<1>7. booked' \in [0..1 -> Nat]
  <2>1. CASE Page
    <3>1. job.hours \in 0..1
      BY JobFields
    <3> QED BY <2>1, <3>1 DEF Page, TypeOK
  <2> QED BY <2>1 DEF Rest, Return, Judge, Handoff, Count, Escalate, Killed, TypeOK, history
<1> QED BY <1>1, <1>2, <1>3, <1>4, <1>5, <1>6, <1>7, RestMoves DEF TypeOK

-----------------------------------------------------------------------------
(* An incident is diagnosed once.                                          *)

(* A write drops no claim that matters: what is dropped is out of scope.   *)
LEMMA WriteKeepsClaims ==
  ASSUME TypeOK, LiveFires, ClaimsLast, NEW claims \in SUBSET firing, NEW keys,
         StateWrite(claims, keys), UNCHANGED <<firing, age, diagnosed>>
  PROVE  /\ \A a \in Alerts \ firing : claim'[a] = Gone
         /\ ClaimsLast'
         /\ \A a \in claims : claim'[a] # Gone
<1>1. job.ticks \in 0..RunSpan
  BY JobFields
<1>2. \A a \in Alerts : claim'[a] = IF a \in claims THEN job.ticks
                                    ELSE IF Fresh(claim[a]) THEN claim[a] ELSE Gone
  BY DEF StateWrite
<1>3. claims \subseteq Alerts
  BY DEF TypeOK
<1>4. \A a \in Alerts : age[a] \in Nat /\ claim[a] \in 0..Gone
  BY BoundsType DEF TypeOK
<1>5. \A a \in claims : claim'[a] = job.ticks /\ job.ticks # Gone
  BY <1>1, <1>2, <1>3, BoundsType
<1>6. \A a \in Alerts \ claims : ~Fresh(claim[a]) /\ claim[a] # Gone => age[a] >= MaxAge
  <2> SUFFICES ASSUME NEW a \in Alerts \ claims, ~Fresh(claim[a]), claim[a] # Gone
               PROVE  age[a] >= MaxAge
    OBVIOUS
  <2>1. ClaimAges(a)
    BY DEF ClaimsLast
  <2> QED BY <1>1, <1>4, <2>1, BoundsType DEF ClaimAges, Fresh
<1>7. \A a \in Alerts : ClaimAges(a)'
  <2> SUFFICES ASSUME NEW a \in Alerts, claim'[a] # Gone
               PROVE  claim'[a] <= age[a] + RunSpan \/ age[a] >= MaxAge
    BY DEF ClaimAges
  <2>1. CASE a \in claims
    BY <1>1, <1>4, <1>5, <2>1, BoundsType
  <2>2. CASE a \notin claims
    <3>1. claim'[a] = claim[a] /\ ClaimAges(a)
      BY <1>2, <2>2 DEF ClaimsLast
    <3> QED BY <3>1 DEF ClaimAges
  <2> QED BY <2>1, <2>2
<1>8. \A a \in diagnosed : claim'[a] # Gone \/ age[a] >= MaxAge
  BY <1>2, <1>3, <1>5, <1>6 DEF ClaimsLast, TypeOK
<1>9. \A a \in Alerts \ firing : claim'[a] = Gone
  BY <1>2 DEF LiveFires
<1> QED BY <1>5, <1>7, <1>8, <1>9 DEF ClaimsLast, ClaimAges

LEMMA InitOnce == Init => OnceInv
BY DEF Init, OnceInv, LiveFires, ClaimsLast, ClaimAges, NoneTwice, Idle

LEMMA TickOnce == ASSUME TypeOK, OnceInv, Tick PROVE OnceInv'
<1>1. /\ firing' = firing /\ diagnosed' = diagnosed
      /\ \A a \in Alerts : claim'[a] = Older(claim[a])
      /\ \A a \in Alerts : age'[a] = IF a \in firing THEN Capped(age[a] + 1, MaxAge + RunSpan) ELSE 0
  BY DEF Tick
<1>2. \A a \in Alerts : claim[a] \in 0..Gone /\ age[a] \in Nat
  BY BoundsType DEF TypeOK
<1>3. \A a \in Alerts : claim'[a] \in 0..Gone /\ (claim'[a] = Gone <=> claim[a] = Gone)
                        /\ (claim[a] # Gone => claim'[a] <= claim[a] + 1)
  BY <1>1, <1>2, OlderType
<1>4. \A a \in firing : /\ age'[a] \in Nat
                        /\ age'[a] = age[a] + 1 \/ (age'[a] = MaxAge + RunSpan /\ age[a] + 1 > MaxAge + RunSpan)
  BY <1>1, <1>2, BoundsType DEF Capped, TypeOK
<1>5. /\ job'.at = job.at /\ job'.live = job.live /\ job'.handled = job.handled
      /\ job'.elig = job.elig /\ job'.unit = job.unit
      /\ job.at = "poll" => job'.ticks = job.ticks + 1 /\ job'.ticks \in 0..RunSpan
  <2>1. CASE job.at = "idle"
    BY <2>1 DEF Tick
  <2>2. CASE job.at # "idle"
    <3> DEFINE h == IF clock + 1 = Hour THEN 1 ELSE job.hours
    <3>1. job' = [job EXCEPT !.ticks = job.ticks + 1, !.hours = h]
      BY <2>2 DEF Tick
    <3>2. job.ticks + 1 \in 0..RunSpan
      BY <2>2, JobFields, BoundsType DEF Tick, InTime
    <3> HIDE DEF h
    <3> QED BY <3>1, <3>2, JobFields DEF Jobs
  <2> QED BY <2>1, <2>2
<1>6. LiveFires'
  BY <1>1, <1>3, <1>5 DEF OnceInv, LiveFires
<1>7. \A a \in Alerts : ClaimAges(a)'
  <2> SUFFICES ASSUME NEW a \in Alerts, claim'[a] # Gone
               PROVE  claim'[a] <= age'[a] + RunSpan \/ age'[a] >= MaxAge
    BY DEF ClaimAges
  <2>1. a \in firing /\ claim[a] # Gone /\ ClaimAges(a)
    BY <1>3 DEF OnceInv, LiveFires, ClaimsLast
  <2> QED BY <1>2, <1>3, <1>4, <2>1, BoundsType DEF ClaimAges
<1>8. \A a \in diagnosed : claim'[a] # Gone \/ age'[a] >= MaxAge
  <2> SUFFICES ASSUME NEW a \in diagnosed, claim'[a] = Gone PROVE age'[a] >= MaxAge
    OBVIOUS
  <2>1. a \in firing /\ a \in Alerts /\ age[a] >= MaxAge
    BY <1>3 DEF OnceInv, ClaimsLast, TypeOK
  <2> QED BY <1>2, <1>4, <2>1, BoundsType
<1>9. job'.at = "poll" => \A a \in diagnosed : a \in job'.handled \/ age'[a] >= MaxAge + job'.ticks
  <2> SUFFICES ASSUME job.at = "poll", NEW a \in diagnosed, a \notin job.handled
               PROVE  age'[a] >= MaxAge + job'.ticks
    BY <1>5
  <2>1. a \in firing /\ a \in Alerts /\ age[a] >= MaxAge + job.ticks
    BY DEF OnceInv, NoneTwice, TypeOK
  <2>2. job.ticks \in Nat
    BY JobFields, BoundsType
  <2> QED BY <1>2, <1>4, <1>5, <2>1, <2>2, BoundsType
<1>10. NoneTwice'
  BY <1>1, <1>3, <1>5, <1>9, JobFields DEF OnceInv, NoneTwice
<1> QED BY <1>1, <1>6, <1>7, <1>8, <1>10 DEF OnceInv, ClaimsLast

LEMMA AlertOnce ==
  ASSUME TypeOK, OnceInv, NEW a \in Alerts, Fire(a) \/ Resolve(a)
  PROVE  OnceInv'
<1>1. CASE Fire(a)
  BY <1>1 DEF Fire, OnceInv, LiveFires, ClaimsLast, ClaimAges, NoneTwice, state, history
<1>2. CASE Resolve(a)
  <2>1. /\ job'.at = job.at /\ job'.elig = job.elig /\ job'.unit = job.unit
        /\ job'.ticks = job.ticks /\ job'.live = job.live \ {a}
        /\ job'.handled = job.handled \ {a}
    BY <1>2, JobFields DEF Resolve, Jobs
  <2>2. /\ firing' = firing \ {a} /\ diagnosed' = diagnosed \ {a} /\ claim'[a] = Gone
        /\ \A b \in Alerts \ {a} : claim'[b] = claim[b] /\ age'[b] = age[b]
    BY <1>2 DEF Resolve, TypeOK
  <2>3. diagnosed \subseteq Alerts /\ job.live \subseteq Alerts
    BY JobFields DEF TypeOK
  <2>4. LiveFires'
    BY <2>1, <2>2 DEF OnceInv, LiveFires
  <2>5. ClaimsLast'
    BY <2>2, <2>3 DEF OnceInv, ClaimsLast, ClaimAges
  <2>6. NoneTwice'
    BY <2>1, <2>2, <2>3 DEF OnceInv, NoneTwice
  <2> QED BY <2>4, <2>5, <2>6 DEF OnceInv
<1> QED BY <1>1, <1>2

LEMMA ChooseOnce ==
  ASSUME TypeOK, OnceInv, Start \/ Poll \/ Claim \/ ClaimRefused \/ Summon
  PROVE  OnceInv'
<1>1. CASE Start
  <2>1. UNCHANGED <<firing, age, claim, diagnosed>>
    BY <1>1 DEF Start, alerts, state, history
  <2>2. CASE job' = job
    BY <2>1, <2>2 DEF OnceInv, LiveFires, ClaimsLast, ClaimAges, NoneTwice
  <2>3. CASE job' # job
    <3> DEFINE handled == {a \in Alerts : claim[a] # Gone}
               cooling == {a \in Alerts : Cooling(a)}
    <3>1. job' = [Idle EXCEPT !.at = "poll", !.sent = count, !.handled = handled,
                             !.cooling = cooling]
      BY <1>1, <2>3 DEF Start
    <3>2. handled = {a \in Alerts : claim[a] # Gone}
      OBVIOUS
    <3> HIDE DEF handled, cooling
    <3>3. job'.at = "poll" /\ job'.handled = handled /\ job'.live = {} /\ job'.ticks = 0
      BY <3>1 DEF Idle
    <3>4. NoneTwice'
      BY <2>1, <3>2, <3>3, BoundsType DEF OnceInv, ClaimsLast, NoneTwice, TypeOK
    <3> QED BY <2>1, <3>3, <3>4 DEF OnceInv, LiveFires, ClaimsLast, ClaimAges
  <2> QED BY <2>2, <2>3
<1>2. CASE Poll
  <2> DEFINE elig == {a \in firing : age[a] < MaxAge + job.ticks} \ (job.handled \cup job.cooling)
  <2>1. UNCHANGED <<firing, age, claim, diagnosed>>
    BY <1>2 DEF Poll, alerts, state, history
  <2>2. CASE job' = Idle
    BY <2>1, <2>2 DEF OnceInv, LiveFires, ClaimsLast, ClaimAges, NoneTwice, Idle
  <2>3. CASE job' # Idle
    <3>1. job.at = "poll" /\ job' = [job EXCEPT !.at = "claim", !.elig = elig, !.live = elig,
                                     !.handled = {}, !.cooling = {}]
      BY <1>2, <2>3 DEF Poll
    <3>2. elig \subseteq firing /\ elig \cap diagnosed = {}
      <4>1. \A a \in elig : age[a] \in Nat /\ age[a] < MaxAge + job.ticks /\ a \notin job.handled
        BY BoundsType DEF TypeOK
      <4>2. \A a \in diagnosed : a \in job.handled \/ age[a] >= MaxAge + job.ticks
        BY <3>1 DEF OnceInv, NoneTwice
      <4>3. job.ticks \in Nat /\ MaxAge \in Nat
        BY JobFields, BoundsType
      <4> HIDE DEF elig
      <4>4. \A a \in elig \cap diagnosed : FALSE
        BY <4>1, <4>2, <4>3
      <4>5. elig \subseteq firing
        BY DEF elig
      <4> QED BY <4>4, <4>5
    <3> HIDE DEF elig
    <3>3. job'.at = "claim" /\ job'.elig = elig /\ job'.live = elig
      BY <3>1, JobFields DEF Jobs
    <3> QED BY <2>1, <3>2, <3>3 DEF OnceInv, LiveFires, ClaimsLast, ClaimAges, NoneTwice
  <2> QED BY <2>2, <2>3
<1>3. CASE Claim
  <2>1. UNCHANGED <<firing, age, diagnosed>> /\ job.at = "claim"
    BY <1>3 DEF Claim, alerts, history
  <2>2. PICK unit \in Units : \E a \in unit :
          /\ StateWrite(unit \cap job.live, {CoolKey(unit, a)})
          /\ job' = [job EXCEPT !.at = "summon", !.unit = unit, !.space = SpaceOf[a], !.elig = {}]
    BY <1>3 DEF Claim
  <2>3. PICK a \in unit :
          /\ StateWrite(unit \cap job.live, {CoolKey(unit, a)})
          /\ job' = [job EXCEPT !.at = "summon", !.unit = unit, !.space = SpaceOf[a], !.elig = {}]
    BY <2>2
  <2>4. job'.at = "summon" /\ job'.unit = unit /\ job'.live = job.live
    BY <2>3, JobFields DEF Jobs
  <2>5. unit \subseteq job.elig
    BY UnitsOf
  <2>6. unit \cap job.live \in SUBSET firing
    BY DEF OnceInv, LiveFires
  <2>7. /\ \A b \in Alerts \ firing : claim'[b] = Gone
        /\ ClaimsLast'
        /\ \A b \in unit \cap job.live : claim'[b] # Gone
    BY <2>1, <2>3, <2>6, WriteKeepsClaims DEF OnceInv
  <2> QED BY <2>1, <2>4, <2>5, <2>7 DEF OnceInv, LiveFires, NoneTwice
<1>4. CASE ClaimRefused
  <2>1. UNCHANGED <<firing, age, diagnosed>> /\ job.at = "claim"
    BY <1>4 DEF ClaimRefused, alerts, history
  <2>2. ClaimsLast' /\ \A b \in Alerts \ firing : claim'[b] = Gone
    <3>1. CASE UNCHANGED <<claim, cool>>
      BY <2>1, <3>1 DEF OnceInv, LiveFires, ClaimsLast, ClaimAges
    <3>2. CASE ~UNCHANGED <<claim, cool>>
      <4>1. PICK unit \in Units : \E a \in unit :
              StateWrite(unit \cap job.live, {CoolKey(unit, a)})
        BY <1>4, <3>2 DEF ClaimRefused
      <4>2. PICK a \in unit : StateWrite(unit \cap job.live, {CoolKey(unit, a)})
        BY <4>1
      <4>3. unit \cap job.live \in SUBSET firing
        BY DEF OnceInv, LiveFires
      <4> QED BY <2>1, <4>2, <4>3, WriteKeepsClaims DEF OnceInv
    <3> QED BY <3>1, <3>2
  <2>3. job' = Idle \/ (job'.at = "claim" /\ job'.elig \subseteq job.elig /\ job'.live \subseteq job.live)
    <3>1. ASSUME job' # Idle
          PROVE  \E unit \in Units : job' = [job EXCEPT !.elig = @ \ unit, !.live = @ \ unit]
      BY <1>4, <3>1 DEF ClaimRefused
    <3> QED BY <2>1, <3>1, JobFields DEF Jobs
  <2> QED BY <2>1, <2>2, <2>3, IdleType DEF OnceInv, LiveFires, NoneTwice
<1>5. CASE Summon
  <2>1. UNCHANGED <<firing, age, claim>> /\ diagnosed' = diagnosed \cup (job.unit \cap job.live)
    BY <1>5 DEF Summon, alerts, state
  <2>2. job'.at = "run" /\ job'.live = job.live
    BY <1>5, JobFields DEF Summon, Jobs
  <2>3. \A a \in job.unit \cap job.live : claim[a] # Gone
    BY <1>5 DEF Summon, OnceInv, NoneTwice
  <2> QED BY <2>1, <2>2, <2>3 DEF OnceInv, LiveFires, ClaimsLast, ClaimAges, NoneTwice
<1> QED BY <1>1, <1>2, <1>3, <1>4, <1>5

LEMMA RestOnce == ASSUME TypeOK, OnceInv, Rest PROVE OnceInv'
<1>1. UNCHANGED <<firing, age, diagnosed>>
  BY RestMoves
<1>2. ClaimsLast' /\ \A b \in Alerts \ firing : claim'[b] = Gone
  <2>1. CASE UNCHANGED <<claim, cool>>
    BY <1>1, <2>1 DEF OnceInv, LiveFires, ClaimsLast, ClaimAges
  <2>2. CASE StateWrite({}, {})
    <3>1. {} \in SUBSET firing
      OBVIOUS
    <3> QED BY <1>1, <2>2, <3>1, WriteKeepsClaims DEF OnceInv
  <2> QED BY <2>1, <2>2, RestMoves
<1>3. job'.live \subseteq job.live /\ job'.at \notin {"poll", "claim", "summon"}
  BY RestMoves, IdleType DEF Moves, Later
<1> QED BY <1>1, <1>2, <1>3 DEF OnceInv, LiveFires, NoneTwice

-----------------------------------------------------------------------------
(* A pair that was diagnosed rests for its cooldown.                       *)

LEMMA WriteKeepsMarks ==
  ASSUME TypeOK, Cooled, NEW claims, NEW keys, StateWrite(claims, keys), since' = since
  PROVE  /\ Cooled'
         /\ \A k \in keys \cap CoolKeys : cool'[k] = job.ticks
<1>1. job.ticks \in 0..RunSpan
  BY JobFields
<1>2. \A k \in CoolKeys : cool'[k] = IF k \in keys THEN job.ticks
                                     ELSE IF Fresh(cool[k]) THEN cool[k] ELSE Gone
  BY DEF StateWrite
<1>3. \A q \in Pairs : q \in CoolKeys /\ Wide(q[1]) \in CoolKeys /\ since[q] \in 0..Cooldown
  BY KeysOf DEF Pairs, TypeOK, CoolKeys
<1>4. \A k \in CoolKeys : cool[k] \in 0..Gone
  BY DEF TypeOK
<1>5. ASSUME NEW q \in Pairs PROVE Rested(q) \/ Marked(q)'
  <2> SUFFICES ASSUME ~Rested(q) PROVE Marked(q)'
    OBVIOUS
  <2>1. PICK k \in {q, Wide(q[1])} : cool[k] <= since[q] + RunSpan
    BY DEF Cooled, Marked
  <2>2. k \in CoolKeys /\ cool[k] \in 0..Gone /\ since[q] \in 0..Cooldown
    BY <1>3, <1>4
  <2>3. since[q] + RunSpan < Cooldown
    BY <2>2, BoundsType DEF Rested
  <2>4. cool'[k] <= since[q] + RunSpan
    BY <1>1, <1>2, <2>1, <2>2, <2>3, BoundsType DEF Fresh
  <2> QED BY <2>4 DEF Marked
<1> QED BY <1>2, <1>5 DEF Cooled, Rested

LEMMA InitCool == Init => CoolInv
<1> SUFFICES ASSUME Init PROVE CoolInv
  OBVIOUS
<1>1. \A q \in Pairs : Rested(q)
  BY BoundsType DEF Init, Rested
<1> QED BY <1>1, IdleType DEF Init, CoolInv, Cooled, NoneTired

LEMMA TickCool == ASSUME TypeOK, CoolInv, Tick PROVE CoolInv'
<1>1. /\ \A k \in CoolKeys : cool'[k] = Older(cool[k]) /\ cool[k] \in 0..Gone
      /\ \A q \in Pairs : /\ since'[q] = Capped(since[q] + 1, Cooldown)
                          /\ since[q] \in 0..Cooldown
                          /\ q \in CoolKeys /\ Wide(q[1]) \in CoolKeys
  BY KeysOf DEF Tick, TypeOK, Pairs, CoolKeys
<1>2. \A q \in Pairs : /\ since'[q] \in Nat
                       /\ since'[q] = since[q] + 1 \/ since'[q] = Cooldown
                       /\ since'[q] >= since[q]
  BY <1>1, BoundsType DEF Capped
<1>3. \A q \in Pairs : Rested(q) => Rested(q)'
  BY <1>1, <1>2, BoundsType DEF Rested
<1>4. ASSUME NEW q \in Pairs, Marked(q) PROVE Rested(q)' \/ Marked(q)'
  <2>1. PICK k \in {q, Wide(q[1])} : cool[k] <= since[q] + RunSpan
    BY <1>4 DEF Marked
  <2>2. k \in CoolKeys /\ cool[k] \in 0..Gone /\ cool[k] # Gone
    BY <1>1, <2>1, BoundsType
  <2>3. cool'[k] <= cool[k] + 1 /\ cool'[k] \in 0..Gone
    BY <1>1, <2>2, OlderType
  <2>4. CASE since'[q] = Cooldown
    BY <2>4, BoundsType DEF Rested
  <2>5. CASE since'[q] = since[q] + 1
    <3>1. cool'[k] <= since'[q] + RunSpan
      BY <1>1, <2>1, <2>2, <2>3, <2>5, BoundsType
    <3> QED BY <3>1 DEF Marked
  <2> QED BY <1>2, <2>4, <2>5
<1>5. /\ job'.at = job.at /\ job'.cooling = job.cooling /\ job'.elig = job.elig
      /\ job'.unit = job.unit /\ (job.at = "summon" => job'.ticks = job.ticks + 1)
  <2>1. CASE job.at = "idle"
    BY <2>1 DEF Tick
  <2>2. CASE job.at # "idle"
    <3> DEFINE h == IF clock + 1 = Hour THEN 1 ELSE job.hours
    <3>1. job' = [job EXCEPT !.ticks = job.ticks + 1, !.hours = h]
      BY <2>2 DEF Tick
    <3> HIDE DEF h
    <3> QED BY <3>1, JobFields DEF Jobs
  <2> QED BY <2>1, <2>2
<1>6. Cooled'
  BY <1>3, <1>4 DEF CoolInv, Cooled
<1>7. ASSUME job.at = "summon", NEW a \in job.unit
      PROVE  cool'[CoolKey(job.unit, a)] <= job.ticks + 1
  <2>1. CoolKey(job.unit, a) \in CoolKeys /\ cool[CoolKey(job.unit, a)] <= job.ticks
    BY <1>7, JobFields, KeysOf DEF CoolInv, NoneTired, CoolKey
  <2>2. PICK k \in CoolKeys : k = CoolKey(job.unit, a)
    BY <2>1
  <2>3. job.ticks \in 0..RunSpan
    BY JobFields
  <2>4. cool[k] # Gone /\ cool[k] \in 0..Gone /\ cool'[k] = Older(cool[k])
    BY <1>1, <2>1, <2>2, <2>3, BoundsType
  <2> QED BY <2>1, <2>2, <2>3, <2>4, OlderType, BoundsType
<1>8. \A a \in Alerts : Rested(Pair(a)) => Rested(Pair(a))'
  BY <1>3, KeysOf DEF Rested, Pair
<1>9. \A a \in job.unit : CoolKey(job.unit, a)' = CoolKey(job.unit, a)
  BY <1>5 DEF CoolKey, Pair, Wide
<1>10. NoneTired'
  BY <1>5, <1>7, <1>8, <1>9, JobFields DEF CoolInv, NoneTired, CoolKey, Pair, Wide
<1> QED BY <1>6, <1>10 DEF CoolInv

LEMMA AlertCool ==
  ASSUME TypeOK, CoolInv, NEW a \in Alerts, Fire(a) \/ Resolve(a)
  PROVE  CoolInv'
<1>1. UNCHANGED <<cool, since>>
  BY DEF Fire, Resolve, state, history
<1>2. /\ job'.at = job.at /\ job'.cooling = job.cooling /\ job'.elig = job.elig
      /\ job'.unit = job.unit /\ job'.ticks = job.ticks
  BY JobFields DEF Fire, Resolve, Jobs
<1> QED BY <1>1, <1>2 DEF CoolInv, Cooled, NoneTired, Rested, Marked, CoolKey

LEMMA ChooseCool ==
  ASSUME TypeOK, CoolInv, Start \/ Poll \/ Claim \/ ClaimRefused \/ Summon
  PROVE  CoolInv'
<1>1. CASE Start
  <2>1. UNCHANGED <<cool, since>>
    BY <1>1 DEF Start, state, history
  <2>2. CASE job' = job
    BY <2>1, <2>2 DEF CoolInv, Cooled, NoneTired, Rested, Marked, CoolKey
  <2>3. CASE job' # job
    <3> DEFINE handled == {a \in Alerts : claim[a] # Gone}
               cooling == {a \in Alerts : Cooling(a)}
    <3>1. job' = [Idle EXCEPT !.at = "poll", !.sent = count, !.handled = handled,
                             !.cooling = cooling]
      BY <1>1, <2>3 DEF Start
    <3>2. \A a \in Alerts \ cooling : Rested(Pair(a))
      <4> SUFFICES ASSUME NEW a \in Alerts, ~Cooling(a) PROVE Rested(Pair(a))
        OBVIOUS
      <4>1. /\ Pair(a) \in Pairs /\ Pair(a) \in CoolKeys /\ Wide(NameOf[a]) \in CoolKeys
            /\ Pair(a)[1] = NameOf[a]
        BY KeysOf
      <4>2. cool[Pair(a)] >= Cooldown /\ cool[Wide(NameOf[a])] >= Cooldown
        BY <4>1, BoundsType DEF Cooling, TypeOK
      <4>3. PICK q \in Pairs : q = Pair(a)
        BY <4>1
      <4>4. Rested(q) \/ Marked(q)
        BY DEF CoolInv, Cooled
      <4>5. Marked(q) => since[q] + RunSpan >= Cooldown
        BY <4>1, <4>2, <4>3, BoundsType DEF Marked, TypeOK
      <4> QED BY <4>3, <4>4, <4>5 DEF Rested
    <3> HIDE DEF handled, cooling
    <3>3. job'.at = "poll" /\ job'.cooling = cooling
      BY <3>1 DEF Idle
    <3> QED BY <2>1, <3>2, <3>3 DEF CoolInv, Cooled, NoneTired, Rested, Marked
  <2> QED BY <2>2, <2>3
<1>2. CASE Poll
  <2> DEFINE elig == {a \in firing : age[a] < MaxAge + job.ticks} \ (job.handled \cup job.cooling)
  <2>1. UNCHANGED <<cool, since>>
    BY <1>2 DEF Poll, state, history
  <2>2. CASE job' = Idle
    BY <2>1, <2>2, IdleType DEF CoolInv, Cooled, NoneTired, Rested, Marked
  <2>3. CASE job' # Idle
    <3>1. job.at = "poll" /\ job' = [job EXCEPT !.at = "claim", !.elig = elig, !.live = elig,
                                     !.handled = {}, !.cooling = {}]
      BY <1>2, <2>3 DEF Poll
    <3>2. elig \subseteq Alerts \ job.cooling
      BY DEF TypeOK
    <3> HIDE DEF elig
    <3>3. job'.at = "claim" /\ job'.elig = elig
      BY <3>1, JobFields DEF Jobs
    <3> QED BY <2>1, <3>1, <3>2, <3>3 DEF CoolInv, Cooled, NoneTired, Rested, Marked
  <2> QED BY <2>2, <2>3
<1>3. CASE Claim
  <2>1. since' = since /\ job.at = "claim"
    BY <1>3 DEF Claim, history
  <2>2. PICK unit \in Units : \E a \in unit :
          /\ StateWrite(unit \cap job.live, {CoolKey(unit, a)})
          /\ job' = [job EXCEPT !.at = "summon", !.unit = unit, !.space = SpaceOf[a], !.elig = {}]
    BY <1>3 DEF Claim
  <2>3. PICK a \in unit :
          /\ StateWrite(unit \cap job.live, {CoolKey(unit, a)})
          /\ job' = [job EXCEPT !.at = "summon", !.unit = unit, !.space = SpaceOf[a], !.elig = {}]
    BY <2>2
  <2>4. job'.at = "summon" /\ job'.unit = unit /\ job'.ticks = job.ticks
    BY <2>3, JobFields DEF Jobs
  <2>5. /\ unit \subseteq job.elig /\ unit \subseteq Alerts
        /\ \A b \in unit : CoolKey(unit, b) = CoolKey(unit, a)
    BY UnitsOf
  <2>6. CoolKey(unit, a) \in CoolKeys
    BY <2>5, UnitsOf, KeysOf
  <2>7. Cooled' /\ \A k \in {CoolKey(unit, a)} \cap CoolKeys : cool'[k] = job.ticks
    BY <2>1, <2>3, WriteKeepsMarks DEF CoolInv
  <2>8. cool'[CoolKey(unit, a)] = job.ticks
    BY <2>6, <2>7
  <2>9. \A b \in unit : Rested(Pair(b)) /\ cool'[CoolKey(unit, b)] = job.ticks
    <3>1. \A b \in unit : Rested(Pair(b))
      BY <2>1, <2>5 DEF CoolInv, NoneTired
    <3>2. ASSUME NEW b \in unit PROVE cool'[CoolKey(unit, b)] = job.ticks
      <4>1. CoolKey(unit, b) = CoolKey(unit, a)
        BY <2>5
      <4> QED BY <2>8, <4>1, Zenon
    <3> QED BY <3>1, <3>2
  <2>10. job.ticks <= job.ticks
    BY JobFields
  <2>11. ASSUME NEW b \in unit
         PROVE  Rested(Pair(b))' /\ cool'[CoolKey(job.unit, b)'] <= job'.ticks
    <3>1. CoolKey(job.unit, b)' = CoolKey(unit, b)
      BY <2>4 DEF CoolKey
    <3>2. cool'[CoolKey(unit, b)] <= job'.ticks
      BY <2>4, <2>9, <2>10
    <3>3. Rested(Pair(b))'
      BY <2>1, <2>9 DEF Rested, Pair
    <3> QED BY <3>1, <3>2, <3>3
  <2>12. NoneTired'
    BY <2>4, <2>11 DEF NoneTired
  <2> QED BY <2>7, <2>12 DEF CoolInv
<1>4. CASE ClaimRefused
  <2>1. since' = since /\ job.at = "claim"
    BY <1>4 DEF ClaimRefused, history
  <2>2. Cooled'
    <3>1. CASE UNCHANGED <<claim, cool>>
      BY <2>1, <3>1 DEF CoolInv, Cooled, Rested, Marked
    <3>2. CASE ~UNCHANGED <<claim, cool>>
      <4>1. PICK unit \in Units : \E a \in unit :
              StateWrite(unit \cap job.live, {CoolKey(unit, a)})
        BY <1>4, <3>2 DEF ClaimRefused
      <4>2. PICK a \in unit : StateWrite(unit \cap job.live, {CoolKey(unit, a)})
        BY <4>1
      <4> QED BY <2>1, <4>2, WriteKeepsMarks DEF CoolInv
    <3> QED BY <3>1, <3>2
  <2>3. job' = Idle \/ (job'.at = "claim" /\ job'.elig \subseteq job.elig)
    <3>1. ASSUME job' # Idle
          PROVE  \E unit \in Units : job' = [job EXCEPT !.elig = @ \ unit, !.live = @ \ unit]
      BY <1>4, <3>1 DEF ClaimRefused
    <3> QED BY <2>1, <3>1, JobFields DEF Jobs
  <2>4. NoneTired'
    BY <2>1, <2>3, IdleType DEF CoolInv, NoneTired, Rested, Pair
  <2> QED BY <2>2, <2>4 DEF CoolInv
<1>5. CASE Summon
  <2>1. cool' = cool /\ job.at = "summon" /\ job'.at = "run"
    BY <1>5, JobFields DEF Summon, state, Jobs
  <2>2. ASSUME NEW q \in Pairs PROVE Rested(q)' \/ Marked(q)'
    <3>1. CASE since'[q] = since[q]
      BY <2>1, <3>1 DEF CoolInv, Cooled, Rested, Marked
    <3>2. CASE since'[q] # since[q]
      <4>1. PICK a \in job.unit : IF Cardinality(job.unit) >= Storm THEN q[1] = NameOf[a] ELSE q = Pair(a)
        BY <1>5, <3>2 DEF Summon
      <4>2. since'[q] = 0
        BY <1>5, <4>1 DEF Summon
      <4>3. CoolKey(job.unit, a) \in {q, Wide(q[1])}
        BY <4>1 DEF CoolKey
      <4>4. cool[CoolKey(job.unit, a)] <= job.ticks /\ job.ticks \in 0..RunSpan
        BY <2>1, JobFields DEF CoolInv, NoneTired
      <4>5. CoolKey(job.unit, a) \in CoolKeys
        BY JobFields, KeysOf DEF CoolKey
      <4>6. PICK k \in {q, Wide(q[1])} : k = CoolKey(job.unit, a)
        BY <4>3
      <4>7. cool[k] \in Nat
        BY <4>5, <4>6, BoundsType DEF TypeOK
      <4>8. cool'[k] <= since'[q] + RunSpan
        BY <2>1, <4>2, <4>4, <4>6, <4>7, BoundsType
      <4> QED BY <4>8 DEF Marked
    <3> QED BY <3>1, <3>2
  <2> QED BY <2>1, <2>2 DEF CoolInv, Cooled, NoneTired
<1> QED BY <1>1, <1>2, <1>3, <1>4, <1>5

LEMMA RestCool == ASSUME TypeOK, CoolInv, Rest PROVE CoolInv'
<1>1. since' = since
  BY RestMoves
<1>2. Cooled'
  <2>1. CASE UNCHANGED <<claim, cool>>
    BY <1>1, <2>1 DEF CoolInv, Cooled, Rested, Marked
  <2>2. CASE StateWrite({}, {})
    BY <1>1, <2>2, WriteKeepsMarks DEF CoolInv
  <2> QED BY <2>1, <2>2, RestMoves
<1>3. job'.at \notin {"poll", "claim", "summon"}
  BY RestMoves, IdleType DEF Moves, Later
<1> QED BY <1>2, <1>3 DEF CoolInv, NoneTired

-----------------------------------------------------------------------------
(* Pages are counted.                                                      *)

LEMMA CountTypes ==
  ASSUME TypeOK
  PROVE  /\ count \in 0..MaxPages /\ clock \in 0..(Hour - 1) /\ faults \in 0..MaxFaults
         /\ booked[0] \in Nat /\ booked[1] \in Nat /\ booked \in [0..1 -> Nat]
         /\ job.sent \in Nat /\ job.ticks \in 0..RunSpan /\ job.hours \in 0..1
         /\ count \in Nat /\ clock \in Nat /\ faults \in Nat /\ job.ticks \in Nat
BY JobFields, BoundsType DEF TypeOK

LEMMA OwedType == \A h \in 0..1 : Owed(h) \in 0..1
BY DEF Owed

LEMMA InitCounted == Init => Counted
BY BoundsType, IdleType DEF Init, Counted, Owed

LEMMA TickCounted == ASSUME TypeOK, Counted, Tick PROVE Counted'
<1> DEFINE turn == clock + 1 = Hour
<1>1. /\ faults' = faults
      /\ clock' = IF turn THEN 0 ELSE clock + 1
      /\ count' = IF turn THEN 0 ELSE count
      /\ booked' = IF turn THEN [h \in 0..1 |-> IF h = 0 THEN 0 ELSE booked[0]] ELSE booked
  BY DEF Tick
<1>2. /\ turn => booked'[0] = 0 /\ booked'[1] = booked[0]
      /\ ~turn => booked'[0] = booked[0] /\ booked'[1] = booked[1]
  BY <1>1
<1>3. CASE job.at = "idle"
  <2>1. job' = job /\ Owed(0) = 0 /\ Owed(0)' = 0
    BY <1>3 DEF Tick, Owed
  <2> QED BY <1>1, <1>2, <1>3, <2>1, CountTypes, BoundsType DEF Counted
<1>4. CASE job.at # "idle"
  <2> DEFINE h == IF turn THEN 1 ELSE job.hours
  <2>1. job' = [job EXCEPT !.ticks = job.ticks + 1, !.hours = h] /\ job.ticks < RunSpan
    BY <1>4 DEF Tick, InTime
  <2>2. /\ job'.at = job.at /\ job'.sent = job.sent /\ job'.ticks = job.ticks + 1
        /\ job'.hours = h
    <3> HIDE DEF h
    <3> QED BY <2>1, JobFields DEF Jobs
  <2>3. CASE ~turn
    <3>1. Owed(0)' = Owed(0) /\ Owed(1)' = Owed(1) /\ job'.hours = job.hours
      BY <2>2, <2>3 DEF Owed
    <3> QED BY <1>1, <1>2, <1>4, <2>2, <2>3, <3>1, CountTypes, OwedType, BoundsType DEF Counted
  <2>4. CASE turn
    <3>1. job.hours = 0
      BY <1>4, <2>1, <2>4, CountTypes, BoundsType DEF Counted
    <3>2. job'.hours = 1 /\ Owed(0)' = 0 /\ Owed(1)' = Owed(0)
      BY <2>2, <2>4, <3>1 DEF Owed
    <3>3. job.sent = count /\ booked[0] <= count + faults + Owed(0)
      BY <1>4, <3>1 DEF Counted
    <3>4. Owed(0) = 0 \/ (Owed(0) = 1 /\ job.sent < MaxPages)
      BY <1>4 DEF Owed, Counted
    <3> QED BY <1>1, <1>2, <1>4, <2>2, <2>4, <3>2, <3>3, <3>4, CountTypes, BoundsType DEF Counted
  <2> QED BY <2>3, <2>4
<1> QED BY <1>3, <1>4

(* A step that neither pages nor counts.                                   *)
LEMMA QuietCounted ==
  ASSUME TypeOK, Counted, UNCHANGED <<clock, count, booked>>, Fault \/ UNCHANGED faults,
         \/ job' = Idle
         \/ job'.at = "poll" /\ job'.sent = count /\ job'.hours = 0 /\ job.at = "idle"
         \/ /\ job'.at = job.at \/ (job'.at # "idle" /\ job'.at # "count" /\ job.at # "idle")
            /\ job'.sent = job.sent /\ job'.hours = job.hours /\ job'.ticks = job.ticks,
         job.at = "count" => job'.at = "count" \/ Fault
  PROVE  Counted'
<1>1. faults' \in Nat /\ faults' >= faults /\ faults' \in 0..MaxFaults
  BY FaultType
<1>2. CASE job.at # "count"
  <2>1. Owed(0) = 0 /\ Owed(1) = 0
    BY <1>2 DEF Owed
  <2>2. Owed(0)' = 0 /\ Owed(1)' = 0
    BY <1>2, IdleType DEF Owed
  <2> QED BY <1>1, <2>1, <2>2, CountTypes, IdleType, BoundsType DEF Counted
<1>3. CASE job.at = "count" /\ job'.at = "count"
  <2>1. /\ job'.sent = job.sent /\ job'.hours = job.hours /\ job'.ticks = job.ticks
    BY <1>3, IdleType
  <2>2. Owed(0)' = Owed(0) /\ Owed(1)' = Owed(1)
    BY <1>3, <2>1 DEF Owed
  <2> QED BY <1>1, <1>3, <2>1, <2>2, CountTypes, OwedType, BoundsType DEF Counted
<1>4. CASE job.at = "count" /\ job'.at # "count"
  <2>1. faults' = faults + 1
    BY <1>4 DEF Fault
  <2>2. Owed(0)' = 0 /\ Owed(1)' = 0 /\ Owed(0) \in 0..1 /\ Owed(1) \in 0..1
    BY <1>4, OwedType DEF Owed
  <2>3. CASE job' = Idle
    BY <2>1, <2>2, <2>3, CountTypes, IdleType, BoundsType DEF Counted
  <2>4. CASE job'.sent = job.sent /\ job'.hours = job.hours /\ job'.ticks = job.ticks
    BY <1>4, <2>1, <2>2, <2>4, CountTypes, BoundsType DEF Counted
  <2> QED BY <1>4, <2>3, <2>4
<1> QED BY <1>2, <1>3, <1>4

LEMMA StepCounted ==
  ASSUME TypeOK, Counted, Next
  PROVE  Counted'
<1>1. CASE Tick
  BY <1>1, TickCounted
<1>2. ASSUME NEW a \in Alerts, Fire(a) \/ Resolve(a) PROVE Counted'
  <2>1. UNCHANGED <<clock, count, booked, faults>>
    BY <1>2 DEF Fire, Resolve, state, history
  <2>2. /\ job'.at = job.at /\ job'.sent = job.sent /\ job'.hours = job.hours
        /\ job'.ticks = job.ticks
    BY <1>2, JobFields DEF Fire, Resolve, Jobs
  <2> QED BY <2>1, <2>2, QuietCounted
<1>3. ASSUME NEW k \in orders, Release(k) PROVE Counted'
  BY <1>3, QuietCounted DEF Release, state, history
<1>4. CASE Start
  <2>1. UNCHANGED <<clock, count, booked>> /\ (Fault \/ UNCHANGED faults) /\ job.at = "idle"
    BY <1>4 DEF Start, state, history
  <2>2. CASE job' = job
    BY <2>1, <2>2, QuietCounted
  <2>3. CASE job' # job
    <3>1. \E handled, cooling : job' = [Idle EXCEPT !.at = "poll", !.sent = count,
                                          !.handled = handled, !.cooling = cooling]
      BY <1>4, <2>3 DEF Start
    <3>2. job'.at = "poll" /\ job'.sent = count /\ job'.hours = 0
      BY <3>1 DEF Idle
    <3> QED BY <2>1, <3>2, QuietCounted
  <2> QED BY <2>2, <2>3
<1>5. CASE Poll \/ Claim \/ ClaimRefused \/ Summon
  <2>1. /\ UNCHANGED <<clock, count, booked>> /\ (Fault \/ UNCHANGED faults)
        /\ job.at \in {"poll", "claim", "summon"}
    BY <1>5 DEF Poll, Claim, ClaimRefused, Summon, state, history
  <2>2. ASSUME job' # Idle
        PROVE  /\ job'.at \in {"claim", "summon", "run"} /\ job'.sent = job.sent
               /\ job'.hours = job.hours /\ job'.ticks = job.ticks
    <3>1. CASE Poll
      <4>1. \E elig : job' = [job EXCEPT !.at = "claim", !.elig = elig, !.live = elig,
                                         !.handled = {}, !.cooling = {}]
        BY <2>2, <3>1 DEF Poll
      <4> QED BY <4>1, JobFields DEF Jobs
    <3>2. CASE Claim
      <4>1. \E unit, space : job' = [job EXCEPT !.at = "summon", !.unit = unit, !.space = space,
                                               !.elig = {}]
        BY <3>2 DEF Claim
      <4> QED BY <4>1, JobFields DEF Jobs
    <3>3. CASE ClaimRefused
      <4>1. \E unit \in Units : job' = [job EXCEPT !.elig = @ \ unit, !.live = @ \ unit]
        BY <2>2, <3>3 DEF ClaimRefused
      <4> QED BY <3>3, <4>1, JobFields DEF Jobs, ClaimRefused
    <3>4. CASE Summon
      BY <3>4, JobFields DEF Summon, Jobs
    <3> QED BY <1>5, <3>1, <3>2, <3>3, <3>4
  <2> QED BY <2>1, <2>2, QuietCounted
<1>6. CASE Return \/ Judge \/ Handoff \/ Escalate \/ Killed
  <2>1. /\ UNCHANGED <<clock, count, booked>> /\ (Fault \/ UNCHANGED faults)
        /\ job.at = "count" => Fault
        /\ job.at # "idle"
    BY <1>6 DEF Return, Judge, Handoff, Escalate, Killed, state, history
  <2>2. job' = Idle \/ (Moves /\ job'.at # "count")
    <3>1. job' = Idle \/ Moves
      BY <1>6, RestMoves DEF Rest
    <3>2. job' = Idle \/ job'.at # "count"
      BY <1>6, JobFields DEF Return, Judge, Handoff, Escalate, Killed, Jobs
    <3> QED BY <3>1, <3>2
  <2> QED BY <2>1, <2>2, IdleType, QuietCounted DEF Moves, Later
<1>7. CASE Page
  <2>1. UNCHANGED <<clock, count>> /\ job.at = "page" /\ job.sent <= MaxPages
    BY <1>7 DEF Page, state, Counted
  <2>2. CASE Capping /\ job' = Idle /\ UNCHANGED <<faults, booked>>
    BY <2>1, <2>2, QuietCounted
  <2>3. CASE UNCHANGED booked /\ job' = Idle /\ Fault
    BY <2>1, <2>3, QuietCounted
  <2>4. ASSUME booked' = [booked EXCEPT ![job.hours] = @ + 1], ~Capping,
               (job' = [job EXCEPT !.at = "count"] /\ UNCHANGED faults) \/ (job' = Idle /\ Fault)
        PROVE  Counted'
    <3>1. job.sent < MaxPages
      BY <2>1, <2>4, CountTypes, BoundsType DEF Capping
    <3>2. /\ booked'[job.hours] = booked[job.hours] + 1
          /\ \A h \in 0..1 : h # job.hours => booked'[h] = booked[h]
      BY <2>4, CountTypes
    <3>3. /\ booked[0] <= count + faults /\ booked[1] <= MaxPages + faults
          /\ job.hours = 0 => job.sent = count
          /\ job.hours = 1 => clock < job.ticks /\ booked[1] <= job.sent + faults
      BY <2>1, CountTypes DEF Counted, Owed
    <3>4. CASE job' = [job EXCEPT !.at = "count"] /\ UNCHANGED faults
      <4>1. /\ job'.at = "count" /\ job'.sent = job.sent /\ job'.hours = job.hours
            /\ job'.ticks = job.ticks
        BY <3>4, JobFields DEF Jobs
      <4>2. CASE job.hours = 0
        <5>1. Owed(0)' = 1 /\ Owed(1)' = 0 /\ booked'[0] = booked[0] + 1 /\ booked'[1] = booked[1]
          BY <3>2, <4>1, <4>2 DEF Owed
        <5> QED BY <2>1, <3>1, <3>3, <3>4, <4>1, <4>2, <5>1, CountTypes, BoundsType DEF Counted
      <4>3. CASE job.hours = 1
        <5>1. Owed(0)' = 0 /\ Owed(1)' = 1 /\ booked'[0] = booked[0] /\ booked'[1] = booked[1] + 1
          BY <3>2, <4>1, <4>3 DEF Owed
        <5> QED BY <2>1, <3>1, <3>3, <3>4, <4>1, <4>3, <5>1, CountTypes, BoundsType DEF Counted
      <4> QED BY <4>2, <4>3, CountTypes
    <3>5. CASE job' = Idle /\ Fault
      <4>1. faults' = faults + 1 /\ job'.at = "idle" /\ Owed(0)' = 0
        BY <3>5, IdleType DEF Fault, Owed
      <4>2. booked'[0] <= booked[0] + 1 /\ booked'[1] <= booked[1] + 1
        BY <3>2, CountTypes
      <4>3. booked'[0] \in Nat /\ booked'[1] \in Nat
        BY <3>2, CountTypes
      <4> QED BY <2>1, <3>3, <4>1, <4>2, <4>3, CountTypes, BoundsType DEF Counted
    <3> QED BY <2>4, <3>4, <3>5
  <2>5. \/ Capping /\ job' = Idle /\ UNCHANGED <<faults, booked>>
        \/ UNCHANGED booked /\ job' = Idle /\ Fault
        \/ /\ booked' = [booked EXCEPT ![job.hours] = @ + 1] /\ ~Capping
           /\ (job' = [job EXCEPT !.at = "count"] /\ UNCHANGED faults) \/ (job' = Idle /\ Fault)
    BY <1>7 DEF Page
  <2> QED BY <2>2, <2>3, <2>4, <2>5
<1>8. CASE Count
  <2>1. /\ job.at = "count" /\ job' = Idle /\ UNCHANGED <<clock, booked>>
    BY <1>8 DEF Count, history
  <2>2. CASE UNCHANGED count /\ Fault
    BY <2>1, <2>2, QuietCounted
  <2>3. CASE count' = (IF job.hours = 0 THEN job.sent + 1 ELSE count) /\ UNCHANGED faults
    <3>1. /\ job'.at = "idle" /\ Owed(0)' = 0
          /\ job.hours = 0 => job.sent = count /\ Owed(0) = 1
          /\ job.hours = 1 => Owed(0) = 0
      BY <2>1, IdleType DEF Owed, Counted
    <3> QED BY <2>1, <2>3, <3>1, CountTypes, BoundsType DEF Counted
  <2> QED BY <1>8, <2>2, <2>3 DEF Count, state
<1> QED
  BY <1>1, <1>2, <1>3, <1>4, <1>5, <1>6, <1>7, <1>8 DEF Next, JobStep

-----------------------------------------------------------------------------
LEMMA NextKeeps == ASSUME ResponderInv, Next PROVE ResponderInv'
<1>0. TypeOK /\ UnitKnown /\ OnceInv /\ CoolInv /\ Counted /\ LiveFires
  BY DEF ResponderInv, OnceInv
<1>1. Counted'
  BY <1>0, StepCounted
<1>2. CASE Tick
  BY <1>0, <1>1, <1>2, TickType, TickOnce, TickCool DEF ResponderInv
<1>3. ASSUME NEW a \in Alerts, Fire(a) \/ Resolve(a) PROVE ResponderInv'
  BY <1>0, <1>1, <1>3, AlertType, AlertOnce, AlertCool DEF ResponderInv
<1>4. ASSUME NEW k \in orders, Release(k) PROVE ResponderInv'
  <2>1. UNCHANGED <<firing, age, claim, cool, count, clock, due, job, faults>>
        /\ UNCHANGED <<diagnosed, since, booked>> /\ orders' \subseteq orders
    BY <1>4 DEF Release, alerts, state, history
  <2>2. TypeOK'
    BY <1>0, <2>1 DEF TypeOK
  <2>3. UnitKnown' /\ OnceInv'
    BY <1>0, <2>1 DEF UnitKnown, OnceInv, LiveFires, ClaimsLast, ClaimAges, NoneTwice
  <2>4. CoolInv'
    BY <1>0, <2>1 DEF CoolInv, Cooled, Rested, Marked, NoneTired
  <2> QED BY <1>1, <2>2, <2>3, <2>4 DEF ResponderInv
<1>5. CASE Start \/ Poll \/ Claim \/ ClaimRefused \/ Summon
  BY <1>0, <1>1, <1>5, ChooseType, ChooseOnce, ChooseCool DEF ResponderInv
<1>6. CASE Rest
  BY <1>0, <1>1, <1>6, RestType, RestOnce, RestCool DEF ResponderInv
<1> QED
  BY <1>2, <1>3, <1>4, <1>5, <1>6 DEF Next, JobStep, Rest

LEMMA StutterKeeps == ASSUME ResponderInv, UNCHANGED vars PROVE ResponderInv'
<1>1. /\ UNCHANGED <<firing, age, claim, cool, count, orders, clock, due, job, faults>>
      /\ UNCHANGED <<diagnosed, since, booked>>
  BY DEF vars, alerts, state, history
<1>2. TypeOK' /\ UnitKnown'
  BY <1>1 DEF ResponderInv, TypeOK, UnitKnown
<1>3. OnceInv'
  BY <1>1 DEF ResponderInv, OnceInv, LiveFires, ClaimsLast, ClaimAges, NoneTwice
<1>4. CoolInv'
  BY <1>1 DEF ResponderInv, CoolInv, Cooled, Rested, Marked, NoneTired
<1>5. Counted'
  BY <1>1 DEF ResponderInv, Counted, Owed
<1> QED BY <1>2, <1>3, <1>4, <1>5 DEF ResponderInv

LEMMA ResponderInvariant == Spec => []ResponderInv
<1>1. Init => ResponderInv
  BY InitType, InitOnce, InitCool, InitCounted DEF ResponderInv
<1>2. ResponderInv /\ [Next]_vars => ResponderInv'
  BY NextKeeps, StutterKeeps
<1> QED BY <1>1, <1>2, PTL DEF Spec

-----------------------------------------------------------------------------
(* Every variable keeps its type.                                          *)
THEOREM TypeCorrect == Spec => []TypeOK
<1>1. ResponderInv => TypeOK
  BY DEF ResponderInv
<1> QED BY <1>1, ResponderInvariant, PTL

(* What the run at the summons is about to diagnose: nothing that was      *)
(* diagnosed, and no pair that has not rested.                             *)
LEMMA SummonsOf ==
  ASSUME ResponderInv, Summons
  PROVE  /\ job.unit \cap job.live \cap diagnosed = {}
         /\ \A a \in job.unit : since[Pair(a)] + RunSpan >= Cooldown
BY DEF ResponderInv, Summons, OnceInv, NoneTwice, CoolInv, NoneTired, Rested

(* The claim that run_claude is summoned under is one no earlier run of    *)
(* the same incident was summoned under, whatever was killed, refused,     *)
(* pruned or delayed in between.                                           *)
THEOREM IncidentsAreDiagnosedOnce == Spec => OncePerIncident
<1>1. ResponderInv /\ [Next]_vars
        => [Summons => job.unit \cap job.live \cap diagnosed = {}]_vars
  BY SummonsOf
<1> QED BY <1>1, ResponderInvariant, PTL DEF Spec, OncePerIncident

(* cooldown_active and the storm markers keep a pair from being diagnosed  *)
(* again within COOLDOWN, but for the time a run may take.                 *)
THEOREM FlapsAreGuarded == Spec => FlapGuard
<1>1. ResponderInv /\ [Next]_vars
        => [Summons => \A a \in job.unit : since[Pair(a)] + RunSpan >= Cooldown]_vars
  BY SummonsOf
<1> QED BY <1>1, ResponderInvariant, PTL DEF Spec, FlapGuard

(* The pages under one HOUR_BUCKET stay within MAX_PAGES_PER_HOUR, but for *)
(* the counts that were lost.                                              *)
THEOREM PagesStayCapped == Spec => []PagesAreCapped
<1>1. ResponderInv => PagesAreCapped
  <2> SUFFICES ASSUME ResponderInv PROVE PagesAreCapped
    OBVIOUS
  <2>1. TypeOK /\ Counted
    BY DEF ResponderInv
  <2>2. booked[1] <= MaxPages + faults
    BY <2>1 DEF Counted
  <2>3. booked[0] <= MaxPages + faults
    <3>1. CASE Owed(0) = 0
      BY <2>1, <3>1, CountTypes, BoundsType DEF Counted
    <3>2. CASE Owed(0) # 0
      <4>1. Owed(0) = 1 /\ job.at = "count" /\ job.hours = 0
        BY <3>2 DEF Owed
      <4>2. count < MaxPages
        BY <2>1, <4>1 DEF Counted
      <4> QED BY <2>1, <4>1, <4>2, CountTypes, BoundsType DEF Counted
    <3> QED BY <3>1, <3>2
  <2> QED BY <2>2, <2>3 DEF PagesAreCapped
<1> QED BY <1>1, ResponderInvariant, PTL
=============================================================================
