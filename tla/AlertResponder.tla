--------------------------- MODULE AlertResponder ---------------------------
(***************************************************************************)
(* The alert responder: a CronJob that diagnoses, once, every critical     *)
(* alert that fires, and follows Alertmanager's page up with its own only  *)
(* when that adds something.  A diagnosis is paid for, so an incident is   *)
(* claimed in the responder's state CM before the agent is summoned, the   *)
(* alerts of a storm are claimed together, and what was just diagnosed     *)
(* cools down.  An urgent diagnosis is filed as an order of the rem lane   *)
(* instead of a page.                                                      *)
(*                                                                         *)
(* An incident is an alert from one start to its resolution; when the      *)
(* alert fires again that is another incident, under another key.  One     *)
(* Tick is one cycle of the schedule; RESPONDER_MAX_PER_RUN is 1, so a run *)
(* ends after the unit it claims.                                          *)
(***************************************************************************)
EXTENDS Naturals, FiniteSets

CONSTANTS
  Alerts,       \* the critical alerts in scope, by fingerprint
  NameOf,       \* their alertname
  SpaceOf,      \* their namespace
  Storm,        \* RESPONDER_STORM_THRESHOLD
  Cooldown,     \* RESPONDER_COOLDOWN_HOURS, in ticks
  Ttl,          \* RESPONDER_STATE_TTL_HOURS, in ticks
  MaxAge,       \* RESPONDER_MAX_AGE_HOURS, in ticks
  Hour,         \* ticks in an hour
  MaxPages,     \* RESPONDER_MAX_PAGES_PER_HOUR
  RunSpan,      \* ticks a run may live through: it has timeouts, no deadline
  MaxFaults     \* lost calls, refused writes, killed jobs in a behaviour (a bound)

Names  == {NameOf[a] : a \in Alerts}
Spaces == {SpaceOf[a] : a \in Alerts}
All    == "_all"       \* a storm's cooldown: no namespace is called so

ASSUME AlertsAssumption ==
  /\ IsFiniteSet(Alerts) /\ DOMAIN NameOf = Alerts /\ DOMAIN SpaceOf = Alerts
  /\ All \notin Spaces
  /\ Storm \in Nat \ {0, 1} /\ Cooldown \in Nat /\ MaxAge \in Nat /\ Hour \in Nat \ {0}
  /\ MaxPages \in Nat /\ RunSpan \in 0..Hour /\ MaxFaults \in Nat
  /\ Ttl \in Nat /\ Ttl >= Cooldown /\ Ttl >= MaxAge + RunSpan /\ Ttl >= Hour

VARIABLES
  firing,     \* the alerts that fire
  age,        \* ticks since they started
  claim,      \* the state CM: ticks since an incident that fires was claimed
  cool,       \* the state CM: ticks since a pair, or a name, was diagnosed
  count,      \* the state CM: pages counted under the bucket of this hour
  orders,     \* the orders of the rem lane that are open or with a human
  clock,      \* ticks into the hour
  due,        \* whether the run of this cycle has not started
  job,        \* the run
  faults,
  diagnosed,  \* history: the alerts whose incident an agent was summoned for
  since,      \* history: ticks since an agent was summoned for a pair
  booked      \* history: the pages sent under the bucket of this hour, of the last

alerts  == <<firing, age>>
state   == <<claim, cool, count>>
history == <<diagnosed, since, booked>>
vars    == <<alerts, state, orders, clock, due, job, faults, history>>

Pair(a)  == <<NameOf[a], SpaceOf[a]>>
Pairs    == {Pair(a) : a \in Alerts}
Wide(n)  == <<n, All>>
CoolKeys == Pairs \cup {Wide(n) : n \in Names}

Oldest == Ttl + RunSpan     \* ages of entries are followed this far
Gone   == Oldest + 1        \* no entry

Capped(i, max) == IF i > max THEN max ELSE i

Fault == faults < MaxFaults /\ faults' = faults + 1

-----------------------------------------------------------------------------
(* Alerts and time.                                                        *)

Fire(a) ==
  /\ a \notin firing /\ firing' = firing \cup {a}
  /\ UNCHANGED <<age, state, orders, clock, due, job, faults, history>>

(* The incident is over: no key will name it again, and what the run holds *)
(* of it is about nothing that fires.                                      *)
Resolve(a) ==
  /\ a \in firing /\ firing' = firing \ {a}
  /\ age' = [age EXCEPT ![a] = 0] /\ claim' = [claim EXCEPT ![a] = Gone]
  /\ job' = [job EXCEPT !.handled = @ \ {a}, !.live = @ \ {a}]
  /\ diagnosed' = diagnosed \ {a}
  /\ UNCHANGED <<cool, count, orders, clock, due, faults, since, booked>>

(* An order is closed, or REM_ESCALATED_COOLDOWN_H have passed over one a  *)
(* human was given.                                                        *)
Release(k) ==
  /\ k \in orders /\ orders' = orders \ {k}
  /\ UNCHANGED <<alerts, state, clock, due, job, faults, history>>

Older(i) == IF i = Gone THEN Gone ELSE Capped(i + 1, Oldest)

(* A run has timeouts on all it waits for.                                 *)
InTime == job.ticks < RunSpan

(* The next cycle.  While the last run is alive concurrencyPolicy Forbid   *)
(* skips the one that is due, unless the last one ends within              *)
(* startingDeadlineSeconds.                                                *)
Tick ==
  /\ ~due /\ (job.at = "idle" \/ InTime)
  /\ due' \in (IF job.at = "idle" THEN {TRUE} ELSE BOOLEAN)
  /\ age' = [a \in Alerts |-> IF a \in firing THEN Capped(age[a] + 1, MaxAge + RunSpan) ELSE 0]
  /\ claim' = [a \in Alerts |-> Older(claim[a])]
  /\ cool' = [k \in CoolKeys |-> Older(cool[k])]
  /\ since' = [p \in Pairs |-> Capped(since[p] + 1, Cooldown)]
  /\ LET turn == clock + 1 = Hour
     IN  /\ clock' = IF turn THEN 0 ELSE clock + 1
         /\ count' = IF turn THEN 0 ELSE count
         /\ booked' = IF turn THEN [h \in 0..1 |-> IF h = 0 THEN 0 ELSE booked[0]] ELSE booked
         /\ job' = IF job.at = "idle" THEN job
                   ELSE [job EXCEPT !.ticks = @ + 1, !.hours = IF turn THEN 1 ELSE @]
  /\ UNCHANGED <<firing, orders, faults, diagnosed>>

-----------------------------------------------------------------------------
(* The state CM.  state_write merges its additions into a fresh read and   *)
(* drops the entries first seen TTL before the run's NOW.                  *)

Fresh(i) == i < Ttl + job.ticks

StateWrite(claims, keys) ==
  /\ claim' = [a \in Alerts |-> IF a \in claims THEN job.ticks
                                ELSE IF Fresh(claim[a]) THEN claim[a] ELSE Gone]
  /\ cool' = [k \in CoolKeys |-> IF k \in keys THEN job.ticks
                                 ELSE IF Fresh(cool[k]) THEN cool[k] ELSE Gone]

-----------------------------------------------------------------------------
(* The run.                                                                *)

Idle == [at |-> "idle", ticks |-> 0, hours |-> 0, sent |-> 0, handled |-> {}, cooling |-> {},
         elig |-> {}, live |-> {}, unit |-> {}, space |-> All, action |-> "none"]

(* Mutant: a storm's marker is not looked at.                              *)
CoolingPair(a) == cool[Pair(a)] < Cooldown

(* Mutant: a cooldown has no end.                                          *)
CoolingEver(a) == cool[Pair(a)] # Gone \/ cool[Wide(NameOf[a])] # Gone

(* cooldown_active                                                         *)
Cooling(a) == cool[Pair(a)] < Cooldown \/ cool[Wide(NameOf[a])] < Cooldown

(* The state is read once.  When it is unreadable every incident counts as *)
(* handled and the run comes to nothing.                                   *)
Start ==
  /\ due /\ job.at = "idle" /\ due' = FALSE
  /\ \/ /\ job' = [Idle EXCEPT !.at = "poll", !.sent = count,
                     !.handled = {a \in Alerts : claim[a] # Gone},
                     !.cooling = {a \in Alerts : Cooling(a)}]
        /\ UNCHANGED faults
     \/ Fault /\ UNCHANGED job
  /\ UNCHANGED <<alerts, state, orders, clock, history>>

(* The alerts are polled: those that started within MAX_AGE of NOW, are    *)
(* not handled and do not cool down are eligible.                          *)
Poll ==
  /\ job.at = "poll"
  /\ LET elig == {a \in firing : age[a] < MaxAge + job.ticks} \ (job.handled \cup job.cooling)
     IN  \/ /\ elig # {} /\ UNCHANGED faults
            /\ job' = [job EXCEPT !.at = "claim", !.elig = elig, !.live = elig,
                         !.handled = {}, !.cooling = {}]
         \/ elig = {} /\ job' = Idle /\ UNCHANGED faults
         \/ job' = Idle /\ Fault            \* Alertmanager does not answer
  /\ UNCHANGED <<alerts, state, orders, clock, due, history>>

Named(n) == {a \in job.elig : NameOf[a] = n}
Storms   == {Named(n) : n \in {m \in Names : Cardinality(Named(m)) >= Storm}}

(* Storms come first; the order among storms and among the rest is open.   *)
Units == IF Storms # {} THEN Storms ELSE {{a} : a \in job.elig}

(* What cools down once a unit is claimed.                                 *)
CoolKey(unit, a) == IF Cardinality(unit) >= Storm THEN Wide(NameOf[a]) ELSE Pair(a)

(* Mutant: the claim of a storm only names its first alert.                *)
ClaimFirst ==
  /\ job.at = "claim"
  /\ \E unit \in Units : \E a \in unit :
       /\ StateWrite({a} \cap job.live, {CoolKey(unit, a)})
       /\ job' = [job EXCEPT !.at = "summon", !.unit = unit, !.space = SpaceOf[a], !.elig = {}]
  /\ UNCHANGED <<alerts, count, orders, clock, due, faults, history>>

(* The unit is claimed, every member of it and what cools down.            *)
Claim ==
  /\ job.at = "claim"
  /\ \E unit \in Units : \E a \in unit :
       /\ StateWrite(unit \cap job.live, {CoolKey(unit, a)})
       /\ job' = [job EXCEPT !.at = "summon", !.unit = unit, !.space = SpaceOf[a], !.elig = {}]
  /\ UNCHANGED <<alerts, count, orders, clock, due, faults, history>>

(* A claim that is refused, or whose answer is lost: nothing is summoned   *)
(* and the next unit is tried.  The run may also find the month's budget   *)
(* spent, and end.                                                         *)
ClaimRefused ==
  /\ job.at = "claim" /\ Fault
  /\ \/ \E unit \in Units : \E a \in unit :
          /\ \/ StateWrite(unit \cap job.live, {CoolKey(unit, a)})
             \/ UNCHANGED <<claim, cool>>
          /\ job' = IF job.elig = unit THEN Idle
                    ELSE [job EXCEPT !.elig = @ \ unit, !.live = @ \ unit]
     \/ job' = Idle /\ UNCHANGED <<claim, cool>>
  /\ UNCHANGED <<alerts, count, orders, clock, due, history>>

(* The agent is summoned.                                                  *)
Summon ==
  /\ job.at = "summon" /\ job' = [job EXCEPT !.at = "run"]
  /\ diagnosed' = diagnosed \cup (job.unit \cap job.live)
  /\ since' = [p \in Pairs |->
       IF \E a \in job.unit : IF Cardinality(job.unit) >= Storm THEN p[1] = NameOf[a] ELSE p = Pair(a)
       THEN 0 ELSE since[p]]
  /\ UNCHANGED <<alerts, state, orders, clock, due, faults, booked>>

(* The run returns a report, no report, or an error: it died, or the plan  *)
(* and its metered fallback are both exhausted.                            *)
Return ==
  /\ job.at = "run"
  /\ \/ \E action \in {"investigate", "urgent"} :
          job' = [job EXCEPT !.at = "judge", !.action = action]
     \/ job' = Idle                         \* ACTION: none, or no report
     \/ job' = [job EXCEPT !.at = "escalate"]
  /\ UNCHANGED <<alerts, state, orders, clock, due, faults, history>>

(* Alertmanager is asked again: what has resolved is not paged about; no   *)
(* answer counts as firing.                                                *)
Judge ==
  /\ job.at = "judge"
  /\ \/ /\ IF job.unit \cap firing = {} THEN job' = Idle
           ELSE job' = [job EXCEPT !.at = IF job.action = "urgent" THEN "handoff" ELSE "page"]
        /\ UNCHANGED faults
     \/ job' = [job EXCEPT !.at = IF job.action = "urgent" THEN "handoff" ELSE "page"] /\ Fault
  /\ UNCHANGED <<alerts, state, orders, clock, due, history>>

(* The condition an order is about.  The responder passes it in            *)
(* ESCALATE_SIG, which remediate.sh does not read: it keys on the reason,  *)
(* and that names the size of the unit too.                                *)
Condition == <<NameOf[CHOOSE a \in job.unit : TRUE], job.space>>
OrderKey  == <<Condition[1], Condition[2], Cardinality(job.unit)>>

(* remediate.sh: an order that is open or with a human is not filed again; *)
(* when one cannot be filed the responder pages.                           *)
Handoff ==
  /\ job.at = "handoff"
  /\ \/ orders' = orders \cup {OrderKey} /\ job' = Idle /\ UNCHANGED faults
     \/ /\ orders' \in {orders, orders \cup {OrderKey}}
        /\ job' = [job EXCEPT !.at = "page"] /\ Fault
  /\ UNCHANGED <<alerts, state, clock, due, history>>

(* Mutant: one page too many.                                              *)
CappingLate == job.sent > MaxPages

(* page: capped by what was counted, when the run started, of the hour it  *)
(* started in.                                                             *)
Capping == job.sent >= MaxPages

Page ==
  /\ job.at = "page"
  /\ \/ /\ Capping /\ job' = Idle /\ UNCHANGED <<faults, booked>>
     \/ /\ ~Capping /\ job' = [job EXCEPT !.at = "count"]
        /\ booked' = [booked EXCEPT ![job.hours] = @ + 1]
        /\ UNCHANGED faults
     \/ /\ ~Capping /\ job' = Idle /\ Fault     \* no answer, delivered or not
        /\ booked' \in {booked, [booked EXCEPT ![job.hours] = @ + 1]}
  /\ UNCHANGED <<alerts, state, orders, clock, due, diagnosed, since>>

(* The page is counted, under the hour the run started in (what a past hour *)
(* is counted is never read again); a write that is refused is only logged. *)
Count ==
  /\ job.at = "count" /\ job' = Idle
  /\ \/ /\ StateWrite({}, {}) /\ UNCHANGED faults
        /\ count' = IF job.hours = 0 THEN job.sent + 1 ELSE count
     \/ Fault /\ UNCHANGED state
  /\ UNCHANGED <<alerts, orders, clock, due, history>>

(* A diagnosis that failed files an escalation, best effort.               *)
Escalate ==
  /\ job.at = "escalate" /\ job' = Idle
  /\ UNCHANGED <<alerts, state, orders, clock, due, faults, history>>

Killed ==
  /\ job.at # "idle" /\ job' = Idle /\ Fault
  /\ UNCHANGED <<alerts, state, orders, clock, due, history>>

-----------------------------------------------------------------------------
Init ==
  /\ firing = {} /\ age = [a \in Alerts |-> 0]
  /\ claim = [a \in Alerts |-> Gone] /\ cool = [k \in CoolKeys |-> Gone]
  /\ count = 0 /\ orders = {}
  /\ clock = 0 /\ due = FALSE /\ job = Idle /\ faults = 0
  /\ diagnosed = {} /\ since = [p \in Pairs |-> Cooldown]
  /\ booked = [h \in 0..1 |-> 0]

JobStep == \/ Start \/ Poll \/ Claim \/ Summon \/ Return \/ Judge \/ Handoff \/ Page \/ Count
           \/ Escalate

Next == \/ JobStep \/ ClaimRefused \/ Killed \/ Tick
        \/ \E a \in Alerts : Fire(a) \/ Resolve(a)
        \/ \E k \in orders : Release(k)

Spec == Init /\ [][Next]_vars

(* The schedule goes on, and a run gets on with its calls.                 *)
Fairness == WF_vars(Tick) /\ WF_vars(JobStep)
FairSpec == Spec /\ Fairness
-----------------------------------------------------------------------------
(* Properties.                                                             *)

Jobs == [at : {"idle", "poll", "claim", "summon", "run", "judge", "handoff", "page", "count",
               "escalate"},
         ticks : 0..RunSpan, hours : 0..1, sent : Nat, handled : SUBSET Alerts,
         cooling : SUBSET Alerts, elig : SUBSET Alerts, live : SUBSET Alerts,
         unit : SUBSET Alerts, space : Spaces \cup {All}, action : {"none", "investigate", "urgent"}]

TypeOK ==
  /\ firing \subseteq Alerts /\ age \in [Alerts -> 0..(MaxAge + RunSpan)]
  /\ claim \in [Alerts -> 0..Gone] /\ cool \in [CoolKeys -> 0..Gone]
  /\ count \in 0..MaxPages
  /\ orders \subseteq (Names \X Spaces \X Nat)
  /\ clock \in 0..(Hour - 1) /\ due \in BOOLEAN /\ job \in Jobs /\ faults \in 0..MaxFaults
  /\ diagnosed \subseteq firing /\ since \in [Pairs -> 0..Cooldown]
  /\ booked \in [0..1 -> Nat]

Summons == job.at = "summon" /\ job'.at = "run"

(* An incident is diagnosed at most once, whatever is killed or pruned in  *)
(* between: the claim outlives the incident's time in scope.               *)
OncePerIncident == [][Summons => job.unit \cap job.live \cap diagnosed = {}]_vars

(* No pair is diagnosed again within COOLDOWN, however its alerts flap and *)
(* whichever of them were in a storm, up to the time a run may take.       *)
FlapGuard == [][Summons => \A a \in job.unit : since[Pair(a)] + RunSpan >= Cooldown]_vars

(* The pages sent under one bucket stay within the cap, but for those      *)
(* whose count was refused or lost.                                        *)
PagesAreCapped == \A h \in 0..1 : booked[h] <= MaxPages + faults

(* An alert that keeps firing gets its claim, whatever else flaps or       *)
(* storms around it.  One unit a run, storms first, leaves an old alert to *)
(* the cooldown of the others: none of them is served twice within one, so *)
(* it has its turn if a cooldown is longer than the runs they can take in  *)
(* it, and if incidents stay in scope for a cooldown, those runs and the   *)
(* lost ones.  Where they do not it starves.                               *)
Started(a)  == a \in firing /\ age[a] = 0
Answered(a) == claim[a] # Gone \/ a \notin firing
LastingIsClaimed == \A a \in Alerts : Started(a) ~> Answered(a)

(* "dedup keys on it": one order per condition.                            *)
OneOrderPerCondition ==
  \A k, l \in orders : k[1] = l[1] /\ k[2] = l[2] => k = l
=============================================================================
