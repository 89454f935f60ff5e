---------------------------- MODULE Coordination ----------------------------
(***************************************************************************)
(* The health gate and the upgrade triage: two CronJobs that see the same  *)
(* regressions and coordinate through one ConfigMap, the state CM.  The    *)
(* triage claims a regression there, once, before it summons a paid agent  *)
(* to remediate it; the gate pages a human unless a fix is in flight, and  *)
(* stamps what it paged.  Every write is a fresh read, modify and replace, *)
(* which the API server refuses when the CM changed in between.            *)
(*                                                                         *)
(* A regression is known by its signature, the set of failing Flux objects *)
(* or, when there are none, of failing workloads.  One Tick is one cycle   *)
(* of the schedule both CronJobs share.                                    *)
(***************************************************************************)
EXTENDS Naturals

CONSTANTS
  Flux,         \* the Flux objects that may fail
  Pods,         \* the workloads whose pods may fail
  Grace,        \* REMEDIATE_GRACE_MINUTES, in ticks
  Repage,       \* REPAGE_SUPPRESS_HOURS, in ticks
  Ttl,          \* STATE_TTL_HOURS, in ticks
  RunSpan,      \* UPGRADE_AGENT_TIMEOUT: ticks a summoned run may live through
  MaxFaults     \* lost calls, refused writes, killed jobs in a behaviour (a bound)

ASSUME SignalsAssumption ==
  /\ Flux \cap Pods = {} /\ Flux \cup Pods # {}
  /\ Grace \in Nat /\ Repage \in Nat \ {0} /\ Ttl \in Nat \ {0}
  /\ RunSpan \in Nat /\ MaxFaults \in Nat

VARIABLES
  present,    \* the signals that are persistently failing
  recent,     \* the signals attribute puts down to an upgrade
  cm,         \* the state CM: what each signature has on record
  exists,     \* whether the state CM was ever created
  due,        \* the CronJobs whose run of this cycle has not started
  gate,       \* the gate's run
  triage,     \* the triage's run
  faults,
  tried,      \* history: the signatures an attempt was ever claimed for, to summon an agent
  told,       \* history: ticks since a signature's last stamped page
  forgot      \* history: signatures the CM dropped while that page was recent

cluster == <<present, recent>>
state   == <<cm, exists>>
history == <<tried, told, forgot>>
vars    == <<cluster, state, due, gate, triage, faults, history>>

Signals == Flux \cup Pods
Sigs    == ((SUBSET Flux) \cup (SUBSET Pods)) \ {{}}
Never   == Repage + 1          \* last_paged "0": never paged
Oldest  == Ttl + RunSpan       \* ages of entries are followed this far
Results == {"none", "fixed", "pending", "failed"}

Entry  == [class : {"none", "upgrade", "nonupgrade"}, attempted : BOOLEAN, result : Results,
           seen : 0..Oldest, paged : 0..Never]
Absent == [class |-> "none"]   \* no entry: every field reads as ""

Capped(i, max) == IF i > max THEN max ELSE i

OnRecord(s) == cm[s] # Absent
Claimed(s)  == OnRecord(s) /\ cm[s].attempted

(* sig_key_of: failing Flux objects are the incident, whatever pods fail   *)
(* beside them.                                                            *)
SigOf(ids) == IF ids \cap Flux # {} THEN ids \cap Flux ELSE ids

Fault == faults < MaxFaults /\ faults' = faults + 1

-----------------------------------------------------------------------------
(* What both jobs share.                                                   *)

(* collect_regressions: a query that fails leaves its dimension out.       *)
Collected(ids) ==
  \/ ids = present /\ UNCHANGED faults
  \/ ids \in {{}, present \cap Flux, present \cap Pods} /\ Fault

(* What state_upsert makes of an entry: first_seen and last_paged stay.    *)
Upserted(s, class, attempted, result) ==
  [class |-> class, attempted |-> attempted, result |-> result,
   paged |-> IF OnRecord(s) THEN cm[s].paged ELSE Never,
   seen |-> IF OnRecord(s) THEN cm[s].seen ELSE triage.ticks]

(* An entry is dropped when it was first seen TTL before the run's NOW.    *)
Fresh(s) == OnRecord(s) /\ cm[s].seen < Ttl + triage.ticks

(* The CM changes to new; what it drops is forgotten.                      *)
Write(new) ==
  /\ cm' = new
  /\ forgot' = forgot \cup {s \in Sigs : /\ OnRecord(s) /\ new[s] = Absent
                                         /\ told[s] < Repage}

(* state_upsert: the entry of s is written and the others are pruned.      *)
Upsert(s, class, attempted, result) ==
  /\ Write([t \in Sigs |-> IF t = s THEN Upserted(s, class, attempted, result)
                           ELSE IF Fresh(t) THEN cm[t] ELSE Absent])
  /\ exists' = TRUE
  /\ UNCHANGED <<faults, told>>

Refused == Fault /\ UNCHANGED <<state, told, forgot>>

-----------------------------------------------------------------------------
(* The cluster.                                                            *)

Break(x) == /\ x \notin present /\ present' = present \cup {x}
            /\ UNCHANGED <<recent, state, due, gate, triage, faults, history>>
Heal(x)  == /\ x \in present /\ present' = present \ {x}
            /\ UNCHANGED <<recent, state, due, gate, triage, faults, history>>

(* What attribute finds out about x changes: a merge touched its app path  *)
(* or has passed out of TRIAGE_MERGE_LOOKBACK_HOURS, Flux marks its release *)
(* as a failed upgrade or no longer, an admission policy denied it or does *)
(* not any more.  The three are one verdict here, recent.                  *)
Merge(x) ==
  /\ recent' = IF x \in recent THEN recent \ {x} ELSE recent \cup {x}
  /\ UNCHANGED <<present, state, due, gate, triage, faults, history>>

(* What a cycle does to the ages and to the schedule.                      *)
Aged ==
  /\ due = {} /\ gate.at = "idle" /\ triage.at \in {"idle", "run"}
  /\ due' = IF triage.at = "idle" THEN {"gate", "triage"} ELSE {"gate"}
  /\ triage' = IF triage.at = "idle" THEN triage ELSE [triage EXCEPT !.ticks = @ + 1]
  /\ cm' = [s \in Sigs |->
       IF ~OnRecord(s) THEN Absent
       ELSE [cm[s] EXCEPT !.seen = Capped(@ + 1, Oldest),
                          !.paged = IF @ = Never THEN Never ELSE Capped(@ + 1, Repage)]]
  /\ told' = [s \in Sigs |-> Capped(told[s] + 1, Repage)]
  /\ forgot' = {s \in forgot : told'[s] < Repage}
  /\ UNCHANGED <<cluster, exists, gate, faults, tried>>

(* The next cycle.  concurrencyPolicy Forbid skips a triage that is due    *)
(* while the last one still runs; its run has a timeout.                   *)
Tick == Aged /\ (triage.at = "run" => triage.ticks < RunSpan)

-----------------------------------------------------------------------------
(* The gate.                                                               *)

GateIdle == [at |-> "idle", sig |-> {}, flux |-> FALSE, pods |-> FALSE,
             again |-> FALSE, heard |-> FALSE]

(* Mutant: a fix that has run out of its grace window is still in flight.  *)
PhaseInflight(e) ==
  IF e.class # "upgrade" THEN "none"
  ELSE IF e.result \in {"fixed", "failed"} THEN e.result
  ELSE "inflight"

(* Mutant: the class is not looked at.                                     *)
PhaseOfAny(e) ==
  IF e = Absent THEN "none"
  ELSE IF e.result \in {"fixed", "failed"} THEN e.result
  ELSE IF e.seen < Grace THEN "inflight" ELSE "failed"

(* remediation_phase                                                       *)
Phase(e) ==
  IF e.class # "upgrade" THEN "none"
  ELSE IF e.result \in {"fixed", "failed"} THEN e.result
  ELSE IF e.seen < Grace THEN "inflight" ELSE "failed"

(* A page within REPAGE_SUPPRESS_HOURS of the last one is suppressed.      *)
Deduped(e) == e # Absent /\ e.paged < Repage

(* Flux is paged unless a fix is in flight, pods only once one has failed. *)
Decide(ids, e) ==
  LET flux == ids \cap Flux # {} /\ Phase(e) # "inflight"
      pods == ids \cap Pods # {} /\ Phase(e) = "failed"
  IN  gate' = IF (flux \/ pods) /\ ~Deduped(e)
              THEN [at |-> "page", sig |-> SigOf(ids), flux |-> flux, pods |-> pods,
                    again |-> e # Absent /\ e.paged # Never, heard |-> FALSE]
              ELSE GateIdle

(* The gate collects, reads the entry of the signature (an unreadable CM   *)
(* reads as none) and decides.                                             *)
GateLook ==
  /\ "gate" \in due /\ gate.at = "idle"
  /\ due' = due \ {"gate"}
  /\ \E ids \in SUBSET Signals :
       \/ Collected(ids) /\ Decide(ids, IF ids = {} THEN Absent ELSE cm[SigOf(ids)])
       \/ ids = present /\ Fault /\ Decide(ids, Absent)
  /\ UNCHANGED <<cluster, state, triage, history>>

(* The page goes to Pushover; a page that is lost is not told from one     *)
(* that is delivered.                                                      *)
GatePage ==
  /\ gate.at = "page"
  /\ \/ gate' = [gate EXCEPT !.at = "stamp", !.heard = TRUE] /\ UNCHANGED faults
     \/ gate' = [gate EXCEPT !.at = "stamp"] /\ Fault
  /\ UNCHANGED <<cluster, state, due, triage, history>>

(* state_set_last_paged: only the stamp changes, and first_seen where      *)
(* there was none.  The gate never creates the CM.                         *)
Stamped(s) ==
  IF OnRecord(s) THEN [cm[s] EXCEPT !.paged = 0]
  ELSE [class |-> "none", attempted |-> FALSE, result |-> "none", seen |-> 0, paged |-> 0]

GateStamp ==
  /\ gate.at = "stamp"
  /\ gate' = IF gate.again THEN [gate EXCEPT !.at = "escalate", !.heard = FALSE] ELSE GateIdle
  /\ \/ /\ exists /\ cm' = [cm EXCEPT ![gate.sig] = Stamped(gate.sig)]
        /\ told' = [told EXCEPT ![gate.sig] = 0] /\ forgot' = forgot \ {gate.sig}
        /\ UNCHANGED <<exists, faults, tried>>
     \/ ~exists /\ UNCHANGED <<state, faults, history>>
     \/ Refused /\ UNCHANGED tried
  /\ UNCHANGED <<cluster, due, triage>>

(* A repeated page also files an escalation, best effort.                  *)
GateEscalate ==
  /\ gate.at = "escalate" /\ gate' = GateIdle
  /\ UNCHANGED <<cluster, state, due, triage, faults, history>>

GateKilled ==
  /\ gate.at # "idle" /\ Fault /\ gate' = GateIdle
  /\ UNCHANGED <<cluster, state, due, triage, history>>

-----------------------------------------------------------------------------
(* The triage.                                                             *)

NoAttempt  == [attempted |-> FALSE, result |-> "none"]
TriageIdle == [at |-> "idle", ids |-> {}, read |-> "ok", prev |-> NoAttempt,
               result |-> "none", ticks |-> 0]

(* What the triage remembers of an entry.                                  *)
Attempt(s) == IF OnRecord(s) THEN [attempted |-> cm[s].attempted, result |-> cm[s].result]
              ELSE NoAttempt

(* No regression: old entries are pruned.                                  *)
TriagePrune ==
  /\ "triage" \in due /\ triage.at = "idle"
  /\ due' = due \ {"triage"}
  /\ \/ Collected({}) /\ Write([s \in Sigs |-> IF Fresh(s) THEN cm[s] ELSE Absent])
     \/ present = {} /\ Fault /\ UNCHANGED <<cm, forgot>>
  /\ UNCHANGED <<cluster, exists, gate, triage, told, tried>>

(* A regression: the CM is read, and an unreadable one is told from one    *)
(* that does not exist.                                                    *)
TriageLook ==
  /\ "triage" \in due /\ triage.at = "idle"
  /\ due' = due \ {"triage"}
  /\ \E ids \in (SUBSET Signals) \ {{}} :
       \/ /\ Collected(ids)
          /\ triage' = [TriageIdle EXCEPT !.at = "attribute", !.ids = ids,
               !.read = IF exists THEN "ok" ELSE "absent", !.prev = Attempt(SigOf(ids))]
       \/ /\ ids = present /\ Fault
          /\ triage' = [TriageIdle EXCEPT !.at = "attribute", !.ids = ids, !.read = "error"]
  /\ UNCHANGED <<cluster, state, gate, history>>

Sig == SigOf(triage.ids)

(* attribute: upgrade when some regressing id is one: not denied by an     *)
(* admission policy, and either failed in Flux's own words or under a path *)
(* a recent merge touched.  A clone or a look at Flux that fails           *)
(* attributes nothing.                                                     *)
Attribute ==
  /\ triage.at = "attribute"
  /\ \/ /\ triage' = [triage EXCEPT !.at =
               IF triage.ids \cap recent # {} THEN "upgrade" ELSE "nonupgrade"]
        /\ UNCHANGED faults
     \/ triage' = [triage EXCEPT !.at = "nonupgrade"] /\ Fault
  /\ UNCHANGED <<cluster, state, due, gate, history>>

(* Already attempted: the entry is refreshed and nothing is summoned.      *)
AlreadyTried ==
  /\ triage.at = "upgrade" /\ triage.prev.attempted
  /\ triage' = TriageIdle
  /\ Upsert(Sig, "upgrade", TRUE, triage.prev.result) \/ Refused
  /\ UNCHANGED <<cluster, due, gate, tried>>

(* Nobody can tell whether it was attempted: nothing is summoned.          *)
Unverifiable ==
  /\ triage.at = "upgrade" /\ ~triage.prev.attempted /\ triage.read = "error"
  /\ triage' = TriageIdle
  /\ UNCHANGED <<cluster, state, due, gate, faults, history>>

Summon == /\ triage' = [TriageIdle EXCEPT !.at = "run", !.ids = triage.ids]
          /\ tried' = tried \cup {Sig}
Stop   == triage' = TriageIdle /\ UNCHANGED tried

(* Mutant: the run is summoned although the claim did not land.            *)
ClaimAnyway ==
  /\ triage.at = "upgrade" /\ ~triage.prev.attempted /\ triage.read # "error"
  /\ Summon
  /\ Upsert(Sig, "upgrade", TRUE, "none") \/ Refused
  /\ UNCHANGED <<cluster, due, gate>>

(* The attempt is claimed and only then the agent is summoned.             *)
Claim ==
  /\ triage.at = "upgrade" /\ ~triage.prev.attempted /\ triage.read # "error"
  /\ \/ Upsert(Sig, "upgrade", TRUE, "none") /\ Summon
     \/ Refused /\ Stop
  /\ UNCHANGED <<cluster, due, gate>>

(* Mutant: the record of a nonupgrade regression lowers the claim (#3182). *)
RecordLowering ==
  /\ triage.at = "nonupgrade"
  /\ triage' = TriageIdle
  /\ \/ triage.read = "ok" /\ Upsert(Sig, "nonupgrade", FALSE, "none")
     \/ triage.read = "ok" /\ Refused
     \/ triage.read # "ok" /\ UNCHANGED <<state, faults, told, forgot>>
  /\ UNCHANGED <<cluster, due, gate, tried>>

(* nonupgrade_record: the class is written and a prior claim stays; a CM   *)
(* that was not read is left alone.                                        *)
Record ==
  /\ triage.at = "nonupgrade"
  /\ triage' = TriageIdle
  /\ \/ /\ triage.read = "ok"
        /\ Upsert(Sig, "nonupgrade", triage.prev.attempted,
                  IF triage.prev.attempted THEN triage.prev.result ELSE "none")
     \/ triage.read = "ok" /\ Refused
     \/ triage.read # "ok" /\ UNCHANGED <<state, faults, told, forgot>>
  /\ UNCHANGED <<cluster, due, gate, tried>>

(* The run ends, is skipped by the spend guard or runs into its timeout.   *)
(* The regression is collected again; a run that opened a PR is pending.   *)
Return ==
  /\ triage.at = "run"
  /\ \E ids \in SUBSET Signals, result \in {"fixed", "pending", "failed"} :
       /\ Collected(ids)
       /\ (ids = {}) <=> (result = "fixed")
       /\ triage' = [triage EXCEPT !.at = "record", !.result = result]
  /\ UNCHANGED <<cluster, state, due, gate, history>>

(* The outcome is written; a failed one then files an escalation, best     *)
(* effort.                                                                 *)
RecordResult ==
  /\ triage.at = "record"
  /\ triage' = IF triage.result = "failed" THEN [triage EXCEPT !.at = "escalate"] ELSE TriageIdle
  /\ Upsert(Sig, "upgrade", TRUE, triage.result) \/ Refused
  /\ UNCHANGED <<cluster, due, gate, tried>>

TriageEscalate ==
  /\ triage.at = "escalate" /\ triage' = TriageIdle
  /\ UNCHANGED <<cluster, state, due, gate, faults, history>>

TriageKilled ==
  /\ triage.at # "idle" /\ Fault /\ triage' = TriageIdle
  /\ UNCHANGED <<cluster, state, due, gate, history>>

-----------------------------------------------------------------------------
Init ==
  /\ present = {} /\ recent = {}
  /\ cm = [s \in Sigs |-> Absent] /\ exists = FALSE
  /\ due = {} /\ gate = GateIdle /\ triage = TriageIdle
  /\ faults = 0
  /\ tried = {} /\ told = [s \in Sigs |-> Repage] /\ forgot = {}

GateStep   == GateLook \/ GatePage \/ GateStamp \/ GateEscalate
TriageStep == \/ TriagePrune \/ TriageLook \/ Attribute \/ AlreadyTried \/ Unverifiable
              \/ Claim \/ Record \/ Return \/ RecordResult \/ TriageEscalate

Next == \/ Tick \/ GateStep \/ TriageStep \/ GateKilled \/ TriageKilled
        \/ \E x \in Signals : Break(x) \/ Heal(x) \/ Merge(x)

Spec == Init /\ [][Next]_vars

(* The schedule goes on, and each job gets on with its calls, all of which *)
(* have timeouts.                                                          *)
Fairness == WF_vars(Tick) /\ WF_vars(GateStep) /\ WF_vars(TriageStep)
FairSpec == Spec /\ Fairness
-----------------------------------------------------------------------------
(* Properties.                                                             *)

GateStates ==
  [at : {"idle", "page", "stamp", "escalate"}, sig : Sigs \cup {{}},
   flux : BOOLEAN, pods : BOOLEAN, again : BOOLEAN, heard : BOOLEAN]

TriageStates ==
  [at : {"idle", "attribute", "upgrade", "nonupgrade", "run", "record", "escalate"},
   ids : SUBSET Signals, read : {"ok", "absent", "error"},
   prev : [attempted : BOOLEAN, result : Results], result : Results, ticks : 0..RunSpan]

TypeOK ==
  /\ present \subseteq Signals /\ recent \subseteq Signals
  /\ cm \in [Sigs -> Entry \cup {Absent}] /\ exists \in BOOLEAN
  /\ due \subseteq {"gate", "triage"}
  /\ gate \in GateStates /\ triage \in TriageStates
  /\ faults \in 0..MaxFaults
  /\ tried \subseteq Sigs /\ told \in [Sigs -> 0..Repage] /\ forgot \subseteq Sigs

Summons == triage.at # "run" /\ triage'.at = "run"

(* Money is only spent on a claim that was free and is now on record, so   *)
(* that a run that dies is not paid for twice.                             *)
SummonIsClaimed == [][Summons => ~Claimed(Sig) /\ Claimed(Sig)']_vars

(* A claim stands for as long as its entry lives, whichever job writes the *)
(* entry and whatever class the regression has by then (#3182).            *)
ClaimIsKept == [][\A s \in Sigs : Claimed(s) /\ OnRecord(s)' => Claimed(s)']_vars

Pages == gate.at = "idle" /\ gate'.at = "page"

(* The gate stays off pods, which Alertmanager covers, unless an attempt   *)
(* was claimed for that very signature.                                    *)
PodPageIsEarned == [][Pages /\ gate'.pods => gate'.sig \in tried]_vars

(* A page that was stamped is not repeated within the window, unless the   *)
(* CM has dropped the entry or could not be read.                          *)
Throttled ==
  [][Pages => \/ told[gate'.sig] >= Repage \/ gate'.sig \in forgot
              \/ faults' > faults]_vars

(* A Flux object that stays broken is paged, again and again, whatever the *)
(* triage makes of it, and reaches a human.                                *)
FluxIsHeard ==
  \A x \in Flux : <>[](x \in present) => []<>(gate.at = "stamp" /\ gate.flux /\ gate.heard)

(* A regression put down to an upgrade has been attempted, in the end.    *)
FixIsTried ==
  \A x \in Signals : <>[](present = {x} /\ x \in recent) => []<>Claimed({x})

(* "PAGE ONLY when the regression is upgrade-attributable AND              *)
(* auto-remediation was attempted and FAILED": not while it runs within    *)
(* its grace window.                                                       *)
PodPageAfterRun ==
  [][Pages /\ gate'.pods =>
       ~(triage.at = "run" /\ Sig = gate'.sig /\ triage.ticks < Grace)]_vars
=============================================================================
