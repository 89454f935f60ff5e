---------------------------- MODULE IntentLedger ----------------------------
(***************************************************************************)
(* The local ledger that spends each backend read of an attempt once       *)
(* (scripts/dev-env/bounded_backend_workflow.py): discovery reads in their *)
(* order, the choice of a route, its merge and delivery, a revalidation,   *)
(* and the metrics read while the revalidation is young.  Every command    *)
(* loads the file under a nonblocking lock, wants the revision its caller  *)
(* has seen, and replaces the file before it prints anything: so a command *)
(* is one step, and a caller may die between the file and the advice.      *)
(* Callers share the host's clock, and read it before they call.           *)
(***************************************************************************)
EXTENDS Naturals, Sequences, FiniteSets

CONSTANTS
  Callers,      \* processes with the attempt's binding
  Discovery,    \* DISCOVERY_SLOTS, in their order, "ceph-status" among them
  Routes,       \* manager and endpoint pairs that a read may observe
  Allowed,      \* those of the contract's allowlist
  Covered,      \* those with a route that exists already
  Heads,        \* reviewed pull request heads
  RouteOf,      \* head -> the route it prepares
  Plans,        \* [reserve, deadline] that reserve-cleanup may set
  Guard,        \* PROOF_GUARD_S
  Budget,       \* METRICS_BUDGET_S, PVE_BUDGET_S
  Grants, Expiry, \* residual grants of other owners, their expiry
  MaxNow,       \* bound: the clock
  MaxLag,       \* bound: age of the clock reading a command is called with
  MaxBlockers,  \* the bounded blocker list
  MaxFaults     \* bound: callers that die, failovers of the manager

DiscoverySlots == {Discovery[i] : i \in DOMAIN Discovery}
Slots == DiscoverySlots \cup {"revalidation", "metrics"}
NoRoute == "none"

(* What is assumed of the constants. *)
LedgerAssumption ==
  /\ "ceph-status" \in DiscoverySlots /\ {"revalidation", "metrics"} \cap DiscoverySlots = {}
  /\ Covered \subseteq Allowed /\ Allowed \subseteq Routes /\ NoRoute \notin Routes
  /\ RouteOf \in [Heads -> Routes] /\ MaxNow # 0
  /\ \A p \in Plans : p.reserve \in Nat \ {0} /\ p.deadline \in Nat
  /\ {Guard, Budget, MaxNow, MaxLag, MaxBlockers, MaxFaults} \subseteq Nat

VARIABLES
  lNow,        \* the host's clock
  lRoute,      \* the active manager's route
  lFaults,
  lCall,       \* caller -> its read: idle, advised, reading, answered
  lReads,      \* history: slot -> reads begun
  (* the file *)
  lLast,       \* last_now
  lPlan,       \* reserved_s and deadline, deadline 0 when not set
  lCands,      \* heads prepared
  lBranch, lSel,  \* none, existing, new; the selected route
  lHead,       \* the selected head, or "none"
  lMerged, lReady, \* merge recorded; deployment, grant and CNP observed ready
  lSlot,       \* slot -> free, pending, held (no dispatch), success, other
  lProof,      \* discovery and revalidation -> [from, to, route], to 0 before
  lBlockers,   \* sequence of [kind, open]
  lGrant,      \* grant -> unlisted, active, gone
  lClean       \* the last evaluation is kept and says clean

Choice == <<lCands, lBranch, lSel, lHead>>
Delivery == <<lMerged, lReady>>
Spent == <<lSlot, lProof>>
Residue == <<lBlockers, lGrant>>
File == <<lLast, lPlan, Choice, Delivery, Spent, Residue, lClean>>
World == <<lNow, lRoute, lFaults, lReads>>
vars == <<World, lCall, File>>

Idle == [at |-> "idle"]

Init ==
  /\ lNow = 1 /\ lRoute \in Routes /\ lFaults = 0 /\ lReads = [s \in Slots |-> 0]
  /\ lCall = [c \in Callers |-> Idle]
  /\ lLast = 1 /\ lPlan = [reserve |-> 0, deadline |-> 0] /\ lCands = {}
  /\ lBranch = "none" /\ lSel = NoRoute /\ lHead = "none" /\ lMerged = FALSE /\ lReady = FALSE
  /\ lSlot = [s \in Slots |-> "free"]
  /\ lProof = [k \in {"discovery", "revalidation"} |-> [from |-> 0, to |-> 0, route |-> NoRoute]]
  /\ lBlockers = <<>> /\ lGrant = [g \in Grants |-> "unlisted"] /\ lClean = FALSE

----------------------------------------------------------------------------
(* A command: cas and advance_clock.  Its caller read the clock before it  *)
(* called, and the revision it names is the current one: any other is      *)
(* refused without effect.                                                 *)
Cas(now) == now + MaxLag >= lNow /\ now >= lLast /\ lLast' = now /\ UNCHANGED World

(* require_owner and require_reserve. *)
Unblocked == \A i \in DOMAIN lBlockers : ~lBlockers[i].open
OwnerThere == \A i \in DOMAIN lBlockers : lBlockers[i].kind # "lost-owner"
Reserved(now, budget) == lPlan.deadline > 0 /\ now + lPlan.reserve + budget <= lPlan.deadline
NormalStage(now, budget) == Cas(now) /\ OwnerThere /\ Unblocked /\ Reserved(now, budget) /\ lClean' = FALSE

Successful(slots) == \A s \in slots : lSlot[s] = "success"
Consumed(s) == lSlot[s] # "free"

(* classify_proof: young from its request on, with the full budget left.   *)
ProofDeadline(p) == p.from + Guard
Young(p, now, budget) == p.to > 0 /\ p.to <= now /\ now + budget <= ProofDeadline(p)

(* match_proof, of the route the caller has verified itself.               *)
Matches(p, route) == route = p.route /\ route \in Allowed /\ lSel \in {NoRoute, route}

----------------------------------------------------------------------------
(* The commands of a stage.                                                *)

ReserveCleanup(now) ==
  /\ Cas(now) /\ lPlan' \in Plans /\ lPlan'.deadline > now + lPlan'.reserve
  /\ UNCHANGED <<lCall, Choice, Delivery, Spent, Residue, lClean>>

PrepareCandidate(now) ==
  /\ NormalStage(now, 1) /\ \A s \in Slots : ~Consumed(s)
  /\ lBranch = "none" /\ Cardinality(lCands) < 3
  /\ \E h \in Heads \ lCands : RouteOf[h] \in Allowed /\ lCands' = lCands \cup {h}
  /\ UNCHANGED <<lCall, lPlan, lBranch, lSel, lHead, Delivery, Spent, Residue>>

(* The route found, by the one candidate for it or as it exists.           *)
SelectCandidate(now) ==
  /\ NormalStage(now, 1) /\ Successful(DiscoverySlots) /\ lBranch = "none"
  /\ LET p == lProof["discovery"] IN
       /\ Young(p, now, 0) /\ Matches(p, lRoute) /\ lSel' = p.route
       /\ \/ p.route \in Covered /\ lBranch' = "existing" /\ lHead' = "none"
          \/ /\ lBranch' = "new"
             /\ \E h \in lCands : {k \in lCands : RouteOf[k] = p.route} = {h} /\ lHead' = h
  /\ UNCHANGED <<lCall, lPlan, lCands, Delivery, Spent, Residue>>

(* The squash merge of the selected head, fetched and applied by Flux.     *)
RecordMerge(now) ==
  /\ NormalStage(now, 1) /\ lBranch = "new" /\ ~lMerged /\ lMerged' = TRUE
  /\ UNCHANGED <<lCall, lPlan, Choice, lReady, Spent, Residue>>

ObserveDelivery(now) ==
  /\ NormalStage(now, 1) /\ lBranch # "none" /\ (lBranch = "new" => lMerged)
  /\ ~Consumed("revalidation")
  /\ lReady' \in BOOLEAN
  /\ UNCHANGED <<lCall, lPlan, Choice, lMerged, Spent, Residue>>

----------------------------------------------------------------------------
(* Reads.                                                                  *)

Before(s) ==
  {Discovery[j] : j \in {k \in DOMAIN Discovery : \E i \in DOMAIN Discovery : k < i /\ Discovery[i] = s}}

(* require_delivery. *)
Delivered == lBranch # "none" /\ (lBranch = "new" => lMerged) /\ lReady

MayAdmit(s) ==
  IF s \in DiscoverySlots
  THEN (lCands # {} \/ Covered # {}) /\ Successful(Before(s))
  ELSE Successful(DiscoverySlots) /\ Delivered /\ (s = "metrics" => Successful({"revalidation"}))

Proven(now) == LET p == lProof["revalidation"] IN Young(p, now, Budget) /\ Matches(p, lRoute)

Min2(a, b) == IF a < b THEN a ELSE b
TransportDeadline == Min2(ProofDeadline(lProof["revalidation"]), lPlan.deadline - lPlan.reserve)

Advise(c, s, until) ==
  /\ lCall[c].at = "idle"
  /\ lCall' = [lCall EXCEPT ![c] = [at |-> "advised", slot |-> s, until |-> until]]

(* admit: the slot is spent in the file before the advice to read exists.  *)
(* A caller may also enter it as not to be read; a metrics read without a  *)
(* young proof of the very route is spent and denied.                      *)
Admit(c, now, s) ==
  /\ NormalStage(now, Budget) /\ ~Consumed(s) /\ MayAdmit(s)
  /\ \E decision \in {"admit", "denied"} :
       LET dispatch == decision = "admit" /\ (s = "metrics" => Proven(now)) IN
       /\ lSlot' = [lSlot EXCEPT ![s] = IF dispatch THEN "pending" ELSE "held"]
       /\ IF dispatch THEN Advise(c, s, IF s = "metrics" THEN TransportDeadline ELSE MaxNow)
                      ELSE UNCHANGED lCall
  /\ UNCHANGED <<lPlan, Choice, Delivery, lProof, Residue>>

(* Mutant: a replay of a read whose outcome is missing advises it again.   *)
ReplayAdvises(c, now, s) ==
  /\ Cas(now) /\ Consumed(s) /\ (IF lSlot[s] = "pending" THEN Advise(c, s, MaxNow) ELSE UNCHANGED lCall)
  /\ UNCHANGED <<lPlan, Choice, Delivery, Spent, Residue, lClean>>

(* The same intent once more: the entry is found, nothing is advised.      *)
Replay(c, now, s) ==
  /\ Cas(now) /\ Consumed(s)
  /\ UNCHANGED <<lCall, lPlan, Choice, Delivery, Spent, Residue, lClean>>

(* The transport reads on advice, in time for the deadline it was given.   *)
Read(c) ==
  /\ lCall[c].at = "advised" /\ lNow + Budget <= lCall[c].until
  /\ lReads' = [lReads EXCEPT ![lCall[c].slot] = @ + 1]
  /\ lCall' = [lCall EXCEPT ![c] = [at |-> "reading", slot |-> lCall[c].slot, from |-> lNow]]
  /\ UNCHANGED <<lNow, lRoute, lFaults, File>>

Answered(c) ==
  /\ lCall[c].at = "reading"
  /\ \E ok \in BOOLEAN : lCall' = [lCall EXCEPT ![c] = [at |-> "answered", slot |-> lCall[c].slot,
       from |-> lCall[c].from, to |-> lNow, route |-> lRoute, ok |-> ok]]
  /\ UNCHANGED <<World, File>>

(* record_outcome: a caller keeps what it read until it is in the file.    *)
(* A success of two of the reads becomes the proof of its interval.        *)
RecordOutcome(c, now) ==
  /\ lCall[c].at = "answered" /\ Cas(now) /\ lCall[c].to <= now
  /\ LET r == lCall[c] IN
       /\ lSlot[r.slot] = "pending"
       /\ lSlot' = [lSlot EXCEPT ![r.slot] = IF r.ok THEN "success" ELSE "other"]
       /\ LET proof == [from |-> r.from, to |-> r.to, route |-> r.route] IN
          lProof' = IF ~r.ok THEN lProof
                    ELSE IF r.slot = "ceph-status" THEN [lProof EXCEPT !["discovery"] = proof]
                    ELSE IF r.slot = "revalidation" THEN [lProof EXCEPT !["revalidation"] = proof]
                    ELSE lProof
  /\ lCall' = [lCall EXCEPT ![c] = Idle]
  /\ UNCHANGED <<lPlan, Choice, Delivery, Residue, lClean>>

----------------------------------------------------------------------------
(* Blockers and residue.                                                   *)

RecordBlocker(now) ==
  /\ Cas(now) /\ Len(lBlockers) < MaxBlockers
  /\ \E k \in {"recoverable", "turn-end", "lost-owner"} :
       lBlockers' = Append(lBlockers, [kind |-> k, open |-> TRUE])
  /\ UNCHANGED <<lCall, lPlan, Choice, Delivery, Spent, lGrant, lClean>>

(* Nothing spent was spent in vain, and something is left to spend.        *)
NothingWasted == \A s \in Slots : Consumed(s) => lSlot[s] = "success" /\ s # "metrics"

ResolveBlocker(now) ==
  /\ Cas(now) /\ Reserved(now, Budget)
  /\ \A i \in DOMAIN lBlockers : lBlockers[i].kind = "recoverable"
  /\ NothingWasted
  /\ \E i \in DOMAIN lBlockers : lBlockers[i].open /\ lBlockers' = [lBlockers EXCEPT ![i].open = FALSE]
  /\ lClean' = FALSE
  /\ UNCHANGED <<lCall, lPlan, Choice, Delivery, Spent, lGrant>>

(* residual: another owner's grant is gone only by its expiry, and either  *)
(* observation drops the evaluation.                                       *)
Residual(now) ==
  /\ Cas(now)
  /\ \E g \in Grants, seen \in {"active", "gone"} :
       /\ seen = "gone" => Expiry[g] <= now
       /\ lGrant' = [lGrant EXCEPT ![g] = seen]
  /\ lClean' = FALSE
  /\ UNCHANGED <<lCall, lPlan, Choice, Delivery, Spent, lBlockers>>

(* evaluate: a complete audit that agrees with the listed grants.          *)
EvaluateClean(now) ==
  /\ Cas(now) /\ lClean' \in {FALSE, \A g \in Grants : lGrant[g] # "active"}
  /\ UNCHANGED <<lCall, lPlan, Choice, Delivery, Spent, Residue>>

----------------------------------------------------------------------------
(* The clock, which a read does not outlast, failovers and deaths.         *)
Tick ==
  /\ lNow < MaxNow /\ \A c \in Callers : lCall[c].at = "reading" => lNow < lCall[c].from + Budget
  /\ lNow' = lNow + 1 /\ UNCHANGED <<lRoute, lFaults, lReads, lCall, File>>

Failover ==
  /\ lFaults < MaxFaults /\ lFaults' = lFaults + 1 /\ lRoute' \in Routes \ {lRoute}
  /\ UNCHANGED <<lNow, lReads, lCall, File>>

Dies(c) ==
  /\ lCall[c].at \in {"advised", "reading", "answered"} /\ lFaults < MaxFaults /\ lFaults' = lFaults + 1
  /\ lCall' = [lCall EXCEPT ![c] = Idle]
  /\ UNCHANGED <<lNow, lRoute, lReads, File>>

Command(now) ==
  \/ ReserveCleanup(now) \/ PrepareCandidate(now) \/ SelectCandidate(now) \/ RecordMerge(now)
  \/ ObserveDelivery(now) \/ RecordBlocker(now) \/ ResolveBlocker(now) \/ Residual(now) \/ EvaluateClean(now)
  \/ \E c \in Callers, s \in Slots : Replay(c, now, s) \/ Admit(c, now, s)
  \/ \E c \in Callers : RecordOutcome(c, now)

Next ==
  \/ Tick \/ Failover \/ \E now \in lLast..lNow : Command(now)
  \/ \E c \in Callers : Read(c) \/ Answered(c) \/ Dies(c)

Spec == Init /\ [][Next]_vars

----------------------------------------------------------------------------
(* What a caller knows of its read.                                        *)
Calls ==
  {Idle} \cup [at : {"advised"}, slot : Slots, until : Nat] \cup [at : {"reading"}, slot : Slots, from : Nat]
    \cup [at : {"answered"}, slot : Slots, from : Nat, to : Nat, route : Routes, ok : BOOLEAN]

TypeOK ==
  /\ lNow \in 1..MaxNow /\ lLast \in 1..MaxNow /\ lRoute \in Routes /\ lFaults \in 0..MaxFaults
  /\ lReads \in [Slots -> Nat]
  /\ lCall \in [Callers -> Calls]
  /\ lPlan \in Plans \cup {[reserve |-> 0, deadline |-> 0]} /\ lCands \subseteq Heads
  /\ lBranch \in {"none", "existing", "new"} /\ lSel \in Routes \cup {NoRoute}
  /\ lHead \in Heads \cup {"none"}
  /\ lMerged \in BOOLEAN /\ lReady \in BOOLEAN /\ lClean \in BOOLEAN
  /\ lSlot \in [Slots -> {"free", "pending", "held", "success", "other"}]
  /\ lProof \in [{"discovery", "revalidation"} -> [from : Nat, to : Nat, route : Routes \cup {NoRoute}]]
  /\ lBlockers \in Seq([kind : {"recoverable", "turn-end", "lost-owner"}, open : BOOLEAN])
  /\ lGrant \in [Grants -> {"unlisted", "active", "gone"}]

(* Each backend read happens at most once in an attempt, whoever replays,  *)
(* dies or races, and only after the file says that it was spent.          *)
SpentOnce == \A s \in Slots : lReads[s] <= 1 /\ (lReads[s] > 0 => Consumed(s))

(* While the metrics are read their revalidation is young, of the route    *)
(* that was selected, and the delivery it was of still stands.             *)
MetricsBacked ==
  /\ Consumed("revalidation") => Delivered
  /\ \A c \in Callers : lCall[c].at = "reading" /\ lCall[c].slot = "metrics" =>
       /\ lNow <= lProof["revalidation"].from + Guard
       /\ lProof["revalidation"].route = lSel /\ lSel \in Allowed

(* An evaluation that says clean is not kept beside a grant found active.  *)
CleanHolds == lClean => \A g \in Grants : lGrant[g] # "active"

LedgerHolds == SpentOnce /\ MetricsBacked /\ CleanHolds

SpendsNothing ==
  (\E i \in DOMAIN lBlockers : lBlockers[i].kind # "recoverable") => \A s \in Slots : Consumed(s)' => Consumed(s)

(* An attempt whose owner is lost or whose turn has ended spends nothing   *)
(* more, whatever is resolved.                                             *)
EndedStays == [][SpendsNothing]_vars
=============================================================================
