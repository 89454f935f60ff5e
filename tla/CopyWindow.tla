----------------------------- MODULE CopyWindow -----------------------------
(***************************************************************************)
(* The book copy window: the phase supervisor (copy-phase-supervisor.py)   *)
(* stops the library applications, runs one-shot Jobs while they are down  *)
(* and asks for restoration; the recovery watchdog                         *)
(* (copy-recovery-watch.py), a process of its own with its own state file, *)
(* actuates the stop, and restores Git source, applications and Flux       *)
(* whatever becomes of the supervisor.  They share the ledger of the phase *)
(* (checkpoint-copy-job.py), the activation record, the stop-request file  *)
(* and the cluster.  Time is a bounded clock; the watchdog is armed at 0.  *)
(***************************************************************************)
EXTENDS Integers, FiniteSets

CONSTANTS Apps,      \* the application Kustomizations held during the window
          Trigger,   \* the restore trigger (170 s)
          Ceiling,   \* the service ceiling (300 s)
          ArmLimit,  \* how long staging may last
          Stale,     \* age at which a supervisor's heartbeat is stale (15 s)
          MaxNow,    \* bound: the clock
          MaxCrash,  \* bound: deaths and failed passes of the watchdog
          MaxDrop    \* bound: holds lost to someone else

ASSUME WindowAssumption ==
  /\ {Trigger, Ceiling, ArmLimit, Stale, MaxNow, MaxCrash, MaxDrop} \subseteq Nat
  /\ 0 < Trigger /\ Trigger < Ceiling
  /\ IsFiniteSet(Apps) /\ Apps # {}

Unset == -1
Clock == 0..MaxNow
Jobs == {"source", "reader", "main"}

VARIABLES
  now,      \* the clock
  inverse,  \* TRUE once the pull request restoring Normal is merged
  artifact, \* what Flux would apply: the sealed "stop" revision or "normal"
  ks,       \* each application's Kustomization: "held" or "open"
  app,      \* each application: "normal" or "stopped"
  drops,    \* holds someone else has dropped
  stop,     \* the stop-request file exists
  act,      \* the activation record: when its budget began, or Unset
  ledger,   \* the durable phase ledger
  job,      \* each owned Job in the cluster: none, live or terminating
  fly,      \* creations submitted that the API server has not yet settled
  late,     \* creations already under way when the stop request appeared
  sup,      \* the supervisor: where it is and which Job is next
  w,        \* the watchdog's state file
  wpc,      \* where the watchdog is
  crashes

clusterVars == <<inverse, artifact, ks, app, drops, job>>
supVars     == <<act, ledger, fly, sup>>
watchVars   == <<w, wpc, crashes>>
vars == <<now, clusterVars, stop, late, supVars, watchVars>>

Least(a, b) == IF a = Unset THEN b ELSE IF b = Unset \/ a <= b THEN a ELSE b

(* Some service's workload shows the stop manifests.                       *)
StopActuated == \E a \in Apps : app[a] = "stopped"
(* A workload is what its manifest of current main asks for, and Ready.    *)
Converged(a) == app[a] = "normal"
AllNormal    == \A a \in Apps : Converged(a)
(* The sealed source proof still holds: frozen artifact, every hold kept.  *)
LiveHolds(open) == artifact = "stop" /\ \A a \in Apps \ open : ks[a] = "held"
(* A hold is resumed by its owner only, on the object it was taken on.     *)
Resume(a) == ks' = [ks EXCEPT ![a] = "open"]
(* The union of registered names, UIDs and phase labels is empty.          *)
PhaseAbsent == \A j \in Jobs : job[j] = "none"

Init ==
  /\ now = 0 /\ inverse = FALSE /\ artifact = "stop" /\ drops = 0
  /\ ks = [a \in Apps |-> "held"] /\ app = [a \in Apps |-> "normal"]
  /\ stop = FALSE /\ act = Unset /\ fly = {} /\ late = {}
  /\ ledger = [start |-> Unset, beat |-> Unset,
               ready |-> {}, uid |-> {}]
  /\ job = [j \in Jobs |-> "none"]
  /\ sup = [pc |-> "stage", next |-> "source"]
  /\ w = [ready |-> FALSE, accepted |-> FALSE, revoked |-> FALSE,
          complete |-> FALSE, recover |-> TRUE, verified |-> FALSE,
          budget |-> Unset, start |-> Unset, began |-> FALSE, done |-> FALSE,
          missed |-> FALSE, doneAt |-> Unset]
  /\ wpc = "idle" /\ crashes = 0

-----------------------------------------------------------------------------
(* The supervisor.                                                         *)

(* guard_lease: no stop request, and the restore reserve not yet reached.  *)
Guard == ~stop /\ now < act + Trigger

GoTo(s) == sup' = [sup EXCEPT !.pc = s]

(* arm: the watchdog is armed, holds its proof and is not revoked; the     *)
(* services are live behind held Kustomizations.                           *)
Arm ==
  /\ sup.pc = "stage"
  /\ w.ready /\ w.accepted /\ w.recover /\ ~w.complete /\ ~w.revoked /\ ~stop
  /\ inverse /\ now < ArmLimit /\ AllNormal /\ LiveHolds({})
  /\ GoTo("armed")
  /\ UNCHANGED <<now, clusterVars, stop, late, act, ledger, fly, watchVars>>

Activate ==
  /\ sup.pc = "armed"
  /\ act' = now
  /\ GoTo("gate")
  /\ UNCHANGED <<now, clusterVars, stop, late, ledger, fly, watchVars>>

(* wait_for_stop: the first absence seen starts the window in the ledger;  *)
(* the wait ends when the watchdog has reheld every scope.                 *)
WaitForStop ==
  /\ sup.pc = "gate"
  /\ ~stop /\ w.recover /\ ~w.complete /\ ~w.revoked /\ now < act + Trigger
  /\ artifact = "stop"
  /\ \/ /\ ledger.start = Unset /\ StopActuated
        /\ ledger' = [ledger EXCEPT !.start = now, !.beat = now]
        /\ UNCHANGED sup
     \/ /\ ledger.start # Unset /\ w.done /\ LiveHolds({})
        /\ GoTo("fence")
        /\ UNCHANGED ledger
  /\ UNCHANGED <<now, clusterVars, stop, late, act, fly, watchVars>>

(* service_fence: every service stopped, book CronJobs suspended.          *)
ServiceFence ==
  /\ sup.pc = "fence" /\ Guard
  /\ \A a \in Apps : app[a] = "stopped"
  /\ GoTo("bind")
  /\ UNCHANGED <<now, clusterVars, stop, late, act, ledger, fly, watchVars>>

(* An intent is bound once, while no Job of its name exists.               *)
Bindable(j) == j \notin ledger.uid \cup ledger.ready /\ job[j] = "none"

(* The recorded SOURCE pod runs and its own backend reports its lock.      *)
SourceLeaseLive == job["source"] = "live"

(* The Job seen is the recorded intent, whatever admission defaulted.      *)
Seen(j) == j \notin fly /\ job[j] = "live"

(* bind: the exact manifest of the next worker becomes durable.            *)
Bind ==
  /\ sup.pc = "bind" /\ Guard
  /\ Bindable(sup.next)
  /\ sup.next = "reader" => SourceLeaseLive
  /\ ledger' = [ledger EXCEPT !.ready = @ \cup {sup.next}]
  /\ GoTo("submit")
  /\ UNCHANGED <<now, clusterVars, stop, late, act, fly, watchVars>>

(* create_job, its last guard: MAIN waits for the retired readers to go.   *)
Submit ==
  /\ sup.pc = "submit" /\ Guard /\ LiveHolds({})
  /\ sup.next = "main" => job["reader"] = "none"
  /\ GoTo("submitting")
  /\ UNCHANGED <<now, clusterVars, stop, late, act, ledger, fly, watchVars>>

Create ==
  /\ sup.pc = "submitting"
  /\ fly' = fly \cup {sup.next}
  /\ GoTo("observe")
  /\ UNCHANGED <<now, clusterVars, stop, late, act, ledger, watchVars>>

(* create_job: the UID joins the ledger only once the Job is seen.         *)
Observe ==
  /\ sup.pc = "observe" /\ Guard
  /\ Seen(sup.next)
  /\ ledger' = [ledger EXCEPT !.uid = @ \cup {sup.next}]
  /\ GoTo("work")
  /\ UNCHANGED <<now, clusterVars, stop, late, act, fly, watchVars>>

Delete(js) ==
  job' = [j \in Jobs |-> IF j \in js /\ job[j] = "live"
                         THEN "terminating" ELSE job[j]]

(* SOURCE takes its lock and its private inputs.                           *)
SourceWorks ==
  /\ sup.pc = "work" /\ sup.next = "source" /\ Guard /\ SourceLeaseLive
  /\ sup' = [pc |-> "bind", next |-> "reader"]
  /\ UNCHANGED <<now, clusterVars, stop, late, act, ledger, fly, watchVars>>

(* The reader's payload is sealed, then its Job is deleted.                *)
ReaderWorks ==
  /\ sup.pc = "work" /\ sup.next = "reader" /\ Guard /\ SourceLeaseLive
  /\ GoTo("retire") /\ Delete({"reader"})
  /\ UNCHANGED <<now, inverse, artifact, ks, app, drops, stop, late,
                 act, ledger, fly, watchVars>>

(* MAIN is given its proofs, copies, and its outcome is verified.          *)
MainWorks ==
  /\ sup.pc = "work" /\ sup.next = "main" /\ Guard /\ SourceLeaseLive
  /\ GoTo("stopMain")
  /\ UNCHANGED <<now, clusterVars, stop, late, act, ledger, fly, watchVars>>

Retire ==
  /\ sup.pc = "retire" /\ job["reader"] = "none"
  /\ sup' = [pc |-> "bind", next |-> "main"]
  /\ UNCHANGED <<now, clusterVars, stop, late, act, ledger, fly, watchVars>>

(* Any refusal, failed command or expired guard aborts the phase.          *)
Refuse ==
  /\ sup.pc \in {"stage", "armed", "gate", "fence", "bind", "submit",
                 "observe", "work", "retire"}
  /\ GoTo("stopMain")
  /\ UNCHANGED <<now, clusterVars, stop, late, act, ledger, fly, watchVars>>

(* stop_jobs: the writer's group first, the others once it is absent.      *)
StopMain ==
  /\ sup.pc = "stopMain"
  /\ IF job["main"] = "none" THEN GoTo("stopRest") /\ UNCHANGED job
     ELSE job["main"] = "live" /\ Delete({"main"}) /\ UNCHANGED sup
  /\ UNCHANGED <<now, inverse, artifact, ks, app, drops, stop, late,
                 act, ledger, fly, watchVars>>

StopRest ==
  /\ sup.pc = "stopRest"
  /\ IF job["source"] = "none" /\ job["reader"] = "none"
     THEN GoTo("ask") /\ UNCHANGED job
     ELSE /\ "live" \in {job["source"], job["reader"]}
          /\ Delete({"source", "reader"}) /\ UNCHANGED sup
  /\ UNCHANGED <<now, inverse, artifact, ks, app, drops, stop, late,
                 act, ledger, fly, watchVars>>

(* The cleanup may fail or time out; restoration is asked for all the same.*)
CleanupFailed ==
  /\ sup.pc \in {"stopMain", "stopRest"}
  /\ GoTo("ask")
  /\ UNCHANGED <<now, clusterVars, stop, late, act, ledger, fly, watchVars>>

(* What is under way when the stop request first appears.                  *)
Touch ==
  /\ stop' = TRUE
  /\ late' = IF stop THEN late
             ELSE fly \cup (IF sup.pc = "submitting" THEN {sup.next} ELSE {})

RequestRestore ==
  /\ sup.pc = "ask"
  /\ Touch
  /\ GoTo("await")
  /\ UNCHANGED <<now, clusterVars, act, ledger, fly, watchVars>>

(* The supervisor reports success only on the watchdog's verified record.  *)
Await ==
  /\ sup.pc = "await"
  /\ \/ w.complete /\ ~w.recover /\ w.verified /\ GoTo("complete")
     \/ GoTo("refused")
  /\ UNCHANGED <<now, clusterVars, stop, late, act, ledger, fly, watchVars>>

Ended == {"complete", "refused", "dead"}

Heartbeat ==
  /\ sup.pc \notin Ended /\ ledger.start # Unset /\ ledger.beat # now
  /\ ledger' = [ledger EXCEPT !.beat = now]
  /\ UNCHANGED <<now, clusterVars, stop, late, act, fly, sup, watchVars>>

(* The process dies at any point; nothing restarts it.                     *)
SupervisorDies ==
  /\ sup.pc \notin Ended
  /\ GoTo("dead")
  /\ UNCHANGED <<now, clusterVars, stop, late, act, ledger, fly, watchVars>>

-----------------------------------------------------------------------------
(* The watchdog.                                                           *)

(* Mutant: a round keeps only the clocks already saved.                    *)
BoundStale == w

(* The original clocks, read from the ledger and the activation record     *)
(* before anything else each round and kept for good.                      *)
Bound == [w EXCEPT !.start  = IF @ = Unset THEN ledger.start ELSE @,
                   !.budget = IF @ = Unset THEN act ELSE @]
Origin(s) == Least(s.budget, s.start)

HeartbeatStale == ledger.start # Unset /\ now - ledger.beat > Stale

Missed(s) == s.missed \/ (Origin(s) # Unset /\ now >= Origin(s) + Ceiling)

Due(s) ==
  \/ stop \/ HeartbeatStale
  \/ IF s.start # Unset THEN now >= s.start + Trigger ELSE now >= ArmLimit
  \/ s.budget # Unset /\ now >= Origin(s) + Trigger

Revoked(s) == [s EXCEPT !.revoked = TRUE, !.complete = FALSE, !.recover = TRUE]

Round(nextW, nextPc) ==
  /\ wpc = "idle"
  /\ w' = nextW /\ wpc' = nextPc
  /\ UNCHANGED <<now, clusterVars, stop, late, supVars, crashes>>

(* ceiling_missed: the window is lost for good, only recovery remains.     *)
MissCeiling ==
  Missed(Bound) /\ Round([Revoked(Bound) EXCEPT !.missed = TRUE], "touch")

(* Mutant: a phase revoked once is taken to be asked to stop.              *)
RevokeOnce ==
  /\ ~Missed(Bound) /\ ~w.revoked
  /\ Due(Bound) \/ (w.began /\ ~w.done)
  /\ Round(Revoked(Bound), "touch")

(* revoke_cached: the deadline, a stop request, a dead supervisor, a stop  *)
(* seen without its activation, a partial actuation or a lost proof.       *)
Revoke ==
  /\ ~Missed(Bound)
  /\ \/ Due(Bound)
     \/ StopActuated /\ act = Unset
     \/ w.began /\ ~w.done
     \/ w.accepted /\ (w.done \/ act = Unset) /\ ~LiveHolds({})
     \/ w.accepted                        \* the proof cannot be read
  /\ Round(Revoked(Bound), "touch")

(* The merged inverse is verified against current main, once.              *)
Accept ==
  /\ ~Missed(Bound) /\ ~Due(Bound) /\ ~w.accepted
  /\ inverse /\ ~(StopActuated /\ act = Unset)
  /\ Round([Bound EXCEPT !.accepted = TRUE], "idle")

(* The sealed receipt and every hold are proved live.                      *)
Seal ==
  /\ ~Missed(Bound) /\ ~Due(Bound) /\ w.accepted /\ ~w.ready
  /\ act = Unset /\ LiveHolds({}) /\ ~StopActuated
  /\ Round([Bound EXCEPT !.ready = TRUE], "idle")

(* actuate_cached_stop, its start: made durable before any release.        *)
BeginActuation ==
  /\ ~Missed(Bound) /\ ~Due(Bound) /\ w.accepted /\ act # Unset
  /\ ~w.began /\ ~w.revoked /\ LiveHolds({})
  /\ ledger.uid = {} /\ now < ArmLimit
  /\ Round([Bound EXCEPT !.began = TRUE, !.ready = TRUE], "actuate")

Step(from, to) == wpc = from /\ wpc' = to

(* One scope is released onto the sealed stop revision ...                 *)
ReleaseStop(a) ==
  /\ Step("actuate", "rehold")
  /\ ~stop /\ now < act + Trigger /\ ledger.uid = {} /\ PhaseAbsent
  /\ ks[a] = "held" /\ app[a] = "normal" /\ LiveHolds({})
  /\ Resume(a)
  /\ UNCHANGED <<now, inverse, artifact, app, drops, job, stop, late,
                 supVars, w, crashes>>

(* ... and held again once it has applied it.                              *)
Rehold(a) ==
  /\ Step("rehold", "actuate")
  /\ ~stop /\ ks[a] = "open" /\ app[a] = "stopped"
  /\ ks' = [ks EXCEPT ![a] = "held"]
  /\ UNCHANGED <<now, inverse, artifact, app, drops, job, stop, late,
                 supVars, w, crashes>>

CompleteActuation ==
  /\ Step("actuate", "idle")
  /\ LiveHolds({}) /\ \A a \in Apps : app[a] = "stopped"
  /\ w' = [w EXCEPT !.done = TRUE]
  /\ UNCHANGED <<now, clusterVars, stop, late, supVars, crashes>>

AbortActuation ==
  /\ wpc \in {"actuate", "rehold"} /\ wpc' = "touch"
  /\ w' = Revoked(w)
  /\ UNCHANGED <<now, clusterVars, stop, late, supVars, crashes>>

(* The revocation is saved first and the stop request made second.         *)
TouchStop ==
  /\ Step("touch", "clean")
  /\ Touch
  /\ UNCHANGED <<now, clusterVars, supVars, w, crashes>>

(* cleanup_phase_jobs found the union not empty: the writer goes first,    *)
(* the rest only after it, and the pass ends with its holds retained.      *)
CleanUp ==
  /\ Step(wpc, "idle") /\ wpc \in {"clean", "check"} /\ ~PhaseAbsent
  /\ IF job["main"] # "none" THEN Delete({"main"}) ELSE Delete(Jobs)
  /\ UNCHANGED <<now, inverse, artifact, ks, app, drops, stop, late,
                 supVars, w, crashes>>

(* Mutants: only Jobs whose UID was recorded are looked for; the scopes    *)
(* are resumed without the restored source.                                *)
VerifyKnownAbsent ==
  /\ wpc \in {"clean", "check"} /\ \A j \in ledger.uid : job[j] = "none"
  /\ wpc' = IF wpc = "clean" THEN "restore" ELSE "release"
  /\ w' = [w EXCEPT !.verified = TRUE]
  /\ UNCHANGED <<now, clusterVars, stop, late, supVars, crashes>>
VerifyAndRelease ==
  /\ wpc \in {"clean", "check"} /\ PhaseAbsent
  /\ wpc' = "release"
  /\ w' = [w EXCEPT !.verified = TRUE]
  /\ UNCHANGED <<now, clusterVars, stop, late, supVars, crashes>>

(* The authoritative union is empty, the PG sessions gone.                 *)
VerifyAbsent ==
  /\ wpc \in {"clean", "check"} /\ PhaseAbsent
  /\ wpc' = IF wpc = "clean" THEN "restore" ELSE "release"
  /\ w' = [w EXCEPT !.verified = TRUE]
  /\ UNCHANGED <<now, clusterVars, stop, late, supVars, crashes>>

(* source: the merged Normal revision is fetched before any resume.        *)
RestoreSource ==
  /\ Step("restore", "check")
  /\ inverse
  /\ artifact' = "normal"
  /\ UNCHANGED <<now, inverse, ks, app, drops, job, stop, late,
                 supVars, w, crashes>>

ReleaseScope(a) ==
  /\ Step("release", "check")
  /\ ks[a] = "held" /\ Resume(a)
  /\ UNCHANGED <<now, inverse, artifact, app, drops, job, stop, late,
                 supVars, w, crashes>>

(* recover_cluster, its end: every scope resumed on Normal and the owned   *)
(* Jobs still absent; a window past its ceiling is recovered, not complete.*)
Finish ==
  /\ Step("release", "returned")
  /\ \A a \in Apps : ks[a] = "open"
  /\ AllNormal /\ PhaseAbsent
  /\ Missed(w) => w.missed
  /\ w' = [w EXCEPT !.complete = ~w.missed, !.recover = FALSE, !.doneAt = now]
  /\ UNCHANGED <<now, clusterVars, stop, late, supVars, crashes>>

(* A pass that finds the inverse unmerged, the services not yet converged, *)
(* a late Job or its clock run out ends without a result.                  *)
Unconverged ==
  /\ Step(wpc, "idle")
  /\ \/ wpc = "restore" /\ ~inverse
     \/ wpc = "release" /\ ((\A a \in Apps : ks[a] = "open")
          /\ (~AllNormal \/ ~PhaseAbsent \/ (Missed(w) /\ ~w.missed)))
  /\ UNCHANGED <<now, clusterVars, stop, late, supVars, w, crashes>>

(* A failed command ends a pass as a death does: nothing unsaved survives. *)
WatchdogDies ==
  /\ wpc \notin {"down", "returned"} /\ crashes < MaxCrash
  /\ wpc' = "down" /\ crashes' = crashes + 1
  /\ UNCHANGED <<now, clusterVars, stop, late, supVars, w>>

(* Armed again on the same state file it goes on from what it had saved.   *)
WatchdogRestarts ==
  /\ Step("down", "idle")
  /\ UNCHANGED <<now, clusterVars, stop, late, supVars, w, crashes>>

-----------------------------------------------------------------------------
(* The cluster, GitHub, the operator and time.                             *)

MergeInverse ==
  /\ ~inverse /\ inverse' = TRUE
  /\ UNCHANGED <<now, artifact, ks, app, drops, job, stop, late, supVars,
                 watchVars>>

(* Flux applies the artifact it has to whatever is not held.               *)
Reconcile(a) ==
  LET new == IF artifact = "stop" THEN "stopped" ELSE "normal" IN
  /\ ks[a] = "open" /\ app[a] # new
  /\ app' = [app EXCEPT ![a] = new]
  /\ UNCHANGED <<now, inverse, artifact, ks, drops, job, stop, late, supVars,
                 watchVars>>

(* Someone else drops a staging hold while the source is frozen on stop.   *)
DropHold(a) ==
  /\ act = Unset /\ drops < MaxDrop /\ artifact = "stop" /\ ks[a] = "held"
  /\ drops' = drops + 1 /\ ks' = [ks EXCEPT ![a] = "open"]
  /\ UNCHANGED <<now, inverse, artifact, app, job, stop, late, supVars,
                 watchVars>>

(* The API server settles a creation, however late, or it is lost.         *)
Land(j) ==
  /\ j \in fly /\ fly' = fly \ {j}
  /\ \/ job[j] = "none" /\ job' = [job EXCEPT ![j] = "live"]
     \/ UNCHANGED job
  /\ UNCHANGED <<now, inverse, artifact, ks, app, drops, stop, late, act,
                 ledger, sup, watchVars>>

(* A deleted Job is gone with its pods and their database sessions.        *)
Gone(j) ==
  /\ job[j] = "terminating" /\ job' = [job EXCEPT ![j] = "none"]
  /\ UNCHANGED <<now, inverse, artifact, ks, app, drops, stop, late, supVars,
                 watchVars>>

OperatorStops ==
  /\ ~stop /\ Touch
  /\ UNCHANGED <<now, clusterVars, supVars, watchVars>>

Tick ==
  /\ now < MaxNow /\ now' = now + 1
  /\ UNCHANGED <<clusterVars, stop, late, supVars, watchVars>>

Supervisor ==
  \/ Arm \/ Activate \/ WaitForStop \/ ServiceFence \/ Bind \/ Submit
  \/ Create \/ Observe \/ SourceWorks \/ ReaderWorks \/ MainWorks \/ Retire
  \/ Refuse \/ StopMain \/ StopRest \/ CleanupFailed \/ RequestRestore \/ Await \/ Heartbeat

Watchdog ==
  \/ MissCeiling \/ Revoke \/ Accept \/ Seal \/ BeginActuation
  \/ CompleteActuation \/ AbortActuation \/ TouchStop \/ CleanUp
  \/ VerifyAbsent \/ RestoreSource \/ Finish \/ Unconverged
  \/ WatchdogRestarts
  \/ \E a \in Apps : ReleaseStop(a) \/ Rehold(a) \/ ReleaseScope(a)

Settle ==
  \/ \E a \in Apps : Reconcile(a)
  \/ \E j \in Jobs : Land(j) \/ Gone(j)

Next ==
  \/ Supervisor \/ SupervisorDies
  \/ Watchdog \/ WatchdogDies
  \/ Settle \/ MergeInverse \/ OperatorStops \/ Tick
  \/ \E a \in Apps : DropHold(a)

(* Time passes, the watchdog's loop goes on and it is armed again after a  *)
(* death, Flux and the API server settle what they were given; nothing is  *)
(* owed by the supervisor.                                                 *)
Fairness == WF_vars(Tick) /\ WF_vars(Watchdog) /\ WF_vars(Settle)

Spec == Init /\ [][Next]_vars /\ Fairness

-----------------------------------------------------------------------------
(* Properties.                                                             *)

SupervisorSteps ==
  {"stage", "armed", "gate", "fence", "bind", "submit", "submitting",
   "observe", "work", "retire", "stopMain", "stopRest", "ask", "await"}
WatchdogSteps ==
  {"idle", "actuate", "rehold", "touch", "clean", "restore", "check",
   "release", "returned", "down"}

Moments == Clock \cup {Unset}
Ledgers == [start : Moments, beat : Moments, ready : SUBSET Jobs, uid : SUBSET Jobs]
WatchStates ==
  [ready : BOOLEAN, accepted : BOOLEAN, revoked : BOOLEAN, complete : BOOLEAN,
   recover : BOOLEAN, verified : BOOLEAN, budget : Moments, start : Moments,
   began : BOOLEAN, done : BOOLEAN, missed : BOOLEAN, doneAt : Moments]

TypeOK ==
  /\ now \in Clock /\ act \in Moments
  /\ inverse \in BOOLEAN /\ stop \in BOOLEAN /\ artifact \in {"stop", "normal"}
  /\ ks \in [Apps -> {"held", "open"}] /\ app \in [Apps -> {"normal", "stopped"}]
  /\ job \in [Jobs -> {"none", "live", "terminating"}]
  /\ fly \subseteq Jobs /\ late \subseteq Jobs
  /\ ledger \in Ledgers /\ sup \in [pc : SupervisorSteps \cup Ended, next : Jobs]
  /\ w \in WatchStates /\ wpc \in WatchdogSteps
  /\ drops \in 0..MaxDrop /\ crashes \in 0..MaxCrash

(* Once the watchdog has resumed an application on Normal, an owned Job    *)
(* may exist only if its creation was already under way when the stop      *)
(* request appeared: no other worker races the restored library.           *)
OnlyLateCreates ==
  (artifact = "normal" /\ \E a \in Apps : ks[a] = "open")
    => \A j \in Jobs : job[j] # "none" => j \in late

(* MAIN writes only in a full outage: unless its creation was late, every  *)
(* application stays stopped and actuation was completed by the watchdog.  *)
WritesInOutage ==
  (job["main"] = "live" /\ "main" \notin late)
    => w.done /\ \A a \in Apps : app[a] = "stopped"

(* Workers and applications keep apart: the copying Job writes only in a   *)
(* full outage, and none but late Jobs meets a restored application.       *)
WorkersAlone == OnlyLateCreates /\ WritesInOutage

(* The supervisor's comment: MAIN must be absent before SOURCE (and the    *)
(* lock it holds) can be released.                                         *)
SourceOutlivesMain == job["main"] = "live" => job["source"] # "none"

(* A window reported complete was restored within its service ceiling,     *)
(* counted from the first absence, whoever died in between.                *)
CeilingKept ==
  w.complete /\ ledger.start # Unset => w.doneAt < ledger.start + Ceiling

(* No Kustomization is resumed for recovery onto the frozen stop revision; *)
(* only the actuation, never yet revoked, opens one there, and only before *)
(* its completion is on record.                                            *)
NoStalePause ==
  [][\A a \in Apps :
       (ks[a] = "held" /\ ks'[a] = "open" /\ artifact = "stop" /\ drops' = drops)
         => w.began /\ ~w.done /\ ~w.revoked /\ ~stop]_vars

(* Once the budget of the outage has begun, every application is resumed   *)
(* and back to Normal in the end, whichever of the two processes dies.     *)
Restored == act # Unset ~> (AllNormal /\ \A a \in Apps : ks[a] = "open")
=============================================================================
