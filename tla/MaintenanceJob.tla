--------------------------- MODULE MaintenanceJob ---------------------------
(***************************************************************************)
(* One catalog maintenance (native-pipeline/ransom_maintenance_job.py):    *)
(* the host process admits and drives one writer Job, the worker in its    *)
(* Pod repairs the Kavita catalog and strips one EPUB, asking the host     *)
(* before every write, and an independent watcher takes the Job away,      *)
(* clears the worker's lock and starts the services again.  Each of the    *)
(* three can die alone, and the abort clock strikes at any moment.         *)
(***************************************************************************)
EXTENDS Naturals, FiniteSets

CONSTANT MaxFaults    \* bound: deaths and foreign locks

ASSUME MaintenanceAssumption == MaxFaults \in Nat

VARIABLES
  mAct,     \* forward, inverse-before-scan or inverse-after-scan
  mSvc,     \* LazyLibrarian and Kavita: normal, stopped, restored
  mHost,    \* where the host is
  mHelper, mPod,  \* the read-only helper and the writer's Pod: none, up, dying, gone
  mProof,   \* the publisher proof and its binding are on disk
  mWork,    \* where the worker is
  mAsk,     \* its guard request: none, asked, ok
  mLock,    \* the converter lock: none, own, foreign
  mCustody, \* the receipt for the worker's own lock
  mCat,     \* the catalog: before, after, scanned
  mEpub,    \* the file: original, stripped
  mKept,    \* the retained originals
  mWatch,   \* the watcher: armed, revoked, deleted, absent, clear, done
  mLate,    \* the abort clock has struck
  mFaults

vars == <<mAct, mSvc, mHost, mHelper, mPod, mProof, mWork, mAsk, mLock, mCustody, mCat,
          mEpub, mKept, mWatch, mLate, mFaults>>
Data == <<mCat, mEpub, mKept>>
Locking == <<mLock, mCustody>>
Jobs == <<mHelper, mPod, mProof>>
Env == <<mAct, mFaults>>

Inverse == mAct # "forward"

(* The rows the action is admitted on.                                     *)
RowsFor(act) ==
  IF act = "forward" THEN "before" ELSE IF act = "inverse-before-scan" THEN "after" ELSE "scanned"

Init ==
  /\ mAct \in {"forward", "inverse-before-scan", "inverse-after-scan"}
  /\ mCat = RowsFor(mAct)
  /\ mEpub = IF Inverse THEN "stripped" ELSE "original"
  /\ mKept = IF Inverse THEN {"db", "epub"} ELSE {}
  /\ mSvc = "normal" /\ mHost = "admit" /\ mHelper = "none" /\ mPod = "none" /\ mProof = FALSE
  /\ mWork = "off" /\ mAsk = "none" /\ mLock = "none" /\ mCustody = FALSE
  /\ mWatch = "armed" /\ mLate = FALSE /\ mFaults = 0

----------------------------------------------------------------------------
(* The host.                                                               *)

(* guard_lease and guard: the watcher still armed, its Stop complete, the  *)
(* clock running, the state directory the admitted one.                    *)
Guard == mWatch = "armed" /\ mSvc = "stopped" /\ ~mLate

HostGoes(pc) == mHost' = pc
HostOnly == UNCHANGED <<mAct, mWork, Locking, Data, mWatch, mLate, mFaults>>

(* lock_admission: before anything stops, the converter lock is absent.    *)
LockAdmission ==
  /\ mHost = "admit" /\ mLock = "none" /\ HostGoes("activate")
  /\ UNCHANGED <<mSvc, Jobs, mAsk>> /\ HostOnly

(* activate_and_wait: published once, with the origin of every clock.      *)
Activate ==
  /\ mHost = "activate" /\ mWatch = "armed" /\ ~mLate /\ mLock = "none" /\ mSvc = "normal"
  /\ HostGoes("stop") /\ UNCHANGED <<mSvc, Jobs, mAsk>> /\ HostOnly

AwaitStop ==
  /\ mHost = "stop" /\ Guard /\ mPod = "none" /\ mHelper = "none" /\ HostGoes("prelude")
  /\ UNCHANGED <<mSvc, Jobs, mAsk>> /\ HostOnly

(* publisher_prelude: the read-only helper, the proof, the helper's end.   *)
CreateHelper ==
  /\ mHost = "prelude" /\ Guard /\ mHelper = "none" /\ mHelper' = "up" /\ HostGoes("collect")
  /\ UNCHANGED <<mSvc, mPod, mProof, mAsk>> /\ HostOnly

CollectProof ==
  /\ mHost = "collect" /\ Guard /\ mHelper = "up" /\ mProof' = TRUE /\ HostGoes("retire")
  /\ UNCHANGED <<mSvc, mHelper, mPod, mAsk>> /\ HostOnly

RetireHelper ==
  /\ mHost = "retire" /\ Guard /\ HostGoes("retired")
  /\ mHelper' = IF mHelper = "up" THEN "dying" ELSE mHelper
  /\ UNCHANGED <<mSvc, mPod, mProof, mAsk>> /\ HostOnly

PreludeEnds ==
  /\ mHost = "retired" /\ Guard /\ mHelper = "gone" /\ HostGoes("create")
  /\ UNCHANGED <<mSvc, Jobs, mAsk>> /\ HostOnly

(* create: the guard, then the API call, which may land later.             *)
CreateCalled ==
  /\ mHost = "create" /\ Guard /\ mProof /\ mPod = "none" /\ HostGoes("creating")
  /\ UNCHANGED <<mSvc, Jobs, mAsk>> /\ HostOnly
CreateLands ==
  /\ mHost = "creating" /\ mPod' = "up" /\ HostGoes("inspect")
  /\ UNCHANGED <<mSvc, mHelper, mProof, mAsk>> /\ HostOnly

(* inspect and the bind: the fresh rows are what the action needs.         *)
Inspect ==
  /\ mHost = "inspect" /\ Guard /\ mPod = "up" /\ HostGoes("execute")
  /\ mCat = RowsFor(mAct)
  /\ UNCHANGED <<mSvc, Jobs, mAsk>> /\ HostOnly

Execute ==
  /\ mHost = "execute" /\ Guard /\ mPod = "up" /\ HostGoes("serve") /\ mWork' = "start"
  /\ UNCHANGED <<mAct, mSvc, Jobs, mAsk, Locking, Data, mWatch, mLate, mFaults>>

(* execute's loop and record_lock_custody: the guard anew for each request,*)
(* and the receipt for the lock kept before the answer.                    *)
Answer ==
  /\ mHost = "serve" /\ mAsk = "asked" /\ Guard /\ mProof /\ mPod = "up"
  /\ mAsk' = "ok" /\ mCustody' = (mCustody \/ mLock = "own")
  /\ UNCHANGED <<mSvc, Jobs, mHost, Env, mWork, mLock, Data, mWatch, mLate>>

(* Any refusal, or the worker's end: the stop file asks for recovery.      *)
HostEnds ==
  /\ mHost \notin {"ended", "dead"} /\ HostGoes("ended")
  /\ UNCHANGED <<mSvc, Jobs, mAsk>> /\ HostOnly

HostDies ==
  /\ mHost \notin {"ended", "dead"} /\ mFaults < MaxFaults /\ mFaults' = mFaults + 1
  /\ HostGoes("dead")
  /\ UNCHANGED <<mAct, mSvc, Jobs, mWork, mAsk, Locking, Data, mWatch, mLate>>

----------------------------------------------------------------------------
(* The worker: each write asks first.                                      *)

WorkerOnly == UNCHANGED <<Env, mSvc, mHost, Jobs, mWatch, mLate>>
Working == mWork # "off" /\ mPod \in {"up", "dying"}

Ask ==
  /\ Working /\ mAsk = "none" /\ ~mLate
  /\ mAsk' = "asked" /\ UNCHANGED <<mWork, Locking, Data>> /\ WorkerOnly

Step(from, to) == Working /\ mWork = from /\ mAsk = "ok" /\ ~mLate /\ mAsk' = "none" /\ mWork' = to

(* converter_lock: exclusive creation, no takeover.                        *)
TakeLock ==
  /\ Step("start", "custody") /\ mLock = "none" /\ mLock' = "own"
  /\ UNCHANGED <<mCustody, Data>> /\ WorkerOnly

(* The guard that hands over the lock's identity; then preflight_epub: the *)
(* file is what the action needs, its backup is in place for an inverse.   *)
Preflight ==
  /\ Step("custody", IF Inverse THEN "apply" ELSE "retain")
  /\ mEpub = (IF Inverse THEN "stripped" ELSE "original") /\ (Inverse => "epub" \in mKept)
  /\ UNCHANGED <<Locking, Data>> /\ WorkerOnly

(* retain: the whole database, proved equal to the snapshot.               *)
Retain ==
  /\ Step("retain", "apply") /\ mKept' = mKept \cup {"db"}
  /\ UNCHANGED <<Locking, mCat, mEpub>> /\ WorkerOnly

(* apply, invert_after_scan: one transaction of full-row CAS.              *)
Apply ==
  /\ Step("apply", "epub") /\ mCat' = IF Inverse THEN "before" ELSE "after"
  /\ UNCHANGED <<Locking, mEpub, mKept>> /\ WorkerOnly

(* publication_guard over strip_existing and restore_backup: the original  *)
(* kept, then the atomic replacement.                                      *)
PublishEpub ==
  \/ /\ Step("epub", "replace") /\ mKept' = mKept \cup {"epub"}
     /\ UNCHANGED <<Locking, mCat, mEpub>> /\ WorkerOnly
  \/ /\ Step("replace", "final") /\ mEpub' = (IF Inverse THEN "original" ELSE "stripped")
     /\ UNCHANGED <<Locking, mCat, mKept>> /\ WorkerOnly

(* The end, a refusal, the alarm, or a channel whose host has gone: an     *)
(* open transaction rolls back and the lock is removed on the way out.     *)
WorkerEnds ==
  /\ Working /\ mWork' = "off" /\ mAsk' = "none"
  /\ mLock' = IF mLock = "own" THEN "none" ELSE mLock
  /\ UNCHANGED <<mCustody, Data>> /\ WorkerOnly

----------------------------------------------------------------------------
(* The watcher.                                                            *)

WatchGoes(pc) == mWatch' = pc
WatchOnly == UNCHANGED <<Env, mHost, mProof, mWork, mAsk, mCustody, Data, mLate>>

Stop ==
  /\ mWatch = "armed" /\ mHost = "stop" /\ mSvc = "normal" /\ mSvc' = "stopped"
  /\ UNCHANGED <<mWatch, mHelper, mPod, mLock>> /\ WatchOnly

(* The stop file, or the clock when the host could not write it.           *)
Revoke ==
  /\ mWatch = "armed" /\ (mHost = "ended" \/ mLate) /\ WatchGoes("revoked")
  /\ UNCHANGED <<mSvc, mHelper, mPod, mLock>> /\ WatchOnly

(* Writer-first cleanup: both Jobs deleted in the foreground.              *)
DeleteJobs ==
  /\ mWatch = "revoked" /\ WatchGoes("deleted")
  /\ mPod' = (IF mPod = "up" THEN "dying" ELSE mPod)
  /\ mHelper' = (IF mHelper = "up" THEN "dying" ELSE mHelper)
  /\ UNCHANGED <<mSvc, mLock>> /\ WatchOnly

(* Mutant: a Job that is being deleted counts as absent.                   *)
DyingIsAbsent == mPod # "up" /\ mHelper # "up"

(* No Job, no Pod, no backend of the writer on the primary.                *)
PhaseAbsent == mPod \in {"none", "gone"} /\ mHelper \in {"none", "gone"}

VerifyPhaseAbsent ==
  /\ mWatch = "deleted" /\ PhaseAbsent /\ WatchGoes("absent")
  /\ UNCHANGED <<mSvc, mHelper, mPod, mLock>> /\ WatchOnly

(* A Job whose creation landed after the deletion is deleted too.          *)
DeleteLate ==
  /\ mWatch \in {"deleted", "absent"} /\ "up" \in {mPod, mHelper} /\ WatchGoes("revoked")
  /\ UNCHANGED <<mSvc, mHelper, mPod, mLock>> /\ WatchOnly

(* Absent, or the worker's own by its receipt, and then removed.           *)
LockReleasable == mLock = "none" \/ (mLock = "own" /\ mCustody)

ReleaseLock ==
  /\ mWatch = "absent" /\ PhaseAbsent /\ LockReleasable /\ mLock' = "none" /\ WatchGoes("clear")
  /\ UNCHANGED <<mSvc, mHelper, mPod>> /\ WatchOnly

Restore ==
  /\ mWatch = "clear" /\ WatchGoes("done") /\ mSvc' = "restored"
  /\ UNCHANGED <<mHelper, mPod, mLock>> /\ WatchOnly

----------------------------------------------------------------------------
(* The cluster, the clock and the scan.                                    *)

(* The Pod's processes are killed: no handler of the worker runs.          *)
PodGone ==
  /\ mPod = "dying" /\ mPod' = "gone" /\ mWork' = "off" /\ mAsk' = "none"
  /\ UNCHANGED <<Env, mSvc, mHost, mHelper, mProof, Locking, Data, mWatch, mLate>>
HelperGone ==
  /\ mHelper = "dying" /\ mHelper' = "gone"
  /\ UNCHANGED <<Env, mSvc, mHost, mPod, mProof, mWork, mAsk, Locking, Data, mWatch, mLate>>
NodeLost ==
  /\ mPod = "up" /\ mFaults < MaxFaults /\ mFaults' = mFaults + 1
  /\ mPod' = "gone" /\ mWork' = "off" /\ mAsk' = "none"
  /\ UNCHANGED <<mAct, mSvc, mHost, mHelper, mProof, Locking, Data, mWatch, mLate>>
ClockStrikes ==
  /\ ~mLate /\ mLate' = TRUE
  /\ UNCHANGED <<Env, mSvc, mHost, Jobs, mWork, mAsk, Locking, Data, mWatch>>
ForeignLock ==
  /\ mLock = "none" /\ mFaults < MaxFaults /\ mFaults' = mFaults + 1 /\ mLock' = "foreign"
  /\ UNCHANGED <<mAct, mSvc, mHost, Jobs, mWork, mAsk, mCustody, Data, mWatch, mLate>>

(* scan_after_normal: only on the restored services and the exact rows.    *)
Scan ==
  /\ mSvc = "restored" /\ mWatch = "done" /\ PhaseAbsent /\ mCat = "after" /\ mEpub = "stripped"
  /\ mCat' = "scanned"
  /\ UNCHANGED <<Env, mSvc, mHost, Jobs, mWork, mAsk, Locking, mEpub, mKept, mWatch, mLate>>

Host ==
  \/ LockAdmission \/ Activate \/ AwaitStop \/ CreateHelper \/ CollectProof \/ RetireHelper
  \/ PreludeEnds \/ CreateCalled \/ CreateLands \/ Inspect \/ Execute \/ Answer \/ HostEnds
Worker == Ask \/ TakeLock \/ Preflight \/ Retain \/ Apply \/ PublishEpub \/ WorkerEnds
Watcher ==
  \/ Stop \/ Revoke \/ DeleteJobs \/ VerifyPhaseAbsent \/ DeleteLate \/ ReleaseLock \/ Restore
Cluster == PodGone \/ HelperGone

Next ==
  Host \/ HostDies \/ Worker \/ Watcher \/ Cluster \/ NodeLost \/ ClockStrikes \/ ForeignLock \/ Scan

(* The watcher polls, the cluster ends what is deleted, the clock is a     *)
(* clock, and an API call returns within its timeout.                      *)
Progress == Watcher \/ Cluster \/ ClockStrikes \/ CreateLands

Spec == Init /\ [][Next]_vars /\ WF_vars(Progress)

----------------------------------------------------------------------------
HostSteps == {"admit", "activate", "stop", "prelude", "collect", "retire", "retired", "create",
              "creating", "inspect", "execute", "serve", "ended", "dead"}
WorkSteps == {"off", "start", "custody", "retain", "apply", "epub", "replace", "final"}

TypeOK ==
  /\ mAct \in {"forward", "inverse-before-scan", "inverse-after-scan"}
  /\ mSvc \in {"normal", "stopped", "restored"} /\ mHost \in HostSteps
  /\ {mHelper, mPod} \subseteq {"none", "up", "dying", "gone"} /\ mWork \in WorkSteps
  /\ mAsk \in {"none", "asked", "ok"} /\ mLock \in {"none", "own", "foreign"}
  /\ mProof \in BOOLEAN /\ mCustody \in BOOLEAN /\ mLate \in BOOLEAN
  /\ mCat \in {"before", "after", "scanned"} /\ mEpub \in {"original", "stripped"}
  /\ mKept \subseteq {"db", "epub"}
  /\ mWatch \in {"armed", "revoked", "deleted", "absent", "clear", "done"}
  /\ mFaults \in 0..MaxFaults

(* Whatever died and in whatever order, the services never run again while *)
(* a worker can still write or its lock still stands.                      *)
RestoredAlone == mSvc = "restored" => mWork = "off" /\ mLock # "own"

(* No write to the catalog or the file before the originals it needs are   *)
(* kept and the receipt for the lock is on the host, so that whatever dies *)
(* next leaves a state that can be cleaned and undone.                     *)
Undoable ==
  /\ mCat # "before" => "db" \in mKept
  /\ mEpub # "original" => "epub" \in mKept
  /\ mWork \in {"retain", "apply", "epub", "replace", "final"} => mCustody

(* The services come back: after the clock strikes Normal is restored,     *)
(* unless a lock stands that no receipt accounts for, which is kept for    *)
(* review.                                                                 *)
ComesBack ==
  mLate ~> \/ mSvc # "stopped"
           \/ mLock = "foreign" \/ (mLock = "own" /\ ~mCustody)
=============================================================================
