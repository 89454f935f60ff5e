------------------------------ MODULE OwnedJob ------------------------------
(***************************************************************************)
(* A host creates one Job, works with its pod and removes both:            *)
(* run-live-byte-baseline.py takes the byte baseline the copy window       *)
(* starts from, live-diagnostic/run.py measures. Every approved run of a   *)
(* host uses the same Job NAME with a phase token of its own. An API       *)
(* request may take effect after the host gave it up, other people create  *)
(* and delete Jobs, and the host may end between any two steps. A run makes*)
(* at most one Job, which therefore stands for its UID too.                *)
(***************************************************************************)
EXTENDS Naturals, FiniteSets

CONSTANTS Runs,     \* runs of one host, each with its phase
          Kinds,    \* which host: "live", "diagnostic"
          Others,   \* Jobs of that NAME made by somebody else
          None      \* no Job

(* What is assumed of the constants. *)
OwnedJobAssumption ==
  Kinds \subseteq {"live", "diagnostic"} /\ None \notin Runs \cup Others /\ Runs \cap Others = {}

VARIABLES
  oKind,
  oPc,      \* the step a run is at
  oReq,     \* its CREATE: none, sent, committed, exists
  oUid,     \* runs that know the UID of their Job
  oSaved,   \* runs whose host holds the bytes of the baseline
  oDone,    \* baseline_complete or diagnostic_complete
  oAbsent,  \* job_and_all_owned_pods_absent in a receipt
  oCopied,  \* runs whose receipt started the copy supervisor
  oJob,     \* the Job of that NAME
  oDying,   \* a Foreground deletion of it is under way
  oPod,     \* the pod of each run's Job
  oFiles    \* what the pod has in /tmp

vars == <<oKind, oPc, oReq, oUid, oSaved, oDone, oAbsent, oCopied, oJob, oDying, oPod, oFiles>>
hostVars == <<oPc, oUid, oSaved, oDone, oAbsent, oCopied>>
apiVars == <<oReq, oJob, oDying>>
podVars == <<oPod, oFiles>>

Live == oKind = "live"
At(r, s) == oPc[r] = s
Go(r, s) == oPc' = [oPc EXCEPT ![r] = s]
Collecting == {"absence", "intent", "creating", "created", "bound", "delivering", "delivered",
               "fetching", "acking", "ack wait", "confirm"}
Clearing == {"cleanup", "delete", "pods", "sweep"}
Alive(r) == oPod[r] \in {"waiting", "scanning", "ready"}
Put(r, f) == oFiles' = [oFiles EXCEPT ![r] = @ \cup {f}]
PodTo(r, s) == oPod' = [oPod EXCEPT ![r] = s]

Init ==
  /\ oKind \in Kinds
  /\ oPc = [r \in Runs |-> "off"] /\ oReq = [r \in Runs |-> "none"]
  /\ oUid = {} /\ oSaved = {} /\ oDone = {} /\ oAbsent = {} /\ oCopied = {}
  /\ oJob = None /\ oDying = FALSE
  /\ oPod = [r \in Runs |-> "none"] /\ oFiles = [r \in Runs |-> {}]

-----------------------------------------------------------------------------
(* The host collects. Whatever it finds different refuses the run. *)

Start(r) == At(r, "off") /\ Go(r, "absence") /\ UNCHANGED <<oKind, oUid, oSaved, oDone, oAbsent, oCopied, apiVars, podVars>>

Flagged(r) == {q \in Runs : oPod[q] # "none"}   \* exact_pods: phase, UID or owner NAME
Absence(r) ==
  /\ At(r, "absence")
  /\ Go(r, IF oJob = None /\ Flagged(r) = {} THEN "intent" ELSE "cleanup")
  /\ UNCHANGED <<oKind, oUid, oSaved, oDone, oAbsent, oCopied, apiVars, podVars>>

(* The dry run passed and the intent is on disk: CREATE is sent. *)
Create(r) ==
  /\ At(r, "intent") /\ Go(r, "creating") /\ oReq' = [oReq EXCEPT ![r] = "sent"]
  /\ UNCHANGED <<oKind, oUid, oSaved, oDone, oAbsent, oCopied, oJob, oDying, podVars>>

Created(r) ==
  /\ At(r, "creating") /\ oReq[r] \in {"committed", "exists"}
  /\ IF oReq[r] = "committed" THEN Go(r, "created") /\ oUid' = oUid \cup {r}
                              ELSE Go(r, "cleanup") /\ UNCHANGED oUid
  /\ UNCHANGED <<oKind, oSaved, oDone, oAbsent, oCopied, apiVars, podVars>>

(* native_now: the exact Job and its one pod, running the pinned image. *)
Native(r) == oJob = r /\ ~oDying /\ oPod[r] \notin {"none", "pending", "failed"}

Running(r) ==
  /\ At(r, "created") /\ (oPod[r] # "pending" \/ oJob # r)
  /\ Go(r, IF Native(r) THEN "bound" ELSE "cleanup")
  /\ UNCHANGED <<oKind, oUid, oSaved, oDone, oAbsent, oCopied, apiVars, podVars>>

(* The sender verifies the pod again and streams to a receiver in it. *)
Deliver(r) ==
  /\ At(r, "bound")
  /\ IF Native(r) /\ Alive(r) THEN Go(r, "delivering") /\ Put(r, IF Live THEN "staged" ELSE "staged binding")
                              ELSE Go(r, "cleanup") /\ UNCHANGED oFiles
  /\ UNCHANGED <<oKind, oUid, oSaved, oDone, oAbsent, oCopied, apiVars, oPod>>

Delivered(r) ==
  /\ At(r, "delivering") /\ "binding" \in oFiles[r]
  /\ Go(r, IF Native(r) THEN "delivered" ELSE "cleanup")
  /\ UNCHANGED <<oKind, oUid, oSaved, oDone, oAbsent, oCopied, apiVars, podVars>>

(* The ready event; the diagnostic reads its log to the end instead. *)
Ready(r) ==
  /\ At(r, "delivered") /\ oPod[r] \in (IF Live THEN {"ready"} ELSE {"succeeded"})
  /\ Go(r, IF ~Native(r) THEN "cleanup" ELSE IF Live THEN "fetching" ELSE "confirm")
  /\ UNCHANGED <<oKind, oUid, oSaved, oDone, oAbsent, oCopied, apiVars, podVars>>

(* Bytes that hash to the event, validated, on disk; the pod still the one. *)
Fetch(r) ==
  /\ At(r, "fetching")
  /\ IF Native(r) /\ oPod[r] = "ready"
     THEN Go(r, "acking") /\ oSaved' = oSaved \cup {r}
     ELSE Go(r, "cleanup") /\ UNCHANGED oSaved
  /\ UNCHANGED <<oKind, oUid, oDone, oAbsent, oCopied, apiVars, podVars>>

SendAck(r) ==
  /\ At(r, "acking")
  /\ IF oPod[r] = "ready" THEN Go(r, "ack wait") /\ Put(r, "staged ack")
                          ELSE Go(r, "cleanup") /\ UNCHANGED oFiles
  /\ UNCHANGED <<oKind, oUid, oSaved, oDone, oAbsent, oCopied, apiVars, oPod>>

Acked(r) ==
  /\ At(r, "ack wait") /\ "ack" \in oFiles[r] /\ Go(r, "confirm")
  /\ UNCHANGED <<oKind, oUid, oSaved, oDone, oAbsent, oCopied, apiVars, podVars>>

(* completed and delivered_log: the Job, its pod and its log ended well. *)
Complete(r) ==
  /\ At(r, "confirm") /\ (oPod[r] = "succeeded" \/ oPod[r] = "none" \/ oJob # r)
  /\ Go(r, "cleanup")
  /\ oDone' = IF oPod[r] = "succeeded" /\ oJob = r /\ ~oDying THEN oDone \cup {r} ELSE oDone
  /\ UNCHANGED <<oKind, oUid, oSaved, oAbsent, oCopied, apiVars, podVars>>

(* The collection deadline, a signal, a failed or slow command, a failed   *)
(* Job: the request in flight is killed at this side only.                 *)
Refuse(r) ==
  /\ oPc[r] \in Collecting /\ Go(r, "cleanup")
  /\ UNCHANGED <<oKind, oUid, oSaved, oDone, oAbsent, oCopied, apiVars, podVars>>

-----------------------------------------------------------------------------
(* Cleanup runs whatever happened. *)

Attempted(r) == oReq[r] # "none"

Unknown(r) == Live /\ Attempted(r) /\ r \notin oUid

Cleanup(r) ==
  /\ At(r, "cleanup")
  /\ IF oJob # None
     THEN IF Attempted(r) /\ oJob = r         \* phase, UID and manifest
          THEN Go(r, "delete") /\ oUid' = oUid \cup {r}
          ELSE Go(r, "refused") /\ UNCHANGED oUid
     ELSE Go(r, IF Unknown(r) THEN "refused" ELSE "pods") /\ UNCHANGED oUid
  /\ UNCHANGED <<oKind, oSaved, oDone, oAbsent, oCopied, apiVars, podVars>>

(* DELETE with the UID as a precondition; the server refuses any other. *)
Delete(r) ==
  /\ At(r, "delete")
  /\ IF oJob = r THEN Go(r, "sweep") /\ oDying' = TRUE ELSE Go(r, "refused") /\ UNCHANGED oDying
  /\ UNCHANGED <<oKind, oUid, oSaved, oDone, oAbsent, oCopied, oReq, oJob, podVars>>

(* Pods that outlived their Job, by UID; another owner's refuse the run. *)
DeletePods(r) ==
  /\ At(r, "pods")
  /\ IF Flagged(r) \subseteq {r} THEN Go(r, "sweep") /\ PodTo(r, "none")
                                 ELSE Go(r, "refused") /\ UNCHANGED oPod
  /\ UNCHANGED <<oKind, oUid, oSaved, oDone, oAbsent, oCopied, apiVars, oFiles>>

(* Inventories until neither a Job of that NAME nor an owned pod is left.  *)
Sweep(r) ==
  /\ At(r, "sweep")
  /\ \/ /\ oJob = None /\ Flagged(r) = {} /\ Go(r, "ended") /\ oAbsent' = oAbsent \cup {r}
     \/ /\ Flagged(r) \ {r} # {} /\ Go(r, "refused") /\ UNCHANGED oAbsent
  /\ UNCHANGED <<oKind, oUid, oSaved, oDone, oCopied, apiVars, podVars>>

(* Mutant: the last loop has no clock of its own. *)
UntimedSweep(r) == oPc[r] \in Collecting \cup {"cleanup", "delete", "pods"}
(* The terminal alarm, which leaves no receipt; or the host is killed.     *)
Terminal(r) == oPc[r] \in Clearing

HardExit(r) ==
  /\ Terminal(r) /\ Go(r, "dead")
  /\ UNCHANGED <<oKind, oUid, oSaved, oDone, oAbsent, oCopied, apiVars, podVars>>
Die(r) ==
  /\ oPc[r] \in Collecting /\ Go(r, "dead")
  /\ UNCHANGED <<oKind, oUid, oSaved, oDone, oAbsent, oCopied, apiVars, podVars>>

(* run-live-and-copy.py: a receipt that proves all of it starts the copy.  *)
StartCopy(r) ==
  /\ Live /\ At(r, "ended") /\ r \in oDone \cap oAbsent /\ r \notin oCopied
  /\ oCopied' = oCopied \cup {r}
  /\ UNCHANGED <<oKind, oPc, oUid, oSaved, oDone, oAbsent, apiVars, podVars>>

-----------------------------------------------------------------------------
(* The cluster. *)

(* CREATE takes effect whether the host still waits for it or not. *)
Commit(r) ==
  /\ oReq[r] = "sent"
  /\ IF oJob = None
     THEN oReq' = [oReq EXCEPT ![r] = "committed"] /\ oJob' = r /\ PodTo(r, "pending")
     ELSE oReq' = [oReq EXCEPT ![r] = "exists"] /\ UNCHANGED <<oJob, oPod>>
  /\ UNCHANGED <<oKind, hostVars, oDying, oFiles>>

StartPod(r) == oPod[r] = "pending" /\ oJob = r /\ PodTo(r, "waiting") /\ UNCHANGED <<oKind, hostVars, apiVars, oFiles>>

(* Foreground: the pods go first, then the Job. *)
CollectPod(r) == oJob = r /\ oDying /\ oPod[r] # "none" /\ PodTo(r, "none") /\ UNCHANGED <<oKind, hostVars, apiVars, oFiles>>
CollectJob ==
  /\ oDying /\ oJob # None /\ (oJob \in Runs => oPod[oJob] = "none")
  /\ oJob' = None /\ oDying' = FALSE /\ UNCHANGED <<oKind, hostVars, oReq, podVars>>

(* Somebody deletes a run's Job in the background; its pod is collected    *)
(* later. And somebody has a Job of the same NAME for a while.             *)
Snatch(r) == oJob = r /\ oJob' = None /\ oDying' = FALSE /\ UNCHANGED <<oKind, hostVars, oReq, podVars>>
CollectOrphan(r) ==
  /\ oPod[r] # "none" /\ oJob # r /\ PodTo(r, "none") /\ UNCHANGED <<oKind, hostVars, apiVars, oFiles>>
OtherJob(x) == oJob = None /\ oJob' = x /\ UNCHANGED <<oKind, hostVars, oReq, oDying, podVars>>
OtherGone == oJob \in Others /\ ~oDying /\ oJob' = None /\ UNCHANGED <<oKind, hostVars, oReq, oDying, podVars>>

-----------------------------------------------------------------------------
(* The pod. *)

(* receive-private-inputs.py: everything is staged, then published without *)
(* replacement, the scope before the binding the producer waits for.       *)
PublishInputs(r) ==
  /\ Alive(r) /\ oFiles[r] \cap {"staged", "staged binding"} # {}
  /\ oFiles' = [oFiles EXCEPT ![r] = IF "staged" \in @ THEN (@ \ {"staged"}) \cup {"scope", "staged binding"}
                                     ELSE (@ \ {"staged binding"}) \cup {"binding"}]
  /\ UNCHANGED <<oKind, hostVars, apiVars, oPod>>

(* await_native_binding, then the scope. *)
Bind(r) ==
  /\ oPod[r] = "waiting" /\ "binding" \in oFiles[r]
  /\ PodTo(r, IF Live /\ "scope" \notin oFiles[r] THEN "no scope" ELSE "scanning")
  /\ UNCHANGED <<oKind, hostVars, apiVars, oFiles>>

(* The whole library is read; the bytes wait in /tmp. The probe is done.   *)
Scan(r) ==
  /\ oPod[r] = "scanning" /\ PodTo(r, IF Live THEN "ready" ELSE "succeeded")
  /\ UNCHANGED <<oKind, hostVars, apiVars, oFiles>>

(* receive-live-baseline-ack.py hashes the bytes again and publishes. *)
PublishAck(r) ==
  /\ oPod[r] = "ready" /\ "staged ack" \in oFiles[r] /\ oFiles' = [oFiles EXCEPT ![r] = (@ \ {"staged ack"}) \cup {"ack"}]
  /\ UNCHANGED <<oKind, hostVars, apiVars, oPod>>

AwaitAck(r) == oPod[r] = "ready" /\ "ack" \in oFiles[r] /\ PodTo(r, "succeeded") /\ UNCHANGED <<oKind, hostVars, apiVars, oFiles>>

(* Its own alarm at the collection deadline, or the loss of the pod. *)
PodFails(r) == Alive(r) /\ PodTo(r, "failed") /\ UNCHANGED <<oKind, hostVars, apiVars, oFiles>>

-----------------------------------------------------------------------------
Host(r) ==
  \/ Absence(r) \/ Create(r) \/ Created(r) \/ Running(r) \/ Deliver(r) \/ Delivered(r) \/ Ready(r)
  \/ Fetch(r) \/ SendAck(r) \/ Acked(r) \/ Complete(r) \/ Refuse(r)
  \/ Cleanup(r) \/ Delete(r) \/ DeletePods(r) \/ Sweep(r) \/ HardExit(r)
Cluster(r) == Commit(r) \/ StartPod(r) \/ CollectPod(r) \/ CollectOrphan(r) \/ Snatch(r)
Pod(r) == PublishInputs(r) \/ Bind(r) \/ Scan(r) \/ PublishAck(r) \/ AwaitAck(r) \/ PodFails(r)

Next ==
  \/ \E r \in Runs : Start(r) \/ Host(r) \/ Die(r) \/ StartCopy(r) \/ Cluster(r) \/ Pod(r)
  \/ CollectJob \/ (\E x \in Others : OtherJob(x)) \/ OtherGone

(* A host that lives takes its steps and its alarms fire; the cluster      *)
(* starts and collects; a pod that lives ends by its own alarm.            *)
Progress(r) == Host(r) \/ StartPod(r) \/ CollectPod(r) \/ Pod(r)
Spec == Init /\ [][Next]_vars /\ (\A r \in Runs : WF_vars(Host(r)) /\ WF_vars(Pod(r) \/ StartPod(r) \/ CollectPod(r)))

-----------------------------------------------------------------------------
TypeOK ==
  /\ oKind \in Kinds
  /\ oPc \in [Runs -> {"off", "ended", "refused", "dead"} \cup Collecting \cup Clearing]
  /\ oReq \in [Runs -> {"none", "sent", "committed", "exists"}]
  /\ oUid \cup oSaved \cup oDone \cup oAbsent \cup oCopied \subseteq Runs
  /\ oJob \in Runs \cup Others \cup {None} /\ oDying \in BOOLEAN
  /\ oPod \in [Runs -> {"none", "pending", "waiting", "scanning", "ready", "succeeded", "failed", "no scope"}]
  /\ oFiles \in [Runs -> SUBSET {"staged", "staged binding", "scope", "binding", "staged ack", "ack"}]

Gone(r) == oJob # r /\ oPod[r] = "none" /\ oReq[r] # "sent"

(* A receipt that says the Job and all its pods are absent stays true: no  *)
(* request the host gave up brings them back. The copy window, which must  *)
(* be alone with the library, starts from such a receipt and from a        *)
(* baseline the host holds (run-live-byte-baseline.py, cleanup;            *)
(* run-live-and-copy.py, bind_completed_live).                             *)
AbsentIsAbsent ==
  /\ Live => \A r \in oAbsent : Gone(r)
  /\ \A r \in oCopied : Gone(r) /\ r \in oSaved

(* The same of the diagnostic: "final full union absence", README of       *)
(* live-diagnostic.                                                        *)
DiagnosticIsAbsent == ~Live => \A r \in oAbsent : Gone(r)

(* The producer exits only after the host retains its bytes, and it never  *)
(* starts on half of its inputs (capture-live-byte-baseline.py,            *)
(* await_delivery_ack; receive-private-inputs.py, receive).                *)
BaselineRetained ==
  \A r \in Runs : /\ (Live /\ oPod[r] = "succeeded") => r \in oSaved
                  /\ oPod[r] # "no scope"

(* A run deletes no Job but the one it made: another's goes only when its  *)
(* owner removes it (cleanup, the UID precondition).                       *)
ForeignSurvive == oJob \in Others => ~oDying

(* Every run ends within its clocks, with a receipt or without, and no pod *)
(* is left running behind a host that died (execute, hard_exit; run).      *)
Ended == \A r \in Runs : oPc[r] \in {"off", "ended", "refused", "dead"} /\ ~Alive(r)
=============================================================================
