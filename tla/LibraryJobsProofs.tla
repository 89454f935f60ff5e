-------------------------- MODULE LibraryJobsProofs --------------------------
(***************************************************************************)
(* What TLAPS proves of the jobs that rewrite the library, for any books,  *)
(* copies and processes and however often something dies: no original is   *)
(* lost, only redundant copies go, and the services never run beside a     *)
(* maintenance writer.                                                     *)
(*                                                                         *)
(* MaintInv: a worker runs only in a Pod that is there and behind a        *)
(* watcher still on this side of the verified absence; a worker past the   *)
(* lock holds it; what is still to be written has its original kept.       *)
(* RetainInv: what the evidence says of the stopped programs is so while   *)
(* it is fresh, so the copy that moves is one nothing depends on, with its *)
(* manifest, and its backup is whole by the time it is unlinked.           *)
(* EpubInv: whatever bytes the job made, in the library or in a backup, are*)
(* an edit that a manifest undoes; a run publishes what it edited only with*)
(* the manifest of that very edit in place, and copies through a partial no*)
(* other process touches.  The last needs OneRun: two runs that *)
(* took over one stale lock work in the same folders.                      *)
(***************************************************************************)
EXTENDS LibraryJobs, WellFoundedInduction, TLAPS

-----------------------------------------------------------------------------
(* Catalog maintenance.                                                    *)

(* Who can write, seen from the Pod, the watcher and the lock.             *)
WriterInPod == mWork # "off" => mPod \in {"up", "dying"}
WriterGone == mWatch \in {"absent", "clear", "done"} => mWork = "off"
LockGone == mWatch \in {"clear", "done"} => mLock # "own"
RestoredLast == mSvc = "restored" => mWatch = "done"

(* What a worker holds before it writes.                                   *)
HoldsLock == mWork \notin {"off", "start"} => mLock = "own"
ReceiptFirst == mWork = "custody" /\ mAsk = "ok" => mCustody
KeptFirst ==
  /\ Inverse => {"db", "epub"} \subseteq mKept
  /\ mWork \in {"apply", "epub", "replace", "final"} => "db" \in mKept
  /\ mWork \in {"replace", "final"} => "epub" \in mKept

MaintInv ==
  /\ TypeOK
  /\ WriterInPod /\ WriterGone /\ LockGone /\ RestoredLast
  /\ HoldsLock /\ ReceiptFirst /\ KeptFirst /\ Undoable

-----------------------------------------------------------------------------
LEMMA InitMaint == Init => MaintInv
<1> SUFFICES ASSUME Init PROVE MaintInv OBVIOUS
<1>1. TypeOK
  <2>1. mCat \in {"before", "after", "scanned"} BY DEF Init, RowsFor
  <2>2. mEpub \in {"original", "stripped"} /\ mKept \subseteq {"db", "epub"} BY DEF Init
  <2>3. mFaults \in 0..MaxFaults BY MaintenanceAssumption DEF Init
  <2>4. QED BY <2>1, <2>2, <2>3 DEF Init, TypeOK, HostSteps, WorkSteps
<1>2. KeptFirst /\ Undoable
  <2>1. CASE Inverse BY <2>1 DEF Init, KeptFirst, Undoable
  <2>2. CASE ~Inverse BY <2>2 DEF Init, KeptFirst, Undoable, Inverse, RowsFor
  <2>3. QED BY <2>1, <2>2
<1>3. QED
  BY <1>1, <1>2 DEF Init, MaintInv, WriterInPod, WriterGone, LockGone, RestoredLast, HoldsLock, ReceiptFirst

(* The host never writes: it admits, drives and answers.                   *)
LEMMA HostMaint == ASSUME MaintInv, Host PROVE MaintInv'
<1> USE MaintenanceAssumption
        DEF MaintInv, TypeOK, HostSteps, WorkSteps, WriterInPod, WriterGone, LockGone, RestoredLast, HoldsLock,
            ReceiptFirst, KeptFirst, Undoable, Inverse, HostGoes, HostOnly, Locking, Data, Jobs, Env
<1>1. CASE LockAdmission BY <1>1 DEF LockAdmission
<1>2. CASE Activate BY <1>2 DEF Activate
<1>3. CASE AwaitStop BY <1>3 DEF AwaitStop
<1>4. CASE CreateHelper BY <1>4 DEF CreateHelper
<1>5. CASE CollectProof BY <1>5 DEF CollectProof
<1>6. CASE RetireHelper BY <1>6 DEF RetireHelper
<1>7. CASE PreludeEnds BY <1>7 DEF PreludeEnds
<1>8. CASE CreateCalled BY <1>8 DEF CreateCalled
<1>9. CASE CreateLands BY <1>9 DEF CreateLands
<1>10. CASE Inspect BY <1>10 DEF Inspect
<1>11. CASE Execute
  (* The guard that starts a worker sees the watcher armed and the Pod up. *)
  BY <1>11 DEF Execute, Guard
<1>12. CASE Answer
  (* A worker past the lock holds it, so the answer leaves the receipt.    *)
  <2>1. mCustody' \in BOOLEAN /\ (mCustody => mCustody') /\ (mLock = "own" => mCustody') BY <1>12 DEF Answer
  <2>2. QED BY <1>12, <2>1 DEF Answer
<1>13. CASE HostEnds BY <1>13 DEF HostEnds
<1>14. QED
  BY <1>1, <1>2, <1>3, <1>4, <1>5, <1>6, <1>7, <1>8, <1>9, <1>10, <1>11, <1>12, <1>13 DEF Host

(* The worker keeps before it changes, and changes only under its lock.    *)
LEMMA WorkerMaint == ASSUME MaintInv, Worker PROVE MaintInv'
<1> USE MaintenanceAssumption
        DEF MaintInv, TypeOK, HostSteps, WorkSteps, WriterInPod, WriterGone, LockGone, RestoredLast, HoldsLock,
            ReceiptFirst, KeptFirst, Undoable, Inverse, Working, Step, WorkerOnly, Locking, Data, Jobs, Env
<1>1. CASE Ask BY <1>1 DEF Ask
<1>2. CASE TakeLock
  (* It works, so the watcher has not verified the phase absent.           *)
  BY <1>2 DEF TakeLock
<1>3. CASE Preflight BY <1>3 DEF Preflight
<1>4. CASE Retain BY <1>4 DEF Retain
<1>5. CASE Apply BY <1>5 DEF Apply
<1>6. CASE PublishEpub
  <2>1. CASE mWork = "epub"
    <3>1. mKept' = mKept \cup {"epub"} /\ mWork' = "replace" /\ mEpub' = mEpub
      BY <1>6, <2>1 DEF PublishEpub
    <3>2. QED BY <1>6, <2>1, <3>1 DEF PublishEpub
  <2>2. CASE mWork = "replace"
    <3>1. mKept' = mKept /\ mWork' = "final" /\ mEpub' \in {"original", "stripped"}
      BY <1>6, <2>2 DEF PublishEpub
    <3>2. QED BY <1>6, <2>2, <3>1 DEF PublishEpub
  <2>3. QED BY <1>6, <2>1, <2>2 DEF PublishEpub
<1>7. CASE WorkerEnds BY <1>7 DEF WorkerEnds
<1>8. QED BY <1>1, <1>2, <1>3, <1>4, <1>5, <1>6, <1>7 DEF Worker

(* The watcher reaches the lock and the services only past the absence.    *)
LEMMA WatcherMaint == ASSUME MaintInv, Watcher PROVE MaintInv'
<1> USE MaintenanceAssumption
        DEF MaintInv, TypeOK, HostSteps, WorkSteps, WriterInPod, WriterGone, LockGone, RestoredLast, HoldsLock,
            ReceiptFirst, KeptFirst, Undoable, Inverse, WatchGoes, WatchOnly, Data, Env
<1>1. CASE Stop BY <1>1 DEF Stop
<1>2. CASE Revoke BY <1>2 DEF Revoke
<1>3. CASE DeleteJobs BY <1>3 DEF DeleteJobs
<1>4. CASE VerifyPhaseAbsent
  (* No Pod, hence no worker in it.                                        *)
  BY <1>4 DEF VerifyPhaseAbsent, PhaseAbsent
<1>5. CASE DeleteLate BY <1>5 DEF DeleteLate
<1>6. CASE ReleaseLock BY <1>6 DEF ReleaseLock, PhaseAbsent
<1>7. CASE Restore BY <1>7 DEF Restore
<1>8. QED BY <1>1, <1>2, <1>3, <1>4, <1>5, <1>6, <1>7 DEF Watcher

(* What happens to the three of them, and the scan afterwards.             *)
LEMMA OutsideMaint ==
  ASSUME MaintInv, HostDies \/ Cluster \/ NodeLost \/ ClockStrikes \/ ForeignLock \/ Scan
  PROVE  MaintInv'
<1> USE MaintenanceAssumption
        DEF MaintInv, TypeOK, HostSteps, WorkSteps, WriterInPod, WriterGone, LockGone, RestoredLast, HoldsLock,
            ReceiptFirst, KeptFirst, Undoable, Inverse, Locking, Data, Jobs, Env
<1>1. CASE HostDies BY <1>1 DEF HostDies, HostGoes
<1>2. CASE PodGone BY <1>2 DEF PodGone
<1>3. CASE HelperGone BY <1>3 DEF HelperGone
<1>4. CASE NodeLost BY <1>4 DEF NodeLost
<1>5. CASE ClockStrikes BY <1>5 DEF ClockStrikes
<1>6. CASE ForeignLock
  (* A worker past its start holds the lock: none is free to be taken.     *)
  BY <1>6 DEF ForeignLock
<1>7. CASE Scan BY <1>7 DEF Scan
<1>8. QED BY <1>1, <1>2, <1>3, <1>4, <1>5, <1>6, <1>7 DEF Cluster

LEMMA NextMaint == ASSUME MaintInv, [Next]_vars PROVE MaintInv'
<1>1. CASE Host BY <1>1, HostMaint
<1>2. CASE Worker BY <1>2, WorkerMaint
<1>3. CASE Watcher BY <1>3, WatcherMaint
<1>4. CASE HostDies \/ Cluster \/ NodeLost \/ ClockStrikes \/ ForeignLock \/ Scan BY <1>4, OutsideMaint
<1>5. CASE UNCHANGED vars
  BY <1>5 DEF vars, MaintInv, TypeOK, WriterInPod, WriterGone, LockGone, RestoredLast, HoldsLock, ReceiptFirst,
     KeptFirst, Undoable, Inverse, HostSteps, WorkSteps
<1>6. QED BY <1>1, <1>2, <1>3, <1>4, <1>5 DEF Next

-----------------------------------------------------------------------------
(* Retention of redundant copies.                                          *)

(* Versions are numbered as they appear, so what is yet to come is new. *)
Versions == 0..(vActs + 1)
Copy == [of : Versions, holds : Versions]
Evidence == [files : [Paths -> Versions], bytes : [Paths -> Versions], locks : SUBSET Paths,
             wanted : SUBSET Paths, ptr : Paths \cup {"none"}, after : BOOLEAN, chosen : SUBSET Paths,
             stage : {"none", "bytes", "library", "ll", "kavita", "app", "joined"}, fresh : BOOLEAN]
Writer == [pc : {"idle", "compare", "lock", "census", "choose", "link", "hash", "unlink", "verify"},
           todo : SUBSET Paths, cur : Paths \cup {"none"}, done : SUBSET Paths]
RetainTypes ==
  /\ vActs \in Nat /\ vPtr \in Paths /\ vLocks \subseteq Paths /\ vWanted \subseteq Paths /\ vMarked \subseteq Paths
  /\ vFile \in [Paths -> Versions] /\ vBak \in [Paths -> SUBSET Copy] /\ vGone \in [Paths -> SUBSET Versions]
  /\ vLinked \subseteq Paths /\ vQuiet \in BOOLEAN /\ vLate \in BOOLEAN /\ vLock \in BOOLEAN
  /\ vFence \in {"none", "held", "lost"} /\ vEv \in Evidence /\ vRun \in Writer

(* What the evidence says of the two stopped programs is so while it is fresh. *)
EvidenceStands ==
  /\ vEv.fresh /\ vEv.after => vQuiet
  /\ vEv.fresh /\ vEv.after /\ vEv.stage \in {"ll", "kavita", "app", "joined"} => vEv.ptr = vPtr
  /\ vEv.fresh /\ vEv.after /\ vEv.stage \in {"kavita", "app", "joined"} => vEv.locks = vLocks
  /\ vEv.stage \in {"ll", "kavita", "app", "joined"} => vEv.ptr \in Paths
  /\ vEv.stage = "joined" => vEv.after /\ vEv.files[vEv.ptr] # 0
  /\ vRun.pc # "idle" => vEv.stage = "joined"

(* What it says of the application's rows is so while the SHARE locks are held. *)
WantedStands == vRun.pc \notin {"idle", "compare"} /\ vFence = "held" => vEv.wanted = vWanted

(* The copy that moves is one nothing depends on, never removed before, and has its manifest; *)
(* once it is linked its backup is whole unless an outsider has written to it. *)
Moving == vRun.pc \in {"link", "hash", "unlink"}
MovesUnneeded ==
  Moving => /\ vRun.cur \in V!Eligible /\ vEv.files[vRun.cur] \notin vGone[vRun.cur]
            /\ \E b \in vBak[vRun.cur] : b.of = vEv.files[vRun.cur]
BackedOnceLinked ==
  LET c == vRun.cur
      n == vEv.files[c] IN
  vRun.pc \in {"hash", "unlink"} /\ c \in vLinked /\ vFile[c] = n => [of |-> n, holds |-> n] \in vBak[c]

(* A write in place reaches no backup of a removed version. *)
LinkedIsNew == \A c \in vLinked : vFile[c] # 0 /\ vFile[c] \notin vGone[c]

(* The keeper was there at its last recheck. *)
KeeperSeen == vRun.pc = "unlink" /\ ~vLate => vFile[vEv.ptr] = vEv.files[vEv.ptr]

RetainInv ==
  /\ RetainTypes /\ EvidenceStands /\ WantedStands /\ MovesUnneeded /\ BackedOnceLinked /\ LinkedIsNew
  /\ KeeperSeen /\ V!RetainedRecoverable

-----------------------------------------------------------------------------
LEMMA UpToGrows == ASSUME NEW m \in Nat, NEW n \in Nat, m <= n PROVE 0..(m + 1) \subseteq 0..(n + 1)
OBVIOUS

(* What was a version stays one. *)
LEMMA VersionsGrow ==
  ASSUME RetainTypes, vActs' \in {vActs, vActs + 1}
  PROVE  /\ vActs' \in Nat /\ Versions \subseteq Versions'
         /\ [Paths -> Versions] \subseteq [Paths -> Versions'] /\ Copy \subseteq Copy' /\ Evidence \subseteq Evidence'
         /\ [Paths -> SUBSET Copy] \subseteq [Paths -> SUBSET Copy']
         /\ [Paths -> SUBSET Versions] \subseteq [Paths -> SUBSET Versions']
<1>1. vActs' \in Nat /\ Versions \subseteq Versions'
  <2>1. vActs \in Nat /\ vActs' \in Nat /\ vActs <= vActs' BY DEF RetainTypes
  <2>2. QED BY <2>1, UpToGrows DEF Versions
<1>2. [Paths -> Versions] \subseteq [Paths -> Versions'] BY <1>1
<1>3. Copy \subseteq Copy' BY <1>1 DEF Copy
<1>4. Evidence \subseteq Evidence' BY <1>2 DEF Evidence
<1>5. [Paths -> SUBSET Copy] \subseteq [Paths -> SUBSET Copy'] BY <1>3
<1>6. [Paths -> SUBSET Versions] \subseteq [Paths -> SUBSET Versions'] BY <1>1
<1>7. QED BY <1>1, <1>2, <1>3, <1>4, <1>5, <1>6

LEMMA InitRetain == V!Init => RetainInv
<1> SUFFICES ASSUME V!Init PROVE RetainInv OBVIOUS
<1> USE DEF V!Init, V!NoEvidence, V!Idle
<1>1. RetainTypes
  <2>1. vEv \in Evidence BY DEF Evidence, Versions
  <2>2. vRun \in Writer BY DEF Writer
  <2>3. 1 \in Versions BY DEF Versions
  <2>4. vFile \in [Paths -> Versions] /\ vBak \in [Paths -> SUBSET Copy] /\ vGone \in [Paths -> SUBSET Versions]
    BY <2>3
  <2>5. QED BY <2>1, <2>2, <2>4 DEF RetainTypes
<1>2. EvidenceStands /\ WantedStands BY DEF EvidenceStands, WantedStands
<1>3. MovesUnneeded /\ BackedOnceLinked /\ LinkedIsNew /\ KeeperSeen
  BY DEF MovesUnneeded, Moving, BackedOnceLinked, LinkedIsNew, KeeperSeen
<1>4. V!RetainedRecoverable BY DEF V!RetainedRecoverable
<1>5. QED BY <1>1, <1>2, <1>3, <1>4 DEF RetainInv

(* What the programs, the application and the window change leaves the files alone. *)
LEMMA DependencyRetain ==
  ASSUME RetainInv,
         \/ \E p \in Paths : V!PointerMoves(p) \/ V!KavitaLocks(p) \/ V!AppWants(p) \/ V!Mark(p)
         \/ V!LoseConnection \/ V!Expire \/ V!Quiesce \/ V!Resume
  PROVE  RetainInv'
<1> USE DEF V!Files, V!Deps, V!Own, V!Acts
<1> DEFINE Kept == UNCHANGED <<vFile, vBak, vLinked, vGone, vRun, vLate, vLock>>
<1>0. RetainTypes BY DEF RetainInv
<1>1. /\ Kept /\ vActs' \in {vActs, vActs + 1} /\ vFence' \in {vFence, "lost"}
      /\ vEv' \in {vEv, [vEv EXCEPT !.fresh = FALSE]}
      /\ vPtr' \in Paths /\ vLocks' \subseteq Paths /\ vWanted' \subseteq Paths /\ vMarked' \subseteq Paths
      /\ vQuiet' \in BOOLEAN
  <2>1. ASSUME NEW p \in Paths, V!PointerMoves(p) \/ V!KavitaLocks(p) \/ V!AppWants(p) \/ V!Mark(p) PROVE <1>1
    BY <1>0, <2>1 DEF V!PointerMoves, V!KavitaLocks, V!AppWants, V!Mark, RetainTypes
  <2>2. CASE V!LoseConnection \/ V!Expire \/ V!Quiesce \/ V!Resume
    BY <1>0, <2>2 DEF V!LoseConnection, V!Expire, V!Quiesce, V!Resume, RetainTypes
  <2>3. QED BY <2>1, <2>2
<1>2. /\ vEv' \in Evidence /\ vEv'.files = vEv.files /\ vEv'.ptr = vEv.ptr /\ vEv'.locks = vEv.locks
      /\ vEv'.wanted = vEv.wanted /\ vEv'.after = vEv.after /\ vEv'.stage = vEv.stage
      /\ vEv'.fresh => vEv' = vEv
  BY <1>0, <1>1 DEF RetainTypes, Evidence
<1>3. RetainTypes'
  BY <1>0, <1>1, <1>2, VersionsGrow DEF RetainTypes
<1>4. EvidenceStands'
  <2>1. CASE vEv'.fresh /\ vEv'.after
    <3>1. vEv' = vEv /\ vQuiet BY <1>2, <2>1 DEF RetainInv, EvidenceStands
    <3>2. vQuiet' /\ vPtr' = vPtr /\ vLocks' = vLocks
      <4>1. ASSUME NEW p \in Paths, V!PointerMoves(p) \/ V!KavitaLocks(p) \/ V!AppWants(p) \/ V!Mark(p) PROVE <3>2
        BY <3>1, <4>1 DEF V!PointerMoves, V!KavitaLocks, V!AppWants, V!Mark
      <4>2. CASE V!LoseConnection BY <3>1, <4>2 DEF V!LoseConnection
      <4>3. CASE V!Expire \/ V!Quiesce \/ V!Resume
        BY <1>0, <2>1, <3>1, <4>3 DEF V!Expire, V!Quiesce, V!Resume, RetainTypes, Evidence
      <4>4. QED BY <4>1, <4>2, <4>3
    <3>3. QED BY <1>1, <3>1, <3>2 DEF RetainInv, EvidenceStands
  <2>2. CASE ~(vEv'.fresh /\ vEv'.after)
    BY <1>1, <1>2, <2>2 DEF RetainInv, EvidenceStands
  <2>3. QED BY <2>1, <2>2
<1>5. WantedStands'
  <2>1. ASSUME vFence' = "held" PROVE vFence = "held" /\ vWanted' = vWanted
    <3>1. ASSUME NEW p \in Paths, V!PointerMoves(p) \/ V!KavitaLocks(p) \/ V!AppWants(p) \/ V!Mark(p) PROVE <2>1!2
      BY <2>1, <3>1 DEF V!PointerMoves, V!KavitaLocks, V!AppWants, V!Mark
    <3>2. CASE V!LoseConnection \/ V!Expire \/ V!Quiesce \/ V!Resume
      BY <2>1, <3>2 DEF V!LoseConnection, V!Expire, V!Quiesce, V!Resume
    <3>3. QED BY <3>1, <3>2
  <2>2. QED BY <1>1, <1>2, <2>1 DEF RetainInv, WantedStands
<1>6. V!Eligible' = V!Eligible BY <1>2 DEF V!Eligible
<1>7. MovesUnneeded' BY <1>1, <1>2, <1>6 DEF RetainInv, MovesUnneeded, Moving
<1>8. BackedOnceLinked' /\ LinkedIsNew' /\ KeeperSeen'
  BY <1>1, <1>2 DEF RetainInv, BackedOnceLinked, LinkedIsNew, KeeperSeen
<1>9. V!RetainedRecoverable' BY <1>1 DEF RetainInv, V!RetainedRecoverable
<1>10. QED BY <1>3, <1>4, <1>5, <1>7, <1>8, <1>9 DEF RetainInv

(* What others do to a file of the library. *)
LEMMA FileRetain ==
  ASSUME RetainInv, NEW p \in Paths,
         V!Rewrite(p) \/ V!Replace(p, V!New) \/ V!Replace(p, 0) \/ V!RestoreRetainedCopy(p)
  PROVE  RetainInv'
<1> DEFINE n == vFile'[p]
           q == vEv.ptr
<1> USE DEF V!Deps, V!Own, V!Acts
<1>0. RetainTypes BY DEF RetainInv
<1>1. /\ UNCHANGED <<vGone, vPtr, vLocks, vQuiet, vWanted, vMarked, vEv, vFence, vLock, vRun>>
      /\ vActs' = vActs + 1 /\ vLinked' \subseteq vLinked
      /\ \A c \in Paths \ {p} : vFile'[c] = vFile[c]
  BY <1>0 DEF V!Rewrite, V!Replace, V!RestoreRetainedCopy, RetainTypes
<1>2. Versions \subseteq Versions' /\ vActs + 2 \in Versions' /\ 0 \in Versions'
  <2>1. vActs + 2 \in 0..(vActs + 1 + 1) BY <1>0 DEF RetainTypes
  <2>2. QED BY <1>0, <1>1, <2>1, VersionsGrow DEF Versions, RetainTypes
<1>3. /\ vFile' \in [Paths -> Versions'] /\ n \in Versions' /\ vFile' = [vFile EXCEPT ![p] = n]
      /\ p \in vLinked' => n \notin Versions /\ n # 0
  <2>1. CASE V!Rewrite(p)
    BY <1>0, <1>2, <2>1 DEF V!Rewrite, RetainTypes, V!New, Versions
  <2>2. CASE V!Replace(p, V!New) \/ V!Replace(p, 0)
    BY <1>0, <1>2, <2>2 DEF V!Replace, RetainTypes, V!New
  <2>3. CASE V!RestoreRetainedCopy(p)
    <3>1. PICK b \in vBak[p] : b.of # 0 /\ vFile' = [vFile EXCEPT ![p] = b.of] BY <2>3 DEF V!RestoreRetainedCopy
    <3>2. b.of \in Versions BY <1>0 DEF RetainTypes, Copy
    <3>3. p \notin vLinked BY <2>3 DEF RetainInv, LinkedIsNew, V!RestoreRetainedCopy
    <3>4. QED BY <1>0, <1>1, <1>2, <3>1, <3>2, <3>3 DEF RetainTypes
  <2>4. QED BY <2>1, <2>2, <2>3
<1> HIDE DEF n
<1>4. /\ vBak' \in [Paths -> SUBSET Copy']
      /\ \A c \in Paths : \A b \in vBak[c] : \E d \in vBak'[c] : d.of = b.of
      /\ \A c \in Paths : \A b \in vBak[c] : (c \in vLinked /\ c = p /\ b.holds = vFile[c]) \/ b \in vBak'[c]
  <2>1. CASE ~V!Rewrite(p)
    <3>1. vBak' = vBak BY <2>1 DEF V!Replace, V!RestoreRetainedCopy
    <3>2. QED BY <1>0, <1>1, <3>1, VersionsGrow DEF RetainTypes
  <2>2. CASE V!Rewrite(p)
    <3> DEFINE Written(b) == IF p \in vLinked /\ b.holds = vFile[p] THEN [b EXCEPT !.holds = V!New] ELSE b
    <3>1. vBak' = [vBak EXCEPT ![p] = {Written(b) : b \in vBak[p]}] BY <2>2 DEF V!Rewrite
    <3>2. \A b \in Copy : Written(b) \in Copy' /\ Written(b).of = b.of
      <4> SUFFICES ASSUME NEW b \in Copy PROVE Written(b) \in Copy' /\ Written(b).of = b.of OBVIOUS
      <4>1. CASE p \in vLinked /\ b.holds = vFile[p]
        BY <1>2, <4>1 DEF Copy, V!New
      <4>2. CASE ~(p \in vLinked /\ b.holds = vFile[p])
        BY <1>2, <4>2 DEF Copy
      <4>3. QED BY <4>1, <4>2
    <3>3. \A b : (p \in vLinked /\ b.holds = vFile[p]) \/ Written(b) = b OBVIOUS
    <3> HIDE DEF Written
    <3>4. /\ vBak'[p] = {Written(b) : b \in vBak[p]} /\ \A c \in Paths \ {p} : vBak'[c] = vBak[c]
          /\ \A c \in Paths : vBak[c] \subseteq Copy
      BY <1>0, <3>1 DEF RetainTypes
    <3>5. Copy \subseteq Copy' BY <1>0, <1>1, VersionsGrow
    <3>6. vBak'[p] \subseteq Copy' BY <3>2, <3>4
    <3>7. vBak' \in [Paths -> SUBSET Copy'] BY <1>0, <3>1, <3>4, <3>5, <3>6 DEF RetainTypes
    <3>8. \A b \in vBak[p] : Written(b) \in vBak'[p] /\ Written(b).of = b.of BY <3>2, <3>4
    <3>9. QED BY <3>3, <3>4, <3>7, <3>8
  <2>3. QED BY <2>1, <2>2
<1>5. RetainTypes'
  <2>1. vLate' \in BOOLEAN BY <1>0 DEF V!Rewrite, V!Replace, V!RestoreRetainedCopy, RetainTypes
  <2>2. QED BY <1>0, <1>1, <1>3, <1>4, <2>1, VersionsGrow DEF RetainTypes
<1>6. EvidenceStands' /\ WantedStands' BY <1>1 DEF RetainInv, EvidenceStands, WantedStands
<1>7. MovesUnneeded'
  <2>1. V!Eligible' = V!Eligible BY <1>1 DEF V!Eligible
  <2>2. Moving => vRun.cur \in Paths BY DEF RetainInv, MovesUnneeded, V!Eligible
  <2>3. QED BY <1>1, <1>4, <2>1, <2>2 DEF RetainInv, MovesUnneeded, Moving
<1>8. BackedOnceLinked'
  <2> SUFFICES ASSUME vRun.pc \in {"hash", "unlink"}, vRun.cur \in vLinked', vFile'[vRun.cur] = vEv.files[vRun.cur]
               PROVE  [of |-> vEv.files[vRun.cur], holds |-> vEv.files[vRun.cur]] \in vBak'[vRun.cur]
    BY <1>1 DEF BackedOnceLinked
  <2>1. vRun.cur \in Paths /\ vEv.files[vRun.cur] \in Versions
    BY <1>0, <1>1 DEF RetainTypes, Evidence
  <2>2. vRun.cur # p BY <1>3, <2>1
  <2>3. vFile[vRun.cur] = vEv.files[vRun.cur] /\ vRun.cur \in vLinked BY <1>1, <2>1, <2>2
  <2>4. QED BY <1>4, <2>1, <2>2, <2>3 DEF RetainInv, BackedOnceLinked
<1>9. LinkedIsNew'
  <2> SUFFICES ASSUME NEW c \in vLinked' PROVE vFile'[c] # 0 /\ vFile'[c] \notin vGone[c]
    BY <1>1 DEF LinkedIsNew
  <2>1. CASE c = p BY <1>0, <1>3, <2>1 DEF RetainTypes, n
  <2>2. CASE c # p BY <1>0, <1>1, <2>2 DEF RetainInv, LinkedIsNew, RetainTypes
  <2>3. QED BY <2>1, <2>2
<1>10. KeeperSeen'
  <2> SUFFICES ASSUME vRun.pc = "unlink", ~vLate' PROVE vFile'[q] = vEv.files[q]
    BY <1>1 DEF KeeperSeen
  <2>1. ~vLate /\ q \in Paths /\ vEv.files[q] # 0
    <3>1. ~vLate BY <1>0 DEF V!Rewrite, V!Replace, V!RestoreRetainedCopy, RetainTypes
    <3>2. QED BY <3>1 DEF RetainInv, EvidenceStands
  <2>2. vFile[q] = vEv.files[q] BY <2>1 DEF RetainInv, KeeperSeen
  <2>3. p # q BY <2>1, <2>2 DEF V!Rewrite, V!Replace, V!RestoreRetainedCopy
  <2>4. QED BY <1>1, <2>1, <2>2, <2>3
<1>11. V!RetainedRecoverable'
  <2> SUFFICES ASSUME NEW c \in Paths, NEW k \in vGone[c] PROVE [of |-> k, holds |-> k] \in vBak'[c]
    BY <1>1 DEF V!RetainedRecoverable
  <2>1. [of |-> k, holds |-> k] \in vBak[c] BY DEF RetainInv, V!RetainedRecoverable
  <2>2. c \in vLinked => vFile[c] # k BY DEF RetainInv, LinkedIsNew
  <2>3. QED BY <1>4, <2>1, <2>2
<1>12. QED BY <1>5, <1>6, <1>7, <1>8, <1>9, <1>10, <1>11 DEF RetainInv

(* The evidence is read while no writer runs. *)
LEMMA EvidenceRetain == ASSUME RetainInv, V!Evidence PROVE RetainInv'
<1>0. RetainTypes /\ V!RetentionAssumption BY InstancesAssumption DEF RetainInv
<1> USE DEF V!EvUnchanged, V!Files, V!Deps
<1>1. /\ UNCHANGED <<vFile, vBak, vLinked, vGone, vPtr, vLocks, vQuiet, vWanted, vMarked, vFence, vLock, vRun,
                     vLate, vActs, vRuns>>
      /\ vRun.pc = "idle"
  BY DEF V!Evidence, V!CaptureBytes, V!CollectLibrary, V!CaptureLL, V!CaptureKavita, V!CaptureApp, V!Assemble,
         V!Abandon, V!Capture
<1> USE DEF V!Capture
<1>2. Versions' = Versions /\ Copy' = Copy /\ Evidence' = Evidence BY <1>1 DEF Versions, Copy, Evidence
<1>3. vEv' \in Evidence /\ EvidenceStands'
  <2> USE <1>0, <1>1 DEF RetainTypes, RetainInv, EvidenceStands
  <2>1. CASE V!CaptureBytes
    <3>1. V!NoEvidence \in Evidence BY DEF V!NoEvidence, Evidence, Versions
    <3>2. vEv' = [[V!NoEvidence EXCEPT !.bytes = vFile] EXCEPT !.stage = "bytes"] BY <2>1 DEF V!CaptureBytes
    <3>3. vEv' \in Evidence /\ vEv'.stage = "bytes" /\ ~vEv'.fresh
      BY <3>1, <3>2 DEF Evidence, V!NoEvidence
    <3>4. QED BY <3>3
  <2>2. CASE V!CollectLibrary
    <3>1. vEv' = [vEv EXCEPT !.files = vFile, !.fresh = TRUE, !.after = vQuiet, !.stage = "library"]
      BY <2>2 DEF V!CollectLibrary
    <3>2. vEv' \in Evidence /\ vEv'.stage = "library" /\ vEv'.after = vQuiet BY <3>1 DEF Evidence
    <3>3. QED BY <3>2
  <2>3. CASE V!CaptureLL
    <3>1. vEv.stage = "library" /\ vEv' = [vEv EXCEPT !.ptr = vPtr, !.stage = "ll"] BY <2>3 DEF V!CaptureLL
    <3>2. vEv' \in Evidence /\ vEv'.stage = "ll" /\ vEv'.ptr = vPtr /\ vEv'.fresh = vEv.fresh
          /\ vEv'.after = vEv.after
      BY <3>1 DEF Evidence
    <3>3. QED BY <3>2
  <2>4. CASE V!CaptureKavita
    <3>1. vEv.stage = "ll" /\ vEv' = [vEv EXCEPT !.locks = vLocks, !.stage = "kavita"] BY <2>4 DEF V!CaptureKavita
    <3>2. vEv' \in Evidence /\ vEv'.stage = "kavita" /\ vEv'.ptr = vEv.ptr /\ vEv'.locks = vLocks
          /\ vEv'.fresh = vEv.fresh /\ vEv'.after = vEv.after
      BY <3>1 DEF Evidence
    <3>3. QED BY <3>1, <3>2
  <2>5. CASE V!CaptureApp
    <3>1. vEv.stage = "kavita" /\ vEv' = [vEv EXCEPT !.wanted = vWanted, !.stage = "app"]
      BY <2>5 DEF V!CaptureApp
    <3>2. vEv' \in Evidence /\ vEv'.stage = "app" /\ vEv'.ptr = vEv.ptr /\ vEv'.locks = vEv.locks
          /\ vEv'.fresh = vEv.fresh /\ vEv'.after = vEv.after
      BY <3>1 DEF Evidence
    <3>3. QED BY <3>1, <3>2
  <2>6. CASE V!Assemble
    <3>1. PICK chosen \in SUBSET (V!Eligible \ vMarked) :
             vEv' = [vEv EXCEPT !.chosen = chosen, !.stage = "joined"]
      BY <2>6 DEF V!Assemble
    <3>2. chosen \subseteq Paths BY <3>1 DEF V!Eligible
    <3>3. vEv.stage = "app" /\ vEv.after /\ vEv.files[vEv.ptr] # 0 BY <2>6 DEF V!Assemble, V!Attested
    <3>4. vEv' \in Evidence /\ vEv'.stage = "joined" /\ vEv'.ptr = vEv.ptr /\ vEv'.locks = vEv.locks
          /\ vEv'.fresh = vEv.fresh /\ vEv'.after = vEv.after /\ vEv'.files = vEv.files
      BY <3>1, <3>2 DEF Evidence
    <3>5. QED BY <3>3, <3>4
  <2>7. CASE V!Abandon
    <3>1. V!NoEvidence \in Evidence BY DEF V!NoEvidence, Evidence, Versions
    <3>2. vEv' = [V!NoEvidence EXCEPT !.stage = "none"] BY <2>7 DEF V!Abandon
    <3>3. vEv' \in Evidence /\ vEv'.stage = "none" /\ ~vEv'.fresh BY <3>1, <3>2 DEF Evidence, V!NoEvidence
    <3>4. QED BY <3>3
  <2>8. QED BY <2>1, <2>2, <2>3, <2>4, <2>5, <2>6, <2>7 DEF V!Evidence
<1>4. RetainTypes' BY <1>0, <1>1, <1>2, <1>3 DEF RetainTypes
<1>5. WantedStands' /\ MovesUnneeded' /\ BackedOnceLinked' /\ KeeperSeen'
  BY <1>1 DEF WantedStands, MovesUnneeded, Moving, BackedOnceLinked, KeeperSeen
<1>6. LinkedIsNew' /\ V!RetainedRecoverable' BY <1>1 DEF RetainInv, LinkedIsNew, V!RetainedRecoverable
<1>7. QED BY <1>3, <1>4, <1>5, <1>6 DEF RetainInv

(* The steps of the writer that leave the files alone. *)
LEMMA WriterRetain ==
  ASSUME RetainInv,
         \/ V!EnterFence \/ V!CompareCapture \/ V!ConverterLock \/ V!Census \/ V!HashBoth \/ V!VerifyFirst
         \/ V!Finish \/ V!Refuse \/ V!Kill \/ V!ClearLock
  PROVE  RetainInv'
<1>0. RetainTypes BY DEF RetainInv
<1> USE DEF V!WriterUnchanged, V!Files, V!Deps, V!Go, V!Release, V!Acts
<1>1. /\ UNCHANGED <<vFile, vBak, vLinked, vGone, vPtr, vLocks, vQuiet, vWanted, vMarked, vEv>>
      /\ vActs' \in {vActs, vActs + 1} /\ vFence' \in {"none", "held", "lost"}
  BY <1>0 DEF V!EnterFence, V!CompareCapture, V!ConverterLock, V!Census, V!HashBoth, V!VerifyFirst, V!Finish,
         V!Refuse, V!Kill, V!ClearLock, RetainTypes
<1>2. /\ vRun' \in Writer /\ vRun'.pc \notin {"link", "hash"} /\ vLock' \in BOOLEAN
      /\ vRun'.pc \notin {"idle", "compare"} =>
           /\ vFence' = vFence /\ vRun.pc # "idle" /\ (vRun.pc = "compare" => vEv.wanted = vWanted)
      /\ vRun'.pc # "idle" => vRun.pc # "idle" \/ vEv.stage = "joined"
      /\ vRun'.pc = "unlink" => V!HashBoth
  <2> USE <1>0 DEF RetainTypes
  <2>1. CASE V!EnterFence
    <3>1. vEv.stage = "joined" /\ vRun' = [V!Idle EXCEPT !.pc = "compare"] /\ vLock' = vLock
      BY <2>1 DEF V!EnterFence
    <3>2. QED BY <3>1 DEF V!Idle, Writer
  <2>2. CASE V!CompareCapture
    <3>1. vRun.pc = "compare" /\ vEv.wanted = vWanted /\ vRun' = [vRun EXCEPT !.pc = "lock"] /\ vLock' = vLock
          /\ vFence' = vFence
      BY <2>2 DEF V!CompareCapture
    <3>2. QED BY <3>1 DEF Writer
  <2>3. CASE V!ConverterLock
    <3>1. vRun.pc = "lock" /\ vRun' = [vRun EXCEPT !.pc = "census"] /\ vLock' = TRUE /\ vFence' = vFence
      BY <2>3 DEF V!ConverterLock
    <3>2. QED BY <3>1 DEF Writer
  <2>4. CASE V!Census
    <3>1. vRun.pc = "census" /\ vRun' = [vRun EXCEPT !.pc = "choose", !.todo = vEv.chosen] /\ vLock' = vLock
          /\ vFence' = vFence
      BY <2>4 DEF V!Census
    <3>2. vEv.chosen \subseteq Paths BY DEF Evidence
    <3>3. QED BY <3>1, <3>2 DEF Writer
  <2>5. CASE V!HashBoth
    <3>1. vRun.pc = "hash" /\ vRun' = [vRun EXCEPT !.pc = "unlink"] /\ vLock' = vLock /\ vFence' = vFence
      BY <2>5 DEF V!HashBoth
    <3>2. QED BY <2>5, <3>1 DEF Writer
  <2>6. CASE V!VerifyFirst
    <3>1. vRun.pc = "verify" /\ vRun' = [vRun EXCEPT !.pc = "choose"] /\ vLock' = vLock /\ vFence' = vFence
      BY <2>6 DEF V!VerifyFirst
    <3>2. QED BY <3>1 DEF Writer
  <2>7. CASE V!Finish \/ V!Refuse \/ V!Kill
    <3>1. vRun' = [vRun EXCEPT !.pc = "idle"] /\ vLock' \in BOOLEAN BY <2>7 DEF V!Finish, V!Refuse, V!Kill
    <3>2. QED BY <3>1 DEF Writer
  <2>8. CASE V!ClearLock
    BY <2>8 DEF V!ClearLock
  <2>9. QED BY <2>1, <2>2, <2>3, <2>4, <2>5, <2>6, <2>7, <2>8
<1>3. vLate' \in BOOLEAN
  BY <1>0 DEF V!EnterFence, V!CompareCapture, V!ConverterLock, V!Census, V!HashBoth, V!VerifyFirst, V!Finish,
         V!Refuse, V!Kill, V!ClearLock, RetainTypes
<1>4. RetainTypes' BY <1>0, <1>1, <1>2, <1>3, VersionsGrow DEF RetainTypes
<1>5. EvidenceStands' /\ WantedStands' BY <1>1, <1>2 DEF RetainInv, EvidenceStands, WantedStands
<1>6. V!Eligible' = V!Eligible BY <1>1 DEF V!Eligible
<1>7. MovesUnneeded' /\ BackedOnceLinked' /\ KeeperSeen'
  <2>1. CASE V!HashBoth
    <3>1. vRun.pc = "hash" /\ vRun'.cur = vRun.cur /\ vFile[vEv.ptr] = vEv.files[vEv.ptr]
      BY <1>0, <2>1 DEF V!HashBoth, V!Guard, RetainTypes, Writer
    <3>2. QED BY <1>1, <1>2, <1>6, <3>1 DEF RetainInv, MovesUnneeded, Moving, BackedOnceLinked, KeeperSeen
  <2>2. CASE ~V!HashBoth
    BY <1>2, <2>2 DEF MovesUnneeded, Moving, BackedOnceLinked, KeeperSeen
  <2>3. QED BY <2>1, <2>2
<1>8. LinkedIsNew' /\ V!RetainedRecoverable' BY <1>1 DEF RetainInv, LinkedIsNew, V!RetainedRecoverable
<1>9. QED BY <1>4, <1>5, <1>7, <1>8 DEF RetainInv

(* What a step of the move leaves alone. *)
LEMMA MoveFrame ==
  ASSUME RetainInv, V!Link \/ V!Unlink \/ \E c \in Paths : V!WriteManifest(c)
  PROVE  /\ UNCHANGED <<vPtr, vLocks, vQuiet, vWanted, vMarked, vEv, vFence, vLock, vLate, vActs, vRuns>>
         /\ Versions' = Versions /\ Copy' = Copy /\ Evidence' = Evidence /\ V!Eligible' = V!Eligible
         /\ vRun.pc \in {"choose", "link", "unlink"} /\ vEv.files \in [Paths -> Versions]
<1>1. /\ UNCHANGED <<vPtr, vLocks, vQuiet, vWanted, vMarked, vEv, vFence, vLock, vLate, vActs, vRuns>>
      /\ vRun.pc \in {"choose", "link", "unlink"}
  BY DEF V!Link, V!Unlink, V!WriteManifest, V!WriterUnchanged, V!Deps
<1>2. Versions' = Versions /\ Copy' = Copy /\ Evidence' = Evidence /\ V!Eligible' = V!Eligible
  BY <1>1 DEF Versions, Copy, Evidence, V!Eligible
<1>3. vEv.files \in [Paths -> Versions] BY DEF RetainInv, RetainTypes, Evidence
<1>4. QED BY <1>1, <1>2, <1>3

LEMMA ManifestRetain == ASSUME RetainInv, NEW c \in Paths, V!WriteManifest(c) PROVE RetainInv'
<1> USE MoveFrame
<1>0. RetainTypes BY DEF RetainInv
<1> DEFINE entry == [of |-> vFile[c], holds |-> 0]
<1>1. /\ vBak' = [vBak EXCEPT ![c] = @ \cup {entry}] /\ UNCHANGED <<vFile, vLinked, vGone>>
      /\ vRun' = [vRun EXCEPT !.pc = "link", !.cur = c]
      /\ vFile[c] = vEv.files[c] /\ c \in V!Eligible /\ \A b \in vBak[c] : b.of # vFile[c]
  BY DEF V!WriteManifest, V!Guard
<1>2. entry \in Copy /\ entry.of = vFile[c]
  <2>1. vFile[c] \in Versions /\ 0 \in Versions BY <1>0 DEF RetainTypes, Versions
  <2>2. QED BY <2>1 DEF Copy
<1> HIDE DEF entry
<1>3. /\ vBak' \in [Paths -> SUBSET Copy] /\ entry \in vBak'[c] /\ \A d \in Paths : vBak[d] \subseteq vBak'[d]
  BY <1>0, <1>1, <1>2 DEF RetainTypes
<1>4. vRun' \in Writer /\ vRun'.pc = "link" /\ vRun'.cur = c BY <1>0, <1>1 DEF RetainTypes, Writer
<1>5. RetainTypes' BY <1>0, <1>1, <1>3, <1>4 DEF RetainTypes
<1>6. EvidenceStands' /\ WantedStands' BY <1>4 DEF RetainInv, EvidenceStands, WantedStands
<1>7. vFile[c] \notin vGone[c]
  <2> SUFFICES ASSUME vFile[c] \in vGone[c] PROVE FALSE OBVIOUS
  <2>1. [of |-> vFile[c], holds |-> vFile[c]] \in vBak[c] BY DEF RetainInv, V!RetainedRecoverable
  <2>2. QED BY <1>1, <2>1
<1>8. MovesUnneeded' BY <1>1, <1>2, <1>3, <1>4, <1>7 DEF MovesUnneeded, Moving
<1>9. BackedOnceLinked' /\ KeeperSeen' BY <1>4 DEF BackedOnceLinked, KeeperSeen
<1>10. LinkedIsNew' BY <1>1 DEF RetainInv, LinkedIsNew
<1>11. V!RetainedRecoverable' BY <1>1, <1>3 DEF RetainInv, V!RetainedRecoverable
<1>12. QED BY <1>5, <1>6, <1>8, <1>9, <1>10, <1>11 DEF RetainInv

LEMMA LinkRetain == ASSUME RetainInv, V!Link PROVE RetainInv'
<1> USE MoveFrame
<1>0. RetainTypes BY DEF RetainInv
<1> DEFINE c == vRun.cur
           n == vFile[c]
           Held(b) == IF b.of = n THEN [b EXCEPT !.holds = n] ELSE b
<1>1. /\ vBak' = [vBak EXCEPT ![c] = {Held(b) : b \in @}] /\ vLinked' = vLinked \cup {c}
      /\ vRun' = [vRun EXCEPT !.pc = "hash"] /\ UNCHANGED <<vFile, vGone>>
      /\ vRun.pc = "link" /\ n = vEv.files[c]
  BY DEF V!Link, V!Go
<1>2. /\ c \in V!Eligible /\ c \in Paths /\ n \notin vGone[c] /\ n \in Versions /\ n # 0
      /\ \E b \in vBak[c] : b.of = n
  <2>1. c \in V!Eligible /\ n \notin vGone[c] /\ \E b \in vBak[c] : b.of = n
    BY <1>1 DEF RetainInv, MovesUnneeded, Moving
  <2>2. QED BY <1>0, <1>1, <2>1 DEF V!Eligible, RetainTypes
<1>3. \A b \in Copy : Held(b) \in Copy /\ Held(b).of = b.of /\ (b.of = n => Held(b) = [of |-> n, holds |-> n])
  <2> SUFFICES ASSUME NEW b \in Copy
               PROVE  Held(b) \in Copy /\ Held(b).of = b.of /\ (b.of = n => Held(b) = [of |-> n, holds |-> n])
    OBVIOUS
  <2> HIDE DEF n
  <2>1. CASE b.of = n BY <1>2, <2>1 DEF Copy
  <2>2. CASE b.of # n BY <2>2
  <2>3. QED BY <2>1, <2>2
<1>4. \A b : b.of = n \/ Held(b) = b OBVIOUS
<1> HIDE DEF Held, n, c
<1>5. /\ vBak'[c] = {Held(b) : b \in vBak[c]} /\ \A d \in Paths \ {c} : vBak'[d] = vBak[d]
      /\ \A d \in Paths : vBak[d] \subseteq Copy
  BY <1>0, <1>1, <1>2 DEF RetainTypes
<1>6. vBak' \in [Paths -> SUBSET Copy]
  <2>1. vBak'[c] \subseteq Copy BY <1>2, <1>3, <1>5
  <2>2. QED BY <1>0, <1>1, <1>5, <2>1 DEF RetainTypes
<1>7. [of |-> n, holds |-> n] \in vBak'[c] BY <1>2, <1>3, <1>5
<1>8. vRun' \in Writer /\ vRun'.pc = "hash" /\ vRun'.cur = c BY <1>0, <1>1 DEF RetainTypes, Writer, c
<1>9. RetainTypes' BY <1>0, <1>1, <1>2, <1>6, <1>8 DEF RetainTypes
<1>10. EvidenceStands' /\ WantedStands' BY <1>1, <1>8 DEF RetainInv, EvidenceStands, WantedStands
<1>11. MovesUnneeded' BY <1>1, <1>2, <1>7, <1>8 DEF MovesUnneeded, Moving
<1>12. BackedOnceLinked' /\ KeeperSeen' BY <1>1, <1>7, <1>8 DEF BackedOnceLinked, KeeperSeen
<1>13. LinkedIsNew' BY <1>1, <1>2 DEF RetainInv, LinkedIsNew, n
<1>14. V!RetainedRecoverable'
  <2> SUFFICES ASSUME NEW d \in Paths, NEW k \in vGone[d] PROVE [of |-> k, holds |-> k] \in vBak'[d]
    BY <1>1 DEF V!RetainedRecoverable
  <2>1. [of |-> k, holds |-> k] \in vBak[d] BY DEF RetainInv, V!RetainedRecoverable
  <2>2. CASE d # c BY <1>5, <2>1, <2>2
  <2>3. CASE d = c
    <3>1. k # n BY <1>2, <2>3
    <3>2. Held([of |-> k, holds |-> k]) = [of |-> k, holds |-> k] BY <1>4, <3>1
    <3>3. QED BY <1>5, <2>1, <2>3, <3>2
  <2>4. QED BY <2>2, <2>3
<1>15. QED BY <1>9, <1>10, <1>11, <1>12, <1>13, <1>14 DEF RetainInv

LEMMA UnlinkRetain == ASSUME RetainInv, V!Unlink PROVE RetainInv'
<1> USE MoveFrame
<1>0. RetainTypes BY DEF RetainInv
<1> DEFINE c == vRun.cur
<1>1. /\ vGone' = [vGone EXCEPT ![c] = @ \cup {vFile[c]}] /\ vFile' = [vFile EXCEPT ![c] = 0]
      /\ vLinked' = vLinked \ {c} /\ vBak' = vBak /\ vRun.pc = "unlink"
      /\ vRun' = [vRun EXCEPT !.pc = IF vRun.done = {} THEN "verify" ELSE "choose",
                              !.todo = @ \ {c}, !.done = @ \cup {c}]
      /\ c \in vLinked /\ vFile[c] = vEv.files[c]
  BY DEF V!Unlink, V!CheckSource
<1>2. c \in Paths /\ vFile[c] \in Versions /\ 0 \in Versions
  BY <1>0, <1>1 DEF RetainTypes, Versions
<1>3. vRun' \in Writer /\ vRun'.pc \in {"verify", "choose"}
  <2>1. vRun \in Writer BY <1>0 DEF RetainTypes
  <2>2. QED BY <1>1, <1>2, <2>1 DEF Writer
<1> HIDE DEF c
<1>4. RetainTypes' BY <1>0, <1>1, <1>2, <1>3 DEF RetainTypes
<1>5. EvidenceStands' /\ WantedStands' BY <1>1, <1>3 DEF RetainInv, EvidenceStands, WantedStands
<1>6. MovesUnneeded' /\ BackedOnceLinked' /\ KeeperSeen'
  BY <1>3 DEF MovesUnneeded, Moving, BackedOnceLinked, KeeperSeen
<1>7. LinkedIsNew' BY <1>0, <1>1, <1>2 DEF RetainInv, LinkedIsNew, RetainTypes
<1>8. V!RetainedRecoverable'
  <2> SUFFICES ASSUME NEW d \in Paths, NEW k \in vGone'[d] PROVE [of |-> k, holds |-> k] \in vBak[d]
    BY <1>1 DEF V!RetainedRecoverable
  <2>1. CASE k \in vGone[d] BY <2>1 DEF RetainInv, V!RetainedRecoverable
  <2>2. CASE k \notin vGone[d]
    <3>1. d = c /\ k = vFile[c] BY <1>0, <1>1, <1>2, <2>2 DEF RetainTypes
    <3>2. QED BY <1>1, <3>1 DEF RetainInv, BackedOnceLinked, c
  <2>3. QED BY <2>1, <2>2
<1>9. QED BY <1>4, <1>5, <1>6, <1>7, <1>8 DEF RetainInv

LEMMA NextRetain == ASSUME RetainInv, [V!Next]_V!vars PROVE RetainInv'
<1>1. CASE V!Outsiders BY <1>1, DependencyRetain, FileRetain DEF V!Outsiders
<1>2. CASE V!Evidence BY <1>2, EvidenceRetain
<1>3. CASE V!Writer \/ V!Kill \/ V!ClearLock
  BY <1>3, WriterRetain, ManifestRetain, LinkRetain, UnlinkRetain DEF V!Writer
<1>4. CASE UNCHANGED V!vars
  <2>1. UNCHANGED <<Versions, Copy, Evidence, V!Eligible>>
    BY <1>4 DEF V!vars, Versions, Copy, Evidence, V!Eligible
  <2>2. RetainTypes' BY <1>4, <2>1 DEF RetainInv, RetainTypes, V!vars
  <2>3. QED
    BY <1>4, <2>1, <2>2 DEF V!vars, RetainInv, EvidenceStands, WantedStands, MovesUnneeded, Moving,
       BackedOnceLinked, LinkedIsNew, KeeperSeen, V!RetainedRecoverable
<1>5. QED BY <1>1, <1>2, <1>3, <1>4 DEF V!Next

(* Only the unlink removes, what nothing depends on and beside the keeper. *)
LEMMA RemovalsAreRedundant ==
  ASSUME RetainInv, [V!Next]_V!vars
  PROVE  \A c \in Paths : vGone'[c] # vGone[c] =>
           /\ c # vPtr /\ c \notin vLocks \cup vWanted
           /\ vFile[vPtr] = vEv.files[vPtr] \/ vLate
<1> SUFFICES ASSUME NEW d \in Paths, vGone'[d] # vGone[d]
             PROVE  /\ d # vPtr /\ d \notin vLocks \cup vWanted
                    /\ vFile[vPtr] = vEv.files[vPtr] \/ vLate
  OBVIOUS
<1>1. V!Unlink
  <2>1. vGone' # vGone OBVIOUS
  <2> USE DEF V!Files, V!WriterUnchanged, V!EvUnchanged
  <2>2. ~UNCHANGED V!vars /\ ~V!Outsiders
    BY <2>1 DEF V!vars, V!Outsiders, V!PointerMoves, V!KavitaLocks, V!AppWants, V!Mark, V!Rewrite, V!Replace,
       V!RestoreRetainedCopy, V!LoseConnection, V!Expire, V!Quiesce, V!Resume
  <2>3. ~V!Evidence
    BY <2>1 DEF V!Evidence, V!CaptureBytes, V!CollectLibrary, V!CaptureLL, V!CaptureKavita, V!CaptureApp,
       V!Assemble, V!Abandon, V!Capture
  <2>4. ~V!Kill /\ ~V!ClearLock BY <2>1 DEF V!Kill, V!ClearLock
  <2>5. V!Writer BY <2>2, <2>3, <2>4 DEF V!Next
  <2>6. QED
    BY <2>1, <2>5 DEF V!Writer, V!EnterFence, V!CompareCapture, V!ConverterLock, V!Census, V!WriteManifest,
       V!Link, V!HashBoth, V!VerifyFirst, V!Finish, V!Refuse
<1>2. /\ vRun.pc = "unlink" /\ vEv.fresh /\ vFence = "held"
      /\ vGone' = [vGone EXCEPT ![vRun.cur] = @ \cup {vFile[vRun.cur]}]
  BY <1>1 DEF V!Unlink, V!Health
<1>3. d = vRun.cur /\ d \in V!Eligible
  <2>1. vRun.cur \in V!Eligible BY <1>2 DEF RetainInv, MovesUnneeded, Moving
  <2>2. QED BY <1>2, <2>1 DEF RetainInv, RetainTypes
<1>4. vEv.stage = "joined" /\ vEv.after BY <1>2 DEF RetainInv, EvidenceStands
<1>5. vEv.ptr = vPtr /\ vEv.locks = vLocks /\ vEv.wanted = vWanted
  BY <1>2, <1>4 DEF RetainInv, EvidenceStands, WantedStands
<1>6. vFile[vPtr] = vEv.files[vPtr] \/ vLate BY <1>2, <1>5 DEF RetainInv, KeeperSeen
<1>7. QED BY <1>3, <1>5, <1>6 DEF V!Eligible

-----------------------------------------------------------------------------
(* The EPUB job.                                                           *)

Tags == {"none", "series", "group"}
Doc == [by : {"none", "ll", "mobi"}, ver : Nat, tag : Tags, edits : Nat, whole : BOOLEAN]
Part == [doc : Doc, linked : BOOLEAN]
Backup == [of : Doc, stage : {"short", "copy", "short manifest", "manifest"}, for : Tags,
           kind : {"existing", "converted"}]
BackupSteps == {"backup", "backup written", "manifest", "manifest written"}
PublishSteps == {"publish", "copy", "copying", "recheck", "link"}
BookSteps == BackupSteps \cup PublishSteps \cup {"replace", "sibling", "rename", "calibre", "published"}
Run == [pc : BookSteps \cup {"off", "takeover", "census", "strip", "clean", "convert", "close"},
        phase : {"none", "strip", "convert", "restore"}, todo : SUBSET Books, book : Books \cup {0}, src : Nat,
        base : Doc, doc : Doc, bad : BOOLEAN, seen : [Books -> Doc]]

(* Where a run is in its walk. *)
AtWork(run) == run.pc \notin {"off", "takeover"}
WalkKept(run) ==
  /\ run.phase = "restore" => run.todo = {}
  /\ run.pc \in {"strip", "convert"} => run.todo # {}
  /\ run.pc \in BackupSteps \cup {"census", "strip", "clean"} => run.phase = "strip"
  /\ run.pc \in {"replace", "sibling", "rename"} => run.phase \in {"strip", "restore"}
  /\ run.pc \in PublishSteps \cup {"convert", "calibre", "published"} => run.phase = "convert"
  /\ run.pc \in BookSteps => run.book \in Books
  /\ run.pc \in PublishSteps \cup {"calibre", "published"} => run.book \in run.todo

(* Bytes the job made are the edit of a complete backup. *)
Undone(bak, b, doc) ==
  doc.edits = 0 \/ \E s \in bak[b] : s.stage = "manifest" /\ s.of # doc /\ E!Sanitized(s.of, s.for) = doc

(* A run edits what can be undone, and publishes what can be undone. *)
EditKept(run, bak) ==
  /\ run.pc \in BackupSteps =>
       /\ run.doc.whole /\ run.doc # run.base /\ run.doc = E!Sanitized(run.base, run.doc.tag)
       /\ Undone(bak, run.book, run.base)
  /\ run.pc \in PublishSteps \cup {"replace", "sibling", "rename"} =>
       run.doc.whole /\ Undone(bak, run.book, run.doc)

(* Conversion never meets a book that was converted before. *)
Unpublished(run, lib) ==
  run.phase = "convert" => \A b \in run.todo : lib[b].by # "mobi" \/ (run.pc = "published" /\ b = run.book)

(* The partial is the run's own, whole before its link. *)
PartialOwn(run, part) ==
  /\ run.pc \in {"copying", "recheck", "link"} => ~part[run.book].linked
  /\ run.pc \in {"recheck", "link"} => part[run.book].doc = run.doc

RunKept(run, lib, bak, part) ==
  /\ WalkKept(run) /\ EditKept(run, bak) /\ Unpublished(run, lib) /\ PartialOwn(run, part)

(* The library and its backups. *)
CutIsUnedited == \A b \in Books : eLib[b].whole \/ eLib[b].edits = 0
AllUndone == \A b \in Books : Undone(eBak, b, eLib[b]) /\ \A s \in eBak[b] : Undone(eBak, b, s.of)
LibraryTypes ==
  /\ eSrc \in [Books -> Nat] /\ eLib \in [Books -> Doc] /\ ePart \in [Books -> Part]
  /\ eBak \in [Books -> SUBSET Backup] /\ eImports \in Nat
LibraryKept == LibraryTypes /\ CutIsUnedited /\ AllUndone /\ E!PublishedWhole

EpubInv ==
  /\ LibraryKept /\ eRun \in [Runs -> Run]
  /\ \A r \in Runs : AtWork(eRun[r]) => RunKept(eRun[r], eLib, eBak, ePart)

-----------------------------------------------------------------------------
(* The walk takes the first folder that is left. *)
LEMMA FirstIsLeft == ASSUME NEW S \in SUBSET Books, S # {} PROVE E!First(S) \in S
<1>1. S \in SUBSET Nat BY InstancesAssumption DEF E!EpubAssumption
<1>2. PICK b \in S : \A c \in S : <<c, b>> \notin OpToRel(<, Nat)
  BY <1>1, WFMin, NatLessThanWellFounded, Zenon
<1>3. \A c \in S : b <= c
  <2>1. TAKE c \in S
  <2>2. b \in Nat /\ c \in Nat BY <1>1
  <2>3. ~(c < b) BY <1>2, <2>2 DEF OpToRel
  <2>4. QED BY <2>2, <2>3
<1>4. QED BY <1>2, <1>3 DEF E!First

(* What an edit keeps and what it changes. *)
LEMMA SanitizedDoc ==
  ASSUME NEW doc \in Doc, NEW g \in Tags
  PROVE  /\ E!Sanitized(doc, g) \in Doc /\ E!Sanitized(doc, g).by = doc.by
         /\ E!Sanitized(doc, g).whole = doc.whole /\ E!Sanitized(doc, g).tag = g
<1>1. CASE doc.tag = g BY <1>1 DEF E!Sanitized
<1>2. CASE doc.tag # g
  <2>1. E!Sanitized(doc, g) = [doc EXCEPT !.tag = g, !.edits = doc.edits + 1] BY <1>2 DEF E!Sanitized
  <2>2. doc.edits + 1 \in Nat BY DEF Doc
  <2>3. QED BY <2>1, <2>2 DEF Doc
<1>3. QED BY <1>1, <1>2

LEMMA NewDoc ==
  /\ E!None \in Doc /\ E!None.by = "none" /\ E!None.whole /\ E!None.edits = 0
  /\ \A by \in {"ll", "mobi"}, n \in Nat, tag \in Tags :
       /\ E!Epub(by, n, tag) \in Doc /\ E!Epub(by, n, tag).by = by /\ E!Epub(by, n, tag).whole
       /\ E!Epub(by, n, tag).tag = tag /\ E!Epub(by, n, tag).edits = 0
BY DEF E!None, E!Epub, Doc, Tags

(* On to the next folder, or to what follows the walk. *)
LEMMA AdvanceRun ==
  ASSUME NEW run \in Run, run.phase \in {"strip", "convert"} \/ run.todo = {}
  PROVE  LET next == E!Advance(run) IN
         /\ next \in Run /\ next.phase = run.phase /\ next.todo = run.todo \ {run.book}
         /\ next.pc \in {"clean", "close"} \/ (next.pc = run.phase /\ next.todo # {} /\ run.phase \in {"strip", "convert"})
         /\ next.pc = "clean" => run.phase = "strip"
         /\ next.seen = run.seen
<1> DEFINE left == run.todo \ {run.book}
           pc == IF left # {} THEN run.phase ELSE IF run.phase = "strip" THEN "clean" ELSE "close"
<1>1. E!Advance(run) = [run EXCEPT !.todo = left, !.book = 0, !.src = 0, !.base = E!None, !.doc = E!None, !.pc = pc]
  BY DEF E!Advance
<1>2. left \subseteq Books BY DEF Run
<1>3. /\ pc = "clean" => run.phase = "strip"
      /\ pc \in {"clean", "close"} \/ (pc = run.phase /\ left # {} /\ run.phase \in {"strip", "convert"})
  <2>1. CASE left # {} BY <2>1
  <2>2. CASE left = {} BY <2>2
  <2>3. QED BY <2>1, <2>2
<1>4. E!None \in Doc BY NewDoc
<1>5. pc \in {"strip", "convert", "clean", "close"} BY <1>3
<1> HIDE DEF left, pc
<1>6. /\ E!Advance(run).phase = run.phase /\ E!Advance(run).todo = left
      /\ E!Advance(run).pc = pc /\ E!Advance(run).seen = run.seen
  BY <1>1 DEF Run
<1>8. E!Advance(run) \in Run
  <2>1. E!Advance(run) = [pc |-> pc, phase |-> run.phase, todo |-> left, book |-> 0, src |-> 0, base |-> E!None,
                          doc |-> E!None, bad |-> run.bad, seen |-> run.seen]
    BY <1>1 DEF Run
  <2>2. pc \in BookSteps \cup {"off", "takeover", "census", "strip", "clean", "convert", "close"} BY <1>5
  <2>3. QED BY <1>2, <1>4, <2>1, <2>2 DEF Run
<1>7. QED BY <1>3, <1>6, <1>8 DEF left

(* A run between two folders has nothing to answer for but its walk. *)
LEMMA BetweenFolders ==
  ASSUME NEW run, NEW lib, NEW bak, NEW part,
         run.pc \in {"census", "strip", "clean", "convert", "close"},
         run.pc \in {"strip", "convert"} => run.phase = run.pc /\ run.todo # {},
         run.pc \in {"census", "clean"} => run.phase = "strip",
         run.phase = "restore" => run.todo = {},
         run.phase = "convert" => \A b \in run.todo : lib[b].by # "mobi"
  PROVE  RunKept(run, lib, bak, part)
BY DEF RunKept, WalkKept, EditKept, Unpublished, PartialOwn, BackupSteps, PublishSteps, BookSteps

LEMMA AdvanceKept ==
  ASSUME NEW run \in Run, NEW lib, NEW bak, NEW part, run.phase \in {"strip", "convert"} \/ run.todo = {},
         run.phase = "convert" => \A b \in run.todo \ {run.book} : lib[b].by # "mobi"
  PROVE  E!Advance(run) \in Run /\ RunKept(E!Advance(run), lib, bak, part)
<1> DEFINE next == E!Advance(run)
<1>1. /\ next \in Run /\ next.phase = run.phase /\ next.todo = run.todo \ {run.book}
      /\ next.pc \in {"clean", "close"} \/ (next.pc = run.phase /\ next.todo # {} /\ run.phase \in {"strip", "convert"})
      /\ next.pc = "clean" => run.phase = "strip"
  BY AdvanceRun
<1> HIDE DEF next
<1>2. RunKept(next, lib, bak, part)
  <2>1. next.pc \in {"census", "strip", "clean", "convert", "close"} BY <1>1
  <2>2. next.pc \in {"strip", "convert"} => next.phase = next.pc /\ next.todo # {} BY <1>1
  <2>3. next.phase = "restore" => next.todo = {} BY <1>1
  <2>4. next.phase = "convert" => \A b \in next.todo : lib[b].by # "mobi" BY <1>1
  <2>5. next.pc \in {"census", "clean"} => next.phase = "strip" BY <1>1
  <2>6. QED BY <2>1, <2>2, <2>3, <2>4, <2>5, BetweenFolders
<1>3. QED BY <1>1, <1>2 DEF next

-----------------------------------------------------------------------------
(* What a step of a run does to the invariant. *)
LEMMA OffRun == E!Off \in Run /\ ~AtWork(E!Off) /\ E!Off.pc = "off"
<1>1. E!None \in Doc BY NewDoc
<1>2. [b \in Books |-> E!None] \in [Books -> Doc] BY <1>1
<1>3. QED BY <1>1, <1>2 DEF E!Off, Run, AtWork

LEMMA EnteredRun ==
  /\ E!Entered(E!Off) \in Run
  /\ \A lib, bak, part : RunKept(E!Entered(E!Off), lib, bak, part)
<1> DEFINE next == E!Entered(E!Off)
<1>1. next \in Run /\ next.pc \in {"census", "clean"} /\ next.phase = "strip"
  BY OffRun DEF E!Entered, Run
<1> HIDE DEF next
<1>2. \A lib, bak, part : RunKept(next, lib, bak, part) BY <1>1, BetweenFolders
<1>3. QED BY <1>1, <1>2 DEF next

(* One run moves, and with OneRun no other has anything at stake. *)
LEMMA RunMoves ==
  ASSUME EpubInv, E!OneRun, E!OneRun', LibraryKept', NEW r \in Runs, NEW next \in Run,
         eRun' = [eRun EXCEPT ![r] = next],
         AtWork(eRun[r]) \/ AtWork(next) \/ UNCHANGED <<eLib, ePart, eBak>>,
         AtWork(next) => RunKept(next, eLib', eBak', ePart')
  PROVE  EpubInv'
<1>1. eRun' \in [Runs -> Run] /\ eRun'[r] = next /\ \A q \in Runs \ {r} : eRun'[q] = eRun[q] BY DEF EpubInv
<1>2. ASSUME NEW q \in Runs, AtWork(eRun'[q]) PROVE RunKept(eRun'[q], eLib', eBak', ePart')
  <2>1. CASE q = r BY <1>1, <1>2, <2>1
  <2>2. CASE q # r
    <3>1. eRun'[q] = eRun[q] /\ AtWork(eRun[q]) BY <1>1, <1>2, <2>2
    <3>2. ~AtWork(eRun[r]) BY <2>2, <3>1 DEF E!OneRun, AtWork
    <3>3. ~AtWork(next) BY <1>1, <1>2, <2>2 DEF E!OneRun, AtWork
    <3>4. UNCHANGED <<eLib, ePart, eBak>> BY <3>2, <3>3
    <3>5. QED BY <3>1, <3>4 DEF EpubInv
  <2>3. QED BY <2>1, <2>2
<1>3. QED BY <1>1, <1>2 DEF EpubInv

LEMMA LibraryStays ==
  ASSUME LibraryKept, UNCHANGED <<eSrc, eLib, ePart, eBak, eImports>> PROVE LibraryKept'
BY DEF LibraryKept, LibraryTypes, CutIsUnedited, AllUndone, Undone, E!PublishedWhole

(* Only the partials change. *)
LEMMA PartialsChange ==
  ASSUME LibraryKept, ePart' \in [Books -> Part], UNCHANGED <<eSrc, eLib, eBak, eImports>>
  PROVE  LibraryKept'
BY DEF LibraryKept, LibraryTypes, CutIsUnedited, AllUndone, Undone, E!PublishedWhole

(* One EPUB changes, edited only with its original at hand. *)
LEMMA BookChanges ==
  ASSUME LibraryKept, NEW b \in Books, NEW doc \in Doc, eLib' = [eLib EXCEPT ![b] = doc],
         ePart' \in [Books -> Part], eSrc' = eSrc, eBak' = eBak, eImports' \in Nat,
         doc.whole \/ (doc.edits = 0 /\ doc.by # "mobi"), Undone(eBak, b, doc)
  PROVE  LibraryKept'
<1>1. eLib' \in [Books -> Doc] /\ eLib'[b] = doc /\ \A c \in Books \ {b} : eLib'[c] = eLib[c]
  BY DEF LibraryKept, LibraryTypes
<1>2. LibraryTypes' BY <1>1 DEF LibraryKept, LibraryTypes
<1>3. CutIsUnedited' BY <1>1 DEF LibraryKept, CutIsUnedited
<1>4. AllUndone'
  <2>1. ASSUME NEW c \in Books PROVE Undone(eBak, c, eLib'[c])
    <3>1. CASE c = b BY <1>1, <3>1
    <3>2. CASE c # b BY <1>1, <3>2 DEF LibraryKept, AllUndone
    <3>3. QED BY <3>1, <3>2
  <2>2. QED BY <2>1 DEF LibraryKept, AllUndone
<1>5. E!PublishedWhole' BY <1>1 DEF LibraryKept, E!PublishedWhole
<1>6. QED BY <1>2, <1>3, <1>4, <1>5 DEF LibraryKept

(* A backup is begun, carried on or taken back: no manifest goes, so what  *)
(* could be undone still can.                                              *)
LEMMA BackupChanges ==
  ASSUME LibraryKept, NEW b \in Books, NEW gone, NEW added \in SUBSET Backup,
         eBak' = [eBak EXCEPT ![b] = (@ \ gone) \cup added],
         \A s \in gone : s.stage # "manifest", \A s \in added : Undone(eBak, b, s.of),
         ePart' \in [Books -> Part], UNCHANGED <<eSrc, eLib, eImports>>
  PROVE  /\ LibraryKept' /\ added \subseteq eBak'[b]
         /\ \A c \in Books : \A doc : Undone(eBak, c, doc) => Undone(eBak', c, doc)
<1>1. /\ eBak'[b] = (eBak[b] \ gone) \cup added
      /\ \A c \in Books \ {b} : eBak'[c] = eBak[c]
      /\ eBak' \in [Books -> SUBSET Backup]
  BY DEF LibraryKept, LibraryTypes
<1>2. \A c \in Books : \A doc : Undone(eBak, c, doc) => Undone(eBak', c, doc)
  <2>1. \A c \in Books : \A s \in eBak[c] : s.stage = "manifest" => s \in eBak'[c] BY <1>1
  <2>2. QED BY <2>1 DEF Undone
<1>3. LibraryTypes' BY <1>1 DEF LibraryKept, LibraryTypes
<1>4. AllUndone'
  <2>1. ASSUME NEW c \in Books, NEW s \in eBak'[c] PROVE Undone(eBak', c, s.of)
    <3>1. CASE s \in eBak[c] BY <1>2, <3>1 DEF LibraryKept, AllUndone
    <3>2. CASE s \notin eBak[c] BY <1>1, <1>2, <3>2
    <3>3. QED BY <3>1, <3>2
  <2>2. \A c \in Books : Undone(eBak', c, eLib'[c]) BY <1>2 DEF LibraryKept, AllUndone
  <2>3. QED BY <2>1, <2>2 DEF AllUndone
<1>5. CutIsUnedited' /\ E!PublishedWhole' BY DEF LibraryKept, CutIsUnedited, E!PublishedWhole
<1>6. QED BY <1>1, <1>2, <1>3, <1>4, <1>5 DEF LibraryKept

-----------------------------------------------------------------------------
(* LazyLibrarian and time: no run and no backup moves. *)
LEMMA OutsideRuns ==
  ASSUME EpubInv, LibraryKept', UNCHANGED <<eRun, eBak>>,
         \A b \in Books : eLib'[b] = eLib[b] \/ eLib'[b].by # "mobi",
         \A b \in Books : ePart'[b] = ePart[b] \/ ePart[b].linked
  PROVE  EpubInv'
<1>1. ASSUME NEW r \in Runs, AtWork(eRun[r]) PROVE RunKept(eRun[r], eLib', eBak, ePart')
  <2> DEFINE run == eRun[r]
  <2>1. RunKept(run, eLib, eBak, ePart) /\ run \in Run BY <1>1 DEF EpubInv
  <2> HIDE DEF run
  <2>2. Unpublished(run, eLib') BY <2>1 DEF RunKept, Unpublished, Run
  <2>3. run.pc \in {"copying", "recheck", "link"} => run.book \in Books
    BY <2>1 DEF RunKept, WalkKept, BookSteps, PublishSteps
  <2>4. PartialOwn(run, ePart') BY <2>1, <2>3 DEF RunKept, PartialOwn
  <2>5. QED BY <2>1, <2>2, <2>4 DEF RunKept, run
<1>2. QED BY <1>1 DEF EpubInv

LEMMA ImportsKept ==
  ASSUME EpubInv, NEW b \in Books, NEW tag \in {"series", "none"}, E!ImportMobi(b) \/ E!ImportEpub(b, tag)
  PROVE  EpubInv'
<1>1. CASE E!ImportMobi(b)
  <2>1. LibraryKept'
    <3>1. eSrc' \in [Books -> Nat] /\ eImports' \in Nat BY <1>1 DEF E!ImportMobi, EpubInv, LibraryKept, LibraryTypes
    <3>2. UNCHANGED <<eLib, ePart, eBak>> BY <1>1 DEF E!ImportMobi
    <3>3. QED BY <3>1, <3>2 DEF EpubInv, LibraryKept, LibraryTypes, CutIsUnedited,
                                AllUndone, Undone, E!PublishedWhole
  <2>2. QED BY <1>1, <2>1, OutsideRuns DEF E!ImportMobi
<1>2. CASE E!ImportEpub(b, tag)
  <2> DEFINE doc == [E!Epub("ll", eImports + 2, tag) EXCEPT !.whole = FALSE]
  <2>1. eImports + 2 \in Nat /\ eImports' \in Nat BY <1>2 DEF E!ImportEpub, EpubInv, LibraryKept, LibraryTypes
  <2>2. doc \in Doc /\ doc.by = "ll" /\ doc.edits = 0 BY <2>1 DEF E!Epub, Doc, Tags
  <2>3. eLib' = [eLib EXCEPT ![b] = doc] BY <1>2 DEF E!ImportEpub
  <2> HIDE DEF doc
  <2>4. eLib'[b] = doc /\ \A c \in Books \ {b} : eLib'[c] = eLib[c] BY <2>3 DEF EpubInv, LibraryKept, LibraryTypes
  <2>5. ePart' = [ePart EXCEPT ![b] = IF @.linked THEN [@ EXCEPT !.doc = eLib'[b]] ELSE @]
    BY <1>2 DEF E!ImportEpub
  <2>6. ePart' \in [Books -> Part] /\ \A c \in Books : ePart'[c] = ePart[c] \/ ePart[c].linked
    <3>1. ePart \in [Books -> Part] BY DEF EpubInv, LibraryKept, LibraryTypes
    <3>2. [ePart[b] EXCEPT !.doc = eLib'[b]] \in Part BY <2>2, <2>4, <3>1 DEF Part
    <3>3. CASE ePart[b].linked BY <2>5, <3>1, <3>2, <3>3
    <3>4. CASE ~ePart[b].linked BY <2>5, <3>1, <3>4
    <3>5. QED BY <3>3, <3>4
  <2>7. UNCHANGED <<eSrc, eBak, eRun>> BY <1>2 DEF E!ImportEpub
  <2>8. LibraryKept' BY <2>1, <2>2, <2>3, <2>6, <2>7, BookChanges DEF EpubInv, Undone
  <2>9. QED BY <2>2, <2>4, <2>6, <2>7, <2>8, OutsideRuns
<1>3. QED BY <1>1, <1>2

LEMMA ImportEndsKept == ASSUME EpubInv, NEW b \in Books, E!ImportEnds(b) PROVE EpubInv'
<1> DEFINE doc == [eLib[b] EXCEPT !.whole = TRUE]
<1>1. eLib[b] \in Doc /\ ~eLib[b].whole /\ eLib[b].by = "ll" BY DEF E!ImportEnds, EpubInv, LibraryKept, LibraryTypes
<1>2. doc \in Doc /\ doc.by = "ll" /\ doc.edits = 0 /\ doc.whole
  <2>1. eLib[b].edits = 0 BY <1>1 DEF EpubInv, LibraryKept, CutIsUnedited
  <2>2. QED BY <1>1, <2>1 DEF Doc
<1>3. eLib' = [eLib EXCEPT ![b] = doc] BY DEF E!ImportEnds
<1> HIDE DEF doc
<1>4. eLib'[b] = doc /\ \A c \in Books \ {b} : eLib'[c] = eLib[c] BY <1>3 DEF EpubInv, LibraryKept, LibraryTypes
<1>5. ePart' = [ePart EXCEPT ![b] = IF @.linked THEN [@ EXCEPT !.doc = eLib'[b]] ELSE @] BY DEF E!ImportEnds
<1>6. ePart' \in [Books -> Part] /\ \A c \in Books : ePart'[c] = ePart[c] \/ ePart[c].linked
  <2>1. ePart \in [Books -> Part] BY DEF EpubInv, LibraryKept, LibraryTypes
  <2>2. [ePart[b] EXCEPT !.doc = eLib'[b]] \in Part BY <1>2, <1>4, <2>1 DEF Part
  <2>3. CASE ePart[b].linked BY <1>5, <2>1, <2>2, <2>3
  <2>4. CASE ~ePart[b].linked BY <1>5, <2>1, <2>4
  <2>5. QED BY <2>3, <2>4
<1>7. UNCHANGED <<eSrc, eBak, eRun, eImports>> /\ eImports' \in Nat
  BY DEF E!ImportEnds, EpubInv, LibraryKept, LibraryTypes
<1>8. LibraryKept' BY <1>2, <1>3, <1>6, <1>7, BookChanges DEF EpubInv, Undone
<1>9. QED BY <1>2, <1>4, <1>6, <1>7, <1>8, OutsideRuns

(* A run begins, ends or dies. *)
LEMMA BeginsKept ==
  ASSUME EpubInv, E!OneRun, E!OneRun', NEW r \in Runs, E!TakeLock(r) \/ E!TakeOver(r) PROVE EpubInv'
<1>1. LibraryKept' BY LibraryStays DEF EpubInv, E!TakeLock, E!TakeOver
<1>2. CASE eRun' = [eRun EXCEPT ![r] = E!Entered(E!Off)]
  <2>1. ~AtWork(eRun[r]) /\ UNCHANGED <<eLib, ePart, eBak>> BY DEF E!TakeLock, E!TakeOver, AtWork
  <2>2. QED BY <1>1, <1>2, <2>1, EnteredRun, RunMoves
<1>3. CASE E!TakeLock(r) /\ eRun' = [eRun EXCEPT ![r].pc = "takeover"]
  <2> DEFINE next == [eRun[r] EXCEPT !.pc = "takeover"]
  <2>1. eRun' = [eRun EXCEPT ![r] = next] BY <1>3
  <2>2. next \in Run /\ ~AtWork(next) BY DEF EpubInv, Run, AtWork
  <2>3. UNCHANGED <<eLib, ePart, eBak>> BY <1>3 DEF E!TakeLock
  <2> HIDE DEF next
  <2>4. QED BY <1>1, <2>1, <2>2, <2>3, RunMoves
<1>4. QED BY <1>2, <1>3 DEF E!TakeLock, E!TakeOver

LEMMA EndsKept ==
  ASSUME EpubInv, E!OneRun, E!OneRun', NEW r \in Runs, E!Close(r) \/ E!Killed(r) PROVE EpubInv'
<1>1. LibraryKept' BY LibraryStays DEF EpubInv, E!Close, E!Killed
<1>2. eRun' = [eRun EXCEPT ![r] = E!Off] /\ UNCHANGED <<eLib, ePart, eBak>> BY DEF E!Close, E!Killed
<1>3. QED BY <1>1, <1>2, OffRun, RunMoves

-----------------------------------------------------------------------------
(* The steps of a run. *)
LEMMA RunNow ==
  ASSUME EpubInv, NEW r \in Runs, AtWork(eRun[r])
  PROVE  eRun[r] \in Run /\ RunKept(eRun[r], eLib, eBak, ePart)
BY DEF EpubInv

LEMMA AtABook ==
  ASSUME NEW run, NEW lib, NEW bak, NEW part, run.pc \in BookSteps, RunKept(run, lib, bak, part)
  PROVE  /\ AtWork(run) /\ run.book \in Books
         /\ run.phase \in {"strip", "convert"} \/ run.todo = {}
         /\ run.phase = "convert" => \A b \in run.todo \ {run.book} : lib[b].by # "mobi"
         /\ run.phase = "convert" /\ run.pc # "published" => \A b \in run.todo : lib[b].by # "mobi"
BY DEF RunKept, WalkKept, Unpublished, AtWork, BookSteps, BackupSteps, PublishSteps

LEMMA RunAdvances ==
  ASSUME EpubInv, E!OneRun, E!OneRun', LibraryKept', NEW r \in Runs, eRun[r].pc \in BookSteps,
         eLib' = eLib, eRun' = [eRun EXCEPT ![r] = E!Advance(eRun[r])]
  PROVE  EpubInv'
<1> DEFINE run == eRun[r]  next == E!Advance(run)
<1>1. AtWork(run) BY DEF AtWork, BookSteps, BackupSteps, PublishSteps
<1>2. run \in Run /\ RunKept(run, eLib, eBak, ePart) BY <1>1, RunNow
<1> HIDE DEF run
<1>3. /\ run.phase \in {"strip", "convert"} \/ run.todo = {}
      /\ run.phase = "convert" => \A b \in run.todo \ {run.book} : eLib[b].by # "mobi"
  BY <1>2, AtABook DEF run
<1>4. next \in Run /\ RunKept(next, eLib', eBak', ePart') BY <1>2, <1>3, AdvanceKept
<1>5. eRun' = [eRun EXCEPT ![r] = next] /\ AtWork(eRun[r]) BY <1>1 DEF run
<1> HIDE DEF next
<1>6. QED BY <1>4, <1>5, RunMoves

LEMMA ReadsKept ==
  ASSUME Books # {}, EpubInv, E!OneRun, E!OneRun', NEW r \in Runs,
         E!ReadIdentity(r) \/ E!PreflightEnds(r) \/ E!Deferred(r)
  PROVE  EpubInv'
<1> DEFINE run == eRun[r]
<1>1. AtWork(run) /\ run.pc \in {"census", "strip", "convert"}
  BY DEF E!ReadIdentity, E!PreflightEnds, E!Deferred, AtWork
<1>2. run \in Run /\ RunKept(run, eLib, eBak, ePart) BY <1>1, RunNow
<1>3. LibraryKept' BY LibraryStays DEF EpubInv, E!ReadIdentity, E!PreflightEnds, E!Deferred, E!Keep
<1>4. UNCHANGED <<eLib, eBak, ePart>> BY DEF E!ReadIdentity, E!PreflightEnds, E!Deferred, E!Keep
<1>5. CASE E!ReadIdentity(r)
  <2> DEFINE b == E!First(run.todo)
             next == [run EXCEPT !.todo = @ \ {b}, !.seen[b] = eLib[b],
                                 !.bad = @ \/ ~eLib[b].whole \/ (ePart[b].linked /\ b \in Ambiguous)]
  <2>1. eRun' = [eRun EXCEPT ![r] = next] BY <1>5 DEF E!ReadIdentity
  <2>2. run.pc = "census" /\ run.todo # {} BY <1>5 DEF E!ReadIdentity
  <2>3. b \in Books /\ eLib[b] \in Doc BY <1>2, <2>2, FirstIsLeft DEF Run, EpubInv, LibraryKept, LibraryTypes
  <2>4. run.phase = "strip" BY <1>2, <2>2 DEF RunKept, WalkKept
  <2>5. next \in Run
    <3> DEFINE bad == run.bad \/ ~eLib[b].whole \/ (ePart[b].linked /\ b \in Ambiguous)
    <3>1. bad \in BOOLEAN
      <4>1. run.bad \in BOOLEAN /\ eLib[b].whole \in BOOLEAN /\ ePart[b].linked \in BOOLEAN
        BY <1>2, <2>3 DEF Run, EpubInv, LibraryKept, LibraryTypes, Doc, Part
      <4>2. QED BY <4>1
    <3>2. next = [run EXCEPT !.todo = run.todo \ {b}, !.seen[b] = eLib[b], !.bad = bad] OBVIOUS
    <3> HIDE DEF bad, b
    <3>3. QED BY <1>2, <2>3, <3>1, <3>2 DEF Run
  <2>6. next.pc = "census" /\ next.phase = "strip" BY <1>2, <2>2, <2>4 DEF Run
  <2> HIDE DEF next, run
  <2>7. RunKept(next, eLib', eBak', ePart') BY <2>6, BetweenFolders
  <2>8. QED BY <1>1, <1>3, <2>1, <2>5, <2>7, RunMoves DEF run
<1>6. CASE E!PreflightEnds(r)
  <2> DEFINE next == [run EXCEPT !.pc = IF run.bad THEN "close" ELSE "strip", !.todo = Books]
  <2>1. eRun' = [eRun EXCEPT ![r] = next] BY <1>6 DEF E!PreflightEnds
  <2>2. run.pc = "census" BY <1>6 DEF E!PreflightEnds
  <2>3. run.phase = "strip" BY <1>2, <2>2 DEF RunKept, WalkKept
  <2>4. next \in Run /\ next.pc \in {"close", "strip"} /\ next.phase = "strip" /\ next.todo = Books
    BY <1>2, <2>3 DEF Run
  <2> HIDE DEF next, run
  <2>5. RunKept(next, eLib', eBak', ePart') BY <2>4, BetweenFolders
  <2>6. QED BY <1>1, <1>3, <2>1, <2>4, <2>5, RunMoves DEF run
<1>7. CASE E!Deferred(r)
  <2> DEFINE at == [run EXCEPT !.todo = {}]
             adv == E!Advance(at)
             next == [adv EXCEPT !.todo = {}]
  <2>1. eRun' = [eRun EXCEPT ![r] = next] BY <1>7 DEF E!Deferred
  <2>2. run.pc \in {"strip", "convert"} BY <1>7 DEF E!Deferred
  <2>3. at \in Run /\ at.phase = run.pc /\ at.todo = {} BY <1>2, <2>2 DEF Run, RunKept, WalkKept
  <2> HIDE DEF at
  <2>4. /\ adv \in Run /\ adv.phase = at.phase /\ adv.todo = {}
        /\ adv.pc \in {"clean", "close"} \/ adv.todo # {}
        /\ adv.pc = "clean" => at.phase = "strip"
    BY <2>3, AdvanceRun
  <2> HIDE DEF adv
  <2>5. next \in Run /\ next.pc = adv.pc /\ next.phase = at.phase /\ next.todo = {} BY <2>4 DEF Run
  <2> HIDE DEF next, run
  <2>6. next.pc \in {"clean", "close"} /\ (next.pc = "clean" => next.phase = "strip") BY <2>4, <2>5
  <2>7. RunKept(next, eLib', eBak', ePart') BY <2>5, <2>6, BetweenFolders
  <2>8. QED BY <1>1, <1>3, <2>1, <2>5, <2>7, RunMoves DEF run
<1>8. QED BY <1>5, <1>6, <1>7

LEMMA StripKept ==
  ASSUME EpubInv, E!OneRun, E!OneRun', NEW r \in Runs, E!StripSeries(r) PROVE EpubInv'
<1> DEFINE run == eRun[r]  b == E!First(run.todo)  at == [run EXCEPT !.book = b]
           g == E!DedicatedGrouping(b, run.seen)
<1>1. run.pc = "strip" /\ AtWork(run) BY DEF E!StripSeries, AtWork
<1>2. run \in Run /\ RunKept(run, eLib, eBak, ePart) BY <1>1, RunNow
<1>3. run.phase = "strip" /\ run.todo # {} BY <1>1, <1>2 DEF RunKept, WalkKept
<1>4. b \in Books /\ eLib[b] \in Doc
  BY <1>2, <1>3, FirstIsLeft DEF Run, EpubInv, LibraryKept, LibraryTypes
<1>5. LibraryKept' BY LibraryStays DEF EpubInv, E!StripSeries, E!Keep
<1>6. CASE E!Edited(run, b)
  <2> DEFINE doc == E!Sanitized(eLib[b], g)
             next == [at EXCEPT !.pc = "backup", !.base = eLib[b], !.doc = doc]
  <2>1. eRun' = [eRun EXCEPT ![r] = next] BY <1>6 DEF E!StripSeries
  <2>2. g \in Tags BY <1>6 DEF E!Edited, E!DedicatedGrouping, Tags
  <2>3. eLib[b].whole BY <1>6 DEF E!Edited, E!Readable
  <2> HIDE DEF g, b
  <2>4. doc \in Doc /\ doc.whole /\ doc = E!Sanitized(eLib[b], doc.tag) BY <1>4, <2>2, <2>3, SanitizedDoc
  <2>8. doc # eLib[b] BY <1>6 DEF E!Edited, b, g
  <2>9. Undone(eBak', b, eLib[b])
    <3>1. eBak' = eBak BY DEF E!StripSeries, E!Keep
    <3>2. QED BY <1>4, <3>1 DEF EpubInv, LibraryKept, AllUndone
  <2> HIDE DEF doc
  <2>5. /\ next \in Run /\ next.pc = "backup" /\ next.phase = "strip" /\ next.book = b
        /\ next.base = eLib[b] /\ next.doc = doc
    BY <1>2, <1>3, <1>4, <2>4 DEF Run, BookSteps, BackupSteps
  <2> HIDE DEF next, run
  <2>6. RunKept(next, eLib', eBak', ePart')
    BY <1>4, <2>4, <2>5, <2>8, <2>9 DEF RunKept, WalkKept, EditKept, Unpublished, PartialOwn,
                            BookSteps, BackupSteps, PublishSteps
  <2>7. QED BY <1>1, <1>5, <2>1, <2>5, <2>6, RunMoves DEF run
<1>7. CASE ~E!Edited(run, b)
  <2> DEFINE next == E!Advance(at)
  <2>1. eRun' = [eRun EXCEPT ![r] = next] BY <1>7 DEF E!StripSeries
  <2> HIDE DEF b
  <2>2. at \in Run /\ at.phase = "strip" BY <1>2, <1>3, <1>4 DEF Run
  <2> HIDE DEF at
  <2>3. next \in Run /\ RunKept(next, eLib', eBak', ePart') BY <2>2, AdvanceKept
  <2> HIDE DEF next, run
  <2>4. QED BY <1>1, <1>5, <2>1, <2>3, RunMoves DEF run
<1>8. QED BY <1>6, <1>7

(* backup_original. *)
LEMMA BackupStepsKept ==
  ASSUME EpubInv, E!OneRun, E!OneRun', NEW r \in Runs,
         E!BackupFile(r) \/ E!BackupWritten(r) \/ E!BackupManifest(r) \/ E!ManifestWritten(r)
  PROVE  EpubInv'
<1> DEFINE run == eRun[r]
           Moved(pc) == eRun' = [eRun EXCEPT ![r].pc = pc]
           Entry(stage, for) == E!Backup(run.base, stage, for, "existing")
<1>1. run.pc \in BackupSteps /\ AtWork(run) /\ run.pc \in BookSteps
  BY DEF E!BackupFile, E!BackupWritten, E!BackupManifest, E!ManifestWritten, BackupSteps, BookSteps, AtWork
<1>2. run \in Run /\ RunKept(run, eLib, eBak, ePart) BY <1>1, RunNow
<1>3. run.book \in Books /\ run.base \in Doc /\ run.doc \in Doc BY <1>1, <1>2, AtABook DEF Run
<1>4. /\ run.doc.whole /\ run.doc # run.base /\ run.doc = E!Sanitized(run.base, run.doc.tag)
      /\ Undone(eBak, run.book, run.base) /\ run.phase = "strip"
  BY <1>1, <1>2 DEF RunKept, EditKept, WalkKept
<1>5. UNCHANGED <<eSrc, eLib, ePart, eImports>> /\ ePart' \in [Books -> Part]
  BY DEF E!BackupFile, E!BackupWritten, E!BackupManifest, E!ManifestWritten, EpubInv, LibraryKept, LibraryTypes
<1>6. ASSUME NEW for \in Tags, NEW stage \in {"short", "copy", "short manifest", "manifest"}
      PROVE  Entry(stage, for) \in Backup /\ Entry(stage, for).of = run.base /\ Entry(stage, for).stage = stage
                                          /\ Entry(stage, for).for = for
  BY <1>3 DEF E!Backup, Backup
<1>7. ASSUME UNCHANGED eBak, eRun' = [eRun EXCEPT ![r] = E!Advance(run)] PROVE EpubInv'
  <2>1. LibraryKept' BY <1>5, <1>7, LibraryStays DEF EpubInv
  <2>2. QED BY <1>1, <1>5, <1>7, <2>1, RunAdvances
<1>8. ASSUME NEW pc \in BackupSteps \cup {"replace"}, Moved(pc), LibraryKept',
             Undone(eBak', run.book, run.base), pc = "replace" => Undone(eBak', run.book, run.doc)
      PROVE EpubInv'
  <2> DEFINE next == [run EXCEPT !.pc = pc]
  <2>1. eRun' = [eRun EXCEPT ![r] = next] BY <1>8
  <2>2. pc \in BookSteps BY <1>8 DEF BookSteps
  <2>3. /\ next \in Run /\ next.pc = pc /\ next.phase = "strip" /\ next.book = run.book
        /\ next.base = run.base /\ next.doc = run.doc
    BY <1>2, <1>4, <2>2 DEF Run
  <2> HIDE DEF next, Moved, run, Entry
  <2>4. WalkKept(next) BY <1>3, <1>8, <2>3 DEF WalkKept, BackupSteps, BookSteps, PublishSteps
  <2>5. EditKept(next, eBak') BY <1>4, <1>8, <2>3 DEF EditKept, BackupSteps, PublishSteps
  <2>6. Unpublished(next, eLib') /\ PartialOwn(next, ePart')
    BY <1>8, <2>3 DEF Unpublished, PartialOwn, BackupSteps
  <2>7. RunKept(next, eLib', eBak', ePart') BY <2>4, <2>5, <2>6 DEF RunKept
  <2>8. AtWork(eRun[r]) BY <1>1 DEF run
  <2>9. QED BY <1>8, <2>1, <2>3, <2>7, <2>8, RunMoves
<1>9. ASSUME NEW stage \in {"short", "copy", "short manifest", "manifest"}, NEW for \in Tags,
             E!Save(run.book, run.base, stage, for)
      PROVE LibraryKept' /\ Entry(stage, for) \in eBak'[run.book] /\ Undone(eBak', run.book, run.base)
  <2> DEFINE gone == E!Unfinished(run.book, run.base)
  <2>1. eBak' = [eBak EXCEPT ![run.book] = (@ \ gone) \cup {Entry(stage, for)}] BY <1>9 DEF E!Save
  <2>2. \A s \in gone : s.stage # "manifest" BY DEF E!Unfinished
  <2>3. Entry(stage, for) \in Backup /\ Entry(stage, for).of = run.base BY <1>6
  <2> HIDE DEF Entry, run, gone
  <2>4. /\ {Entry(stage, for)} \in SUBSET Backup
        /\ \A s \in {Entry(stage, for)} : Undone(eBak, run.book, s.of)
    BY <1>4, <2>3
  <2>5. QED BY <1>3, <1>4, <1>5, <2>1, <2>2, <2>4, BackupChanges DEF EpubInv
<1>10. CASE E!BackupFile(r)
  <2>1. CASE E!Save(run.book, run.base, "short", "none") /\ Moved("backup written")
    <3>1. LibraryKept' /\ Undone(eBak', run.book, run.base) BY <1>9, <2>1 DEF Tags
    <3> HIDE DEF Moved, run
    <3>2. QED BY <1>8, <2>1, <3>1 DEF BackupSteps
  <2>2. CASE UNCHANGED eBak /\ eRun' = [eRun EXCEPT ![r] = E!Advance(run)] BY <1>7, <2>2
  <2>3. CASE UNCHANGED eBak /\ Moved("manifest")
    <3>1. LibraryKept' BY <1>5, <2>3, LibraryStays DEF EpubInv
    <3> HIDE DEF Moved, run
    <3>2. QED BY <1>4, <1>8, <2>3, <3>1 DEF BackupSteps
  <2>4. QED BY <1>10, <2>1, <2>2, <2>3 DEF E!BackupFile
<1>11. CASE E!BackupWritten(r)
  <2>1. E!Save(run.book, run.base, "copy", "none") /\ Moved("manifest") BY <1>11 DEF E!BackupWritten
  <2>2. LibraryKept' /\ Undone(eBak', run.book, run.base) BY <1>9, <2>1 DEF Tags
  <2> HIDE DEF Moved, run
  <2>3. QED BY <1>8, <2>1, <2>2 DEF BackupSteps
<1>12. CASE E!BackupManifest(r)
  <2>1. CASE E!Save(run.book, run.base, "short manifest", "none") /\ Moved("manifest written")
    <3>1. LibraryKept' /\ Undone(eBak', run.book, run.base) BY <1>9, <2>1 DEF Tags
    <3> HIDE DEF Moved, run
    <3>2. QED BY <1>8, <2>1, <3>1 DEF BackupSteps
  <2>2. CASE UNCHANGED eBak /\ E!Verified(run) /\ Moved("replace")
    <3>1. LibraryKept' BY <1>5, <2>2, LibraryStays DEF EpubInv
    <3>2. Undone(eBak', run.book, run.doc)
      (* The manifest read back names this edit. *)
      <4>1. Entry("manifest", run.doc.tag) \in eBak[run.book] BY <2>2 DEF E!Verified
      <4>2. run.doc.tag \in Tags BY <1>3 DEF Doc
      <4> DEFINE s == Entry("manifest", run.doc.tag)
      <4>3. s.stage = "manifest" /\ s.of = run.base /\ s.for = run.doc.tag BY <1>6, <4>2
      <4> HIDE DEF Entry, s, run
      <4>4. QED BY <1>4, <2>2, <4>1, <4>3 DEF Undone, s
    <3> HIDE DEF Moved, run
    <3>3. QED BY <1>4, <1>8, <2>2, <3>1, <3>2
  <2>3. CASE UNCHANGED eBak /\ eRun' = [eRun EXCEPT ![r] = E!Advance(run)] BY <1>7, <2>3
  <2>4. QED BY <1>12, <2>1, <2>2, <2>3 DEF E!BackupManifest
<1>13. CASE E!ManifestWritten(r)
  <2>1. E!Save(run.book, run.base, "manifest", run.doc.tag) /\ Moved("replace") BY <1>13 DEF E!ManifestWritten
  <2>2. run.doc.tag \in Tags BY <1>3 DEF Doc
  <2>3. /\ LibraryKept' /\ Undone(eBak', run.book, run.base)
        /\ Entry("manifest", run.doc.tag) \in eBak'[run.book]
    BY <1>9, <2>1, <2>2
  <2>4. Undone(eBak', run.book, run.doc)
    <3> DEFINE s == Entry("manifest", run.doc.tag)
    <3>1. s.stage = "manifest" /\ s.of = run.base /\ s.for = run.doc.tag BY <1>6, <2>2
    <3> HIDE DEF Entry, s, run
    <3>2. QED BY <1>4, <2>3, <3>1 DEF Undone, s
  <2> HIDE DEF Moved, run
  <2>5. QED BY <1>8, <2>1, <2>3, <2>4
<1>14. QED BY <1>10, <1>11, <1>12, <1>13

(* _replace, and --restore-backup on its way there. *)
LEMMA ReplaceCheckKept ==
  ASSUME EpubInv, E!OneRun, E!OneRun', NEW r \in Runs, E!WriteSibling(r) \/ E!ReplaceCheck(r) PROVE EpubInv'
<1> DEFINE run == eRun[r]  next(pc) == [run EXCEPT !.pc = pc]
<1>1. run.pc \in {"replace", "sibling"} /\ AtWork(run) /\ run.pc \in BookSteps
  BY DEF E!WriteSibling, E!ReplaceCheck, AtWork, BookSteps
<1>2. run \in Run /\ RunKept(run, eLib, eBak, ePart) BY <1>1, RunNow
<1>3. LibraryKept' /\ UNCHANGED <<eLib, ePart, eBak>>
  BY LibraryStays DEF EpubInv, E!WriteSibling, E!ReplaceCheck, E!Keep
<1>4. CASE eRun' = [eRun EXCEPT ![r] = E!Advance(run)] BY <1>1, <1>3, <1>4, RunAdvances
<1>5. ASSUME NEW pc \in {"sibling", "rename"}, eRun' = [eRun EXCEPT ![r] = next(pc)] PROVE EpubInv'
  <2>1. /\ next(pc) \in Run /\ next(pc).pc = pc /\ next(pc).phase = run.phase /\ next(pc).book = run.book
        /\ next(pc).todo = run.todo /\ next(pc).doc = run.doc
    BY <1>2 DEF Run, BookSteps
  <2> HIDE DEF run, next
  <2>2. RunKept(next(pc), eLib', eBak', ePart')
    BY <1>1, <1>2, <1>3, <2>1 DEF RunKept, WalkKept, EditKept, Unpublished, PartialOwn,
                                  BookSteps, BackupSteps, PublishSteps
  <2>3. QED BY <1>1, <1>3, <1>5, <2>1, <2>2, RunMoves DEF run
<1>6. QED BY <1>4, <1>5 DEF E!WriteSibling, E!ReplaceCheck

LEMMA ReplaceKept ==
  ASSUME EpubInv, E!OneRun, E!OneRun', NEW r \in Runs, E!Replace(r) PROVE EpubInv'
<1> DEFINE run == eRun[r]  adv == E!Advance(run)  next == [adv EXCEPT !.seen[run.book] = run.doc]
<1>1. run.pc = "rename" /\ AtWork(run) /\ run.pc \in BookSteps BY DEF E!Replace, AtWork, BookSteps
<1>2. run \in Run /\ RunKept(run, eLib, eBak, ePart) BY <1>1, RunNow
<1>3. /\ run.book \in Books /\ run.doc \in Doc /\ run.doc.whole
      /\ Undone(eBak, run.book, run.doc)
      /\ run.phase \in {"strip", "restore"} /\ (run.phase = "restore" => run.todo = {})
  BY <1>1, <1>2, AtABook DEF RunKept, EditKept, WalkKept, Run
<1>4. LibraryKept'
  <2>1. ePart' \in [Books -> Part]
    <3>1. ePart' = [ePart EXCEPT ![run.book] = [@ EXCEPT !.linked = FALSE]] BY DEF E!Replace
    <3>2. ePart \in [Books -> Part] BY DEF EpubInv, LibraryKept, LibraryTypes
    <3>3. [ePart[run.book] EXCEPT !.linked = FALSE] \in Part BY <1>3, <3>2 DEF Part
    <3>4. QED BY <3>1, <3>2, <3>3
  <2>2. eLib' = [eLib EXCEPT ![run.book] = run.doc] /\ UNCHANGED <<eSrc, eBak, eImports>> BY DEF E!Replace
  <2>3. eImports' \in Nat BY <2>2 DEF EpubInv, LibraryKept, LibraryTypes
  <2> HIDE DEF run
  <2>4. QED BY <1>3, <2>1, <2>2, <2>3, BookChanges DEF EpubInv
<1>5. eRun' = [eRun EXCEPT ![r] = next] BY DEF E!Replace
<1>6. adv \in Run /\ RunKept(adv, eLib', eBak', ePart') BY <1>2, <1>3, AdvanceKept
<1> HIDE DEF adv
<1>7. next \in Run /\ RunKept(next, eLib', eBak', ePart')
  <2>1. next \in Run BY <1>3, <1>6, SMTT(20) DEF Run
  <2>2. /\ next.pc = adv.pc /\ next.phase = adv.phase /\ next.todo = adv.todo /\ next.book = adv.book
        /\ next.base = adv.base /\ next.doc = adv.doc
    BY <1>6 DEF Run
  <2> HIDE DEF next
  <2>3. QED BY <1>6, <2>1, <2>2 DEF RunKept, WalkKept, EditKept, Unpublished, PartialOwn
<1> HIDE DEF next, run
<1>8. QED BY <1>1, <1>4, <1>5, <1>7, RunMoves DEF run

LEMMA RestoreKept ==
  ASSUME EpubInv, E!OneRun, E!OneRun', NEW r \in Runs, NEW b \in Books, E!RestoreBackup(r, b) PROVE EpubInv'
<1>0. PICK s \in E!Undoing(b, eLib[b]) :
        eRun' = [eRun EXCEPT ![r] = [@ EXCEPT !.pc = "replace", !.phase = "restore", !.todo = {},
                   !.book = b, !.base = eLib[b], !.doc = s.of]]
  BY DEF E!RestoreBackup
<1> DEFINE run == eRun[r]  doc == s.of
           next == [run EXCEPT !.pc = "replace", !.phase = "restore", !.todo = {}, !.book = b,
                               !.base = eLib[b], !.doc = doc]
<1>1. AtWork(run) /\ eLib[b].whole BY DEF E!RestoreBackup, AtWork
<1>2. run \in Run BY <1>1, RunNow
<1>3. LibraryKept' BY LibraryStays DEF EpubInv, E!RestoreBackup
<1>4. eRun' = [eRun EXCEPT ![r] = next] BY <1>0
<1>5. eLib[b] \in Doc /\ s \in eBak[b] /\ s \in Backup
  BY DEF E!Undoing, EpubInv, LibraryKept, LibraryTypes
<1>6. doc \in Doc /\ doc.whole /\ Undone(eBak', b, doc)
  <2>1. s.of \in Doc /\ s.for \in Tags BY <1>5 DEF Backup
  <2>2. E!Sanitized(s.of, s.for) = eLib[b] BY DEF E!Undoing
  <2>3. s.of.whole BY <1>1, <2>1, <2>2, SanitizedDoc
  <2>4. Undone(eBak, b, s.of) BY <1>5 DEF EpubInv, LibraryKept, AllUndone
  <2>5. eBak' = eBak BY DEF E!RestoreBackup
  <2>6. QED BY <2>1, <2>3, <2>4, <2>5
<1> HIDE DEF doc
<1>7. /\ next \in Run /\ next.pc = "replace" /\ next.phase = "restore" /\ next.todo = {} /\ next.book = b
      /\ next.doc = doc
  <2> DEFINE at == [run EXCEPT !.pc = "replace", !.phase = "restore", !.todo = {}]
  <2>1. at \in Run /\ at.pc = "replace" /\ at.phase = "restore" /\ at.todo = {} BY <1>2 DEF Run, BookSteps
  <2>2. next = [at EXCEPT !.book = b, !.base = eLib[b], !.doc = doc] OBVIOUS
  <2> HIDE DEF at, next
  <2>3. QED BY <1>5, <1>6, <2>1, <2>2 DEF Run
<1> HIDE DEF next, run
<1>8. RunKept(next, eLib', eBak', ePart')
  BY <1>6, <1>7 DEF RunKept, WalkKept, EditKept, Unpublished, PartialOwn,
                    BookSteps, BackupSteps, PublishSteps
<1>9. QED BY <1>1, <1>3, <1>4, <1>7, <1>8, RunMoves DEF run

(* Conversion. *)
LEMMA CleanKept == ASSUME EpubInv, E!OneRun, E!OneRun', NEW r \in Runs, E!CleanPartials(r) PROVE EpubInv'
<1> DEFINE run == eRun[r]
           next == [run EXCEPT !.phase = "convert", !.todo = E!Candidates,
                               !.pc = IF E!Candidates = {} THEN "close" ELSE "convert"]
<1>1. AtWork(run) BY DEF E!CleanPartials, AtWork
<1>2. run \in Run BY <1>1, RunNow
<1>3. LibraryKept'
  <2>1. ePart \in [Books -> Part] /\ E!NoPart \in Part BY NewDoc DEF EpubInv, LibraryKept, LibraryTypes, E!NoPart, Part
  <2>2. \A b \in Books : (IF b \notin LibraryHolds /\ E!Removable(ePart[b]) THEN E!NoPart ELSE ePart[b]) \in Part
    <3>1. TAKE b \in Books
    <3>2. ePart[b] \in Part BY <2>1
    <3>3. QED BY <2>1, <3>2, Zenon
  <2>3. ePart' = [b \in Books |-> IF b \notin LibraryHolds /\ E!Removable(ePart[b]) THEN E!NoPart ELSE ePart[b]]
    BY DEF E!CleanPartials
  <2>4. ePart' \in [Books -> Part] BY <2>2, <2>3, Zenon
  <2>5. QED BY <2>4, PartialsChange DEF EpubInv, E!CleanPartials
<1>4. eRun' = [eRun EXCEPT ![r] = next] /\ eLib' = eLib BY DEF E!CleanPartials
<1>5. E!Candidates \subseteq Books /\ \A b \in E!Candidates : eLib[b].by # "mobi"
  BY NewDoc DEF E!Candidates
<1>6. /\ next \in Run /\ next.phase = "convert" /\ next.todo = E!Candidates
      /\ next.pc = "close" \/ (next.pc = "convert" /\ next.todo # {})
  <2> DEFINE pc == IF E!Candidates = {} THEN "close" ELSE "convert"
  <2>1. pc = "close" \/ (pc = "convert" /\ E!Candidates # {}) OBVIOUS
  <2>2. next = [run EXCEPT !.phase = "convert", !.todo = E!Candidates, !.pc = pc] OBVIOUS
  <2> HIDE DEF pc
  <2>3. QED BY <1>2, <1>5, <2>1, <2>2 DEF Run
<1> HIDE DEF next, run
<1>7. RunKept(next, eLib', eBak', ePart') BY <1>4, <1>5, <1>6, BetweenFolders
<1>8. QED BY <1>1, <1>3, <1>4, <1>6, <1>7, RunMoves DEF run

LEMMA ChooseKept == ASSUME EpubInv, E!OneRun, E!OneRun', NEW r \in Runs, E!ChooseFolder(r) PROVE EpubInv'
<1> DEFINE run == eRun[r]  b == E!First(run.todo)  at == [run EXCEPT !.book = b]
           next == [at EXCEPT !.pc = "calibre", !.src = eSrc[b]]
<1>1. run.pc = "convert" /\ AtWork(run) BY DEF E!ChooseFolder, AtWork
<1>2. run \in Run /\ RunKept(run, eLib, eBak, ePart) BY <1>1, RunNow
<1>3. run.phase = "convert" /\ run.todo # {} /\ \A c \in run.todo : eLib[c].by # "mobi"
  BY <1>1, <1>2 DEF RunKept, WalkKept, Unpublished
<1>4. b \in Books /\ b \in run.todo /\ eSrc[b] \in Nat
  BY <1>2, <1>3, FirstIsLeft DEF Run, EpubInv, LibraryKept, LibraryTypes
<1>5. LibraryKept' /\ eLib' = eLib BY LibraryStays DEF EpubInv, E!ChooseFolder, E!Keep
<1>6. eRun' = [eRun EXCEPT ![r] = next] \/ eRun' = [eRun EXCEPT ![r] = E!Advance(at)] BY DEF E!ChooseFolder
<1> HIDE DEF b
<1>7. /\ at \in Run /\ at.phase = "convert" /\ at.todo = run.todo /\ at.book = b
      /\ next \in Run /\ next.phase = "convert" /\ next.todo = run.todo /\ next.book = b /\ next.pc = "calibre"
  BY <1>2, <1>3, <1>4 DEF Run, BookSteps
<1> HIDE DEF at, next
<1>8. CASE eRun' = [eRun EXCEPT ![r] = next]
  <2> HIDE DEF run
  <2>1. RunKept(next, eLib', eBak', ePart')
    BY <1>3, <1>4, <1>5, <1>7 DEF RunKept, WalkKept, EditKept, Unpublished, PartialOwn,
                                  BookSteps, BackupSteps, PublishSteps
  <2>2. QED BY <1>1, <1>5, <1>7, <1>8, <2>1, RunMoves DEF run
<1>9. CASE eRun' = [eRun EXCEPT ![r] = E!Advance(at)]
  <2> HIDE DEF run
  <2> DEFINE adv == E!Advance(at)
  <2>1. adv \in Run /\ RunKept(adv, eLib', eBak', ePart') BY <1>3, <1>5, <1>7, AdvanceKept
  <2> HIDE DEF adv
  <2>2. QED BY <1>1, <1>5, <1>9, <2>1, RunMoves DEF run, adv
<1>10. QED BY <1>6, <1>8, <1>9

(* calibre, and strip_converted on what it made. *)
LEMMA ConvertKept ==
  ASSUME EpubInv, E!OneRun, E!OneRun', NEW r \in Runs, NEW tag \in {"series", "none"},
         E!ConvertFails(r) \/ E!Convert(r, tag)
  PROVE  EpubInv'
<1> DEFINE run == eRun[r]
           raw == E!Epub("mobi", run.src, tag)
           g == IF Stripping THEN E!DedicatedGrouping(run.book, run.seen) ELSE tag
           doc == E!Sanitized(raw, g)
           next == [run EXCEPT !.pc = "publish", !.doc = doc]
<1>1. run.pc = "calibre" /\ AtWork(run) /\ run.pc \in BookSteps BY DEF E!ConvertFails, E!Convert, AtWork, BookSteps
<1>2. run \in Run /\ RunKept(run, eLib, eBak, ePart) BY <1>1, RunNow
<1>3. /\ run.book \in Books /\ run.src \in Nat /\ run.phase = "convert" /\ run.book \in run.todo
      /\ \A b \in run.todo : eLib[b].by # "mobi"
  BY <1>1, <1>2, AtABook DEF RunKept, WalkKept, Run
<1>4. UNCHANGED <<eSrc, eLib, ePart, eImports>> /\ ePart' \in [Books -> Part]
  BY DEF E!ConvertFails, E!Convert, EpubInv, LibraryKept, LibraryTypes
<1>5. CASE eRun' = [eRun EXCEPT ![r] = E!Advance(run)] /\ UNCHANGED eBak
  <2>1. LibraryKept' BY <1>4, <1>5, LibraryStays DEF EpubInv
  <2>2. QED BY <1>1, <1>4, <1>5, <2>1, RunAdvances
<1>6. CASE /\ E!Convert(r, tag) /\ ~(Stripping /\ g = "hold")
           /\ eBak' = [eBak EXCEPT ![run.book] =
                         IF doc # raw THEN @ \cup {E!Backup(raw, "manifest", g, "converted")} ELSE @]
           /\ eRun' = [eRun EXCEPT ![r] = next]
  <2>1. raw \in Doc /\ raw.whole /\ raw.edits = 0 BY <1>3, NewDoc DEF Tags
  <2>2. g \in Tags BY <1>6 DEF E!DedicatedGrouping, Tags
  <2> DEFINE entry == E!Backup(raw, "manifest", g, "converted")
  <2>3. entry \in Backup /\ entry.of = raw /\ entry.stage = "manifest" /\ entry.for = g
    BY <2>1, <2>2 DEF E!Backup, Backup
  <2>4. eBak' = [eBak EXCEPT ![run.book] = IF doc # raw THEN @ \cup {entry} ELSE @] BY <1>6
  <2> HIDE DEF raw, g, run, entry
  <2>5. doc \in Doc /\ doc.whole BY <2>1, <2>2, SanitizedDoc
  <2>6. doc = E!Sanitized(raw, g) OBVIOUS
  <2> HIDE DEF doc
  <2>7. LibraryKept' /\ Undone(eBak', run.book, doc)
    <3>1. CASE doc = raw
      <4>1. eBak' = [eBak EXCEPT ![run.book] = @] BY <2>4, <3>1
      <4>2. eBak' = eBak BY <4>1 DEF EpubInv, LibraryKept, LibraryTypes
      <4>3. LibraryKept' BY <1>4, <4>2, LibraryStays DEF EpubInv
      <4>4. QED BY <2>1, <3>1, <4>3 DEF Undone
    <3>2. CASE doc # raw
      <4> DEFINE gone == {}
                 added == {entry}
      <4>1. eBak' = [eBak EXCEPT ![run.book] = (@ \ gone) \cup added] BY <2>4, <3>2
      <4>2. added \in SUBSET Backup /\ \A s \in added : Undone(eBak, run.book, s.of)
        BY <2>1, <2>3 DEF Undone
      <4>3. \A s \in gone : s.stage # "manifest" OBVIOUS
      <4> HIDE DEF gone
      <4>4. entry \in added OBVIOUS
      <4> HIDE DEF added
      <4>5. LibraryKept /\ run.book \in Books BY <1>3 DEF EpubInv
      <4>6. LibraryKept' /\ added \subseteq eBak'[run.book]
        BY <1>4, <4>1, <4>2, <4>3, <4>5, BackupChanges
      <4>7. LibraryKept' /\ entry \in eBak'[run.book] BY <4>4, <4>6
      <4>8. entry \in eBak'[run.book] BY <4>7
      <4>9. entry.stage = "manifest" /\ entry.of # doc /\ E!Sanitized(entry.of, entry.for) = doc BY <2>3, <2>6, <3>2
      <4>10. Undone(eBak', run.book, doc) BY <4>8, <4>9 DEF Undone
      <4>11. QED BY <4>7, <4>10
    <3>3. QED BY <3>1, <3>2
  <2>8. /\ next \in Run /\ next.pc = "publish" /\ next.phase = "convert" /\ next.todo = run.todo
        /\ next.book = run.book /\ next.doc = doc
    BY <1>2, <1>3, <2>5 DEF run, Run, BookSteps, PublishSteps
  <2> HIDE DEF next
  <2>9. RunKept(next, eLib', eBak', ePart')
    BY <1>3, <1>4, <2>5, <2>7, <2>8 DEF RunKept, WalkKept, EditKept, Unpublished, PartialOwn,
                                        BookSteps, BackupSteps, PublishSteps
  <2>10. QED BY <1>1, <1>6, <2>7, <2>8, <2>9, RunMoves DEF run
<1>7. QED BY <1>5, <1>6, Zenon DEF E!ConvertFails, E!Convert

(* The copy beside the source: while it is made, the partial changes. *)
LEMMA CopyMoves ==
  ASSUME EpubInv, E!OneRun, E!OneRun', NEW r \in Runs, NEW pc \in PublishSteps, eRun[r].pc \in PublishSteps,
         ePart' \in [Books -> Part], UNCHANGED <<eSrc, eLib, eBak, eImports>>,
         eRun' = [eRun EXCEPT ![r] = [@ EXCEPT !.pc = pc]],
         pc \in {"copying", "recheck", "link"} => ~ePart'[eRun[r].book].linked,
         pc \in {"recheck", "link"} => ePart'[eRun[r].book].doc = eRun[r].doc
  PROVE  EpubInv'
<1> DEFINE run == eRun[r]  next == [run EXCEPT !.pc = pc]
<1>1. AtWork(run) /\ run.pc \in BookSteps BY DEF AtWork, BookSteps, PublishSteps
<1>2. run \in Run /\ RunKept(run, eLib, eBak, ePart) BY <1>1, RunNow
<1>3. LibraryKept' BY PartialsChange DEF EpubInv
<1>4. run.pc # "published" BY DEF PublishSteps
<1>5. run.book \in Books /\ (run.phase = "convert" => \A b \in run.todo : eLib[b].by # "mobi")
  BY <1>1, <1>2, <1>4, AtABook
<1>6. /\ next \in Run /\ next.pc = pc /\ next.phase = run.phase /\ next.todo = run.todo /\ next.book = run.book
      /\ next.doc = run.doc
  BY <1>2 DEF Run, BookSteps
<1>7. eRun' = [eRun EXCEPT ![r] = next] OBVIOUS
<1>8. /\ pc \in {"copying", "recheck", "link"} => ~ePart'[run.book].linked
      /\ pc \in {"recheck", "link"} => ePart'[run.book].doc = run.doc
  OBVIOUS
<1>9. run.pc \in PublishSteps OBVIOUS
<1> HIDE DEF next, run
<1>10. WalkKept(next) BY <1>2, <1>5, <1>6, <1>9 DEF RunKept, WalkKept, PublishSteps, BackupSteps, BookSteps
<1>11. EditKept(next, eBak') BY <1>2, <1>6, <1>9 DEF RunKept, EditKept, PublishSteps, BackupSteps
<1>12. PartialOwn(next, ePart') BY <1>6, <1>8 DEF PartialOwn, PublishSteps
<1>13. Unpublished(next, eLib') BY <1>5, <1>6 DEF Unpublished
<1>14. RunKept(next, eLib', eBak', ePart') BY <1>10, <1>11, <1>12, <1>13 DEF RunKept
<1>15. QED BY <1>1, <1>3, <1>6, <1>7, <1>14, RunMoves DEF run

LEMMA CopyKept ==
  ASSUME EpubInv, E!OneRun, E!OneRun', NEW r \in Runs,
         E!PublishCheck(r) \/ E!CopyBegins(r) \/ E!CopyEnds(r) \/ E!Recheck(r)
  PROVE  EpubInv'
<1> DEFINE run == eRun[r]  b == run.book
<1>1. run.pc \in PublishSteps /\ AtWork(run) /\ run.pc \in BookSteps
  BY DEF E!PublishCheck, E!CopyBegins, E!CopyEnds, E!Recheck, AtWork, BookSteps, PublishSteps
<1>2. run \in Run /\ RunKept(run, eLib, eBak, ePart) BY <1>1, RunNow
<1>3. b \in Books /\ run.doc \in Doc BY <1>1, <1>2, AtABook DEF Run
<1>4. UNCHANGED <<eSrc, eLib, eBak, eImports>>
  BY DEF E!PublishCheck, E!CopyBegins, E!CopyEnds, E!Recheck, E!Keep
<1>5. ePart \in [Books -> Part] BY DEF EpubInv, LibraryKept, LibraryTypes
<1>6. E!NoPart \in Part /\ E!NoPart.linked = FALSE BY NewDoc DEF E!NoPart, Part
<1>7. ASSUME ePart' \in [Books -> Part], eRun' = [eRun EXCEPT ![r] = E!Advance(run)] PROVE EpubInv'
  <2>1. LibraryKept' BY <1>4, <1>7, PartialsChange DEF EpubInv
  <2>2. QED BY <1>1, <1>4, <1>7, <2>1, RunAdvances
<1>8. CASE E!PublishCheck(r)
  <2>1. ePart' = ePart BY <1>8 DEF E!PublishCheck, E!Keep
  <2>2. CASE eRun' = [eRun EXCEPT ![r] = [run EXCEPT !.pc = "copy"]]
    BY <1>1, <1>4, <1>5, <2>1, <2>2, CopyMoves DEF PublishSteps
  <2>3. QED BY <1>5, <1>7, <1>8, <2>1, <2>2 DEF E!PublishCheck
<1>9. CASE E!CopyBegins(r)
  <2>1. CASE ePart[b] = E!NoPart
    <3> DEFINE part == [ePart[b] EXCEPT !.doc = [run.doc EXCEPT !.whole = FALSE]]
    <3>1. ePart' = [ePart EXCEPT ![b] = part] /\ eRun' = [eRun EXCEPT ![r] = [run EXCEPT !.pc = "copying"]]
      BY <1>9, <2>1 DEF E!CopyBegins
    <3>2. part \in Part /\ part.linked = FALSE
      <4>1. [run.doc EXCEPT !.whole = FALSE] \in Doc BY <1>3 DEF Doc
      <4>2. QED BY <1>6, <2>1, <4>1 DEF Part
    <3> HIDE DEF part
    <3>3. ePart' \in [Books -> Part] /\ ePart'[b] = part BY <1>3, <1>5, <3>1, <3>2
    <3>4. QED BY <1>1, <1>4, <3>1, <3>2, <3>3, CopyMoves DEF PublishSteps
  <2>2. CASE ePart[b] # E!NoPart
    <3>1. ePart' = [ePart EXCEPT ![b] = E!NoPart] /\ eRun' = [eRun EXCEPT ![r] = E!Advance(run)]
      BY <1>9, <2>2 DEF E!CopyBegins
    <3>2. QED BY <1>3, <1>5, <1>6, <1>7, <3>1
  <2>3. QED BY <2>1, <2>2
<1>10. CASE E!CopyEnds(r)
  <2>1. run.pc = "copying" BY <1>10 DEF E!CopyEnds
  <2>2. ~ePart[b].linked BY <1>2, <2>1 DEF RunKept, PartialOwn
  <2> DEFINE part == [ePart[b] EXCEPT !.doc = run.doc]
  <2>3. part \in Part /\ part.doc = run.doc /\ ~part.linked BY <1>3, <1>5, <2>2 DEF Part
  <2>4. CASE ePart[b] = E!NoPart
    <3>1. eRun' = [eRun EXCEPT ![r] = E!Advance(run)] BY <1>10, <2>4 DEF E!CopyEnds
    <3>2. ePart' = [ePart EXCEPT ![b] = ePart[b]] BY <1>10, <2>4 DEF E!CopyEnds
    <3>3. QED BY <1>5, <1>7, <3>1, <3>2
  <2>5. CASE ePart[b] # E!NoPart
    <3>1. ePart' = [ePart EXCEPT ![b] = part] /\ eRun' = [eRun EXCEPT ![r] = [run EXCEPT !.pc = "recheck"]]
      BY <1>10, <2>5 DEF E!CopyEnds
    <3> HIDE DEF part
    <3>2. ePart' \in [Books -> Part] /\ ePart'[b] = part BY <1>3, <1>5, <2>3, <3>1
    <3>3. QED BY <1>1, <1>4, <2>3, <3>1, <3>2, CopyMoves DEF PublishSteps
  <2>6. QED BY <2>4, <2>5
<1>11. CASE E!Recheck(r)
  <2>1. run.pc = "recheck" BY <1>11 DEF E!Recheck
  <2>2. ~ePart[b].linked /\ ePart[b].doc = run.doc BY <1>2, <2>1 DEF RunKept, PartialOwn
  <2>3. CASE E!Overtaken(run)
    <3>1. ePart' = [ePart EXCEPT ![b] = E!NoPart] /\ eRun' = [eRun EXCEPT ![r] = E!Advance(run)]
      BY <1>11, <2>3 DEF E!Recheck
    <3>2. QED BY <1>3, <1>5, <1>6, <1>7, <3>1
  <2>4. CASE ~E!Overtaken(run)
    <3>1. ePart' = [ePart EXCEPT ![b] = ePart[b]] /\ eRun' = [eRun EXCEPT ![r] = [run EXCEPT !.pc = "link"]]
      BY <1>11, <2>4 DEF E!Recheck
    <3>2. ePart' = ePart BY <1>5, <3>1
    <3>3. QED BY <1>1, <1>4, <1>5, <2>2, <3>1, <3>2, CopyMoves DEF PublishSteps
  <2>5. QED BY <2>3, <2>4
<1>12. QED BY <1>8, <1>9, <1>10, <1>11

LEMMA PublishKept == ASSUME EpubInv, E!OneRun, E!OneRun', NEW r \in Runs, E!Publish(r) PROVE EpubInv'
<1> DEFINE run == eRun[r]  b == run.book  next == [run EXCEPT !.pc = "published"]
<1>1. run.pc = "link" /\ AtWork(run) /\ run.pc \in BookSteps BY DEF E!Publish, AtWork, BookSteps, PublishSteps
<1>2. run \in Run /\ RunKept(run, eLib, eBak, ePart) BY <1>1, RunNow
<1>3. /\ b \in Books /\ run.doc \in Doc /\ run.doc.whole /\ run.phase = "convert" /\ b \in run.todo
      /\ Undone(eBak, b, run.doc)
      /\ \A c \in run.todo : eLib[c].by # "mobi"
      /\ ePart[b].doc = run.doc
  BY <1>1, <1>2, AtABook DEF RunKept, EditKept, WalkKept, PartialOwn, Run, PublishSteps
<1>4. ePart \in [Books -> Part] /\ eLib \in [Books -> Doc] BY DEF EpubInv, LibraryKept, LibraryTypes
<1>5. UNCHANGED <<eSrc, eBak, eImports>> BY DEF E!Publish
<1>6. CASE E!Linkable(b)
  <2>1. /\ eLib' = [eLib EXCEPT ![b] = run.doc] /\ eRun' = [eRun EXCEPT ![r] = next]
        /\ ePart' = [ePart EXCEPT ![b] = [@ EXCEPT !.linked = TRUE]]
    BY <1>3, <1>6 DEF E!Publish
  <2>2. ePart' \in [Books -> Part]
    <3>1. [ePart[b] EXCEPT !.linked = TRUE] \in Part BY <1>3, <1>4 DEF Part
    <3>2. QED BY <1>4, <2>1, <3>1
  <2>3. eImports' \in Nat BY <1>5 DEF EpubInv, LibraryKept, LibraryTypes
  <2>4. next \in Run /\ next.pc = "published" /\ next.phase = "convert" /\ next.todo = run.todo /\ next.book = b
    BY <1>2, <1>3 DEF Run, BookSteps
  <2>5. LibraryKept'
    <3> HIDE DEF run, b, next
    <3>1. QED BY <1>3, <1>5, <2>1, <2>2, <2>3, BookChanges DEF EpubInv
  <2>6. \A c \in Books \ {b} : eLib'[c] = eLib[c] BY <1>4, <2>1
  <2>7. run.todo \subseteq Books BY <1>2 DEF Run
  <2> HIDE DEF next, b, run
  <2>8. Unpublished(next, eLib') BY <1>3, <2>4, <2>6, <2>7 DEF Unpublished
  <2>9. RunKept(next, eLib', eBak', ePart')
    BY <1>3, <2>4, <2>8 DEF RunKept, WalkKept, EditKept, PartialOwn, BookSteps, BackupSteps, PublishSteps
  <2>10. QED BY <1>1, <2>1, <2>4, <2>5, <2>9, RunMoves DEF run
<1>7. CASE ~E!Linkable(b)
  <2>1. /\ ePart' = [ePart EXCEPT ![b] = E!NoPart] /\ eLib' = eLib
        /\ eRun' = [eRun EXCEPT ![r] = E!Advance(run)]
    BY <1>7 DEF E!Publish
  <2>2. E!NoPart \in Part BY NewDoc DEF E!NoPart, Part
  <2>3. ePart' \in [Books -> Part] BY <1>4, <2>1, <2>2
  <2>4. LibraryKept' BY <1>5, <2>1, <2>3, PartialsChange DEF EpubInv
  <2>5. QED BY <1>1, <2>1, <2>4, RunAdvances
<1>8. QED BY <1>6, <1>7

LEMMA PublishedKept == ASSUME EpubInv, E!OneRun, E!OneRun', NEW r \in Runs, E!Published(r) PROVE EpubInv'
<1> DEFINE run == eRun[r]  adv == E!Advance(run)  next == [adv EXCEPT !.seen[run.book] = run.doc]
<1>1. run.pc = "published" /\ AtWork(run) /\ run.pc \in BookSteps BY DEF E!Published, AtWork, BookSteps
<1>2. run \in Run /\ RunKept(run, eLib, eBak, ePart) BY <1>1, RunNow
<1>3. /\ run.book \in Books /\ run.doc \in Doc
      /\ run.phase \in {"strip", "convert"} \/ run.todo = {}
      /\ run.phase = "convert" => \A b \in run.todo \ {run.book} : eLib[b].by # "mobi"
  BY <1>1, <1>2, AtABook DEF Run
<1>4. LibraryKept' /\ eLib' = eLib
  <2>1. ePart' = [ePart EXCEPT ![run.book] = E!NoPart] /\ UNCHANGED <<eSrc, eLib, eBak, eImports>>
    BY DEF E!Published
  <2>2. ePart \in [Books -> Part] BY DEF EpubInv, LibraryKept, LibraryTypes
  <2>3. E!NoPart \in Part BY NewDoc DEF E!NoPart, Part
  <2>4. ePart' \in [Books -> Part] BY <2>1, <2>2, <2>3
  <2>5. QED BY <2>1, <2>4, PartialsChange DEF EpubInv
<1>5. eRun' = [eRun EXCEPT ![r] = next] BY DEF E!Published
<1>6. adv \in Run /\ RunKept(adv, eLib', eBak', ePart') BY <1>2, <1>3, <1>4, AdvanceKept
<1> HIDE DEF adv
<1>7. next \in Run /\ RunKept(next, eLib', eBak', ePart')
  <2>1. next \in Run BY <1>3, <1>6, SMTT(20) DEF Run
  <2>2. /\ next.pc = adv.pc /\ next.phase = adv.phase /\ next.todo = adv.todo /\ next.book = adv.book
        /\ next.base = adv.base /\ next.doc = adv.doc
    BY <1>6 DEF Run
  <2> HIDE DEF next
  <2>3. QED BY <1>6, <2>1, <2>2 DEF RunKept, WalkKept, EditKept, Unpublished, PartialOwn
<1> HIDE DEF next, run
<1>8. QED BY <1>1, <1>4, <1>5, <1>7, RunMoves DEF run

(* _terminate takes back what its run was writing. *)
LEMMA TerminateKept == ASSUME EpubInv, E!OneRun, E!OneRun', NEW r \in Runs, E!Terminate(r) PROVE EpubInv'
<1> DEFINE run == eRun[r]
<1>1. AtWork(run) BY DEF E!Terminate, AtWork
<1>2. run \in Run /\ RunKept(run, eLib, eBak, ePart) BY <1>1, RunNow
<1>3. UNCHANGED <<eSrc, eLib, eImports>> /\ eRun' = [eRun EXCEPT ![r] = E!Off] BY DEF E!Terminate
<1>4. ePart' \in [Books -> Part]
  <2>1. ePart \in [Books -> Part] /\ E!NoPart \in Part
    BY NewDoc DEF EpubInv, LibraryKept, LibraryTypes, E!NoPart, Part
  <2>2. ePart' = [ePart EXCEPT ![run.book] = E!NoPart] \/ ePart' = ePart BY DEF E!Terminate
  <2>3. QED BY <2>1, <2>2
<1>5. CASE run.pc \in {"backup written", "manifest written"}
  <2> DEFINE gone == E!Unfinished(run.book, run.base)
             copy == E!Backup(run.base, "copy", "none", "existing")
             added == IF run.pc = "backup written" THEN {} ELSE {copy}
  <2>1. eBak' = [eBak EXCEPT ![run.book] = (@ \ gone) \cup added] BY <1>5 DEF E!Terminate
  <2>2. run.book \in Books /\ run.base \in Doc /\ Undone(eBak, run.book, run.base)
    BY <1>2, <1>5 DEF RunKept, WalkKept, EditKept, Run, BookSteps, BackupSteps
  <2>3. \A s \in gone : s.stage # "manifest" BY DEF E!Unfinished
  <2>4. added \in SUBSET Backup /\ \A s \in added : Undone(eBak, run.book, s.of)
    <3>1. copy \in Backup /\ copy.of = run.base BY <2>2 DEF E!Backup, Backup, Tags
    <3> HIDE DEF copy
    <3>2. QED BY <2>2, <3>1
  <2> HIDE DEF added, gone, run
  <2>5. LibraryKept' BY <1>3, <1>4, <2>1, <2>2, <2>3, <2>4, BackupChanges DEF EpubInv
  <2>6. QED BY <1>1, <1>3, <2>5, OffRun, RunMoves DEF run
<1>6. CASE run.pc \notin {"backup written", "manifest written"}
  <2>1. eBak' = eBak BY <1>6 DEF E!Terminate
  <2>2. LibraryKept' BY <1>3, <1>4, <2>1, PartialsChange DEF EpubInv
  <2>3. QED BY <1>1, <1>3, <2>2, OffRun, RunMoves
<1>7. QED BY <1>5, <1>6

-----------------------------------------------------------------------------
LEMMA InitEpub == E!Init => EpubInv
<1> SUFFICES ASSUME E!Init PROVE EpubInv OBVIOUS
<1>1. \A d \in {E!None, E!Epub("ll", 1, "series"), E!Epub("ll", 1, "none")} :
        d \in Doc /\ d.whole /\ d.edits = 0 BY NewDoc DEF Tags
<1>2. E!NoPart \in Part BY NewDoc DEF E!NoPart, Part
<1>3. LibraryTypes BY <1>1, <1>2 DEF E!Init, LibraryTypes
<1>4. CutIsUnedited /\ AllUndone /\ E!PublishedWhole
  BY <1>1 DEF E!Init, CutIsUnedited, AllUndone, Undone, E!PublishedWhole
<1>5. eRun \in [Runs -> Run] /\ \A r \in Runs : ~AtWork(eRun[r]) BY OffRun DEF E!Init
<1>6. QED BY <1>3, <1>4, <1>5 DEF EpubInv, LibraryKept

LEMMA NextEpub ==
  ASSUME Books # {}, EpubInv, E!OneRun, E!OneRun', [E!Next]_E!vars PROVE EpubInv'
<1>1. CASE UNCHANGED E!vars
  <2>1. LibraryKept' BY <1>1, LibraryStays DEF EpubInv, E!vars
  <2>2. QED BY <1>1, <2>1, OutsideRuns DEF E!vars
<1>2. ASSUME NEW r \in Runs, E!Step(r) PROVE EpubInv'
  <2>1. CASE E!TakeLock(r) \/ E!TakeOver(r) BY <2>1, BeginsKept
  <2>2. CASE E!Close(r) BY <2>2, EndsKept
  <2>3. CASE E!ReadIdentity(r) \/ E!PreflightEnds(r) BY <2>3, ReadsKept
  <2>4. CASE E!StripSeries(r) BY <2>4, StripKept
  <2>5. CASE E!BackupFile(r) \/ E!BackupWritten(r) \/ E!BackupManifest(r) \/ E!ManifestWritten(r)
    BY <2>5, BackupStepsKept
  <2>6. CASE E!WriteSibling(r) \/ E!ReplaceCheck(r) BY <2>6, ReplaceCheckKept
  <2>7. CASE E!Replace(r) BY <2>7, ReplaceKept
  <2>8. CASE E!CleanPartials(r) BY <2>8, CleanKept
  <2>9. CASE E!ChooseFolder(r) BY <2>9, ChooseKept
  <2>10. CASE E!ConvertFails(r) BY <2>10, ConvertKept
  <2>11. CASE \E tag \in {"series", "none"} : E!Convert(r, tag) BY <2>11, ConvertKept
  <2>12. CASE E!PublishCheck(r) \/ E!CopyBegins(r) \/ E!CopyEnds(r) \/ E!Recheck(r) BY <2>12, CopyKept
  <2>13. CASE E!Publish(r) BY <2>13, PublishKept
  <2>14. CASE E!Published(r) BY <2>14, PublishedKept
  <2>15. QED BY <1>2, <2>1, <2>2, <2>3, <2>4, <2>5, <2>6, <2>7, <2>8, <2>9, <2>10, <2>11, <2>12, <2>13, <2>14
             DEF E!Step
<1>3. CASE (\E x \in {"mobi", "epub"} \X Books : E!Settle(x)) \/ E!LockAges
  <2>1. UNCHANGED <<eSrc, eLib, ePart, eBak, eImports, eRun>> BY <1>3 DEF E!Settle, E!LockAges
  <2>2. LibraryKept' BY <2>1, LibraryStays DEF EpubInv
  <2>3. QED BY <2>1, <2>2, OutsideRuns
<1>4. CASE \E b \in Books : E!ImportEnds(b) BY <1>4, ImportEndsKept
<1>5. CASE \E b \in Books : E!ImportMobi(b) \/ \E tag \in {"series", "none"} : E!ImportEpub(b, tag)
  <2>1. PICK b \in Books : E!ImportMobi(b) \/ \E tag \in {"series", "none"} : E!ImportEpub(b, tag) BY <1>5
  <2>2. \E tag \in {"series", "none"} : E!ImportMobi(b) \/ E!ImportEpub(b, tag) BY <2>1
  <2>3. QED BY <2>2, ImportsKept
<1>6. ASSUME NEW r \in Runs,
             E!Deferred(r) \/ E!Terminate(r) \/ E!Killed(r) \/ \E b \in Books : E!RestoreBackup(r, b)
      PROVE  EpubInv'
  <2>1. CASE E!Deferred(r) BY <2>1, ReadsKept
  <2>2. CASE E!Terminate(r) BY <2>2, TerminateKept
  <2>3. CASE E!Killed(r) BY <2>3, EndsKept
  <2>4. CASE \E b \in Books : E!RestoreBackup(r, b) BY <2>4, RestoreKept
  <2>5. QED BY <1>6, <2>1, <2>2, <2>3, <2>4
<1>7. QED BY <1>1, <1>2, <1>3, <1>4, <1>5, <1>6 DEF E!Next, E!Progress

-----------------------------------------------------------------------------
(* The jobs beside each other: a step of one is a step, or none, of each.  *)
LEMMA EachSteps ==
  ASSUME [OneNext]_onevars PROVE [Next]_vars /\ [V!Next]_V!vars /\ [E!Next]_E!vars
<1>1. CASE UNCHANGED onevars BY <1>1 DEF onevars, mvars, vvars, evars, vars, V!vars, E!vars
<1>2. CASE E!Next /\ UNCHANGED <<which, vvars, mvars>> BY <1>2 DEF vvars, mvars, V!vars
<1>3. CASE V!Next /\ UNCHANGED <<which, evars, mvars>> BY <1>3 DEF evars, mvars, E!vars
<1>4. CASE Next /\ UNCHANGED <<which, evars, vvars>> BY <1>4 DEF evars, vvars, V!vars, E!vars
<1>5. QED BY <1>1, <1>2, <1>3, <1>4 DEF OneNext

(* Maintenance and retention keep their invariants in every behaviour.     *)
LEMMA MaintRetainHold == OneSpec => [](MaintInv /\ RetainInv)
<1>1. OneInit => MaintInv /\ RetainInv BY InitMaint, InitRetain DEF OneInit
<1>2. MaintInv /\ RetainInv /\ [OneNext]_onevars => MaintInv' /\ RetainInv'
  BY EachSteps, NextMaint, NextRetain
<1>3. QED BY <1>1, <1>2, PTL DEF OneSpec

(* The EPUB job keeps its own as long as no two runs are at work.          *)
LEMMA EpubHolds == ASSUME Books # {} PROVE OneSpec /\ []E!OneRun => []EpubInv
<1>1. OneInit => EpubInv BY InitEpub DEF OneInit
<1>2. EpubInv /\ E!OneRun /\ (E!OneRun)' /\ [OneNext]_onevars => EpubInv' BY EachSteps, NextEpub
<1>3. QED BY <1>1, <1>2, PTL DEF OneSpec

(* Every state of the maintenance has its types.                           *)
THEOREM TypeCorrect == OneSpec => []TypeOK
<1>1. MaintInv => TypeOK BY DEF MaintInv
<1>2. QED BY <1>1, MaintRetainHold, PTL

(* The watcher gives the services back only once no worker can write and   *)
(* no lock of a worker stands, whichever of the host, the Pod or its node  *)
(* is lost, and whenever a creation lands late.                            *)
THEOREM RestoredAloneHolds == OneSpec => []RestoredAlone
<1>1. MaintInv => RestoredAlone BY DEF MaintInv, RestoredLast, WriterGone, LockGone, RestoredAlone
<1>2. QED BY <1>1, MaintRetainHold, PTL

(* The originals are kept and the lock accounted for before the first      *)
(* write they are needed for.                                              *)
THEOREM UndoableHolds == OneSpec => []Undoable
<1>1. MaintInv => Undoable BY DEF MaintInv
<1>2. QED BY <1>1, MaintRetainHold, PTL

(* Every removed copy is whole in the backups under its manifest, with     *)
(* programs stopped and started, evidence taken and gone stale, and the    *)
(* writer killed anywhere.                                                 *)
THEOREM RetainedHolds == OneSpec => []V!RetainedRecoverable
<1>1. RetainInv => V!RetainedRecoverable BY DEF RetainInv
<1>2. QED BY <1>1, MaintRetainHold, PTL

(* A copy goes only when neither the pointer, nor a lock of Kavita, nor a  *)
(* row of the application names it at that moment, and beside the keeper   *)
(* of the census.                                                          *)
THEOREM RedundantGoes == OneSpec => OnlyRedundantGoes
<1> DEFINE Unneeded == \A c \in Paths : vGone'[c] # vGone[c] => c # vPtr /\ c \notin vLocks \cup vWanted
           Beside == \A c \in Paths : vGone'[c] # vGone[c] => vFile[vPtr] = vEv.files[vPtr] \/ vLate
<1>1. RetainInv /\ [OneNext]_onevars => [Unneeded]_V!vars /\ [Beside]_V!vars
  BY EachSteps, RemovalsAreRedundant
<1>2. OneSpec => [][Unneeded]_V!vars /\ [][Beside]_V!vars BY <1>1, MaintRetainHold, PTL DEF OneSpec
<1>3. QED BY <1>2 DEF OnlyRedundantGoes, V!UnneededOnly, V!KeeperStays

(* Nothing is lost by any of the three jobs while the runs of the EPUB job *)
(* keep apart: what it edited is restored from its backup, what it         *)
(* published is whole.                                                     *)
THEOREM OriginalsKept == OneSpec /\ []E!OneRun => []NoOriginalLost
<1>1. MaintInv /\ RetainInv => Undoable /\ V!RetainedRecoverable BY DEF MaintInv, RetainInv
<1>2. OneSpec /\ []E!OneRun => [](E!StrippedRecoverable /\ E!PublishedWhole)
  <2>1. CASE Books = {}
    <3>1. E!StrippedRecoverable /\ E!PublishedWhole BY <2>1 DEF E!StrippedRecoverable, E!PublishedWhole
    <3>2. QED BY <3>1, PTL
  <2>2. CASE Books # {}
    <3>1. EpubInv => E!StrippedRecoverable /\ E!PublishedWhole
      <4> SUFFICES ASSUME EpubInv,
                          NEW b \in Books, NEW doc \in {eLib[b]} \cup {s.of : s \in eBak[b]}, doc.edits > 0
                   PROVE  E!Undoing(b, doc) # {}
        BY DEF EpubInv, LibraryKept, E!StrippedRecoverable
      <4>1. Undone(eBak, b, doc) BY DEF EpubInv, LibraryKept, AllUndone
      <4>2. QED BY <4>1 DEF Undone, E!Undoing
    <3>2. OneSpec /\ []E!OneRun => []EpubInv BY <2>2, EpubHolds
    <3>3. QED BY <3>1, <3>2, PTL
  <2>3. QED BY <2>1, <2>2
<1>3. Undoable /\ V!RetainedRecoverable /\ E!StrippedRecoverable /\ E!PublishedWhole => NoOriginalLost
  BY DEF NoOriginalLost
<1>4. QED BY <1>1, <1>2, <1>3, MaintRetainHold, PTL

(* The scheduled run alone: one process has no other to overlap.           *)
THEOREM ScheduledRunKeeps ==
  ASSUME \A r, s \in Runs : r = s PROVE OneSpec => []NoOriginalLost
<1>1. E!OneRun BY DEF E!OneRun
<1>2. []E!OneRun BY <1>1, PTL
<1>3. QED BY <1>2, OriginalsKept, PTL
=============================================================================
