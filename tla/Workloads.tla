------------------------------ MODULE Workloads ------------------------------
(* The copy window's jobs with the rehearsal of its hold, the authoring    *)
(* services, and the two commands that an agent of the developer           *)
(* environment delivers with. Each runs where it shares no state with      *)
(* another, so which names the one that runs and the others stay as they   *)
(* began; the properties say what all of them promise. The audio service   *)
(* is AudioJobs itself, whose properties are stated under their own names. *)
EXTENDS AudioJobs

CONSTANTS
  Deliveries, Asks, Files, MaxKills,              \* PrivateExchange
  Runs, Kinds, Others, None,                      \* OwnedJob
  Readers, ReadStreams, ReorderWindow, Count,     \* EpubReaders
  Objects, MaxTouches, MaxCrashes,                \* Rehearsal
  Vid, Aud, Foreign, MaxDeaths,                   \* RenderLease
  Pids, Editors, MaxStart,                        \* BlenderDesktop
  Commands, Required, Targets, MaxPushes, MaxReruns,  \* DeliverPR
  (* IntentLedger *)
  Callers, Discovery, Routes, Allowed, Covered, Heads, RouteOf, Plans, Guard, Budget, Grants, Expiry,
  MaxNow, MaxLag, MaxBlockers, LedgerFaults

VARIABLES which,
  xHost, xSent, xRecv, xAt, xProof, xMarker, xStaged, xMain, xOver, xAsk, xTmp, xReq, xResp, xSource, xRead,
    xFence, xKills,
  oKind, oPc, oReq, oUid, oSaved, oDone, oAbsent, oCopied, oJob, oDying, oPod, oFiles,
  qAt, qSubmitted, qReceived, qTasks, qResults, qReorder, qRows, qReader, qChanged, qError, qCancelled, qLate,
  nEx, nAlive, nStopped, nReused, nHurt, nOwner, nCustody, nRetired, nCancel, nRestore, nWatch, nTarget, nSig,
    nFenced, nFencing, nHeld, nSeen, nReq, nTouches, nCrashes,
  rRec, rLease, rApi, rV, rA, rChild, rPend, rRun, rHist, rFly, rLate, rDeaths,
  bProc, bOurs, bClock, bFile, bRt, bSvc, bStop, bCall, bLock,
  gHead, gItems, gState, gMerged, gBy, gReruns, dAt, dHead, dSource, dDone, dGreen,
  lNow, lRoute, lFaults, lCall, lReads, lLast, lPlan, lCands, lBranch, lSel, lHead, lMerged, lReady, lSlot,
    lProof, lBlockers, lGrant, lClean

xvars == <<xHost, xSent, xRecv, xAt, xProof, xMarker, xStaged, xMain, xOver, xAsk, xTmp, xReq, xResp, xSource,
           xRead, xFence, xKills>>
ovars == <<oKind, oPc, oReq, oUid, oSaved, oDone, oAbsent, oCopied, oJob, oDying, oPod, oFiles>>
qvars == <<qAt, qSubmitted, qReceived, qTasks, qResults, qReorder, qRows, qReader, qChanged, qError,
           qCancelled, qLate>>
nvars == <<nEx, nAlive, nStopped, nReused, nHurt, nOwner, nCustody, nRetired, nCancel, nRestore, nWatch,
           nTarget, nSig, nFenced, nFencing, nHeld, nSeen, nReq, nTouches, nCrashes>>
avars == vars
rvars == <<rRec, rLease, rApi, rV, rA, rChild, rPend, rRun, rHist, rFly, rLate, rDeaths>>
bvars == <<bProc, bOurs, bClock, bFile, bRt, bSvc, bStop, bCall, bLock>>
dvars == <<gHead, gItems, gState, gMerged, gBy, gReruns, dAt, dHead, dSource, dDone, dGreen>>
lvars == <<lNow, lRoute, lFaults, lCall, lReads, lLast, lPlan, lCands, lBranch, lSel, lHead, lMerged, lReady,
           lSlot, lProof, lBlockers, lGrant, lClean>>

X == INSTANCE PrivateExchange
O == INSTANCE OwnedJob
Q == INSTANCE EpubReaders
N == INSTANCE Rehearsal
R == INSTANCE RenderLease
B == INSTANCE BlenderDesktop WITH Callers <- Editors
D == INSTANCE DeliverPR WITH Runs <- Commands
L == INSTANCE IntentLedger WITH MaxFaults <- LedgerFaults

ASSUME InstancesAssumption ==
  /\ X!FilesAssumption /\ O!OwnedJobAssumption /\ Q!ReadersAssumption /\ N!RehearsalAssumption
  /\ R!LeaseAssumption /\ B!DesktopAssumption /\ D!DeliverAssumption /\ L!LedgerAssumption

OneInit ==
  /\ which \in {"exchange", "baseline", "read", "rehearse", "audio", "render", "desktop", "deliver", "ledger"}
  /\ Init /\ X!Init /\ O!Init /\ Q!Init /\ N!Init /\ R!Init /\ B!Init /\ D!Init /\ L!Init

OneNext ==
  \/ which = "exchange" /\ X!Next /\ UNCHANGED <<which, ovars, qvars, nvars, avars, rvars, bvars, dvars, lvars>>
  \/ which = "baseline" /\ O!Next /\ UNCHANGED <<which, xvars, qvars, nvars, avars, rvars, bvars, dvars, lvars>>
  \/ which = "read" /\ Q!Next /\ UNCHANGED <<which, xvars, ovars, nvars, avars, rvars, bvars, dvars, lvars>>
  \/ which = "rehearse" /\ N!Next /\ UNCHANGED <<which, xvars, ovars, qvars, avars, rvars, bvars, dvars, lvars>>
  \/ which = "audio" /\ Next /\ UNCHANGED <<which, xvars, ovars, qvars, nvars, rvars, bvars, dvars, lvars>>
  \/ which = "render" /\ R!Next /\ UNCHANGED <<which, xvars, ovars, qvars, nvars, avars, bvars, dvars, lvars>>
  \/ which = "desktop" /\ B!Next /\ UNCHANGED <<which, xvars, ovars, qvars, nvars, avars, rvars, dvars, lvars>>
  \/ which = "deliver" /\ D!Next /\ UNCHANGED <<which, xvars, ovars, qvars, nvars, avars, rvars, bvars, lvars>>
  \/ which = "ledger" /\ L!Next /\ UNCHANGED <<which, xvars, ovars, qvars, nvars, avars, rvars, bvars, dvars>>

onevars == <<which, xvars, ovars, qvars, nvars, avars, rvars, bvars, dvars, lvars>>

(* The fairness of each, while it is the one that runs. *)
OneFairness ==
  /\ WF_xvars(which = "exchange" /\ X!Progress)
  /\ \A r \in Runs :
       /\ WF_ovars(which = "baseline" /\ O!Host(r))
       /\ WF_ovars(which = "baseline" /\ (O!Pod(r) \/ O!StartPod(r) \/ O!CollectPod(r)))
  /\ WF_qvars(which = "read" /\ Q!Caller) /\ WF_qvars(which = "read" /\ Q!Deadline)
  /\ WF_nvars(which = "rehearse" /\ N!Watch) /\ WF_nvars(which = "rehearse" /\ N!ChildEnds)
  /\ WF_avars(which = "audio" /\ Progress)
  /\ WF_rvars(which = "render" /\ R!Thread) /\ WF_rvars(which = "render" /\ R!Recovery)
  /\ WF_rvars(which = "render" /\ R!Sidecar)
  /\ \A d \in Commands : WF_dvars(which = "deliver" /\ D!Deliver(d))

OneSpec == OneInit /\ [][OneNext]_onevars /\ OneFairness

-----------------------------------------------------------------------------
(* What one side publishes the other gets, whole and in order: proofs, the rows of the readers, and answers *)
(* collected for the very request under one unbroken fence. *)
DeliveredWhole == X!Undisturbed /\ X!OwnAnswer /\ Q!RowsInOrder

(* What comes late undoes nothing: a receipt of absence stays true, the copy starts from one and from a *)
(* baseline the host holds, and once the recovery is recorded no late request holds an object again. *)
LateUndoesNothing == O!AbsentIsAbsent /\ O!BaselineRetained /\ N!NoLateHold

(* Nothing is deleted or signalled that belongs to somebody else: a Job of the same name, a process with a *)
(* number used again. *)
OnlyOwn == [](O!ForeignSurvive /\ N!NobodyElse) /\ B!OthersSurvive

(* One user of the GPU, and one edit of the scene whose caller was not cancelled twice. *)
OneAtATime == R!GpuExclusive /\ B!OneEdit

(* Only what was reviewed and found green is merged and reconciled; a backend read is made once, on a young *)
(* proof of the route in use; and an attempt that has ended spends nothing more. *)
AsAuthorised == [](D!ReviewedMerge /\ L!LedgerHolds) /\ L!EndedStays

(* Each of them ends: exchanges, runs, readers, recoveries, deliveries and jobs get a result or a refusal. *)
JobsEnd ==
  []<>( /\ which = "exchange" => X!Ended
        /\ which = "read" => Q!Ended
        /\ which = "deliver" => D!Ended
        /\ O!Ended /\ N!Recovered /\ Settled /\ R!Settled )
=============================================================================
