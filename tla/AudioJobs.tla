----------------------------- MODULE AudioJobs ------------------------------
(***************************************************************************)
(* The audio authoring service (audio-authoring/service.py, class          *)
(* Runtime): requests put jobs on a bounded queue, one worker takes them   *)
(* and runs a generator process for each, and every change of a job is     *)
(* written to its job.json.  All of it is one event loop: an action is     *)
(* what runs from one await to the next.  A write of job.json may fail     *)
(* (a full volume); the service may stop, or die, between any two steps.   *)
(***************************************************************************)
EXTENDS Integers, Sequences, FiniteSets

CONSTANTS Jobs,
          Capacity,   \* jobs that may wait (QUEUE_CAPACITY)
          MaxFaults   \* bound: writes of job.json that fail

TERMINAL == {"completed", "failed", "cancelled", "interrupted"}
Nobody == "nobody"

ASSUME AudioAssumption ==
  /\ Capacity \in Nat \ {0} /\ MaxFaults \in Nat
  /\ IsFiniteSet(Jobs) /\ Nobody \notin Jobs

VARIABLES
  aUp,     \* the service: down, up or stopping
  aModel,  \* model_manifest is set
  aMem,    \* status of each job in memory
  aDisk,   \* status of each job in its job.json
  aQueue,  \* jobs waiting
  aWk,     \* the worker: where it is, its job, whether the job timed out
  aCur,    \* current_job
  aProc,   \* each job's generator process, with its result once gone
  aFaults

vars == <<aUp, aModel, aMem, aDisk, aQueue, aWk, aCur, aProc, aFaults>>

Idle == [pc |-> "get", job |-> Nobody, late |-> FALSE]
Off  == [Idle EXCEPT !.pc = "off"]

Init ==
  /\ aUp = "down" /\ aModel = FALSE /\ aQueue = <<>> /\ aWk = Off
  /\ aCur = Nobody /\ aFaults = 0
  /\ aMem = [j \in Jobs |-> "none"] /\ aDisk = [j \in Jobs |-> "none"]
  /\ aProc = [j \in Jobs |-> "none"]

(* atomic_write_job: the record becomes what memory says, or the write     *)
(* fails and raises, the old record intact.                                *)
Written(j, ok) ==
  /\ ok \in BOOLEAN /\ (~ok => aFaults < MaxFaults)
  /\ aFaults' = IF ok THEN aFaults ELSE aFaults + 1
  /\ aDisk' = IF ok THEN [aDisk EXCEPT ![j] = aMem'[j]] ELSE aDisk

Ready == aUp = "up" /\ aModel /\ aWk.pc # "dead"

(* _recover_jobs, then verify_model_bundle: what was open is interrupted,  *)
(* in memory even where its record cannot be rewritten.                    *)
Start ==
  /\ aUp = "down" /\ aUp' = "up" /\ aModel' \in BOOLEAN /\ aWk' = Idle
  /\ LET open == {j \in Jobs : aDisk[j] \in {"queued", "running"}} IN
     /\ aMem' = [j \in Jobs |-> IF j \in open THEN "interrupted" ELSE aDisk[j]]
     /\ \E lost \in SUBSET open :
          /\ aFaults + Cardinality(lost) <= MaxFaults
          /\ aFaults' = aFaults + Cardinality(lost)
          /\ aDisk' = [j \in Jobs |-> IF j \in lost THEN aDisk[j] ELSE aMem'[j]]
  /\ UNCHANGED <<aQueue, aCur, aProc>>

(* The manifest disappears, or a published one passes verification.        *)
WatchModels ==
  /\ aUp = "up" /\ aModel' = ~aModel
  /\ UNCHANGED <<aUp, aMem, aDisk, aQueue, aWk, aCur, aProc, aFaults>>

(* submit: the job is in memory before its record is written, and on the   *)
(* queue only after.                                                       *)
Submit(j) ==
  /\ Ready /\ Len(aQueue) < Capacity /\ aMem[j] = "none"
  /\ aMem' = [aMem EXCEPT ![j] = "queued"]
  /\ \E ok \in BOOLEAN :
       /\ Written(j, ok)
       /\ aQueue' = IF ok THEN Append(aQueue, j) ELSE aQueue
  /\ UNCHANGED <<aUp, aModel, aWk, aCur, aProc>>

(* Signalled: SIGTERM, then SIGKILL when it is not gone within 5 s.        *)
Signalled(p) == IF p = "live" THEN "term" ELSE p

(* cancel: the verdict is written first; the process is signalled only if  *)
(* the worker has made it current.                                         *)
Cancel(j) ==
  /\ aUp # "down" /\ aMem[j] \in {"queued", "running"}
  /\ aMem' = [aMem EXCEPT ![j] = "cancelled"]
  /\ \E ok \in BOOLEAN :
       /\ Written(j, ok)
       /\ aProc' = IF ok /\ aCur = j THEN [aProc EXCEPT ![j] = Signalled(@)]
                   ELSE aProc
  /\ UNCHANGED <<aUp, aModel, aQueue, aWk, aCur>>

-----------------------------------------------------------------------------
(* The worker.                                                             *)

(* The handler around a job: what is not final has failed; if that cannot  *)
(* be written either, the worker's task is over.                           *)
Raised(j, mem, ok) ==
  IF mem[j] \in TERMINAL
  THEN aMem' = mem /\ aWk' = Idle /\ UNCHANGED <<aDisk, aFaults>>
  ELSE /\ aMem' = [mem EXCEPT ![j] = "failed"] /\ Written(j, ok)
       /\ aWk' = IF ok THEN Idle ELSE [Idle EXCEPT !.pc = "dead"]

(* The record of an open job could not be written: the handler writes it   *)
(* once more.                                                              *)
Rewritten(j) ==
  /\ aMem' = [aMem EXCEPT ![j] = "failed"]
  /\ \E ok \in BOOLEAN :
       /\ aFaults' = aFaults + IF ok THEN 1 ELSE 2
       /\ aFaults' <= MaxFaults
       /\ aDisk' = IF ok THEN [aDisk EXCEPT ![j] = "failed"] ELSE aDisk
       /\ aWk' = IF ok THEN Idle ELSE [Idle EXCEPT !.pc = "dead"]

Take ==
  /\ aUp # "down" /\ aWk.pc = "get" /\ aQueue # <<>>
  /\ aQueue' = Tail(aQueue)
  /\ LET j == Head(aQueue)  run == [aMem EXCEPT ![j] = "running"] IN
     \/ aMem[j] # "queued" /\ UNCHANGED <<aMem, aDisk, aWk, aFaults>>
     \/ /\ aMem[j] = "queued" /\ aMem' = run /\ Written(j, TRUE)
        /\ aWk' = [pc |-> "spawn", job |-> j, late |-> FALSE]
     \/ aMem[j] = "queued" /\ aFaults < MaxFaults /\ Rewritten(j)
  /\ UNCHANGED <<aUp, aModel, aCur, aProc>>

(* Mutant: a cancellation during the launch goes unnoticed.                *)
SpawnBlind ==
  /\ aUp # "down" /\ aWk.pc = "spawn" /\ aCur' = aWk.job
  /\ aProc' = [aProc EXCEPT ![aWk.job] = "live"]
  /\ aWk' = [aWk EXCEPT !.pc = "wait"]
  /\ UNCHANGED <<aUp, aModel, aMem, aDisk, aQueue, aFaults>>

(* _run: the launch fails, or the process becomes current and is at once   *)
(* terminated when the job was settled meanwhile.                          *)
Spawn ==
  /\ aUp # "down" /\ aWk.pc = "spawn"
  /\ LET j == aWk.job IN
     \/ /\ \E ok \in BOOLEAN : Raised(j, aMem, ok)
        /\ UNCHANGED <<aCur, aProc>>
     \/ /\ aCur' = j /\ aWk' = [aWk EXCEPT !.pc = "wait"]
        /\ aProc' = [aProc EXCEPT ![j] =
                       IF aUp = "stopping" \/ aMem[j] # "running" THEN "term"
                       ELSE "live"]
        /\ UNCHANGED <<aMem, aDisk, aFaults>>
  /\ UNCHANGED <<aUp, aModel, aQueue>>

TimeOut ==
  /\ aWk.pc = "wait" /\ aProc[aWk.job] = "live"
  /\ aProc' = [aProc EXCEPT ![aWk.job] = "term"]
  /\ aWk' = [aWk EXCEPT !.late = TRUE]
  /\ UNCHANGED <<aUp, aModel, aMem, aDisk, aQueue, aCur, aFaults>>

(* The process is gone, with a good or a bad exit code.                    *)
Exit(j) ==
  /\ aProc[j] \in {"live", "term"}
  /\ \E res \in {"ok", "bad"} : aProc' = [aProc EXCEPT ![j] = res]
  /\ UNCHANGED <<aUp, aModel, aMem, aDisk, aQueue, aWk, aCur, aFaults>>

(* The last segment of _run: the verdict, unless it was given meanwhile.   *)
Conclude(j, verdict, ok) ==
  IF aMem[j] \in {"cancelled", "interrupted"}
  THEN aWk' = Idle /\ UNCHANGED <<aMem, aDisk, aFaults>>
  ELSE /\ aMem' = [aMem EXCEPT ![j] = verdict] /\ Written(j, ok) /\ aWk' = Idle

(* Mutant: the end of the process forgets that the job was cancelled.      *)
DrainBlind ==
  /\ aUp # "down" /\ aWk.pc = "wait" /\ aProc[aWk.job] \in {"ok", "bad"} /\ aCur' = Nobody
  /\ aMem' = [aMem EXCEPT ![aWk.job] = "failed"] /\ Written(aWk.job, TRUE) /\ aWk' = Idle
  /\ UNCHANGED <<aUp, aModel, aQueue, aProc>>

(* The memory watch writes the record a last time, and its failure comes   *)
(* out here with current_job still set; then current_job is cleared, and   *)
(* a settled job is written again as it is.  What fails goes to the        *)
(* handler, which leaves a settled job alone.                              *)
Drain ==
  /\ aUp # "down" /\ aWk.pc = "wait" /\ aProc[aWk.job] \in {"ok", "bad"}
  /\ LET j == aWk.job IN
     \/ /\ aFaults < MaxFaults /\ UNCHANGED aCur
        /\ \/ /\ aMem[j] \in TERMINAL /\ aFaults' = aFaults + 1
              /\ aWk' = Idle /\ UNCHANGED <<aMem, aDisk>>
           \/ aMem[j] \notin TERMINAL /\ Rewritten(j)
     \/ /\ aCur' = Nobody
        /\ \/ /\ aMem[j] \in {"cancelled", "interrupted"}
              /\ aWk' = Idle /\ UNCHANGED aMem
              /\ \E ok \in BOOLEAN : Written(j, ok)
           \/ /\ aMem[j] = "running" /\ (aWk.late \/ aProc[j] = "bad")
              /\ \E ok \in BOOLEAN : Conclude(j, "failed", ok)
           \/ /\ aMem[j] = "running" /\ ~aWk.late /\ aProc[j] = "ok"
              /\ aWk' = [aWk EXCEPT !.pc = "judge"]
              /\ UNCHANGED <<aMem, aDisk, aFaults>>
  /\ UNCHANGED <<aUp, aModel, aQueue, aProc>>

(* verify_wave ran in a thread: completed if the WAV is what was asked.    *)
Judge ==
  /\ aUp # "down" /\ aWk.pc = "judge"
  /\ \E verdict \in {"completed", "failed"}, ok \in BOOLEAN :
       Conclude(aWk.job, verdict, ok)
  /\ UNCHANGED <<aUp, aModel, aQueue, aCur, aProc>>

Worker == Take \/ Spawn \/ Drain \/ Judge

-----------------------------------------------------------------------------
(* The service's own end.                                                  *)

(* stop: every open job is interrupted and the current process signalled.  *)
Stop ==
  /\ aUp = "up" /\ aUp' = "stopping"
  /\ aMem' = [j \in Jobs |-> IF aMem[j] \in {"queued", "running"}
                             THEN "interrupted" ELSE aMem[j]]
  /\ aDisk' = [j \in Jobs |-> IF aMem[j] \in {"queued", "running"}
                              THEN "interrupted" ELSE aDisk[j]]
  /\ aProc' = IF aCur = Nobody THEN aProc
              ELSE [aProc EXCEPT ![aCur] = Signalled(@)]
  /\ UNCHANGED <<aModel, aQueue, aWk, aCur, aFaults>>

Gone ==
  /\ aUp' = "down" /\ aModel' = FALSE /\ aQueue' = <<>> /\ aWk' = Off
  /\ aCur' = Nobody /\ aMem' = [j \in Jobs |-> "none"]
  /\ aProc' = [j \in Jobs |-> "none"]

(* The worker is cancelled once the process is gone (asyncio closes, and   *)
(* so kills, a process whose launch is cancelled).                         *)
Stopped ==
  /\ aUp = "stopping"
  /\ ~\E j \in Jobs : aCur = j /\ aProc[j] \in {"live", "term"}
  /\ Gone /\ UNCHANGED <<aDisk, aFaults>>

(* The container dies, and every process in it.                            *)
Die == aUp # "down" /\ Gone /\ UNCHANGED <<aDisk, aFaults>>

(* A write that fails in stop ends the shutdown there: the rest is neither *)
(* written nor signalled until the process is gone.                        *)
StopFails ==
  /\ aUp = "up" /\ aFaults < MaxFaults /\ aFaults' = aFaults + 1
  /\ LET open == {j \in Jobs : aMem[j] \in {"queued", "running"}} IN
     \E S \in SUBSET open, k \in open :
       /\ k \notin S
       /\ aMem' = [j \in Jobs |-> IF j \in S \cup {k} THEN "interrupted" ELSE aMem[j]]
       /\ aDisk' = [j \in Jobs |-> IF j \in S THEN "interrupted" ELSE aDisk[j]]
  /\ aUp' = "stopping"
  /\ UNCHANGED <<aModel, aQueue, aWk, aCur, aProc>>

Next ==
  \/ Start \/ WatchModels \/ Worker \/ TimeOut
  \/ Stop \/ StopFails \/ Stopped \/ Die
  \/ \E j \in Jobs : Submit(j) \/ Cancel(j) \/ Exit(j)

(* The loop runs what is ready; a process ends, if only at its time-out.   *)
Progress == Worker \/ TimeOut \/ \E j \in Jobs : Exit(j)

Spec == Init /\ [][Next]_vars /\ WF_vars(Progress)

-----------------------------------------------------------------------------
(* Properties.                                                             *)

Live(j) == aProc[j] \in {"live", "term"}

Statuses == {"none", "queued", "running"} \cup TERMINAL

WorkerStates ==
  [pc : {"off", "get", "spawn", "wait", "judge", "dead"}, job : Jobs \cup {Nobody}, late : BOOLEAN]

TypeOK ==
  /\ aUp \in {"down", "up", "stopping"} /\ aModel \in BOOLEAN
  /\ aMem \in [Jobs -> Statuses] /\ aDisk \in [Jobs -> Statuses]
  /\ aQueue \in Seq(Jobs) /\ aCur \in Jobs \cup {Nobody}
  /\ aWk \in WorkerStates
  /\ aProc \in [Jobs -> {"none", "live", "term", "ok", "bad"}]
  /\ aFaults \in 0..MaxFaults

(* What a client sees: the record is what job.json says, not the memory,   *)
(* and a job is worked on while its generator lives.                       *)
OnRecord == [j \in Jobs |-> IF aDisk[j] \in {"queued", "running"} THEN "open" ELSE aDisk[j]]
AtWork == {j \in Jobs : Live(j)}

Service == INSTANCE JobService WITH record <- OnRecord, working <- AtWork

(* Whatever faults and deaths do, the records and the generators behave as *)
(* the abstract service does: one generator, final verdicts, completion    *)
(* after the work.                                                         *)
IsJobService == Service!Spec

(* A generator that nobody has told to end works for a job still running,  *)
(* even when the job was settled while the process was being launched,     *)
(* unless a record could not be written.                                   *)
WorkIsWanted ==
  \A j \in Jobs : aProc[j] = "live" => aMem[j] = "running" \/ aFaults > 0

(* A job the service knows comes to a final verdict on record, unless the  *)
(* service goes down, or a fault cost the worker or the record.            *)
Settled == \A j \in Jobs : aMem[j] = "none" \/ aDisk[j] \in TERMINAL \/ aWk.pc = "dead" \/ aFaults > 0
=============================================================================
