--------------------------- MODULE WorkloadsProofs ---------------------------
(***************************************************************************)
(* What TLAPS proves of the nine programs that Workloads holds, for every  *)
(* value of their constants: the inductive invariant of each, what each    *)
(* promises on its own, and what the composition promises of all of them.  *)
(* The audio service also implements JobService, step by step.             *)
(***************************************************************************)
EXTENDS Workloads, TLAPS, SequenceTheorems, FiniteSetTheorems

-----------------------------------------------------------------------------
(* AudioJobs. A generator that lives is that of the job the worker waits   *)
(* for, the job in the worker's hands was running and is running or was    *)
(* stopped by somebody, and a verdict on record is the one in memory.      *)
DownIsOff == aUp = "down" => aWk.pc = "off"

OneGenerator == \A j \in Jobs : Live(j) => aWk.pc = "wait" /\ aWk.job = j /\ aCur = j

Held == {"running", "cancelled", "interrupted"}
WorkerHolds ==
  aWk.pc \in {"spawn", "wait", "judge"} => aWk.job \in Jobs /\ aMem[aWk.job] \in Held /\ aDisk[aWk.job] \in Held

(* A verdict on record is the one in memory, and a job memory does not     *)
(* know has no record.                                                     *)
RecordIsMemory ==
  aUp # "down" => \A j \in Jobs :
    /\ aDisk[j] \in TERMINAL => aMem[j] = aDisk[j]
    /\ aMem[j] = "none" => aDisk[j] = "none"

AudioInv == TypeOK /\ DownIsOff /\ OneGenerator /\ WorkerHolds /\ RecordIsMemory /\ WorkIsWanted

-----------------------------------------------------------------------------
LEMMA WorkerTyped ==
  /\ Off \in WorkerStates /\ Idle \in WorkerStates /\ [Idle EXCEPT !.pc = "dead"] \in WorkerStates
  /\ \A j \in Jobs : [pc |-> "spawn", job |-> j, late |-> FALSE] \in WorkerStates
  /\ \A x \in WorkerStates, pc \in {"wait", "judge"} : [x EXCEPT !.pc = pc] \in WorkerStates
  /\ \A x \in WorkerStates : [x EXCEPT !.late = TRUE] \in WorkerStates
BY DEF Off, Idle, WorkerStates

LEMMA AudioInit == Init => AudioInv
<1> SUFFICES ASSUME Init PROVE AudioInv OBVIOUS
<1>1. TypeOK
  <2>1. aQueue \in Seq(Jobs) /\ aFaults \in 0..MaxFaults BY AudioAssumption DEF Init
  <2>2. QED BY <2>1, WorkerTyped DEF Init, TypeOK, Statuses
<1>2. QED
  BY <1>1 DEF Init, AudioInv, DownIsOff, OneGenerator, WorkerHolds, RecordIsMemory, WorkIsWanted, Live, Off, Idle

(* A write of a record, and the handler around a job.                      *)
LEMMA WrittenTyped ==
  ASSUME TypeOK, aMem' \in [Jobs -> Statuses], NEW j \in Jobs, NEW ok \in BOOLEAN, Written(j, ok)
  PROVE  aDisk' \in [Jobs -> Statuses] /\ aFaults' \in 0..MaxFaults
BY AudioAssumption DEF TypeOK, Written

LEMMA RaisedTyped ==
  ASSUME TypeOK, NEW j \in Jobs, NEW ok \in BOOLEAN, Raised(j, aMem, ok)
  PROVE  /\ aMem' \in [Jobs -> Statuses] /\ aDisk' \in [Jobs -> Statuses]
         /\ aFaults' \in 0..MaxFaults /\ aWk' \in WorkerStates
<1>1. CASE aMem[j] \in TERMINAL BY <1>1, WorkerTyped DEF TypeOK, Raised
<1>2. CASE aMem[j] \notin TERMINAL
  <2>1. aMem' \in [Jobs -> Statuses] BY <1>2 DEF Raised, TypeOK, Statuses, TERMINAL
  <2>2. Written(j, ok) /\ aWk' \in WorkerStates BY <1>2, WorkerTyped DEF Raised
  <2>3. QED BY <2>1, <2>2, WrittenTyped
<1>3. QED BY <1>1, <1>2

LEMMA ConcludeTyped ==
  ASSUME TypeOK, NEW j \in Jobs, NEW ok \in BOOLEAN, NEW v \in {"completed", "failed"}, Conclude(j, v, ok)
  PROVE  /\ aMem' \in [Jobs -> Statuses] /\ aDisk' \in [Jobs -> Statuses]
         /\ aFaults' \in 0..MaxFaults /\ aWk' \in WorkerStates
<1>1. CASE aMem[j] \in {"cancelled", "interrupted"} BY <1>1, WorkerTyped DEF TypeOK, Conclude
<1>2. CASE aMem[j] \notin {"cancelled", "interrupted"}
  <2>1. aMem' \in [Jobs -> Statuses] BY <1>2 DEF Conclude, TypeOK, Statuses, TERMINAL
  <2>2. Written(j, ok) /\ aWk' \in WorkerStates BY <1>2, WorkerTyped DEF Conclude
  <2>3. QED BY <2>1, <2>2, WrittenTyped
<1>3. QED BY <1>1, <1>2

LEMMA GoneTyped == ASSUME TypeOK, Gone, UNCHANGED <<aDisk, aFaults>> PROVE TypeOK'
<1>1. aQueue' \in Seq(Jobs) BY DEF Gone
<1>2. QED BY <1>1, WorkerTyped DEF Gone, TypeOK, Statuses

LEMMA AudioTypes == ASSUME AudioInv, Next PROVE TypeOK'
<1> USE AudioAssumption DEF AudioInv, TypeOK, Statuses, TERMINAL
<1>1. CASE Start
  <2>1. PICK lost \in SUBSET {j \in Jobs : aDisk[j] \in {"queued", "running"}} :
           /\ aFaults + Cardinality(lost) <= MaxFaults
           /\ aFaults' = aFaults + Cardinality(lost)
           /\ aDisk' = [j \in Jobs |-> IF j \in lost THEN aDisk[j] ELSE aMem'[j]]
    BY <1>1 DEF Start
  <2>2. IsFiniteSet(lost) BY FS_Subset
  <2>3. Cardinality(lost) \in Nat BY <2>2, FS_CardinalityType
  <2>4. aFaults' \in 0..MaxFaults BY <2>1, <2>3
  <2>5. aMem' \in [Jobs -> Statuses] BY <1>1 DEF Start
  <2>6. aDisk' \in [Jobs -> Statuses] BY <2>1, <2>5
  <2>7. QED BY <1>1, <2>4, <2>5, <2>6, WorkerTyped DEF Start
<1>2. CASE WatchModels BY <1>2 DEF WatchModels
<1>3. CASE Take
  <2>1. Head(aQueue) \in Jobs /\ aQueue' \in Seq(Jobs) BY <1>3 DEF Take
  <2>2. aMem' \in [Jobs -> Statuses] BY <1>3, <2>1 DEF Take, Rewritten
  <2>3. aDisk' \in [Jobs -> Statuses] BY <1>3, <2>1, <2>2 DEF Take, Rewritten, Written
  <2>4. aFaults' \in 0..MaxFaults BY <1>3 DEF Take, Rewritten, Written
  <2>5. aWk' \in WorkerStates BY <1>3, <2>1, WorkerTyped DEF Take, Rewritten
  <2>6. QED BY <1>3, <2>1, <2>2, <2>3, <2>4, <2>5 DEF Take
<1>4. CASE Spawn
  <2>1. aWk.job \in Jobs BY <1>4 DEF Spawn, WorkerHolds
  <2>2. CASE \E ok \in BOOLEAN : Raised(aWk.job, aMem, ok) /\ UNCHANGED <<aCur, aProc>>
    BY <1>4, <2>1, <2>2, RaisedTyped DEF Spawn
  <2>3. CASE ~\E ok \in BOOLEAN : Raised(aWk.job, aMem, ok) /\ UNCHANGED <<aCur, aProc>>
    <3>1. aWk' \in WorkerStates BY <1>4, <2>3, WorkerTyped DEF Spawn
    <3>2. aCur' = aWk.job /\ aProc' \in [Jobs -> {"none", "live", "term", "ok", "bad"}] BY <1>4, <2>3 DEF Spawn
    <3>3. QED BY <1>4, <2>1, <2>3, <3>1, <3>2 DEF Spawn
  <2>4. QED BY <2>2, <2>3
<1>5. CASE Drain
  <2>1. aWk.job \in Jobs BY <1>5 DEF Drain, WorkerHolds
  <2>2. CASE \E ok \in BOOLEAN : Conclude(aWk.job, "failed", ok)
    <3>1. aCur' \in Jobs \cup {Nobody} BY <1>5 DEF Drain
    <3>2. QED BY <1>5, <2>1, <2>2, <3>1, ConcludeTyped DEF Drain
  <2>3. CASE ~\E ok \in BOOLEAN : Conclude(aWk.job, "failed", ok)
    <3>1. aWk' \in WorkerStates BY <1>5, <2>3, WorkerTyped DEF Drain, Rewritten
    <3>2. aMem' \in [Jobs -> Statuses] /\ aDisk' \in [Jobs -> Statuses] BY <1>5, <2>1, <2>3 DEF Drain, Rewritten, Written
    <3>3. aFaults' \in 0..MaxFaults /\ aCur' \in Jobs \cup {Nobody} BY <1>5, <2>3 DEF Drain, Rewritten, Written
    <3>4. QED BY <1>5, <3>1, <3>2, <3>3 DEF Drain
  <2>4. QED BY <2>2, <2>3
<1>6. CASE Judge
  <2>1. aWk.job \in Jobs BY <1>6 DEF Judge, WorkerHolds
  <2>2. QED BY <1>6, <2>1, ConcludeTyped DEF Judge
<1>7. CASE TimeOut BY <1>7, WorkerTyped DEF TimeOut
<1>8. CASE Stop BY <1>8 DEF Stop, Signalled
<1>9. CASE StopFails BY <1>9 DEF StopFails
<1>10. CASE Stopped BY <1>10, GoneTyped DEF Stopped
<1>11. CASE Die BY <1>11, GoneTyped DEF Die
<1>12. ASSUME NEW j \in Jobs, Submit(j) PROVE TypeOK'
  BY <1>12 DEF Submit, Written
<1>13. ASSUME NEW j \in Jobs, Cancel(j) PROVE TypeOK'
  BY <1>13 DEF Cancel, Written, Signalled
<1>14. ASSUME NEW j \in Jobs, Exit(j) PROVE TypeOK'
  BY <1>14 DEF Exit
<1>15. QED
  BY <1>1, <1>2, <1>3, <1>4, <1>5, <1>6, <1>7, <1>8, <1>9, <1>10, <1>11, <1>12, <1>13, <1>14 DEF Next, Worker

-----------------------------------------------------------------------------
LEMMA AudioStep == ASSUME AudioInv, Next, TypeOK' PROVE AudioInv'
<1> USE AudioAssumption
    DEF AudioInv, TypeOK, DownIsOff, OneGenerator, WorkerHolds, RecordIsMemory, WorkIsWanted, Live, Statuses, WorkerStates,
        TERMINAL, Held, Idle, Off
<1>1. CASE Start
  <2>1. DownIsOff' /\ OneGenerator' BY <1>1 DEF Start
  <2>2. WorkerHolds' BY <1>1 DEF Start
  <2>3. RecordIsMemory' BY <1>1 DEF Start
  <2>4. WorkIsWanted' BY <1>1 DEF Start
  <2>5. QED BY <2>1, <2>2, <2>3, <2>4
<1>2. CASE WatchModels
  <2>1. DownIsOff' /\ OneGenerator' BY <1>2 DEF WatchModels
  <2>2. WorkerHolds' BY <1>2 DEF WatchModels
  <2>3. RecordIsMemory' BY <1>2 DEF WatchModels
  <2>4. WorkIsWanted' BY <1>2 DEF WatchModels
  <2>5. QED BY <2>1, <2>2, <2>3, <2>4
<1>3. CASE Take
  <2>1. DownIsOff' /\ OneGenerator' BY <1>3 DEF Take, Rewritten, Written
  <2>2. WorkerHolds' BY <1>3 DEF Take, Rewritten, Written
  <2>3. RecordIsMemory' BY <1>3 DEF Take, Rewritten, Written
  <2>4. WorkIsWanted' BY <1>3 DEF Take, Rewritten, Written
  <2>5. QED BY <2>1, <2>2, <2>3, <2>4
<1>4. CASE Spawn
  (* No generator lives yet; the new one is for a job that runs, or ends. *)
  <2>1. DownIsOff' /\ OneGenerator' BY <1>4 DEF Spawn, Raised, Written
  <2>2. WorkerHolds' BY <1>4 DEF Spawn, Raised, Written
  <2>3. RecordIsMemory' BY <1>4 DEF Spawn, Raised, Written
  <2>4. WorkIsWanted' BY <1>4 DEF Spawn, Raised, Written
  <2>5. QED BY <2>1, <2>2, <2>3, <2>4
<1>5. CASE Drain
  (* The one generator is gone, so none lives.                            *)
  <2>1. DownIsOff' /\ OneGenerator' BY <1>5 DEF Drain, Rewritten, Conclude, Written
  <2>2. WorkerHolds' BY <1>5 DEF Drain, Rewritten, Conclude, Written
  <2>3. RecordIsMemory' BY <1>5 DEF Drain, Rewritten, Conclude, Written
  <2>4. WorkIsWanted' BY <1>5 DEF Drain, Rewritten, Conclude, Written
  <2>5. QED BY <2>1, <2>2, <2>3, <2>4
<1>6. CASE Judge
  <2>1. DownIsOff' /\ OneGenerator' BY <1>6 DEF Judge, Conclude, Written
  <2>2. WorkerHolds' BY <1>6 DEF Judge, Conclude, Written
  <2>3. RecordIsMemory' BY <1>6 DEF Judge, Conclude, Written
  <2>4. WorkIsWanted' BY <1>6 DEF Judge, Conclude, Written
  <2>5. QED BY <2>1, <2>2, <2>3, <2>4
<1>7. CASE TimeOut
  <2>1. DownIsOff' /\ OneGenerator' BY <1>7 DEF TimeOut
  <2>2. WorkerHolds' BY <1>7 DEF TimeOut
  <2>3. RecordIsMemory' BY <1>7 DEF TimeOut
  <2>4. WorkIsWanted' BY <1>7 DEF TimeOut
  <2>5. QED BY <2>1, <2>2, <2>3, <2>4
<1>8. CASE Stop
  <2>1. DownIsOff' /\ OneGenerator' BY <1>8 DEF Stop, Signalled
  <2>2. WorkerHolds' BY <1>8 DEF Stop, Signalled
  <2>3. RecordIsMemory' BY <1>8 DEF Stop, Signalled
  <2>4. WorkIsWanted' BY <1>8 DEF Stop, Signalled
  <2>5. QED BY <2>1, <2>2, <2>3, <2>4
<1>9. CASE StopFails
  <2>1. DownIsOff' /\ OneGenerator' BY <1>9 DEF StopFails
  <2>2. WorkerHolds' BY <1>9 DEF StopFails
  <2>3. RecordIsMemory' BY <1>9 DEF StopFails
  <2>4. WorkIsWanted' BY <1>9 DEF StopFails
  <2>5. QED BY <2>1, <2>2, <2>3, <2>4
<1>10. CASE Stopped
  <2>1. DownIsOff' /\ OneGenerator' BY <1>10 DEF Stopped, Gone
  <2>2. WorkerHolds' BY <1>10 DEF Stopped, Gone
  <2>3. RecordIsMemory' BY <1>10 DEF Stopped, Gone
  <2>4. WorkIsWanted' BY <1>10 DEF Stopped, Gone
  <2>5. QED BY <2>1, <2>2, <2>3, <2>4
<1>11. CASE Die
  <2>1. DownIsOff' /\ OneGenerator' BY <1>11 DEF Die, Gone
  <2>2. WorkerHolds' BY <1>11 DEF Die, Gone
  <2>3. RecordIsMemory' BY <1>11 DEF Die, Gone
  <2>4. WorkIsWanted' BY <1>11 DEF Die, Gone
  <2>5. QED BY <2>1, <2>2, <2>3, <2>4
<1>12. ASSUME NEW j \in Jobs, Submit(j) PROVE AudioInv'
  <2>1. DownIsOff' /\ OneGenerator' BY <1>12 DEF Submit, Ready, Written
  <2>2. WorkerHolds' BY <1>12 DEF Submit, Ready, Written
  <2>3. RecordIsMemory' BY <1>12 DEF Submit, Ready, Written
  <2>4. WorkIsWanted' BY <1>12 DEF Submit, Ready, Written
  <2>5. QED BY <2>1, <2>2, <2>3, <2>4
<1>13. ASSUME NEW j \in Jobs, Cancel(j) PROVE AudioInv'
  (* A generator that lives is current, so a cancellation signals it.     *)
  <2>1. DownIsOff' /\ OneGenerator' BY <1>13 DEF Cancel, Written, Signalled
  <2>2. WorkerHolds' BY <1>13 DEF Cancel, Written, Signalled
  <2>3. RecordIsMemory' BY <1>13 DEF Cancel, Written, Signalled
  <2>4. WorkIsWanted' BY <1>13 DEF Cancel, Written, Signalled
  <2>5. QED BY <2>1, <2>2, <2>3, <2>4
<1>14. ASSUME NEW j \in Jobs, Exit(j) PROVE AudioInv'
  <2>1. DownIsOff' /\ OneGenerator' BY <1>14 DEF Exit
  <2>2. WorkerHolds' BY <1>14 DEF Exit
  <2>3. RecordIsMemory' BY <1>14 DEF Exit
  <2>4. WorkIsWanted' BY <1>14 DEF Exit
  <2>5. QED BY <2>1, <2>2, <2>3, <2>4
<1>15. QED
  BY <1>1, <1>2, <1>3, <1>4, <1>5, <1>6, <1>7, <1>8, <1>9, <1>10, <1>11, <1>12, <1>13, <1>14 DEF Next, Worker

(* AudioInv holds of every behaviour.                                      *)
THEOREM AudioHolds == Spec => []AudioInv
<1>1. Init => AudioInv BY AudioInit
<1>2. AudioInv /\ [Next]_vars => AudioInv'
  <2> SUFFICES ASSUME AudioInv, [Next]_vars PROVE AudioInv' OBVIOUS
  <2>1. CASE Next BY <2>1, AudioTypes, AudioStep
  <2>2. CASE UNCHANGED vars
    BY <2>2 DEF vars, AudioInv, TypeOK, DownIsOff, OneGenerator, WorkerHolds, RecordIsMemory, WorkIsWanted, Live
  <2>3. QED BY <2>1, <2>2
<1>3. QED BY <1>1, <1>2, PTL DEF Spec

(* Every state has its types.                                              *)
THEOREM AudioTypeCorrect == Spec => []TypeOK
<1>1. AudioInv => TypeOK BY DEF AudioInv
<1>2. QED BY <1>1, AudioHolds, PTL

(* A generator nobody has told to end works for a job that is running,     *)
(* whenever it was cancelled, unless a record could not be written.        *)
THEOREM WorkWanted == Spec => []WorkIsWanted
<1>1. AudioInv => WorkIsWanted BY DEF AudioInv
<1>2. QED BY <1>1, AudioHolds, PTL

-----------------------------------------------------------------------------
(* The refinement.  Every step changes what a client sees as one step of   *)
(* JobService does, or not at all.                                         *)

OpenOrNone(j) == aDisk[j] \in {"none", "queued", "running"}

(* Records that get the verdict v.                                         *)
LEMMA VerdictsSettle ==
  ASSUME AudioInv, TypeOK', NEW S \in SUBSET Jobs, NEW v \in TERMINAL,
         \A j \in S : OpenOrNone(j) /\ aDisk'[j] = v,
         \A j \in Jobs \ S : aDisk'[j] = aDisk[j],
         AtWork' = AtWork,
         v = "completed" => S \cap AtWork = {} /\ \A j \in S : aDisk[j] \in {"queued", "running"}
  PROVE  Service!Next
<1>1. OnRecord' = [j \in Jobs |-> IF j \in S THEN v ELSE OnRecord[j]]
  BY DEF OnRecord, AudioInv, TypeOK, TERMINAL, OpenOrNone
<1>2. \A j \in S : OnRecord[j] \in {"none", "open"} BY DEF OnRecord, OpenOrNone
<1>3. v = "completed" => S \cap AtWork = {} /\ \A j \in S : OnRecord[j] = "open" BY DEF OnRecord
<1>4. Service!Settle(S, v) BY <1>1, <1>2, <1>3 DEF Service!Settle
<1>5. QED BY <1>4 DEF Service!Next, Service!Final, TERMINAL

(* A record that opens, or is written open again.                          *)
LEMMA OpensOrStays ==
  ASSUME AudioInv, TypeOK', NEW j \in Jobs, OpenOrNone(j), aDisk'[j] \in {"queued", "running"},
         \A k \in Jobs \ {j} : aDisk'[k] = aDisk[k], AtWork' = AtWork
  PROVE  Service!Next \/ UNCHANGED <<OnRecord, AtWork>>
<1>1. CASE aDisk[j] = "none"
  <2>1. OnRecord' = [OnRecord EXCEPT ![j] = "open"] /\ OnRecord[j] = "none"
    BY <1>1 DEF OnRecord, AudioInv, TypeOK
  <2>2. Service!Accept(j) BY <2>1 DEF Service!Accept
  <2>3. QED BY <2>2 DEF Service!Next
<1>2. CASE aDisk[j] # "none"
  <2>1. OnRecord' = OnRecord BY <1>2 DEF OnRecord, OpenOrNone
  <2>2. QED BY <2>1
<1>3. QED BY <1>1, <1>2

(* A generator begins, alone, or the one there is has ended.               *)
LEMMA BeginsAlone ==
  ASSUME AudioInv, UNCHANGED aDisk, NEW j \in Jobs, AtWork = {}, AtWork' = {j}, aDisk[j] \in Held
  PROVE  Service!Next
<1>1. OnRecord' = OnRecord /\ OnRecord[j] \notin {"none", "completed", "failed"} BY DEF OnRecord, Held
<1>2. Service!Begin(j) BY <1>1 DEF Service!Begin
<1>3. QED BY <1>2 DEF Service!Next

LEMMA EndsOrNone ==
  ASSUME UNCHANGED aDisk, AtWork' = {}
  PROVE  Service!Next \/ UNCHANGED <<OnRecord, AtWork>>
<1>1. OnRecord' = OnRecord BY DEF OnRecord
<1>2. CASE AtWork = {} BY <1>1, <1>2
<1>3. CASE AtWork # {}
  <2>1. Service!End BY <1>1, <1>3 DEF Service!End
  <2>2. QED BY <2>1 DEF Service!Next
<1>4. QED BY <1>2, <1>3

LEMMA Stutters ==
  ASSUME UNCHANGED aDisk, AtWork' = AtWork
  PROVE  Service!Next \/ UNCHANGED <<OnRecord, AtWork>>
BY DEF OnRecord

(* One record gets its verdict, or the write has failed.                   *)
LEMMA VerdictOrNot ==
  ASSUME AudioInv, TypeOK', NEW j \in Jobs, NEW v \in TERMINAL \ {"completed"}, OpenOrNone(j),
         NEW ok \in BOOLEAN, aMem'[j] = v, Written(j, ok), UNCHANGED aProc
  PROVE  Service!Next \/ UNCHANGED <<OnRecord, AtWork>>
<1>1. AtWork' = AtWork BY DEF AtWork, Live
<1>2. CASE ok
  <2>1. aDisk' = [aDisk EXCEPT ![j] = v] BY <1>2 DEF Written
  <2>2. aDisk'[j] = v /\ \A k \in Jobs \ {j} : aDisk'[k] = aDisk[k] BY <2>1 DEF AudioInv, TypeOK
  <2>3. Service!Next BY <1>1, <2>2, VerdictsSettle, {j} \in SUBSET Jobs
  <2>4. QED BY <2>3
<1>3. CASE ~ok
  <2>1. aDisk' = aDisk BY <1>3 DEF Written
  <2>2. QED BY <1>1, <2>1, Stutters
<1>4. QED BY <1>2, <1>3

LEMMA WorkerSimulates ==
  ASSUME AudioInv, AudioInv', Worker
  PROVE  Service!Next \/ UNCHANGED <<OnRecord, AtWork>>
<1> USE DEF AudioInv
<1>1. CASE Take
  <2> DEFINE j == Head(aQueue)
  <2>1. j \in Jobs /\ UNCHANGED aProc /\ aUp # "down" BY <1>1 DEF Take, TypeOK
  <2>2. AtWork' = AtWork BY <2>1 DEF AtWork, Live
  <2>3. CASE UNCHANGED aDisk BY <2>2, <2>3, Stutters
  <2>4. CASE ~UNCHANGED aDisk
    <3>1. aMem[j] = "queued" BY <1>1, <2>4 DEF Take
    <3>2. OpenOrNone(j) BY <2>1, <3>1 DEF RecordIsMemory, OpenOrNone, TypeOK, Statuses, TERMINAL
    <3>3. CASE aDisk' = [aDisk EXCEPT ![j] = "running"]
      <4>1. aDisk'[j] = "running" /\ \A k \in Jobs \ {j} : aDisk'[k] = aDisk[k] BY <2>1, <3>3 DEF TypeOK
      <4>2. QED BY <2>1, <2>2, <3>2, <4>1, OpensOrStays
    <3>4. CASE aDisk' = [aDisk EXCEPT ![j] = "failed"]
      <4>1. aDisk'[j] = "failed" /\ \A k \in Jobs \ {j} : aDisk'[k] = aDisk[k] BY <2>1, <3>4 DEF TypeOK
      <4>2. Service!Next BY <2>1, <2>2, <3>2, <4>1, VerdictsSettle, {j} \in SUBSET Jobs DEF TERMINAL
      <4>3. QED BY <4>2
    <3>5. aDisk' = [aDisk EXCEPT ![j] = "running"] \/ aDisk' = [aDisk EXCEPT ![j] = "failed"]
      BY <1>1, <2>1, <2>4 DEF Take, Rewritten, Written, TypeOK
    <3>6. QED BY <3>3, <3>4, <3>5
  <2>5. QED BY <2>3, <2>4
<1>2. CASE Spawn
  <2> DEFINE j == aWk.job
  <2>1. j \in Jobs /\ aMem[j] \in Held /\ aDisk[j] \in Held /\ aUp # "down" BY <1>2 DEF Spawn, WorkerHolds
  <2>2. AtWork = {} BY <1>2 DEF Spawn, AtWork, OneGenerator
  <2>3. CASE \E ok \in BOOLEAN : Raised(j, aMem, ok) /\ UNCHANGED <<aCur, aProc>>
    <3>1. PICK ok \in BOOLEAN : Raised(j, aMem, ok) /\ UNCHANGED <<aCur, aProc>> BY <2>3
    <3>2. CASE aMem[j] \in TERMINAL
      <4>1. AtWork' = AtWork /\ UNCHANGED aDisk BY <3>1, <3>2 DEF Raised, AtWork, Live
      <4>2. QED BY <4>1, Stutters
    <3>3. CASE aMem[j] \notin TERMINAL
      <4>1. OpenOrNone(j) BY <2>1, <3>3 DEF RecordIsMemory, OpenOrNone, Held, TERMINAL
      <4>2. aMem'[j] = "failed" /\ Written(j, ok) BY <2>1, <3>1, <3>3 DEF Raised, TypeOK
      <4>3. QED BY <2>1, <3>1, <4>1, <4>2, VerdictOrNot DEF TERMINAL
    <3>4. QED BY <3>2, <3>3
  <2>4. CASE ~\E ok \in BOOLEAN : Raised(j, aMem, ok) /\ UNCHANGED <<aCur, aProc>>
    <3>1. UNCHANGED aDisk /\ aProc'[j] \in {"term", "live"} BY <1>2, <2>1, <2>4 DEF Spawn, TypeOK
    <3>2. \A k \in Jobs \ {j} : aProc'[k] = aProc[k] BY <1>2, <2>1, <2>4 DEF Spawn, TypeOK
    <3>3. AtWork' = {j} BY <2>1, <2>2, <3>1, <3>2 DEF AtWork, Live
    <3>4. QED BY <2>1, <2>2, <3>1, <3>3, BeginsAlone
  <2>5. QED BY <2>3, <2>4
<1>3. CASE Drain
  <2> DEFINE j == aWk.job
  <2>1. j \in Jobs /\ aMem[j] \in Held /\ aDisk[j] \in Held /\ aUp # "down" /\ UNCHANGED aProc
    BY <1>3 DEF Drain, WorkerHolds
  <2>2. AtWork' = AtWork BY <2>1 DEF AtWork, Live
  <2>3. CASE UNCHANGED aDisk BY <2>2, <2>3, Stutters
  <2>4. CASE ~UNCHANGED aDisk
    (* What is written is failed, or the verdict somebody gave meanwhile.  *)
    <3>1. aMem[j] = "running" \/ (aMem[j] \in TERMINAL /\ aMem[j] \in {"cancelled", "interrupted"})
      BY <2>1 DEF Held, TERMINAL
    <3>2. CASE aMem[j] = "running"
      <4>1. aMem[j] \notin TERMINAL BY <3>2 DEF TERMINAL
      <4>2. aDisk' = [aDisk EXCEPT ![j] = "failed"]
        <5>1. aDisk' = [aDisk EXCEPT ![j] = "failed"] \/ \E ok \in BOOLEAN : Conclude(j, "failed", ok)
          BY <1>3, <2>4, <3>2, <4>1 DEF Drain, Rewritten
        <5>2. ASSUME NEW ok \in BOOLEAN, Conclude(j, "failed", ok)
              PROVE  aDisk' = [aDisk EXCEPT ![j] = "failed"]
          BY <2>1, <2>4, <3>2, <5>2 DEF Conclude, Written, TypeOK
        <5>3. QED BY <5>1, <5>2
      <4>3. aDisk'[j] = "failed" /\ \A k \in Jobs \ {j} : aDisk'[k] = aDisk[k] BY <2>1, <4>2 DEF TypeOK
      <4>4. OpenOrNone(j) BY <2>1, <3>2 DEF RecordIsMemory, OpenOrNone, Held, TERMINAL
      <4>5. Service!Next BY <2>1, <2>2, <4>3, <4>4, VerdictsSettle, {j} \in SUBSET Jobs DEF TERMINAL
      <4>6. QED BY <4>5
    <3>3. CASE aMem[j] \in TERMINAL /\ aMem[j] \in {"cancelled", "interrupted"}
      <4>1. aDisk' = [aDisk EXCEPT ![j] = aMem[j]] BY <1>3, <2>1, <2>4, <3>3 DEF Drain, Written, TypeOK
      <4>2. aDisk[j] # aMem[j] BY <2>1, <2>4, <4>1 DEF TypeOK
      <4>3. OpenOrNone(j) BY <2>1, <3>3, <4>2 DEF RecordIsMemory, OpenOrNone, Held, TERMINAL
      <4>4. aDisk'[j] \in TERMINAL /\ aDisk'[j] # "completed" /\ \A k \in Jobs \ {j} : aDisk'[k] = aDisk[k]
        BY <2>1, <3>3, <4>1 DEF TypeOK
      <4>5. Service!Next BY <2>1, <2>2, <4>3, <4>4, VerdictsSettle, {j} \in SUBSET Jobs DEF TERMINAL
      <4>6. QED BY <4>5
    <3>4. QED BY <3>1, <3>2, <3>3
  <2>5. QED BY <2>3, <2>4
<1>4. CASE Judge
  <2> DEFINE j == aWk.job
  <2>1. j \in Jobs /\ aMem[j] \in Held /\ aDisk[j] \in Held /\ aUp # "down" /\ UNCHANGED aProc
    BY <1>4 DEF Judge, WorkerHolds
  <2>2. AtWork = {} /\ AtWork' = AtWork BY <1>4, <2>1 DEF Judge, AtWork, Live, OneGenerator
  <2>3. CASE UNCHANGED aDisk BY <2>2, <2>3, Stutters
  <2>4. CASE ~UNCHANGED aDisk
    <3>1. PICK v \in {"completed", "failed"} : aDisk' = [aDisk EXCEPT ![j] = v]
      BY <1>4, <2>1, <2>4 DEF Judge, Conclude, Written, TypeOK
    <3>2. aMem[j] = "running" BY <1>4, <2>1, <2>4 DEF Judge, Conclude, Held
    <3>3. OpenOrNone(j) /\ aDisk[j] = "running" BY <2>1, <3>2 DEF RecordIsMemory, OpenOrNone, Held, TERMINAL
    <3>4. aDisk'[j] = v /\ \A k \in Jobs \ {j} : aDisk'[k] = aDisk[k] BY <2>1, <3>1 DEF TypeOK
    <3>5. Service!Next BY <2>1, <2>2, <3>3, <3>4, VerdictsSettle, {j} \in SUBSET Jobs DEF TERMINAL
    <3>6. QED BY <3>5
  <2>5. QED BY <2>3, <2>4
<1>5. QED BY <1>1, <1>2, <1>3, <1>4 DEF Worker

LEMMA OthersSimulate ==
  ASSUME AudioInv, AudioInv', Next, ~Worker
  PROVE  Service!Next \/ UNCHANGED <<OnRecord, AtWork>>
<1> USE DEF AudioInv
<1>1. CASE Start
  <2>1. PICK lost \in SUBSET {j \in Jobs : aDisk[j] \in {"queued", "running"}} :
           aDisk' = [j \in Jobs |-> IF j \in lost THEN aDisk[j] ELSE aMem'[j]]
    BY <1>1 DEF Start
  <2>2. aMem' = [j \in Jobs |-> IF aDisk[j] \in {"queued", "running"} THEN "interrupted" ELSE aDisk[j]]
    BY <1>1 DEF Start
  <2> DEFINE S == {j \in Jobs : aDisk[j] \in {"queued", "running"}} \ lost
  <2>3. \A j \in S : OpenOrNone(j) /\ aDisk'[j] = "interrupted" BY <2>1, <2>2 DEF OpenOrNone
  <2>4. \A j \in Jobs \ S : aDisk'[j] = aDisk[j] BY <2>1, <2>2
  <2>5. AtWork' = AtWork BY <1>1 DEF Start, AtWork, Live
  <2>6. Service!Next BY <2>3, <2>4, <2>5, VerdictsSettle, S \in SUBSET Jobs DEF TERMINAL
  <2>7. QED BY <2>6
<1>2. CASE WatchModels BY <1>2, Stutters DEF WatchModels, AtWork, Live
<1>3. CASE TimeOut
  <2>1. AtWork' = AtWork BY <1>3 DEF TimeOut, AtWork, Live, TypeOK
  <2>2. QED BY <1>3, <2>1, Stutters DEF TimeOut
<1>4. CASE Stop
  <2> DEFINE S == {j \in Jobs : aMem[j] \in {"queued", "running"}}
  <2>1. \A j \in S : OpenOrNone(j) /\ aDisk'[j] = "interrupted"
    BY <1>4 DEF Stop, OpenOrNone, RecordIsMemory, TypeOK, Statuses, TERMINAL
  <2>2. \A j \in Jobs \ S : aDisk'[j] = aDisk[j] BY <1>4 DEF Stop
  <2>3. AtWork' = AtWork BY <1>4 DEF Stop, AtWork, Live, Signalled, TypeOK
  <2>4. Service!Next BY <2>1, <2>2, <2>3, VerdictsSettle, S \in SUBSET Jobs DEF TERMINAL
  <2>5. QED BY <2>4
<1>5. CASE StopFails
  <2>1. PICK S \in SUBSET {j \in Jobs : aMem[j] \in {"queued", "running"}} :
           aDisk' = [j \in Jobs |-> IF j \in S THEN "interrupted" ELSE aDisk[j]]
    BY <1>5 DEF StopFails
  <2>2. \A j \in S : OpenOrNone(j) /\ aDisk'[j] = "interrupted"
    BY <1>5, <2>1 DEF StopFails, OpenOrNone, RecordIsMemory, TypeOK, Statuses, TERMINAL
  <2>3. \A j \in Jobs \ S : aDisk'[j] = aDisk[j] BY <2>1
  <2>4. AtWork' = AtWork BY <1>5 DEF StopFails, AtWork, Live
  <2>5. Service!Next BY <2>2, <2>3, <2>4, VerdictsSettle, S \in SUBSET Jobs DEF TERMINAL
  <2>6. QED BY <2>5
<1>6. CASE Stopped \/ Die
  <2>1. UNCHANGED aDisk /\ AtWork' = {} BY <1>6 DEF Stopped, Die, Gone, AtWork, Live
  <2>2. QED BY <2>1, EndsOrNone
<1>7. ASSUME NEW j \in Jobs, Submit(j) PROVE Service!Next \/ UNCHANGED <<OnRecord, AtWork>>
  <2>1. AtWork' = AtWork BY <1>7 DEF Submit, AtWork, Live
  <2>2. CASE UNCHANGED aDisk BY <2>1, <2>2, Stutters
  <2>3. CASE ~UNCHANGED aDisk
    <3>1. aDisk' = [aDisk EXCEPT ![j] = "queued"] BY <1>7, <2>3 DEF Submit, Written, TypeOK
    <3>2. aDisk'[j] = "queued" /\ \A k \in Jobs \ {j} : aDisk'[k] = aDisk[k] BY <3>1 DEF TypeOK
    <3>3. OpenOrNone(j) BY <1>7 DEF Submit, Ready, RecordIsMemory, OpenOrNone
    <3>4. QED BY <2>1, <3>2, <3>3, OpensOrStays
  <2>4. QED BY <2>2, <2>3
<1>8. ASSUME NEW j \in Jobs, Cancel(j) PROVE Service!Next \/ UNCHANGED <<OnRecord, AtWork>>
  <2>1. AtWork' = AtWork BY <1>8 DEF Cancel, AtWork, Live, Signalled, TypeOK
  <2>2. CASE UNCHANGED aDisk BY <2>1, <2>2, Stutters
  <2>3. CASE ~UNCHANGED aDisk
    <3>1. aDisk' = [aDisk EXCEPT ![j] = "cancelled"] BY <1>8, <2>3 DEF Cancel, Written, TypeOK
    <3>2. aDisk'[j] = "cancelled" /\ \A k \in Jobs \ {j} : aDisk'[k] = aDisk[k] BY <3>1 DEF TypeOK
    <3>3. OpenOrNone(j) BY <1>8 DEF Cancel, RecordIsMemory, OpenOrNone, TypeOK, Statuses, TERMINAL
    <3>4. Service!Next BY <2>1, <3>2, <3>3, VerdictsSettle, {j} \in SUBSET Jobs DEF TERMINAL
    <3>5. QED BY <3>4
  <2>4. QED BY <2>2, <2>3
<1>9. ASSUME NEW j \in Jobs, Exit(j) PROVE Service!Next \/ UNCHANGED <<OnRecord, AtWork>>
  <2>1. AtWork' = {} BY <1>9 DEF Exit, AtWork, Live, OneGenerator, TypeOK
  <2>2. QED BY <1>9, <2>1, EndsOrNone DEF Exit
<1>10. QED BY <1>1, <1>2, <1>3, <1>4, <1>5, <1>6, <1>7, <1>8, <1>9 DEF Next

(* The audio service implements the abstract one: one generator at a time, *)
(* verdicts that are final, and completion recorded after the work.        *)
THEOREM AudioImplements == Spec => IsJobService
<1>1. Init => Service!Init
  <2> SUFFICES ASSUME Init PROVE Service!Init OBVIOUS
  <2>1. OnRecord = [j \in Jobs |-> "none"] /\ AtWork = {} BY DEF Init, OnRecord, AtWork, Live
  <2>2. QED BY <2>1 DEF Service!Init
<1>2. AudioInv /\ AudioInv' /\ [Next]_vars => [Service!Next]_<<OnRecord, AtWork>>
  <2> SUFFICES ASSUME AudioInv, AudioInv', [Next]_vars PROVE Service!Next \/ UNCHANGED <<OnRecord, AtWork>>
    OBVIOUS
  <2>1. CASE Worker BY <2>1, WorkerSimulates
  <2>2. CASE Next /\ ~Worker BY <2>2, OthersSimulate
  <2>3. CASE UNCHANGED vars BY <2>3, Stutters DEF vars, AtWork, Live
  <2>4. QED BY <2>1, <2>2, <2>3
<1>3. QED BY <1>1, <1>2, AudioHolds, PTL DEF Spec, IsJobService, Service!Spec

-----------------------------------------------------------------------------
(* DeliverPR. A merge is of the head, which stays from then on. A delivery *)
(* that may merge has seen its commit green, and one that reconciles has   *)
(* seen it merged.                                                         *)
MergedIsHead ==
  /\ gState = "MERGED" => gMerged = gHead
  /\ gState # "MERGED" => gMerged = 0 /\ gBy = "nobody"
NewIsFresh ==
  \A d \in Commands :
    /\ dAt[d] = "new" => gBy # d
    /\ dAt[d] \in {"new", "preflight", "look", "merge", "verify"} => dDone[d] = 0
LookedFirst == \A d \in Commands : dAt[d] = "merge" => dHead[d] \in dGreen[d]
SawItMerged ==
  \A d \in Commands :
    /\ dAt[d] = "flux" => dDone[d] < Targets
    /\ dAt[d] = "flux" \/ dDone[d] > 0 => gState = "MERGED" /\ gMerged = dHead[d]
DeliverInv == D!TypeOK /\ MergedIsHead /\ NewIsFresh /\ LookedFirst /\ SawItMerged /\ D!ReviewedMerge

LEMMA DeliverInit == ASSUME D!DeliverAssumption, D!Init PROVE DeliverInv
BY DEF D!DeliverAssumption, D!Init, D!Commits, D!TypeOK, DeliverInv, MergedIsHead, NewIsFresh, LookedFirst,
       SawItMerged, D!ReviewedMerge

(* The delivery's own steps.                                               *)
LEMMA DeliverKeeps ==
  ASSUME D!DeliverAssumption, DeliverInv, NEW d \in Commands, D!Deliver(d)
  PROVE  DeliverInv'
<1> USE DEF D!DeliverAssumption, D!Goes, D!GitHub, D!Flags
<1>1. CASE D!ParseArgs(d)
  <2>1. D!TypeOK' BY <1>1 DEF D!ParseArgs, DeliverInv, D!TypeOK, D!Commits
  <2>2. QED BY <1>1, <2>1 DEF D!ParseArgs, DeliverInv, D!TypeOK, MergedIsHead, NewIsFresh, LookedFirst, SawItMerged, D!ReviewedMerge
<1>2. CASE D!Fails(d) \/ D!Preflight(d)
  BY <1>2 DEF D!Fails, D!Preflight, DeliverInv, D!TypeOK, MergedIsHead, NewIsFresh, LookedFirst, SawItMerged, D!ReviewedMerge
<1>3. CASE D!EnsureReady(d)
  <2>1. dGreen'[d] \in {dGreen[d], dGreen[d] \cup {gHead}} /\ \A e \in Commands \ {d} : dGreen'[e] = dGreen[e]
    BY <1>3 DEF D!EnsureReady, DeliverInv, D!TypeOK
  <2>2. dAt'[d] = "merge" => dHead[d] \in dGreen'[d]
    BY <1>3 DEF D!EnsureReady, D!Ready, D!CiBlocked, DeliverInv, D!TypeOK
  <2>3. D!TypeOK' BY <1>3, <2>1 DEF D!EnsureReady, DeliverInv, D!TypeOK
  <2>4. QED BY <1>3, <2>1, <2>2, <2>3 DEF D!EnsureReady, DeliverInv, D!TypeOK, MergedIsHead, NewIsFresh, LookedFirst, SawItMerged, D!ReviewedMerge
<1>4. CASE D!Merge(d)
  <2>1. CASE D!MergeLands(d)
    BY <1>4, <2>1 DEF D!Merge, D!MergeLands, D!Commits, DeliverInv, D!TypeOK, MergedIsHead, NewIsFresh, LookedFirst, SawItMerged, D!ReviewedMerge
  <2>2. CASE ~D!MergeLands(d)
    BY <1>4, <2>2 DEF D!Merge, DeliverInv, D!TypeOK, MergedIsHead, NewIsFresh, LookedFirst, SawItMerged, D!ReviewedMerge
  <2>3. QED BY <2>1, <2>2
<1>5. CASE D!EnsureMerged(d)
  BY <1>5 DEF D!EnsureMerged, D!Verified, DeliverInv, D!TypeOK, MergedIsHead, NewIsFresh, LookedFirst, SawItMerged, D!ReviewedMerge
<1>6. CASE D!Reconcile(d)
  BY <1>6 DEF D!Reconcile, DeliverInv, D!TypeOK, MergedIsHead, NewIsFresh, LookedFirst, SawItMerged, D!ReviewedMerge
<1>7. QED BY <1>1, <1>2, <1>3, <1>4, <1>5, <1>6 DEF D!Deliver

(* Everybody else's.                                                       *)
LEMMA WorldKeeps == ASSUME D!DeliverAssumption, DeliverInv, D!World PROVE DeliverInv'
<1> USE DEF D!DeliverAssumption, D!Flags
<1>1. CASE D!Push
  BY <1>1 DEF D!Push, D!Commits, DeliverInv, D!TypeOK, MergedIsHead, NewIsFresh, LookedFirst, SawItMerged, D!ReviewedMerge
<1>2. CASE D!OthersMerge
  BY <1>2 DEF D!OthersMerge, D!Commits, DeliverInv, D!TypeOK, MergedIsHead, NewIsFresh, LookedFirst, SawItMerged, D!ReviewedMerge
<1>3. CASE D!Close
  BY <1>3 DEF D!Close, DeliverInv, D!TypeOK, MergedIsHead, NewIsFresh, LookedFirst, SawItMerged, D!ReviewedMerge
<1>4. ASSUME NEW n \in Required, D!Report(n) \/ D!Rerun(n) PROVE DeliverInv'
  <2>1. PICK S \in SUBSET D!Outcomes : gItems' = [gItems EXCEPT ![gHead][n] = S]
    <3>1. CASE D!Report(n) BY <3>1 DEF D!Report
    <3>2. CASE D!Rerun(n)
      <4>1. PICK o \in D!Outcomes, kept \in {{}, gItems[gHead][n]} :
              gItems' = [gItems EXCEPT ![gHead][n] = kept \cup {o}]
        BY <3>2 DEF D!Rerun
      <4>2. gItems[gHead][n] \in SUBSET D!Outcomes BY DEF DeliverInv, D!TypeOK
      <4>3. QED BY <4>1, <4>2
    <3>3. QED BY <1>4, <3>1, <3>2
  <2>2. gItems' \in [D!Commits -> [Required -> SUBSET D!Outcomes]] BY <2>1 DEF DeliverInv, D!TypeOK
  <2>3. D!TypeOK' BY <1>4, <2>2 DEF D!Report, D!Rerun, DeliverInv, D!TypeOK
  <2>4. QED BY <1>4, <2>3 DEF D!Report, D!Rerun, DeliverInv, D!TypeOK, MergedIsHead, NewIsFresh, LookedFirst, SawItMerged, D!ReviewedMerge
<1>5. QED BY <1>1, <1>2, <1>3, <1>4 DEF D!World

LEMMA DeliverNext == ASSUME D!DeliverAssumption, DeliverInv, [D!Next]_(D!vars) PROVE DeliverInv'
<1>1. CASE UNCHANGED D!vars
  BY <1>1 DEF D!vars, DeliverInv, D!TypeOK, MergedIsHead, NewIsFresh, LookedFirst, SawItMerged, D!ReviewedMerge
<1>2. QED BY <1>1, DeliverKeeps, WorldKeeps DEF D!Next

(* However pushes, reruns and other merges fall between the looks and the  *)
(* merge: what is merged and what is reconciled was reviewed and green.    *)
THEOREM OnlyReviewedIsMerged == ASSUME D!DeliverAssumption PROVE D!Spec => []D!ReviewedMerge
<1>1. D!Init => DeliverInv BY DeliverInit
<1>2. DeliverInv /\ [D!Next]_(D!vars) => DeliverInv' BY DeliverNext
<1>3. DeliverInv => D!ReviewedMerge BY DEF DeliverInv
<1>4. QED BY <1>1, <1>2, <1>3, PTL DEF D!Spec

-----------------------------------------------------------------------------
(* BlenderDesktop. A start time is given once, so the process a handle was *)
(* opened on is the recorded one if the record is still alive after it.    *)
Calling == {"idle", "waits", "edits", "orphan", "loose", "done"}
Records == {B!Nil} \cup [pid : Pids, start : bOurs]
DesktopTypes ==
  /\ bClock \in Nat /\ bProc \in [Pids -> 0..bClock] /\ bOurs \subseteq 1..bClock
  /\ bFile \in [B!Parts -> Records] /\ bRt \in [B!Parts -> Records]
  /\ bStop \in [pc : {"no", "open", "check", "signal"}, part : B!Parts, fd : Nat]
  /\ bCall \in [Editors -> Calling] /\ bLock \in Editors \cup {"none"}
StopsAlone == bStop.pc # "no" => bSvc = "stopping"
HandleIsRecorded == bStop.pc \in {"check", "signal"} /\ B!Alive(B!Rec) => bStop.fd = B!Rec.start
SignalsOurs == bStop.pc = "signal" => bStop.fd \in bOurs
EditHasLock == \A c \in Editors : bCall[c] \in {"edits", "orphan"} => bLock = c

StopInv == StopsAlone /\ HandleIsRecorded /\ SignalsOurs
DesktopInv == DesktopTypes /\ StopInv /\ EditHasLock

LEMMA DesktopInit == ASSUME B!DesktopAssumption, B!Init PROVE DesktopInv
BY DEF B!DesktopAssumption, B!Init, B!NoState, B!NoStop, B!Parts, Records, DesktopInv, DesktopTypes, StopInv,
       StopsAlone, HandleIsRecorded, SignalsOurs, EditHasLock, Calling

(* A record that names a process is of an id and of a start of ours.       *)
LEMMA RecordShape ==
  ASSUME B!DesktopAssumption, DesktopTypes, NEW r \in Records
  PROVE  r = B!Nil \/ (r # B!Nil /\ r.pid \in Pids /\ r.start \in bOurs /\ r.start \in 1..bClock)
BY DEF Records, B!Nil, DesktopTypes, B!DesktopAssumption

(* A process starts under an id that was free, with a start time of its    *)
(* own: no record so far becomes alive by it.                              *)
LEMMA StartsFresh ==
  ASSUME B!DesktopAssumption, DesktopTypes, NEW q \in Pids, bClock' = bClock + 1,
         bProc' = [bProc EXCEPT ![q] = bClock'], NEW r \in Records, r # B!Nil, bProc'[r.pid] = r.start
  PROVE  bProc[r.pid] = r.start
<1>1. r.pid \in Pids /\ r.start \in 1..bClock BY RecordShape
<1>2. QED BY <1>1 DEF DesktopTypes

LEMMA SpawnKeeps ==
  ASSUME B!DesktopAssumption, DesktopTypes, NEW k \in B!Parts, NEW rt \in [B!Parts -> Records], B!Spawned(k, rt)
  PROVE  /\ bClock' \in Nat /\ bProc' \in [Pids -> 0..bClock'] /\ bOurs' \subseteq 1..bClock' /\ bOurs \subseteq bOurs'
         /\ Records \subseteq Records' /\ bRt' \in [B!Parts -> Records']
<1>1. PICK q \in Pids : /\ bClock' = bClock + 1 /\ bProc' = [bProc EXCEPT ![q] = bClock'] /\ bOurs' = bOurs \cup {bClock'}
                        /\ bRt' = [rt EXCEPT ![k] = [pid |-> q, start |-> bClock']]
  BY DEF B!Spawned
<1>2. Records \subseteq Records' BY <1>1 DEF Records
<1>3. [pid |-> q, start |-> bClock'] \in Records' BY <1>1 DEF Records
<1>4. bRt' \in [B!Parts -> Records'] BY <1>1, <1>2, <1>3
<1>5. QED BY <1>1, <1>2, <1>4 DEF DesktopTypes

(* The service.                                                            *)
ServiceStep ==
  \/ B!Start \/ B!StartRefused \/ B!NextDisplay \/ B!WriteState \/ B!StartBlender \/ B!BecomeReady
  \/ B!ShutDown

LEMMA ServiceKeeps ==
  ASSUME B!DesktopAssumption, DesktopInv, ServiceStep
  PROVE  DesktopInv'
<1> USE DEF DesktopInv
<1>1. B!NoState \in [B!Parts -> Records] BY DEF B!NoState, Records
<1>2. EditHasLock' BY DEF ServiceStep, B!Start, B!StartRefused, B!NextDisplay, B!WriteState,
                        B!StartBlender, B!BecomeReady, B!ShutDown, EditHasLock
<1>3. bStop.pc = "no" BY DEF ServiceStep, B!Start, B!StartRefused, B!NextDisplay, B!WriteState,
                             B!StartBlender, B!BecomeReady, B!ShutDown, StopInv, StopsAlone
<1>4. CASE B!ShutDown
  <2>1. bStop' = [pc |-> "open", part |-> "blender", fd |-> 0] BY <1>4 DEF B!ShutDown, B!NoStop
  <2>2. DesktopTypes' BY <1>4, <2>1 DEF B!ShutDown, DesktopTypes, B!Parts, Records
  <2>3. StopInv' BY <1>4, <2>1 DEF B!ShutDown, StopInv, StopsAlone, HandleIsRecorded, SignalsOurs
  <2>4. QED BY <1>2, <2>2, <2>3
<1>5. CASE ~B!ShutDown
  <2>1. bStop' = bStop BY <1>5 DEF ServiceStep, B!Start, B!StartRefused, B!NextDisplay,
          B!WriteState, B!StartBlender, B!BecomeReady
  <2>2. StopInv' BY <1>3, <2>1 DEF StopInv, StopsAlone, HandleIsRecorded, SignalsOurs
  <2>3. DesktopTypes'
    <3>1. CASE UNCHANGED <<bProc, bOurs, bClock>>
      <4>1. Records' = Records BY <3>1 DEF Records
      <4>2. bFile' \in [B!Parts -> Records] /\ bRt' \in [B!Parts -> Records]
        BY <1>1, <1>5, <3>1 DEF ServiceStep, B!Start, B!StartRefused, B!NextDisplay,
                B!WriteState, B!StartBlender, B!BecomeReady, B!Spawned, DesktopTypes
      <4>3. UNCHANGED <<bCall, bLock>> BY <1>5 DEF ServiceStep, B!Start, B!StartRefused, B!NextDisplay,
              B!WriteState, B!StartBlender, B!BecomeReady
      <4>4. QED BY <2>1, <3>1, <4>1, <4>2, <4>3 DEF DesktopTypes
    <3>2. CASE B!Spawned("xvfb", B!NoState) /\ UNCHANGED <<bFile, bCall, bLock>>
      <4>1. "xvfb" \in B!Parts BY DEF B!Parts
      <4>2. QED BY <1>1, <2>1, <3>2, <4>1, SpawnKeeps DEF DesktopTypes
    <3>3. CASE B!Spawned("blender", bRt) /\ UNCHANGED <<bFile, bCall, bLock>>
      <4>1. "blender" \in B!Parts /\ bRt \in [B!Parts -> Records] BY DEF B!Parts, DesktopTypes
      <4>2. QED BY <2>1, <3>3, <4>1, SpawnKeeps DEF DesktopTypes
    <3>4. CASE B!Spawned("xvfb", bRt) /\ UNCHANGED <<bFile, bCall, bLock>>
      <4>1. "xvfb" \in B!Parts /\ bRt \in [B!Parts -> Records] BY DEF B!Parts, DesktopTypes
      <4>2. QED BY <2>1, <3>4, <4>1, SpawnKeeps DEF DesktopTypes
    <3>5. QED BY <1>5, <3>1, <3>2, <3>3, <3>4 DEF ServiceStep, B!Start, B!StartRefused, B!NextDisplay,
            B!WriteState, B!StartBlender, B!BecomeReady
  <2>4. QED BY <1>2, <2>2, <2>3
<1>6. QED BY <1>4, <1>5

(* With the service its calls are gone.                                    *)
LEMMA CallsGone ==
  ASSUME DesktopInv, B!CallsEnd
  PROVE  bCall' \in [Editors -> Calling] /\ bLock' \in Editors \cup {"none"} /\ EditHasLock'
BY DEF DesktopInv, DesktopTypes, B!CallsEnd, EditHasLock, Calling

(* stop_process, and the death of the service.                             *)
LEMMA StopKeeps ==
  ASSUME B!DesktopAssumption, DesktopInv, B!Open \/ B!Check \/ B!Signal \/ B!Die
  PROVE  DesktopInv'
<1> USE DEF DesktopInv
<1>1. B!NoState \in [B!Parts -> Records] BY DEF B!NoState, Records
<1>2. Records' = Records BY DEF B!Open, B!Check, B!Signal, B!Die, Records
<1>3. bClock' = bClock /\ bOurs' = bOurs BY DEF B!Open, B!Check, B!Signal, B!Die
<1>4. bProc' \in [Pids -> 0..bClock] BY DEF B!Open, B!Check, B!Signal, B!Die, DesktopTypes
<1>5. B!Rec \in Records /\ bStop.part \in B!Parts BY DEF B!Rec, DesktopTypes
<1>6. CASE B!Die
  <2>1. B!CallsEnd BY <1>6 DEF B!Die
  <2>2. DesktopTypes' BY <1>1, <1>2, <1>3, <1>4, <1>6, <2>1, CallsGone DEF B!Die, DesktopTypes, B!NoStop, B!Parts
  <2>3. StopInv' BY <1>6 DEF B!Die, StopInv, StopsAlone, HandleIsRecorded, SignalsOurs, B!NoStop
  <2>4. QED BY <2>1, <2>2, <2>3, CallsGone
<1>7. CASE ~B!Die
  <2>1. bCall' \in [Editors -> Calling] /\ bLock' \in Editors \cup {"none"} /\ EditHasLock'
    <3>1. CASE B!CallsEnd BY <3>1, CallsGone
    <3>2. CASE UNCHANGED <<bCall, bLock>> BY <3>2 DEF EditHasLock, DesktopTypes
    <3>3. QED BY <1>7, <3>1, <3>2 DEF B!Open, B!Check, B!Signal, B!Stopped
  <2>2. EditHasLock' BY <2>1
  <2>3. CASE B!Stopped
    <3>1. /\ bStop' \in {B!NoStop, [pc |-> "open", part |-> "xvfb", fd |-> 0]}
          /\ (bFile' = bFile /\ bRt' = bRt) \/ (bFile' = B!NoState /\ bRt' = B!NoState)
          /\ bStop'.pc # "no" => bSvc' = bSvc /\ bStop.part = "blender"
      BY <2>3 DEF B!Stopped, B!NoStop
    <3>2. DesktopTypes' BY <1>1, <1>2, <1>3, <1>4, <2>1, <3>1 DEF DesktopTypes, B!NoStop, B!Parts
    <3>3. bStop.pc # "no" BY <1>7 DEF B!Open, B!Check, B!Signal
    <3>4. StopInv' BY <3>1, <3>3 DEF StopInv, StopsAlone, HandleIsRecorded, SignalsOurs, B!NoStop
    <3>5. QED BY <2>2, <3>2, <3>4
  <2>4. CASE ~B!Stopped
    <3>1. /\ UNCHANGED <<bFile, bRt, bSvc, bProc, bCall, bLock>> /\ bStop.pc \in {"open", "check"} /\ B!Rec # B!Nil
          /\ \/ bStop.pc = "open" /\ bStop' = [bStop EXCEPT !.pc = "check", !.fd = bProc[B!Rec.pid]]
             \/ bStop.pc = "check" /\ B!Alive(B!Rec) /\ bStop' = [bStop EXCEPT !.pc = "signal"]
      BY <1>7, <2>4 DEF B!Open, B!Check, B!Signal, B!Alive
    <3>2. B!Rec.pid \in Pids /\ B!Rec.start \in bOurs BY <1>5, <3>1, RecordShape
    <3>3. DesktopTypes'
      <4>1. bStop' \in [pc : {"no", "open", "check", "signal"}, part : B!Parts, fd : Nat]
        <5>1. bProc[B!Rec.pid] \in Nat BY <3>2 DEF DesktopTypes
        <5>2. bStop \in [pc : {"no", "open", "check", "signal"}, part : B!Parts, fd : Nat] BY DEF DesktopTypes
        <5>3. CASE bStop' = [bStop EXCEPT !.pc = "check", !.fd = bProc[B!Rec.pid]] BY <5>1, <5>2, <5>3
        <5>4. CASE bStop' = [bStop EXCEPT !.pc = "signal"] BY <5>2, <5>4
        <5>5. QED BY <3>1, <5>3, <5>4
      <4>2. QED BY <1>2, <1>3, <1>4, <2>1, <3>1, <4>1 DEF DesktopTypes
    <3>4. bStop'.part = bStop.part /\ B!Rec' = B!Rec BY <3>1 DEF B!Rec, DesktopTypes
    <3>5. StopsAlone' BY <3>1 DEF StopInv, StopsAlone
    <3>6. HandleIsRecorded'
      <4>1. CASE bStop.pc = "open"
        BY <3>1, <3>4, <4>1 DEF HandleIsRecorded, B!Alive, DesktopTypes
      <4>2. CASE bStop.pc = "check"
        BY <3>1, <3>4, <4>2 DEF StopInv, HandleIsRecorded, B!Alive, DesktopTypes
      <4>3. QED BY <3>1, <4>1, <4>2
    <3>7. SignalsOurs' BY <1>3, <3>1, <3>2 DEF StopInv, SignalsOurs, HandleIsRecorded, DesktopTypes
    <3>8. QED BY <2>2, <3>3, <3>5, <3>6, <3>7 DEF StopInv
  <2>5. QED BY <2>3, <2>4
<1>8. QED BY <1>6, <1>7

(* Editors and the other processes of the container.                       *)
LEMMA CallersKeep ==
  ASSUME B!DesktopAssumption, DesktopInv, NEW c \in Editors, B!Call(c) \/ B!Edit(c) \/ B!Cancel(c) \/ B!EditEnds(c)
  PROVE  DesktopInv'
<1>1. UNCHANGED <<bProc, bOurs, bClock, bFile, bRt, bSvc, bStop>> BY DEF B!Call, B!Edit, B!Cancel, B!EditEnds
<1>2. DesktopTypes' /\ EditHasLock'
  BY <1>1 DEF B!Call, B!Edit, B!Cancel, B!EditEnds, DesktopInv, DesktopTypes, EditHasLock, Records, Calling, B!DesktopAssumption
<1>3. StopInv' BY <1>1 DEF DesktopInv, StopInv, StopsAlone, HandleIsRecorded, SignalsOurs, B!Alive, B!Rec
<1>4. QED BY <1>2, <1>3 DEF DesktopInv

LEMMA ProcessesKeep ==
  ASSUME B!DesktopAssumption, DesktopInv, NEW q \in Pids, B!Exit(q) \/ B!Reuse(q)
  PROVE  DesktopInv'
<1> USE DEF DesktopInv
<1>1. UNCHANGED <<bOurs, bFile, bRt, bSvc, bStop, bCall, bLock>> BY DEF B!Exit, B!Reuse
<1>2. Records' = Records BY <1>1 DEF Records
<1>3. DesktopTypes' BY <1>1, <1>2 DEF B!Exit, B!Reuse, DesktopTypes
<1>4. B!Rec \in Records /\ B!Rec' = B!Rec BY <1>1 DEF B!Rec, DesktopTypes
<1>5. B!Alive(B!Rec)' => B!Alive(B!Rec)
  <2>1. CASE B!Exit(q)
    <3>1. B!Rec # B!Nil => B!Rec.pid \in Pids /\ B!Rec.start \in 1..bClock BY <1>4, RecordShape
    <3>2. QED BY <1>4, <2>1, <3>1 DEF B!Exit, B!Alive, DesktopTypes
  <2>2. CASE B!Reuse(q) BY <1>4, <2>2, StartsFresh DEF B!Reuse, B!Alive
  <2>3. QED BY <2>1, <2>2
<1>6. StopInv' BY <1>1, <1>4, <1>5 DEF StopInv, StopsAlone, HandleIsRecorded, SignalsOurs
<1>7. EditHasLock' BY <1>1 DEF EditHasLock
<1>8. QED BY <1>3, <1>6, <1>7

LEMMA DesktopNext == ASSUME B!DesktopAssumption, DesktopInv, [B!Next]_(B!vars) PROVE DesktopInv'
<1>1. CASE UNCHANGED B!vars
  BY <1>1 DEF B!vars, DesktopInv, DesktopTypes, Records, StopInv, StopsAlone, HandleIsRecorded, SignalsOurs,
              EditHasLock, B!Alive, B!Rec
<1>2. QED BY <1>1, ServiceKeeps, StopKeeps, CallersKeep, ProcessesKeep DEF B!Next, ServiceStep

(* An edit keeps the lock, and the others from the scene, to its end, even *)
(* when its caller was cancelled, unless that was cancelled a second time. *)
THEOREM EditsAreSerial == ASSUME B!DesktopAssumption PROVE B!Spec => []B!OneEdit
<1>1. B!Init => DesktopInv BY DesktopInit
<1>2. DesktopInv /\ [B!Next]_(B!vars) => DesktopInv' BY DesktopNext
<1>3. DesktopInv => B!OneEdit BY DEF DesktopInv, EditHasLock, B!OneEdit
<1>4. QED BY <1>1, <1>2, <1>3, PTL DEF B!Spec

LEMMA StopsOwn == ASSUME DesktopInv, [B!Next]_(B!vars) PROVE [B!EndsOwn]_(B!vars)
<1> SUFFICES ASSUME B!Next, NEW q \in Pids, bProc[q] \notin bOurs \cup {0}, bStop.pc = "signal", bStop' # bStop
             PROVE  bProc'[q] = bProc[q]
  BY DEF B!EndsOwn
<1>1. bSvc = "stopping" /\ bStop.fd \in bOurs BY DEF DesktopInv, StopInv, StopsAlone, SignalsOurs
<1>2. CASE B!Signal BY <1>1, <1>2 DEF B!Signal
<1>3. CASE B!Die BY <1>3 DEF B!Die
<1>4. ASSUME ~B!Signal, ~B!Die PROVE FALSE
  BY <1>1, <1>4 DEF B!Next, B!Start, B!StartRefused, B!NextDisplay, B!WriteState, B!StartBlender, B!BecomeReady, B!ShutDown, B!Open, B!Check,
                    B!Call, B!Edit, B!Cancel, B!EditEnds, B!Exit, B!Reuse
<1>5. QED BY <1>2, <1>3, <1>4

(* A stop signals only processes this worker started, however ids are      *)
(* reused under it.                                                        *)
THEOREM OnlyOursAreStopped == ASSUME B!DesktopAssumption PROVE B!Spec => B!OthersSurvive
<1>1. B!Init => DesktopInv BY DesktopInit
<1>2. DesktopInv /\ [B!Next]_(B!vars) => DesktopInv' BY DesktopNext
<1>3. DesktopInv /\ [B!Next]_(B!vars) => [B!EndsOwn]_(B!vars) BY StopsOwn
<1>4. QED BY <1>1, <1>2, <1>3, PTL DEF B!Spec, B!OthersSurvive

-----------------------------------------------------------------------------
(* IntentLedger. One caller at most holds the advice to read a slot, and   *)
(* the file has that slot pending.                                         *)
Has(c) == lCall[c].at # "idle"
HeldIsPending == \A c \in Callers : Has(c) => lSlot[lCall[c].slot] = "pending"
HeldByOne ==
  \A c, d \in Callers : c # d /\ Has(c) /\ Has(d) => lCall[c].slot # lCall[d].slot
AdvisedIsUnread == \A c \in Callers : lCall[c].at = "advised" => lReads[lCall[c].slot] = 0

(* What the metrics are read on: the proof of now, of the selected route,  *)
(* and a transport that ends in time for it.                               *)
SelectedFirst == lBranch # "none" => lSel \in Allowed
MetricsProven ==
  \A c \in Callers : Has(c) /\ lCall[c].slot = "metrics" =>
    /\ lSlot["revalidation"] = "success" /\ lBranch # "none" /\ lProof["revalidation"].route = lSel
    /\ lCall[c].at = "advised" => lCall[c].until <= lProof["revalidation"].from + Guard
    /\ lCall[c].at = "reading" => lCall[c].from + Budget <= lProof["revalidation"].from + Guard
ReadsInTime == \A c \in Callers : lCall[c].at = "reading" => lNow <= lCall[c].from + Budget

(* The turn's end and the loss of the owner cannot be resolved.            *)
EndedIsOpen == \A i \in DOMAIN lBlockers : lBlockers[i].kind # "recoverable" => lBlockers[i].open

SpendInv == HeldIsPending /\ HeldByOne /\ AdvisedIsUnread /\ L!SpentOnce
ProofInv ==
  /\ SelectedFirst /\ MetricsProven /\ ReadsInTime /\ L!MetricsBacked /\ L!CleanHolds /\ EndedIsOpen
LedgerInv == L!TypeOK /\ SpendInv /\ ProofInv

LEMMA LedgerInit == ASSUME L!LedgerAssumption, L!Init PROVE LedgerInv
<1> USE DEF L!LedgerAssumption, L!Init
<1>1. L!TypeOK
  <2>1. lBlockers \in Seq([kind : {"recoverable", "turn-end", "lost-owner"}, open : BOOLEAN]) OBVIOUS
  <2>2. lProof \in [{"discovery", "revalidation"} -> [from : Nat, to : Nat, route : Routes \cup {L!NoRoute}]]
    OBVIOUS
  <2>3. lCall \in [Callers -> L!Calls] BY DEF L!Calls
  <2>4. lNow \in 1..MaxNow /\ lLast \in 1..MaxNow /\ lFaults \in 0..LedgerFaults OBVIOUS
  <2>5. QED BY <2>1, <2>2, <2>3, <2>4 DEF L!TypeOK
<1>2. \A c \in Callers : lCall[c].at = "idle" BY DEF L!Idle
<1>3. SpendInv BY <1>2 DEF SpendInv, Has, HeldIsPending, HeldByOne, AdvisedIsUnread, L!SpentOnce
<1>4. ProofInv
  BY <1>2 DEF ProofInv, Has, SelectedFirst, MetricsProven, ReadsInTime, L!MetricsBacked, L!CleanHolds, EndedIsOpen,
              L!Consumed, L!Slots
<1>5. QED BY <1>1, <1>3, <1>4 DEF LedgerInv

(* A caller's record by where it is.                                       *)
LEMMA CallShape ==
  ASSUME L!TypeOK, NEW c \in Callers
  PROVE  /\ lCall[c].at \in {"idle", "advised", "reading", "answered"}
         /\ Has(c) => lCall[c].slot \in L!Slots
         /\ lCall[c].at = "advised" => lCall[c].until \in Nat
         /\ lCall[c].at = "reading" => lCall[c].from \in Nat
         /\ lCall[c].at = "answered" => /\ lCall[c].from \in Nat /\ lCall[c].to \in Nat
                                        /\ lCall[c].route \in Routes /\ lCall[c].ok \in BOOLEAN
<1>1. lCall[c] \in L!Calls BY DEF L!TypeOK
<1>2. QED BY <1>1 DEF L!Calls, L!Idle, Has

-----------------------------------------------------------------------------
(* Steps that leave the reads alone.                                       *)
NoRead == UNCHANGED <<lNow, lReads, lCall, lSlot, lProof>>

LEMMA SpendKept == ASSUME SpendInv, NoRead PROVE SpendInv'
BY DEF NoRead, SpendInv, Has, HeldIsPending, HeldByOne, AdvisedIsUnread, L!SpentOnce, L!Consumed

(* Steps that keep the delivery once something was revalidated, and the    *)
(* selected route.                                                         *)
DeliveryStands ==
  /\ lSlot["revalidation"] # "free" /\ L!Delivered => L!Delivered'
  /\ lBranch # "none" => lBranch' # "none" /\ lSel' = lSel
  /\ lBranch' # "none" => lSel' \in Allowed

LEMMA BackingKept ==
  ASSUME L!TypeOK, ProofInv, NoRead, DeliveryStands
  PROVE  SelectedFirst' /\ MetricsProven' /\ ReadsInTime' /\ L!MetricsBacked'
<1> USE DEF ProofInv, NoRead, DeliveryStands
<1>1. SelectedFirst' BY DEF SelectedFirst
<1>2. MetricsProven' BY DEF MetricsProven, Has
<1>3. ReadsInTime' BY DEF ReadsInTime
<1>4. L!MetricsBacked' BY <1>1, <1>2 DEF L!MetricsBacked, L!Consumed, MetricsProven, SelectedFirst, Has
<1>5. QED BY <1>1, <1>2, <1>3, <1>4

(* The commands that read nothing.                                         *)
Quiet(now) ==
  \/ L!ReserveCleanup(now) \/ L!PrepareCandidate(now) \/ L!SelectCandidate(now) \/ L!RecordMerge(now)
  \/ L!ObserveDelivery(now) \/ L!RecordBlocker(now) \/ L!ResolveBlocker(now) \/ L!Residual(now)
  \/ L!EvaluateClean(now) \/ \E c \in Callers, s \in L!Slots : L!Replay(c, now, s)

LEMMA QuietReads == ASSUME NEW now, Quiet(now) PROVE NoRead
BY DEF Quiet, NoRead, L!ReserveCleanup, L!PrepareCandidate, L!SelectCandidate, L!RecordMerge, L!ObserveDelivery,
       L!RecordBlocker, L!ResolveBlocker, L!Residual, L!EvaluateClean, L!Replay, L!Cas, L!NormalStage, L!World, L!Spent

LEMMA CasTyped ==
  ASSUME L!LedgerAssumption, L!TypeOK, NEW now \in lLast..lNow, L!Cas(now)
  PROVE  lNow' \in 1..MaxNow /\ lLast' \in 1..MaxNow /\ lRoute' \in Routes /\ lFaults' \in 0..LedgerFaults
         /\ lReads' \in [L!Slots -> Nat]
BY DEF L!LedgerAssumption, L!TypeOK, L!Cas, L!World

LEMMA QuietTyped ==
  ASSUME L!LedgerAssumption, L!TypeOK, NEW now \in lLast..lNow, Quiet(now)
  PROVE  L!TypeOK'
<1> USE DEF L!Choice, L!Delivery, L!Spent, L!Residue
<1> DEFINE Sorts == {"recoverable", "turn-end", "lost-owner"}
<1>1. CASE L!ReserveCleanup(now)
  BY <1>1, CasTyped DEF L!ReserveCleanup, L!TypeOK
<1>2. CASE L!PrepareCandidate(now)
  BY <1>2, CasTyped DEF L!PrepareCandidate, L!NormalStage, L!TypeOK
<1>3. CASE L!SelectCandidate(now)
  <2>1. lProof["discovery"].route \in Allowed /\ Allowed \subseteq Routes
    BY <1>3 DEF L!SelectCandidate, L!Matches, L!LedgerAssumption
  <2>2. lHead' \in Heads \cup {"none"} /\ lBranch' \in {"none", "existing", "new"}
    BY <1>3 DEF L!SelectCandidate, L!TypeOK
  <2>3. QED BY <1>3, <2>1, <2>2, CasTyped DEF L!SelectCandidate, L!NormalStage, L!TypeOK
<1>4. CASE L!RecordMerge(now)
  BY <1>4, CasTyped DEF L!RecordMerge, L!NormalStage, L!TypeOK
<1>5. CASE L!ObserveDelivery(now)
  BY <1>5, CasTyped DEF L!ObserveDelivery, L!NormalStage, L!TypeOK
<1>6. CASE L!RecordBlocker(now)
  <2>1. PICK k \in Sorts : lBlockers' = Append(lBlockers, [kind |-> k, open |-> TRUE])
    BY <1>6 DEF L!RecordBlocker
  <2>2. lBlockers' \in Seq([kind : Sorts, open : BOOLEAN]) BY <2>1 DEF L!TypeOK
  <2>3. QED BY <1>6, <2>2, CasTyped DEF L!RecordBlocker, L!TypeOK
<1>7. CASE L!ResolveBlocker(now)
  <2>1. PICK i \in DOMAIN lBlockers : lBlockers' = [lBlockers EXCEPT ![i].open = FALSE]
    BY <1>7 DEF L!ResolveBlocker
  <2> DEFINE e == [lBlockers[i] EXCEPT !.open = FALSE]
  <2>2. lBlockers \in Seq([kind : Sorts, open : BOOLEAN]) /\ i \in 1..Len(lBlockers) BY DEF L!TypeOK
  <2>3. e \in [kind : Sorts, open : BOOLEAN]
    <3>1. lBlockers[i] \in [kind : Sorts, open : BOOLEAN] BY <2>2, ElementOfSeq
    <3>2. QED BY <3>1
  <2>4. lBlockers' = [lBlockers EXCEPT ![i] = e] BY <2>1
  <2>5. lBlockers' \in Seq([kind : Sorts, open : BOOLEAN]) BY <2>2, <2>3, <2>4, ExceptSeq
  <2>6. QED BY <1>7, <2>5, CasTyped DEF L!ResolveBlocker, L!TypeOK
<1>8. CASE L!Residual(now)
  <2>1. lGrant' \in [Grants -> {"unlisted", "active", "gone"}] BY <1>8 DEF L!Residual, L!TypeOK
  <2>2. QED BY <1>8, <2>1, CasTyped DEF L!Residual, L!TypeOK
<1>9. CASE L!EvaluateClean(now)
  <2>1. lClean' \in BOOLEAN BY <1>9 DEF L!EvaluateClean
  <2>2. QED BY <1>9, <2>1, CasTyped DEF L!EvaluateClean, L!TypeOK
<1>10. ASSUME NEW c \in Callers, NEW s \in L!Slots, L!Replay(c, now, s) PROVE L!TypeOK'
  BY <1>10, CasTyped DEF L!Replay, L!TypeOK
<1>11. QED BY <1>1, <1>2, <1>3, <1>4, <1>5, <1>6, <1>7, <1>8, <1>9, <1>10 DEF Quiet

(* Only the delivery of a route is observed again, and before it is        *)
(* revalidated.                                                            *)
LEMMA QuietDelivers ==
  ASSUME L!TypeOK, ProofInv, NEW now, Quiet(now)
  PROVE  DeliveryStands
<1> USE DEF L!Choice, L!Delivery, L!Delivered, L!Consumed, DeliveryStands, ProofInv, SelectedFirst
<1>1. CASE UNCHANGED <<lBranch, lSel, lMerged, lReady>>
  BY <1>1
<1>2. CASE L!SelectCandidate(now)
  BY <1>2 DEF L!SelectCandidate, L!Matches
<1>3. CASE L!RecordMerge(now)
  BY <1>3 DEF L!RecordMerge
<1>4. CASE L!ObserveDelivery(now)
  BY <1>4 DEF L!ObserveDelivery, L!Slots
<1>5. QED
  BY <1>1, <1>2, <1>3, <1>4
  DEF Quiet, L!ReserveCleanup, L!PrepareCandidate, L!RecordBlocker, L!ResolveBlocker, L!Residual, L!EvaluateClean, L!Replay

LEMMA QuietRest ==
  ASSUME L!TypeOK, ProofInv, NEW now, Quiet(now)
  PROVE  L!CleanHolds' /\ EndedIsOpen'
<1> USE DEF L!Residue, ProofInv
<1>1. L!CleanHolds'
  <2>1. CASE L!Residual(now) BY <2>1 DEF L!Residual, L!CleanHolds
  <2>2. CASE L!EvaluateClean(now)
    <3>1. lGrant' = lGrant /\ (lClean' = FALSE \/ lClean' = (\A g \in Grants : lGrant[g] # "active"))
      BY <2>2 DEF L!EvaluateClean
    <3>2. QED BY <3>1 DEF L!CleanHolds
  <2>3. CASE lGrant' = lGrant /\ lClean' \in {FALSE, lClean} BY <2>3 DEF L!CleanHolds
  <2>4. QED
    BY <2>1, <2>2, <2>3
    DEF Quiet, L!ReserveCleanup, L!PrepareCandidate, L!SelectCandidate, L!RecordMerge, L!ObserveDelivery,
        L!RecordBlocker, L!ResolveBlocker, L!Replay, L!NormalStage
<1>2. EndedIsOpen'
  <2>1. CASE L!RecordBlocker(now)
    <3>1. PICK k : lBlockers' = Append(lBlockers, [kind |-> k, open |-> TRUE])
      BY <2>1 DEF L!RecordBlocker
    <3>2. QED BY <3>1 DEF L!TypeOK, EndedIsOpen
  <2>2. CASE L!ResolveBlocker(now) BY <2>2 DEF L!ResolveBlocker, L!TypeOK, EndedIsOpen
  <2>3. CASE lBlockers' = lBlockers BY <2>3 DEF EndedIsOpen
  <2>4. QED
    BY <2>1, <2>2, <2>3
    DEF Quiet, L!ReserveCleanup, L!PrepareCandidate, L!SelectCandidate, L!RecordMerge, L!ObserveDelivery,
        L!Residual, L!EvaluateClean, L!Replay
<1>3. QED BY <1>1, <1>2

LEMMA QuietKeeps ==
  ASSUME L!LedgerAssumption, LedgerInv, NEW now \in lLast..lNow, Quiet(now)
  PROVE  LedgerInv'
<1>1. NoRead BY QuietReads
<1>2. L!TypeOK' BY QuietTyped DEF LedgerInv
<1>3. SpendInv' BY <1>1, SpendKept DEF LedgerInv
<1>4. DeliveryStands BY QuietDelivers DEF LedgerInv
<1>5. ProofInv' BY <1>1, <1>4, BackingKept, QuietRest DEF LedgerInv, ProofInv
<1>6. QED BY <1>2, <1>3, <1>5 DEF LedgerInv

-----------------------------------------------------------------------------
(* admit: what is spent was free, and whom it is spent for holds nothing.  *)
LEMMA AdmitKeeps ==
  ASSUME L!LedgerAssumption, LedgerInv, NEW c \in Callers, NEW s \in L!Slots, NEW now \in lLast..lNow,
         L!Admit(c, now, s)
  PROVE  LedgerInv'
<1> USE DEF L!Choice, L!Delivery, L!Residue, L!World
<1>1. PICK decision \in {"admit", "denied"} :
        LET dispatch == decision = "admit" /\ (s = "metrics" => L!Proven(now)) IN
        /\ lSlot' = [lSlot EXCEPT ![s] = IF dispatch THEN "pending" ELSE "held"]
        /\ IF dispatch THEN L!Advise(c, s, IF s = "metrics" THEN L!TransportDeadline ELSE MaxNow)
                       ELSE UNCHANGED lCall
  BY DEF L!Admit
<1> DEFINE dispatch == decision = "admit" /\ (s = "metrics" => L!Proven(now))
           until == IF s = "metrics" THEN L!TransportDeadline ELSE MaxNow
<1>2. /\ L!Cas(now) /\ L!OwnerThere /\ L!Unblocked /\ L!Reserved(now, Budget) /\ lClean' = FALSE
      /\ lSlot[s] = "free" /\ L!MayAdmit(s) /\ lReads' = lReads /\ lNow' = lNow
      /\ UNCHANGED <<lPlan, lCands, lBranch, lSel, lHead, lMerged, lReady, lProof, lBlockers, lGrant>>
  BY DEF L!Admit, L!NormalStage, L!Consumed, L!Cas
<1>3. lSlot'[s] \in {"pending", "held"} /\ \A r \in L!Slots \ {s} : lSlot'[r] = lSlot[r]
  BY <1>1 DEF LedgerInv, L!TypeOK
<1>4. {"revalidation", "metrics"} \subseteq L!Slots /\ {"revalidation", "metrics"} \cap L!DiscoverySlots = {}
  BY DEF L!Slots, L!LedgerAssumption
<1>5. \A d \in Callers : Has(d) => lCall[d].slot # s
  BY <1>2 DEF LedgerInv, SpendInv, HeldIsPending
<1>6. L!SpentOnce' BY <1>2, <1>3 DEF LedgerInv, SpendInv, L!SpentOnce, L!Consumed
<1>7. L!Consumed("revalidation")' => L!Delivered'
  <2>1. s = "revalidation" => L!Delivered BY <1>2, <1>4 DEF L!MayAdmit
  <2>2. s # "revalidation" /\ L!Consumed("revalidation")' => L!Delivered
    BY <1>3, <1>4 DEF LedgerInv, ProofInv, L!MetricsBacked, L!Consumed
  <2>3. L!Delivered' = L!Delivered BY <1>2 DEF L!Delivered
  <2>4. QED BY <2>1, <2>2, <2>3
<1>8. SelectedFirst' /\ L!CleanHolds' /\ EndedIsOpen'
  BY <1>2 DEF LedgerInv, ProofInv, SelectedFirst, L!CleanHolds, EndedIsOpen
<1>9. \A d \in Callers : Has(d) /\ lCall[d].slot = "metrics" => s # "revalidation"
  BY <1>2 DEF LedgerInv, ProofInv, MetricsProven
<1>10. lSlot' \in [L!Slots -> {"free", "pending", "held", "success", "other"}]
  BY <1>1 DEF LedgerInv, L!TypeOK
<1>11. CASE ~dispatch
  <2>1. lCall' = lCall BY <1>1, <1>11
  <2>2. L!TypeOK' BY <1>2, <1>10, <2>1, CasTyped DEF LedgerInv, L!TypeOK
  <2>3. HeldIsPending' BY <1>3, <1>5, <2>1, CallShape DEF LedgerInv, SpendInv, HeldIsPending, Has
  <2>4. HeldByOne' /\ AdvisedIsUnread'
    BY <1>2, <2>1 DEF LedgerInv, SpendInv, HeldByOne, AdvisedIsUnread, Has
  <2>5. MetricsProven' /\ ReadsInTime'
    BY <1>2, <1>3, <1>4, <1>9, <2>1 DEF LedgerInv, ProofInv, MetricsProven, ReadsInTime, Has
  <2>6. L!MetricsBacked'
    BY <1>2, <1>7, <2>1 DEF LedgerInv, ProofInv, L!MetricsBacked
  <2>7. QED BY <1>6, <1>8, <2>2, <2>3, <2>4, <2>5, <2>6 DEF LedgerInv, SpendInv, ProofInv
<1>12. CASE dispatch
  <2>1. lCall[c].at = "idle" /\ lCall' = [lCall EXCEPT ![c] = [at |-> "advised", slot |-> s, until |-> until]]
    BY <1>1, <1>12 DEF L!Advise
  <2>2. lCall'[c] = [at |-> "advised", slot |-> s, until |-> until] /\ \A d \in Callers \ {c} : lCall'[d] = lCall[d]
    BY <2>1 DEF LedgerInv, L!TypeOK
  <2>3. lSlot'[s] = "pending" BY <1>1, <1>12 DEF LedgerInv, L!TypeOK
  <2> DEFINE p == lProof["revalidation"]
  <2>4. p.from \in Nat /\ lPlan.deadline \in Nat /\ lPlan.reserve \in Nat
    BY DEF LedgerInv, L!TypeOK, L!LedgerAssumption
  <2>5. Guard \in Nat /\ Budget \in Nat /\ MaxNow \in Nat /\ now \in Nat /\ lNow \in Nat
    BY DEF LedgerInv, L!TypeOK, L!LedgerAssumption
  <2>6. until \in Nat /\ (s = "metrics" => until <= p.from + Guard)
    BY <1>2, <2>4, <2>5 DEF L!TransportDeadline, L!ProofDeadline, L!Min2, L!Reserved
  <2>7. L!TypeOK'
    <3>1. lCall' \in [Callers -> L!Calls] BY <2>1, <2>6 DEF LedgerInv, L!TypeOK, L!Calls
    <3>2. QED BY <1>2, <1>10, <3>1, CasTyped DEF LedgerInv, L!TypeOK
  <2>8. SpendInv'
    <3>1. HeldIsPending' BY <1>3, <1>5, <2>2, <2>3, CallShape DEF LedgerInv, SpendInv, HeldIsPending, Has
    <3>2. HeldByOne' BY <1>5, <2>2 DEF LedgerInv, SpendInv, HeldByOne, Has
    <3>3. lReads[s] = 0 BY <1>2 DEF LedgerInv, SpendInv, L!SpentOnce, L!Consumed, L!TypeOK
    <3>4. AdvisedIsUnread' BY <1>2, <2>2, <3>3 DEF LedgerInv, SpendInv, AdvisedIsUnread
    <3>5. QED BY <1>6, <3>1, <3>2, <3>4 DEF SpendInv
  <2>9. s = "metrics" => lSlot["revalidation"] = "success" /\ lBranch # "none" /\ p.route = lSel
    <3> SUFFICES ASSUME s = "metrics" PROVE lSlot["revalidation"] = "success" /\ lBranch # "none" /\ p.route = lSel
      OBVIOUS
    <3>1. lSlot["revalidation"] = "success" /\ lBranch # "none"
      BY <1>2, <1>4 DEF L!MayAdmit, L!Successful, L!Delivered
    <3>2. p.route = lRoute /\ lSel \in {L!NoRoute, lRoute} BY <1>12 DEF L!Proven, L!Matches
    <3>3. lSel # L!NoRoute BY <3>1 DEF LedgerInv, ProofInv, SelectedFirst, L!LedgerAssumption
    <3>4. QED BY <3>1, <3>2, <3>3
  <2>10. MetricsProven'
    BY <1>2, <1>3, <1>4, <1>9, <2>2, <2>6, <2>9 DEF LedgerInv, ProofInv, MetricsProven, Has
  <2>11. ReadsInTime' BY <1>2, <2>2 DEF LedgerInv, ProofInv, ReadsInTime
  <2>12. L!MetricsBacked' BY <1>2, <1>7, <2>2 DEF LedgerInv, ProofInv, L!MetricsBacked
  <2>13. QED BY <1>8, <2>7, <2>8, <2>10, <2>11, <2>12 DEF LedgerInv, ProofInv
<1>13. QED BY <1>11, <1>12

(* record_outcome: the metrics are not read on while it is the             *)
(* revalidation that is recorded.                                          *)
LEMMA OutcomeKeeps ==
  ASSUME L!LedgerAssumption, LedgerInv, NEW c \in Callers, NEW now \in lLast..lNow, L!RecordOutcome(c, now)
  PROVE  LedgerInv'
<1> USE DEF L!Choice, L!Delivery, L!Residue, L!World
<1> DEFINE r == lCall[c]
<1>1. /\ r.at = "answered" /\ L!Cas(now) /\ lSlot[r.slot] = "pending" /\ lReads' = lReads /\ lNow' = lNow
      /\ lSlot' = [lSlot EXCEPT ![r.slot] = IF r.ok THEN "success" ELSE "other"]
      /\ lCall' = [lCall EXCEPT ![c] = L!Idle]
      /\ UNCHANGED <<lPlan, lCands, lBranch, lSel, lHead, lMerged, lReady, lBlockers, lGrant, lClean>>
  BY DEF L!RecordOutcome, L!Cas
<1>2. r.slot \in L!Slots /\ lSlot'[r.slot] \in {"success", "other"} /\ \A s \in L!Slots \ {r.slot} : lSlot'[s] = lSlot[s]
  BY <1>1, CallShape DEF LedgerInv, L!TypeOK, Has
<1>3. lCall'[c].at = "idle" /\ \A d \in Callers \ {c} : lCall'[d] = lCall[d]
  BY <1>1 DEF LedgerInv, L!TypeOK, L!Idle
<1>4. lProof'["revalidation"] = lProof["revalidation"] \/ r.slot = "revalidation"
  BY DEF L!RecordOutcome, LedgerInv, L!TypeOK
<1>5. L!TypeOK'
  <2> DEFINE Proofs == [from : Nat, to : Nat, route : Routes \cup {L!NoRoute}]
             proof == [from |-> r.from, to |-> r.to, route |-> r.route]
  <2>1. proof \in Proofs BY <1>1, CallShape DEF LedgerInv
  <2>2. \/ lProof' = lProof \/ lProof' = [lProof EXCEPT !["discovery"] = proof]
        \/ lProof' = [lProof EXCEPT !["revalidation"] = proof]
    BY DEF L!RecordOutcome
  <2>3. lProof \in [{"discovery", "revalidation"} -> Proofs] BY DEF LedgerInv, L!TypeOK
  <2> HIDE DEF Proofs, proof
  <2>4. lProof' \in [{"discovery", "revalidation"} -> Proofs] BY <2>1, <2>2, <2>3
  <2> USE DEF Proofs
  <2>5. lSlot' \in [L!Slots -> {"free", "pending", "held", "success", "other"}]
    BY <1>1 DEF LedgerInv, L!TypeOK
  <2>6. lCall' \in [Callers -> L!Calls] BY <1>1 DEF LedgerInv, L!TypeOK, L!Calls
  <2>7. QED BY <1>1, <2>4, <2>5, <2>6, CasTyped DEF LedgerInv, L!TypeOK
<1>6. SpendInv'
  <2>1. \A d \in Callers \ {c} : Has(d) => lCall[d].slot # r.slot
    BY <1>1 DEF LedgerInv, SpendInv, HeldByOne, Has
  <2>2. HeldIsPending' BY <1>2, <1>3, <2>1, CallShape DEF LedgerInv, SpendInv, HeldIsPending, Has
  <2>3. HeldByOne' /\ AdvisedIsUnread'
    BY <1>1, <1>3 DEF LedgerInv, SpendInv, HeldByOne, AdvisedIsUnread, Has
  <2>4. L!SpentOnce' BY <1>1, <1>2 DEF LedgerInv, SpendInv, L!SpentOnce, L!Consumed
  <2>5. QED BY <2>2, <2>3, <2>4 DEF SpendInv
<1>7. \A d \in Callers : Has(d) /\ lCall[d].slot = "metrics" => r.slot # "revalidation"
  BY <1>1 DEF LedgerInv, ProofInv, MetricsProven
<1>8. MetricsProven' /\ ReadsInTime'
  <2>1. "revalidation" \in L!Slots BY DEF L!Slots
  <2>2. QED BY <1>1, <1>2, <1>3, <1>4, <1>7, <2>1 DEF LedgerInv, ProofInv, MetricsProven, ReadsInTime, Has
<1>9. L!MetricsBacked'
  <2>1. "revalidation" \in L!Slots BY DEF L!Slots
  <2>2. L!Consumed("revalidation")' => L!Consumed("revalidation") BY <1>1, <1>2, <2>1 DEF L!Consumed
  <2>3. L!Delivered' = L!Delivered BY <1>1 DEF L!Delivered
  <2>4. QED BY <1>1, <1>3, <1>4, <1>7, <2>2, <2>3 DEF LedgerInv, ProofInv, L!MetricsBacked, Has
<1>10. SelectedFirst' /\ L!CleanHolds' /\ EndedIsOpen'
  BY <1>1 DEF LedgerInv, ProofInv, SelectedFirst, L!CleanHolds, EndedIsOpen
<1>11. QED BY <1>5, <1>6, <1>8, <1>9, <1>10 DEF LedgerInv, ProofInv

(* What the callers and the world do between commands.                     *)
LEMMA ReadKeeps ==
  ASSUME L!LedgerAssumption, LedgerInv, NEW c \in Callers, L!Read(c)
  PROVE  LedgerInv'
<1> USE DEF L!File, L!Choice, L!Delivery, L!Spent, L!Residue
<1> DEFINE s == lCall[c].slot
           call == [at |-> "reading", slot |-> s, from |-> lNow]
<1>1. /\ lCall[c].at = "advised" /\ lNow + Budget <= lCall[c].until /\ s \in L!Slots /\ lReads[s] = 0
      /\ lReads' = [lReads EXCEPT ![s] = @ + 1] /\ lCall' = [lCall EXCEPT ![c] = call]
      /\ UNCHANGED <<lNow, lRoute, lFaults, lLast, lPlan, lCands, lBranch, lSel, lHead, lMerged, lReady, lSlot,
                      lProof, lBlockers, lGrant, lClean>>
  BY CallShape DEF L!Read, LedgerInv, SpendInv, AdvisedIsUnread, Has
<1>2. lCall'[c] = call /\ \A d \in Callers \ {c} : lCall'[d] = lCall[d] BY <1>1 DEF LedgerInv, L!TypeOK
<1>3. lReads'[s] = 1 /\ \A r \in L!Slots \ {s} : lReads'[r] = lReads[r] BY <1>1 DEF LedgerInv, L!TypeOK
<1>4. lNow \in Nat /\ Budget \in Nat /\ Guard \in Nat /\ lProof["revalidation"].from \in Nat /\ lCall[c].until \in Nat
  BY <1>1, CallShape, SMTT(30) DEF LedgerInv, L!TypeOK, L!LedgerAssumption
<1>5. L!TypeOK'
  <2>1. lReads' \in [L!Slots -> Nat] BY <1>1 DEF LedgerInv, L!TypeOK
  <2>2. lCall' \in [Callers -> L!Calls] BY <1>1, <1>4 DEF LedgerInv, L!TypeOK, L!Calls
  <2>3. QED BY <1>1, <2>1, <2>2 DEF LedgerInv, L!TypeOK
<1>6. SpendInv'
  <2>1. \A d \in Callers : Has(d)' = Has(d) /\ (Has(d) => lCall'[d].slot = lCall[d].slot)
    BY <1>1, <1>2 DEF Has
  <2>2. HeldIsPending' /\ HeldByOne' BY <1>1, <2>1 DEF LedgerInv, SpendInv, HeldIsPending, HeldByOne
  <2>3. \A d \in Callers \ {c} : Has(d) => lCall[d].slot # s
    BY <1>1 DEF LedgerInv, SpendInv, HeldByOne, Has
  <2>4. AdvisedIsUnread'
    BY <1>2, <1>3, <2>3, CallShape DEF LedgerInv, SpendInv, AdvisedIsUnread, Has
  <2>5. lSlot[s] = "pending" BY <1>1 DEF LedgerInv, SpendInv, HeldIsPending, Has
  <2>6. L!SpentOnce' BY <1>1, <1>3, <2>5 DEF LedgerInv, SpendInv, L!SpentOnce, L!Consumed
  <2>7. QED BY <2>2, <2>4, <2>6 DEF SpendInv
<1>7. s = "metrics" => lCall[c].until <= lProof["revalidation"].from + Guard
  BY <1>1 DEF LedgerInv, ProofInv, MetricsProven, Has
<1>8. MetricsProven' BY <1>1, <1>2, <1>4, <1>7 DEF LedgerInv, ProofInv, MetricsProven, Has
<1>9. ReadsInTime' BY <1>1, <1>2, <1>4 DEF LedgerInv, ProofInv, ReadsInTime
<1>10. SelectedFirst' /\ L!CleanHolds' /\ EndedIsOpen'
  BY <1>1 DEF LedgerInv, ProofInv, SelectedFirst, L!CleanHolds, EndedIsOpen
<1>11. L!MetricsBacked'
  <2>1. L!Consumed("revalidation")' => L!Delivered'
    BY <1>1 DEF LedgerInv, ProofInv, L!MetricsBacked, L!Consumed, L!Delivered
  <2>2. s = "metrics" => lNow <= lProof["revalidation"].from + Guard BY <1>1, <1>4, <1>7
  <2>3. s = "metrics" => lProof["revalidation"].route = lSel /\ lSel \in Allowed
    BY <1>1 DEF LedgerInv, ProofInv, MetricsProven, SelectedFirst, Has
  <2>4. QED BY <1>1, <1>2, <2>1, <2>2, <2>3 DEF LedgerInv, ProofInv, L!MetricsBacked
<1>12. QED BY <1>5, <1>6, <1>8, <1>9, <1>10, <1>11 DEF LedgerInv, ProofInv

LEMMA CallEnds ==
  ASSUME L!LedgerAssumption, LedgerInv, NEW c \in Callers, L!Answered(c) \/ L!Dies(c)
  PROVE  LedgerInv'
<1> USE DEF L!File, L!Choice, L!Delivery, L!Spent, L!Residue, L!World
<1>1. PICK call \in L!Calls :
        /\ lCall' = [lCall EXCEPT ![c] = call] /\ call.at \in {"idle", "answered"}
        /\ call.at = "answered" => Has(c) /\ call.slot = lCall[c].slot
  <2>1. CASE L!Answered(c)
    <3>1. PICK ok \in BOOLEAN : lCall' = [lCall EXCEPT ![c] = [at |-> "answered", slot |-> lCall[c].slot,
             from |-> lCall[c].from, to |-> lNow, route |-> lRoute, ok |-> ok]]
      BY <2>1 DEF L!Answered
    <3> DEFINE call == [at |-> "answered", slot |-> lCall[c].slot, from |-> lCall[c].from, to |-> lNow,
                        route |-> lRoute, ok |-> ok]
    <3>2. Has(c) /\ lCall[c].slot \in L!Slots /\ lCall[c].from \in Nat /\ lNow \in Nat /\ lRoute \in Routes
      BY <2>1, CallShape DEF L!Answered, LedgerInv, L!TypeOK, L!LedgerAssumption, Has
    <3>3. call \in L!Calls /\ call.at = "answered" /\ call.slot = lCall[c].slot BY <3>2 DEF L!Calls
    <3>4. lCall' = [lCall EXCEPT ![c] = call] BY <3>1
    <3> HIDE DEF call
    <3>5. QED BY <3>2, <3>3, <3>4
  <2>2. CASE L!Dies(c)
    <3>1. lCall' = [lCall EXCEPT ![c] = L!Idle] BY <2>2 DEF L!Dies
    <3>2. L!Idle \in L!Calls /\ L!Idle.at = "idle" BY DEF L!Calls, L!Idle
    <3>3. QED BY <3>1, <3>2
  <2>3. QED BY <2>1, <2>2
<1>2. lCall'[c] = call /\ \A d \in Callers \ {c} : lCall'[d] = lCall[d] BY <1>1 DEF LedgerInv, L!TypeOK
<1>3. lFaults' \in 0..LedgerFaults
  BY DEF L!Answered, L!Dies, LedgerInv, L!TypeOK, L!LedgerAssumption
<1>4. UNCHANGED <<lNow, lRoute, lReads, lLast, lPlan, lCands, lBranch, lSel, lHead, lMerged, lReady, lSlot, lProof,
                  lBlockers, lGrant, lClean>>
  BY DEF L!Answered, L!Dies
<1>5. L!TypeOK' BY <1>1, <1>3, <1>4 DEF LedgerInv, L!TypeOK
<1>6. SpendInv'
  BY <1>1, <1>2, <1>4 DEF LedgerInv, SpendInv, HeldIsPending, HeldByOne, AdvisedIsUnread, L!SpentOnce, L!Consumed, Has
<1>7. MetricsProven' /\ ReadsInTime'
  BY <1>1, <1>2, <1>4 DEF LedgerInv, ProofInv, MetricsProven, ReadsInTime, Has
<1>8. SelectedFirst' /\ L!CleanHolds' /\ EndedIsOpen'
  BY <1>4 DEF LedgerInv, ProofInv, SelectedFirst, L!CleanHolds, EndedIsOpen
<1>9. L!MetricsBacked'
  BY <1>1, <1>2, <1>4 DEF LedgerInv, ProofInv, L!MetricsBacked, L!Consumed, L!Delivered
<1>10. QED BY <1>5, <1>6, <1>7, <1>8, <1>9 DEF LedgerInv, ProofInv

LEMMA WorldTurns == ASSUME L!LedgerAssumption, LedgerInv, L!Tick \/ L!Failover PROVE LedgerInv'
<1> USE DEF L!File, L!Choice, L!Delivery, L!Spent, L!Residue
<1>1. UNCHANGED <<lReads, lCall, lLast, lPlan, lCands, lBranch, lSel, lHead, lMerged, lReady, lSlot, lProof,
                  lBlockers, lGrant, lClean>>
  BY DEF L!Tick, L!Failover
<1>2. L!TypeOK'
  <2>1. MaxNow \in Nat /\ LedgerFaults \in Nat BY DEF L!LedgerAssumption
  <2>2. lNow' \in 1..MaxNow /\ lRoute' \in Routes /\ lFaults' \in 0..LedgerFaults
    BY <2>1 DEF L!Tick, L!Failover, LedgerInv, L!TypeOK
  <2>3. QED BY <1>1, <2>2 DEF LedgerInv, L!TypeOK
<1>3. SpendInv'
  BY <1>1 DEF LedgerInv, SpendInv, HeldIsPending, HeldByOne, AdvisedIsUnread, L!SpentOnce, L!Consumed, Has
<1>4. MetricsProven' /\ SelectedFirst' /\ L!CleanHolds' /\ EndedIsOpen'
  BY <1>1 DEF LedgerInv, ProofInv, MetricsProven, SelectedFirst, L!CleanHolds, EndedIsOpen, Has
<1>5. ReadsInTime'
  BY <1>1, CallShape, SMTT(30) DEF L!Tick, L!Failover, LedgerInv, ProofInv, ReadsInTime, L!TypeOK, L!LedgerAssumption
<1>6. L!MetricsBacked'
  <2>1. Budget \in Nat /\ Guard \in Nat /\ lProof["revalidation"].from \in Nat /\ lNow' \in Nat
    BY <1>2 DEF LedgerInv, L!TypeOK, L!LedgerAssumption
  <2>2. \A c \in Callers : lCall[c].at = "reading" /\ lCall[c].slot = "metrics" =>
          lNow' <= lProof["revalidation"].from + Guard
    BY <1>1, <1>4, <1>5, <2>1, CallShape DEF LedgerInv, ReadsInTime, MetricsProven, Has
  <2>3. QED BY <1>1, <2>2 DEF LedgerInv, ProofInv, L!MetricsBacked, L!Consumed, L!Delivered
<1>7. QED BY <1>2, <1>3, <1>4, <1>5, <1>6 DEF LedgerInv, ProofInv

-----------------------------------------------------------------------------
LEMMA LedgerNext == ASSUME L!LedgerAssumption, LedgerInv, [L!Next]_(L!vars) PROVE LedgerInv'
<1>1. CASE UNCHANGED L!vars
  <2> USE DEF L!vars, L!World, L!File, L!Choice, L!Delivery, L!Spent, L!Residue
  <2>1. L!TypeOK' BY <1>1 DEF LedgerInv, L!TypeOK
  <2>2. NoRead /\ DeliveryStands
    BY <1>1 DEF NoRead, DeliveryStands, L!Delivered, LedgerInv, ProofInv, SelectedFirst
  <2>3. L!CleanHolds' /\ EndedIsOpen' BY <1>1 DEF LedgerInv, ProofInv, L!CleanHolds, EndedIsOpen
  <2>4. QED BY <2>1, <2>2, <2>3, SpendKept, BackingKept DEF LedgerInv, ProofInv
<1>2. ASSUME NEW now \in lLast..lNow, L!Command(now) PROVE LedgerInv'
  BY <1>2, QuietKeeps, AdmitKeeps, OutcomeKeeps DEF L!Command, Quiet
<1>3. QED BY <1>1, <1>2, ReadKeeps, CallEnds, WorldTurns DEF L!Next

LEMMA LedgerAlways == ASSUME L!LedgerAssumption PROVE L!Spec => []LedgerInv
<1>1. L!Init => LedgerInv BY LedgerInit
<1>2. LedgerInv /\ [L!Next]_(L!vars) => LedgerInv' BY LedgerNext
<1>3. QED BY <1>1, <1>2, PTL DEF L!Spec

(* Whoever replays, dies or races: each read is made once, the metrics are *)
(* read on a young proof of the route in use, and a clean evaluation is    *)
(* not kept beside an active grant.                                        *)
THEOREM ReadsAreSpent == ASSUME L!LedgerAssumption PROVE L!Spec => []L!LedgerHolds
<1>1. LedgerInv => L!LedgerHolds BY DEF LedgerInv, SpendInv, ProofInv, L!LedgerHolds
<1>2. QED BY <1>1, LedgerAlways, PTL

LEMMA EndedSpends == ASSUME LedgerInv, [L!Next]_(L!vars) PROVE [L!SpendsNothing]_(L!vars)
<1> SUFFICES ASSUME L!Next, NEW i \in DOMAIN lBlockers, lBlockers[i].kind # "recoverable",
                    NEW s \in L!Slots, L!Consumed(s)'
             PROVE  L!Consumed(s)
  BY DEF L!SpendsNothing
<1> USE DEF L!Consumed, L!File, L!Spent
<1>1. CASE L!Tick \/ L!Failover BY <1>1 DEF L!Tick, L!Failover
<1>2. ASSUME NEW c \in Callers, L!Read(c) \/ L!Answered(c) \/ L!Dies(c) PROVE L!Consumed(s)
  BY <1>2 DEF L!Read, L!Answered, L!Dies
<1>3. ASSUME NEW now \in lLast..lNow, Quiet(now) PROVE L!Consumed(s)
  BY <1>3, QuietReads DEF NoRead
<1>4. ASSUME NEW now \in lLast..lNow, NEW c \in Callers, L!RecordOutcome(c, now) PROVE L!Consumed(s)
  BY <1>4 DEF L!RecordOutcome, LedgerInv, L!TypeOK
<1>5. ASSUME NEW now \in lLast..lNow, NEW c \in Callers, NEW r \in L!Slots, L!Admit(c, now, r) PROVE FALSE
  <2>1. ~lBlockers[i].open BY <1>5 DEF L!Admit, L!NormalStage, L!Unblocked
  <2>2. QED BY <2>1 DEF LedgerInv, ProofInv, EndedIsOpen
<1>6. QED BY <1>1, <1>2, <1>3, <1>4, <1>5 DEF L!Next, L!Command, Quiet

(* An attempt that has ended spends nothing more.                          *)
THEOREM EndedSpendsNothing == ASSUME L!LedgerAssumption PROVE L!Spec => L!EndedStays
<1>1. LedgerInv /\ [L!Next]_(L!vars) => [L!SpendsNothing]_(L!vars) BY EndedSpends
<1>2. QED BY <1>1, LedgerAlways, PTL DEF L!Spec, L!EndedStays

-----------------------------------------------------------------------------
(* EpubReaders. Paths are handed out in order; one that was handed out is  *)
(* in one place at most: with one thread, in the results, to be reordered  *)
(* or emitted. So what is received was handed out, each path once, and     *)
(* what waits in the queue of tasks is among what is not received.         *)
Taken == qSubmitted - Len(qTasks)
NotYet(i) == i > Len(qRows) /\ i \notin qReorder
Busy(t) == qReader[t].at \in {"reading", "putting"}

TasksFollow ==
  /\ Len(qTasks) <= qSubmitted /\ qSubmitted <= Count
  /\ \A i \in 1..Len(qTasks) : qTasks[i] = Taken + i
BusyIsNew ==
  \A t \in Readers : Busy(t) =>
    /\ qReader[t].path \in 1..Taken /\ NotYet(qReader[t].path)
    /\ \A i \in 1..Len(qResults) : qResults[i] # qReader[t].path
    /\ qReader[t].at = "putting" => qReader[t].path \notin qChanged
BusyApart == \A t, u \in Readers : t # u /\ Busy(t) /\ Busy(u) => qReader[t].path # qReader[u].path
ResultsAreNew ==
  \A i \in 1..Len(qResults) : qResults[i] \in 1..Taken /\ NotYet(qResults[i]) /\ qResults[i] \notin qChanged
ResultsApart == \A i, j \in 1..Len(qResults) : qResults[i] = qResults[j] => i = j
Gathered ==
  /\ qReorder \subseteq (Len(qRows) + 1)..Taken /\ qReorder \cap qChanged = {} /\ Len(qRows) <= Taken
  /\ qReceived = Len(qRows) + Cardinality(qReorder)
RowsAreWhole ==
  /\ \A i \in 1..Len(qRows) : qRows[i] = i /\ i \notin qChanged
  /\ qAt = "returned" => Len(qRows) = Count
  /\ qAt # "full"

Handed == TasksFollow /\ BusyIsNew /\ BusyApart /\ ResultsAreNew /\ ResultsApart
ReadersInv == Q!TypeOK /\ Handed /\ Gathered /\ RowsAreWhole

LEMMA ReadersInit == ASSUME Q!ReadersAssumption, Q!Init PROVE ReadersInv
<1> USE DEF Q!ReadersAssumption, Q!Init
<1>1. Q!TypeOK
  <2>1. qTasks \in Seq(1..Count) /\ qResults \in Seq(1..Count) /\ qRows \in Seq(1..Count) OBVIOUS
  <2>2. qChanged \subseteq 1..Count /\ qReader \in [Readers -> [at : {"idle", "reading", "putting", "ended"}, path : 0..Count]]
    OBVIOUS
  <2>3. qSubmitted \in 0..Count /\ qReceived \in 0..Count /\ qReorder \subseteq 1..Count
        /\ qAt \in {"submit", "get", "emit", "health", "returned", "refused", "full"}
    OBVIOUS
  <2>4. {qError, qCancelled, qLate} \subseteq BOOLEAN BY Zenon
  <2>5. QED BY <2>1, <2>2, <2>3, <2>4 DEF Q!TypeOK
<1>2. Len(qTasks) = 0 /\ Len(qResults) = 0 /\ Len(qRows) = 0 /\ Cardinality(qReorder) = 0
  BY FS_EmptySet
<1>3. QED
  BY <1>1, <1>2 DEF ReadersInv, Handed, TasksFollow, BusyIsNew, BusyApart, ResultsAreNew, ResultsApart, Gathered,
     RowsAreWhole, Taken, Busy

LEMMA Between ==
  ASSUME NEW m \in Nat, NEW n \in Nat, m <= n
  PROVE  IsFiniteSet((m + 1)..n) /\ Cardinality((m + 1)..n) = n - m
<1>1. m + 1 \in Int /\ n \in Int OBVIOUS
<1>2. /\ IsFiniteSet((m + 1)..n)
      /\ Cardinality((m + 1)..n) = IF m + 1 > n THEN 0 ELSE n - (m + 1) + 1
  BY <1>1, FS_Interval
<1>3. QED BY <1>2

LEMMA ReadersTypes ==
  ASSUME Q!ReadersAssumption, ReadersInv
  PROVE  /\ Count \in Nat /\ ReadStreams \in Nat /\ qSubmitted \in Nat /\ qReceived \in Nat
         /\ Len(qTasks) \in Nat /\ Len(qResults) \in Nat /\ Len(qRows) \in Nat /\ Taken \in Nat /\ Taken <= qSubmitted
         /\ IsFiniteSet(qReorder) /\ Cardinality(qReorder) \in Nat /\ qReceived <= Taken
<1>1. /\ Count \in Nat /\ ReadStreams \in Nat /\ qSubmitted \in Nat /\ qReceived \in Nat
      /\ Len(qTasks) \in Nat /\ Len(qResults) \in Nat /\ Len(qRows) \in Nat /\ Taken \in Nat /\ Taken <= qSubmitted
  BY DEF Q!ReadersAssumption, ReadersInv, Q!TypeOK, Handed, TasksFollow, Taken
<1>2. qReorder \in SUBSET ((Len(qRows) + 1)..Taken) BY DEF ReadersInv, Gathered
<1>3. IsFiniteSet((Len(qRows) + 1)..Taken) /\ Cardinality((Len(qRows) + 1)..Taken) = Taken - Len(qRows)
  BY <1>1, Between DEF ReadersInv, Gathered
<1>4. IsFiniteSet(qReorder) /\ Cardinality(qReorder) <= Cardinality((Len(qRows) + 1)..Taken)
  BY <1>2, <1>3, FS_Subset
<1>5. Cardinality(qReorder) \in Nat BY <1>4, FS_CardinalityType
<1>6. qReceived <= Taken BY <1>1, <1>3, <1>4, <1>5 DEF ReadersInv, Gathered
<1>7. QED BY <1>1, <1>4, <1>5, <1>6

(* The caller.                                                             *)
LEMMA CallerKeeps == ASSUME Q!ReadersAssumption, ReadersInv, Q!Caller PROVE ReadersInv'
<1> USE ReadersTypes
<1>1. CASE UNCHANGED <<qTasks, qResults, qReorder, qRows, qSubmitted, qReceived>>
  <2>1. /\ qAt' \in {"submit", "get", "health", "returned", "refused"} /\ (qAt' = "returned" => Len(qRows) = Count)
        /\ qCancelled' \in BOOLEAN /\ UNCHANGED <<qReader, qChanged, qError, qLate>>
    <3>1. CASE Q!ControlHealth
      BY <3>1 DEF Q!ControlHealth, Q!CallerTo, ReadersInv, Q!TypeOK
    <3>2. CASE Q!GetNothing
      BY <3>2 DEF Q!GetNothing, Q!CallerTo, ReadersInv, Q!TypeOK
    <3>3. CASE Q!SubmitEnds BY <3>3 DEF Q!SubmitEnds, ReadersInv, Q!TypeOK
    <3>4. CASE Q!Emit
      <4>1. qRows' = Append(qRows, Q!Emitted) => FALSE BY <1>1 DEF ReadersInv, Q!TypeOK
      <4>2. QED BY <3>4, <4>1 DEF Q!Emit, ReadersInv, Q!TypeOK
    <3>5. CASE Q!Get
      <4>1. qReceived' = qReceived + 1 BY <3>5 DEF Q!Get
      <4>2. QED BY <1>1, <4>1
    <3>6. CASE Q!Submit
      <4>1. Len(qTasks) < ReadStreams BY <3>6 DEF Q!Submit, Q!MaySubmit, ReadersInv, Q!TypeOK, Taken, Q!ReadersAssumption
      <4>2. qSubmitted' = qSubmitted + 1 BY <3>6, <4>1 DEF Q!Submit
      <4>3. QED BY <1>1, <4>2
    <3>7. QED BY <3>1, <3>2, <3>3, <3>4, <3>5, <3>6 DEF Q!Caller
  <2>2. Q!TypeOK' BY <1>1, <2>1 DEF ReadersInv, Q!TypeOK
  <2>3. QED
    BY <1>1, <2>1, <2>2 DEF ReadersInv, Handed, TasksFollow, BusyIsNew, BusyApart, ResultsAreNew, ResultsApart, Gathered,
       RowsAreWhole, Taken, Busy, NotYet
<1>2. CASE Q!Submit
  <2>1. Len(qTasks) < ReadStreams BY <1>2 DEF Q!Submit, Q!MaySubmit, ReadersInv, Q!TypeOK, Taken, Q!ReadersAssumption
  <2>2. /\ qSubmitted < Count /\ qTasks' = Append(qTasks, qSubmitted + 1) /\ qSubmitted' = qSubmitted + 1
        /\ UNCHANGED <<qAt, qCancelled, qReceived, qReorder, qRows, qResults, qReader, qChanged, qError, qLate>>
    BY <1>2, <2>1 DEF Q!Submit, Q!MaySubmit
  <2>3. qTasks \in Seq(1..Count) /\ qSubmitted + 1 \in 1..Count BY <2>2 DEF ReadersInv, Q!TypeOK
  <2>4. qTasks' \in Seq(1..Count) /\ Len(qTasks') = Len(qTasks) + 1 /\ Taken' = Taken BY <2>2, <2>3 DEF Taken
  <2>5. \A i \in 1..Len(qTasks') : qTasks'[i] = Taken + i
    <3>1. \A i \in 1..Len(qTasks) : qTasks'[i] = Taken + i
      BY <2>2, <2>3 DEF ReadersInv, Handed, TasksFollow
    <3>2. qTasks'[Len(qTasks) + 1] = Taken + (Len(qTasks) + 1) BY <2>2, <2>3 DEF Taken
    <3>3. \A i \in 1..Len(qTasks') : i \in 1..Len(qTasks) \/ i = Len(qTasks) + 1 BY <2>4
    <3>4. QED BY <3>1, <3>2, <3>3
  <2>6. Q!TypeOK' BY <2>2, <2>3, <2>4 DEF ReadersInv, Q!TypeOK
  <2>7. TasksFollow' BY <2>2, <2>4, <2>5 DEF ReadersInv, Handed, TasksFollow
  <2>8. QED
    BY <2>2, <2>4, <2>6, <2>7 DEF ReadersInv, Handed, BusyIsNew, BusyApart, ResultsAreNew, ResultsApart, Gathered,
       RowsAreWhole, Busy, NotYet
<1>3. CASE Q!Get
  <2> DEFINE index == Head(qResults)
  <2>1. /\ qResults # <<>> /\ qReorder' = qReorder \cup {index} /\ qReceived' = qReceived + 1
        /\ qResults' = Tail(qResults) /\ qAt' \in {"emit", "refused"} /\ qCancelled' \in BOOLEAN
        /\ UNCHANGED <<qSubmitted, qTasks, qRows, qReader, qChanged, qError, qLate>>
    BY <1>3 DEF Q!Get, Q!CallerTo, ReadersInv, Q!TypeOK
  <2>2. qResults \in Seq(1..Count) BY DEF ReadersInv, Q!TypeOK
  <2>3. /\ Len(qResults) >= 1 /\ index = qResults[1] /\ qResults' \in Seq(1..Count) /\ Len(qResults') = Len(qResults) - 1
        /\ \A i \in 1..Len(qResults') : qResults'[i] = qResults[i + 1]
    BY <2>1, <2>2
  <2>4. index \in 1..Taken /\ NotYet(index) /\ index \notin qChanged /\ index \in 1..Count
    BY <2>2, <2>3 DEF ReadersInv, Handed, ResultsAreNew
  <2>5. Cardinality(qReorder') = Cardinality(qReorder) + 1 BY <2>1, <2>4, FS_AddElement DEF NotYet
  <2>6. Taken' = Taken BY <2>1 DEF Taken
  <2>7. Gathered'
    <3>1. qReorder \subseteq (Len(qRows) + 1)..Taken /\ qReorder \cap qChanged = {} /\ Len(qRows) <= Taken
          /\ qReceived = Len(qRows) + Cardinality(qReorder)
      BY DEF ReadersInv, Gathered
    <3>2. index \in (Len(qRows) + 1)..Taken BY <2>4 DEF NotYet
    <3>3. qReorder' \subseteq (Len(qRows) + 1)..Taken /\ qReorder' \cap qChanged = {} BY <2>1, <2>4, <3>1, <3>2
    <3>4. qReceived' = Len(qRows) + Cardinality(qReorder') BY <2>1, <2>5, <3>1
    <3>5. QED BY <2>1, <2>6, <3>1, <3>3, <3>4 DEF Gathered
  <2>8. \A i \in 1..Len(qResults') : qResults'[i] # index
    BY <2>3 DEF ReadersInv, Handed, ResultsApart
  <2>9. ResultsAreNew' /\ ResultsApart'
    BY <2>1, <2>3, <2>6, <2>8, SMTT(30) DEF ReadersInv, Handed, ResultsAreNew, ResultsApart, NotYet
  <2>10. BusyIsNew'
    BY <2>1, <2>3, <2>6, SMTT(30) DEF ReadersInv, Handed, BusyIsNew, NotYet, Busy
  <2>11. BusyApart' /\ TasksFollow' /\ RowsAreWhole'
    BY <2>1, <2>6 DEF ReadersInv, Handed, BusyApart, TasksFollow, RowsAreWhole, Busy
  <2>12. qReceived' <= Count /\ qReceived' \in Nat
    <3>1. qReorder' \in SUBSET ((Len(qRows) + 1)..Taken) BY <2>1, <2>6, <2>7 DEF Gathered
    <3>2. Len(qRows) <= Taken BY DEF ReadersInv, Gathered
    <3>3. IsFiniteSet((Len(qRows) + 1)..Taken) /\ Cardinality((Len(qRows) + 1)..Taken) = Taken - Len(qRows)
      BY <3>2, Between
    <3>4. Cardinality(qReorder') <= Taken - Len(qRows) BY <3>1, <3>3, FS_Subset
    <3>5. qReceived' = Len(qRows) + Cardinality(qReorder') BY <2>1, <2>7 DEF Gathered
    <3>6. Taken <= Count BY DEF ReadersInv, Handed, TasksFollow
    <3>7. qReceived' = qReceived + 1 BY <2>1
    <3>8. QED BY <2>5, <3>4, <3>5, <3>6, <3>7
  <2>13. Q!TypeOK' BY <2>1, <2>3, <2>4, <2>12 DEF ReadersInv, Q!TypeOK
  <2>14. QED BY <2>7, <2>9, <2>10, <2>11, <2>13 DEF ReadersInv, Handed
<1>4. CASE Q!Emit
  <2>1. CASE ~(qReorder # {} /\ Q!Emitted # 0) BY <1>1, <1>4, <2>1 DEF Q!Emit
  <2>2. CASE qReorder # {} /\ Q!Emitted # 0
    <3> DEFINE e == Len(qRows) + 1
    <3>1. Q!Emitted = e /\ e \in qReorder BY <2>2 DEF Q!Emitted, Q!Next1
    <3>2. /\ qRows' = Append(qRows, e) /\ qReorder' = qReorder \ {e} /\ qAt' \in {"emit", "refused"} /\ qCancelled' \in BOOLEAN
          /\ UNCHANGED <<qSubmitted, qReceived, qTasks, qResults, qReader, qChanged, qError, qLate>>
      BY <1>4, <2>2, <3>1 DEF Q!Emit, Q!CallerTo, ReadersInv, Q!TypeOK
    <3>3. e \in 1..Taken /\ e \notin qChanged /\ e \in 1..Count BY <3>1 DEF ReadersInv, Gathered, Q!TypeOK
    <3>4. qRows \in Seq(1..Count) BY DEF ReadersInv, Q!TypeOK
    <3>5. /\ qRows' \in Seq(1..Count) /\ Len(qRows') = Len(qRows) + 1 /\ qRows'[e] = e
          /\ \A i \in 1..Len(qRows) : qRows'[i] = qRows[i]
      BY <3>2, <3>3, <3>4
    <3>6. Taken' = Taken BY <3>2 DEF Taken
    <3>7. Cardinality(qReorder') = Cardinality(qReorder) - 1 BY <3>1, <3>2, FS_RemoveElement
    <3>8. Gathered'
      <4>1. qReorder \subseteq e..Taken /\ qReorder \cap qChanged = {} /\ qReceived = Len(qRows) + Cardinality(qReorder)
        BY DEF ReadersInv, Gathered
      <4>2. qReorder' \subseteq (e + 1)..Taken
        <5>1. \A k \in qReorder' : k \in e..Taken /\ k # e BY <3>2, <4>1
        <5>2. \A k \in e..Taken : k # e => k \in (e + 1)..Taken OBVIOUS
        <5>3. QED BY <5>1, <5>2
      <4>3. qReceived' = e + Cardinality(qReorder') BY <3>2, <3>7, <4>1
      <4>4. QED BY <3>2, <3>3, <3>5, <3>6, <4>1, <4>2, <4>3 DEF Gathered
    <3>9. \A i : NotYet(i) /\ i \in Nat => NotYet(i)' BY <3>1, <3>2, <3>5 DEF NotYet
    <3>10. RowsAreWhole' BY <3>2, <3>3, <3>5 DEF ReadersInv, RowsAreWhole
    <3>11. BusyIsNew' /\ ResultsAreNew'
      BY <3>2, <3>6, <3>9 DEF ReadersInv, Handed, BusyIsNew, ResultsAreNew, Busy
    <3>12. TasksFollow' /\ BusyApart' /\ ResultsApart'
      BY <3>2, <3>6 DEF ReadersInv, Handed, TasksFollow, BusyApart, ResultsApart, Busy
    <3>13. Q!TypeOK' BY <3>2, <3>5 DEF ReadersInv, Q!TypeOK
    <3>14. QED BY <3>8, <3>10, <3>11, <3>12, <3>13 DEF ReadersInv, Handed
  <2>3. QED BY <2>1, <2>2
<1>5. QED
  BY <1>1, <1>2, <1>3, <1>4 DEF Q!Caller, Q!ControlHealth, Q!SubmitEnds, Q!GetNothing, Q!callerVars

(* A thread.                                                               *)
LEMMA ReaderKeeps ==
  ASSUME Q!ReadersAssumption, ReadersInv, NEW t \in Readers, Q!Reader(t)
  PROVE  ReadersInv'
<1> USE ReadersTypes DEF Q!callerVars
<1>1. UNCHANGED <<qAt, qSubmitted, qReceived, qReorder, qRows, qChanged, qLate>>
  BY DEF Q!Reader, Q!Take, Q!Leave, Q!ReadEpub, Q!PutResult
<1>2. PICK s \in {"reading", "putting", "idle", "ended"}, i \in 0..Count : Q!ReaderTo(t, s, i)
  <2>1. CASE Q!Take(t) 
    <3>1. Head(qTasks) \in 1..Count BY <2>1 DEF Q!Take, ReadersInv, Q!TypeOK
    <3>2. QED BY <2>1, <3>1 DEF Q!Take
  <2>2. CASE Q!Leave(t) BY <2>2 DEF Q!Leave
  <2>3. CASE Q!ReadEpub(t) BY <2>3 DEF Q!ReadEpub, Q!Fail, ReadersInv, Q!TypeOK
  <2>4. CASE Q!PutResult(t) BY <2>4 DEF Q!PutResult, Q!Fail
  <2>5. QED BY <2>1, <2>2, <2>3, <2>4 DEF Q!Reader
<1>3. qReader'[t] = [at |-> s, path |-> i] /\ \A u \in Readers \ {t} : qReader'[u] = qReader[u]
  BY <1>2 DEF Q!ReaderTo, ReadersInv, Q!TypeOK
<1>4. qReader' \in [Readers -> [at : {"idle", "reading", "putting", "ended"}, path : 0..Count]]
  BY <1>2 DEF Q!ReaderTo, ReadersInv, Q!TypeOK
<1>5. qError' \in BOOLEAN /\ qCancelled' \in BOOLEAN
  BY DEF Q!Reader, Q!Take, Q!Leave, Q!ReadEpub, Q!PutResult, Q!Fail, ReadersInv, Q!TypeOK
<1>6. RowsAreWhole' BY <1>1 DEF ReadersInv, RowsAreWhole
<1>7. CASE Q!Take(t)
  <2>1. qTasks # <<>> /\ qTasks' = Tail(qTasks) /\ qResults' = qResults /\ s = "reading" /\ i = Head(qTasks)
    <3>1. Q!ReaderTo(t, "reading", Head(qTasks)) BY <1>7 DEF Q!Take
    <3>2. qReader'[t] = [at |-> "reading", path |-> Head(qTasks)] BY <3>1 DEF Q!ReaderTo, ReadersInv, Q!TypeOK
    <3>3. QED BY <1>3, <1>7, <3>2 DEF Q!Take
  <2>2. qTasks \in Seq(1..Count) BY DEF ReadersInv, Q!TypeOK
  <2>3. /\ Len(qTasks) >= 1 /\ Head(qTasks) = qTasks[1] /\ qTasks' \in Seq(1..Count) /\ Len(qTasks') = Len(qTasks) - 1
        /\ \A k \in 1..Len(qTasks') : qTasks'[k] = qTasks[k + 1]
    BY <2>1, <2>2
  <2>4. Taken' = Taken + 1 /\ i = Taken + 1 BY <1>1, <2>1, <2>3 DEF ReadersInv, Handed, TasksFollow, Taken
  <2>5. TasksFollow'
    <3>1. \A k \in 1..Len(qTasks) : qTasks[k] = Taken + k BY DEF ReadersInv, Handed, TasksFollow
    <3>2. \A k \in 1..Len(qTasks') : k + 1 \in 1..Len(qTasks) /\ qTasks'[k] = Taken + (k + 1) BY <2>3, <3>1
    <3>3. \A k \in 1..Len(qTasks') : qTasks'[k] = Taken' + k BY <2>4, <3>2
    <3>4. QED BY <1>1, <2>3, <3>3 DEF ReadersInv, Handed, TasksFollow
  <2>6. Gathered' BY <1>1, <2>4 DEF ReadersInv, Gathered
  <2>7. NotYet(i) BY <2>4 DEF ReadersInv, Gathered, NotYet
  <2>8. \A k \in 1..Len(qResults) : qResults[k] # i BY <2>4 DEF ReadersInv, Handed, ResultsAreNew
  <2>9. \A u \in Readers \ {t} : Busy(u) => qReader[u].path # i BY <2>4 DEF ReadersInv, Handed, BusyIsNew
  <2>10. BusyIsNew' BY <1>1, <1>3, <2>1, <2>4, <2>7, <2>8, SMTT(30) DEF ReadersInv, Handed, BusyIsNew, NotYet, Busy
  <2>11. BusyApart' BY <1>3, <2>9 DEF ReadersInv, Handed, BusyApart, Busy
  <2>12. ResultsAreNew' /\ ResultsApart'
    BY <1>1, <2>1, <2>4 DEF ReadersInv, Handed, ResultsAreNew, ResultsApart, NotYet
  <2>13. Q!TypeOK' BY <1>1, <1>4, <1>5, <2>1, <2>3 DEF ReadersInv, Q!TypeOK
  <2>14. QED BY <1>6, <2>5, <2>6, <2>10, <2>11, <2>12, <2>13 DEF ReadersInv, Handed
<1>8. CASE ~Q!Take(t)
  <2>1. qTasks' = qTasks /\ Taken' = Taken BY <1>1, <1>8 DEF Q!Reader, Q!Leave, Q!ReadEpub, Q!PutResult, Taken
  <2>2. TasksFollow' /\ Gathered' BY <1>1, <2>1 DEF ReadersInv, Handed, TasksFollow, Gathered
  <2>3. Busy(t)' => s = "putting" /\ i = qReader[t].path /\ i \notin qChanged /\ Busy(t)
    <3>1. CASE Q!Leave(t) BY <1>3, <3>1 DEF Q!Leave, Q!ReaderTo, Busy, ReadersInv, Q!TypeOK
    <3>2. CASE Q!ReadEpub(t) BY <1>3, <3>2 DEF Q!ReadEpub, Q!Fail, Q!Sound, Q!ReaderTo, Busy, ReadersInv, Q!TypeOK
    <3>3. CASE Q!PutResult(t) BY <1>3, <3>3 DEF Q!PutResult, Q!Fail, Q!ReaderTo, Busy, ReadersInv, Q!TypeOK
    <3>4. QED BY <1>8, <3>1, <3>2, <3>3 DEF Q!Reader
  <2>4. BusyApart' BY <1>3, <2>3 DEF ReadersInv, Handed, BusyApart, Busy
  <2>5. CASE qResults' = qResults
    <3>1. BusyIsNew' BY <1>1, <1>3, <2>1, <2>3, <2>5 DEF ReadersInv, Handed, BusyIsNew, NotYet, Busy
    <3>2. ResultsAreNew' /\ ResultsApart'
      BY <1>1, <2>1, <2>5 DEF ReadersInv, Handed, ResultsAreNew, ResultsApart, NotYet
    <3>3. Q!TypeOK' BY <1>1, <1>4, <1>5, <2>1, <2>5 DEF ReadersInv, Q!TypeOK
    <3>4. QED BY <1>6, <2>2, <2>4, <3>1, <3>2, <3>3 DEF ReadersInv, Handed
  <2>6. CASE qResults' # qResults
    <3> DEFINE p == qReader[t].path
    <3>1. qReader[t].at = "putting" /\ qResults' = Append(qResults, p) /\ ~Busy(t)'
      <4>1. Q!PutResult(t) BY <1>8, <2>6 DEF Q!Reader, Q!Leave, Q!ReadEpub
      <4>2. qResults' = Append(qResults, p) /\ Q!ReaderTo(t, "idle", 0) BY <2>6, <4>1 DEF Q!PutResult
      <4>3. QED BY <4>1, <4>2 DEF Q!PutResult, Q!ReaderTo, Busy, ReadersInv, Q!TypeOK
    <3>2. p \in 1..Taken /\ NotYet(p) /\ p \notin qChanged /\ \A k \in 1..Len(qResults) : qResults[k] # p
      BY <3>1 DEF ReadersInv, Handed, BusyIsNew, Busy
    <3>3. qResults \in Seq(1..Count) /\ p \in 1..Count BY <3>2 DEF ReadersInv, Q!TypeOK, Handed, TasksFollow, Taken
    <3>4. /\ qResults' \in Seq(1..Count) /\ Len(qResults') = Len(qResults) + 1 /\ qResults'[Len(qResults) + 1] = p
          /\ \A k \in 1..Len(qResults) : qResults'[k] = qResults[k]
      BY <3>1, <3>3
    <3>5. \A u \in Readers \ {t} : Busy(u) => qReader[u].path # p
      BY <3>1 DEF ReadersInv, Handed, BusyApart, Busy
    <3>6. BusyIsNew'
      <4> SUFFICES ASSUME NEW u \in Readers, Busy(u)'
                   PROVE  /\ (qReader[u].path \in 1..Taken)' /\ NotYet(qReader[u].path)'
                          /\ \A k \in 1..Len(qResults') : qResults'[k] # qReader'[u].path
                          /\ qReader'[u].at = "putting" => qReader'[u].path \notin qChanged'
        BY DEF BusyIsNew
      <4>1. u # t /\ qReader'[u] = qReader[u] /\ Busy(u) BY <1>3, <3>1 DEF Busy
      <4>2. /\ qReader[u].path \in 1..Taken /\ NotYet(qReader[u].path)
            /\ \A k \in 1..Len(qResults) : qResults[k] # qReader[u].path
            /\ qReader[u].at = "putting" => qReader[u].path \notin qChanged
        BY <4>1 DEF ReadersInv, Handed, BusyIsNew
      <4>3. \A k \in 1..Len(qResults') : qResults'[k] # qReader[u].path
        <5>1. \A k \in 1..Len(qResults') : k \in 1..Len(qResults) \/ k = Len(qResults) + 1 BY <3>4
        <5>2. qReader[u].path # p BY <3>5, <4>1
        <5>3. QED BY <3>4, <4>2, <5>1, <5>2
      <4>4. QED BY <1>1, <2>1, <4>1, <4>2, <4>3 DEF NotYet
    <3>7. ResultsAreNew' /\ ResultsApart'
      <4>1. \A k \in 1..Len(qResults') :
              \/ k \in 1..Len(qResults) /\ qResults'[k] = qResults[k]
              \/ k = Len(qResults) + 1 /\ qResults'[k] = p
        BY <3>4
      <4>2. \A k \in 1..Len(qResults') :
              qResults'[k] \in 1..Taken /\ NotYet(qResults'[k]) /\ qResults'[k] \notin qChanged
        BY <3>2, <4>1 DEF ReadersInv, Handed, ResultsAreNew
      <4>3. ResultsAreNew' BY <1>1, <2>1, <4>2 DEF ResultsAreNew, NotYet
      <4>5. ResultsApart' BY <3>2, <4>1 DEF ReadersInv, Handed, ResultsApart
      <4>6. QED BY <4>3, <4>5
    <3>8. Q!TypeOK' BY <1>1, <1>4, <1>5, <2>1, <3>4 DEF ReadersInv, Q!TypeOK
    <3>9. QED BY <1>6, <2>2, <2>4, <3>6, <3>7, <3>8 DEF ReadersInv, Handed
  <2>7. QED BY <2>5, <2>6
<1>9. QED BY <1>7, <1>8

LEMMA ReadersNext == ASSUME Q!ReadersAssumption, ReadersInv, [Q!Next]_(Q!vars) PROVE ReadersInv'
<1>1. CASE Q!Deadline \/ UNCHANGED Q!vars
  <2>1. UNCHANGED <<qAt, qSubmitted, qReceived, qTasks, qResults, qReorder, qRows, qReader, qChanged, qError, qCancelled>>
    BY <1>1 DEF Q!Deadline, Q!vars, Q!callerVars
  <2>2. qLate' \in BOOLEAN BY <1>1 DEF Q!Deadline, Q!vars, ReadersInv, Q!TypeOK
  <2>3. Q!TypeOK' BY <2>1, <2>2 DEF ReadersInv, Q!TypeOK
  <2>4. QED
    BY <2>1, <2>3 DEF ReadersInv, Handed, TasksFollow, BusyIsNew, BusyApart, ResultsAreNew, ResultsApart, Gathered,
       RowsAreWhole, Taken, Busy, NotYet
<1>2. QED BY <1>1, CallerKeeps, ReaderKeeps DEF Q!Next

LEMMA RowsAreInOrder == ASSUME Q!ReadersAssumption, ReadersInv PROVE Q!RowsInOrder
<1>1. qReceived <= qSubmitted BY ReadersTypes
<1>2. QED BY <1>1 DEF ReadersInv, RowsAreWhole, Q!RowsInOrder

(* However many threads there are, hang or fail: rows come in the order of *)
(* the paths, each once and as the walk saw it, and the queue of tasks is  *)
(* never full when one is put in it.                                       *)
THEOREM RowsComeInOrder == ASSUME Q!ReadersAssumption PROVE Q!Spec => []Q!RowsInOrder
<1>1. Q!Init => ReadersInv BY ReadersInit
<1>2. ReadersInv /\ [Q!Next]_(Q!vars) => ReadersInv' BY ReadersNext
<1>3. ReadersInv => Q!RowsInOrder BY RowsAreInOrder
<1>4. QED BY <1>1, <1>2, <1>3, PTL DEF Q!Spec

-----------------------------------------------------------------------------
(* RenderLease. Who works holds the lock, so the child of the sidecar and  *)
(* the thread of the API exclude each other; a prompt on its way is late   *)
(* unless the thread still waits for the answer; and from the last look at *)
(* the idle engine on, what the engine gets of the API's is late.          *)
Waits == rV.pc # "idle"
LeaseTypes ==
  /\ DOMAIN rRec = Vid \cup Aud
  /\ rApi \in [up : {"up", "recover", "delete", "stop", "settle", "record"}, active : Vid \cup {R!Nil}, unsafe : BOOLEAN]
  /\ rV \in [pc : {"idle", "check", "send", "sent", "poll", "clean", "delete", "stop", "settle"}, job : Vid \cup {R!Nil},
             run : Vid \cup Foreign \cup {R!Nil}, pend : SUBSET (Vid \cup Foreign)]
  /\ rA \in [pc : {"idle", "idle1", "free", "window", "spawn", "child"}, job : Aud \cup {R!Nil}]
  /\ rPend \subseteq Vid \cup Foreign /\ rRun \in Vid \cup Foreign \cup {R!Nil} /\ rFly \subseteq Vid
WorkHasLease ==
  /\ Waits => rLease = "video" /\ rApi.up = "up" /\ rV.job \in Vid
  /\ rA.pc # "idle" => rLease = "audio"
  /\ rChild => rA.pc = "child"
FlightIsAwaited == \A p \in rFly : p \in rLate \/ (rV.pc = "sent" /\ p = rV.job)
WindowIsClean ==
  rA.pc \in {"spawn", "child"} => \A p \in Vid : p \in rPend \/ p = rRun => p \in rLate

LeaseInv == LeaseTypes /\ WorkHasLease /\ FlightIsAwaited /\ WindowIsClean

LEMMA LeaseInit == ASSUME R!LeaseAssumption, R!Init PROVE LeaseInv
BY DEF R!LeaseAssumption, R!Init, R!Idle, R!Nil, LeaseInv, LeaseTypes, WorkHasLease, FlightIsAwaited, WindowIsClean, Waits

LEMMA ThreadKeeps == ASSUME R!LeaseAssumption, LeaseInv, R!Thread PROVE LeaseInv'
<1> USE DEF R!LeaseAssumption, LeaseInv, LeaseTypes, WorkHasLease, FlightIsAwaited, WindowIsClean, Waits, R!Goto, R!foleyVars,
      R!engineVars, R!Nil
<1>1. ASSUME NEW s, NEW u \in BOOLEAN, R!Finish(s, u), UNCHANGED <<rA, rChild, rRun, rHist, rFly, rLate, rDeaths>>,
             rPend' \subseteq rPend, Waits, rV.pc # "sent"
      PROVE  LeaseInv'
  BY <1>1 DEF R!Finish, R!Idle
<1>2. CASE R!Check BY <1>1, <1>2 DEF R!Check
<1>3. CASE R!Send BY <1>3 DEF R!Send
<1>4. CASE R!Reply BY <1>4 DEF R!Reply
<1>5. CASE R!Succeed BY <1>1, <1>5 DEF R!Succeed
<1>6. CASE R!GiveUp BY <1>6 DEF R!GiveUp
<1>7. CASE R!Look
  <2>1. CASE rV' = [rV EXCEPT !.pc = "delete", !.run = rRun, !.pend = rPend \cap {rV.job}]
    <3>1. rV' \in [pc : {"delete"}, job : {rV.job}, run : Vid \cup Foreign \cup {R!Nil}, pend : SUBSET (Vid \cup Foreign)]
      BY <2>1
    <3>2. UNCHANGED <<rRec, rLease, rApi, rA, rChild, rPend, rRun, rHist, rFly, rLate>> /\ Waits /\ rV.pc # "sent"
      BY <1>7, <2>1 DEF R!Look, R!Finish, R!Idle
    <3>3. LeaseTypes' BY <3>1, <3>2
    <3>4. QED BY <3>1, <3>2, <3>3
  <2>2. QED BY <1>1, <1>7, <2>1 DEF R!Look
<1>8. CASE R!DeletePending BY <1>1, <1>8 DEF R!DeletePending
<1>9. CASE R!Interrupt BY <1>9 DEF R!Interrupt, R!Interrupted
<1>10. CASE R!Settle BY <1>1, <1>10 DEF R!Settle
<1>11. QED
  BY <1>2, <1>3, <1>4, <1>5, <1>6, <1>7, <1>8, <1>9, <1>10 DEF R!Thread

LEMMA RecoveryKeeps == ASSUME R!LeaseAssumption, LeaseInv, R!Recovery PROVE LeaseInv'
<1> USE DEF R!LeaseAssumption, LeaseInv, LeaseTypes, WorkHasLease, FlightIsAwaited, WindowIsClean, Waits, R!Up, R!foleyVars,
      R!engineVars, R!Nil, R!Idle
<1>1. CASE R!Recover
  <2>1. UNCHANGED <<rRec, rLease, rA, rChild, rPend, rRun, rHist, rFly, rLate>> /\ ~Waits BY <1>1 DEF R!Recover
  <2>2. rV' \in [pc : {"idle"}, job : {rV.job}, run : Vid \cup Foreign \cup {R!Nil}, pend : SUBSET (Vid \cup Foreign)]
    BY <1>1, <2>1 DEF R!Recover
  <2>3. rApi' \in [up : {"up", "delete"}, active : Vid \cup {R!Nil}, unsafe : BOOLEAN]
    <3>1. CASE rApi' = [rApi EXCEPT !.up = "delete"] BY <3>1
    <3>2. CASE R!Up(TRUE) BY <3>2
    <3>3. QED BY <1>1, <3>1, <3>2 DEF R!Recover
  <2>4. LeaseTypes' BY <2>1, <2>2, <2>3
  <2>5. QED BY <2>1, <2>2, <2>4
<1>2. CASE R!RecoverDelete BY <1>2 DEF R!RecoverDelete
<1>3. CASE R!RecoverInterrupt BY <1>3 DEF R!RecoverInterrupt, R!Interrupted
<1>4. CASE R!RecoverSettle
  <2>1. UNCHANGED <<rRec, rLease, rA, rChild, rPend, rRun, rHist, rFly, rLate>> /\ ~Waits BY <1>4 DEF R!RecoverSettle
  <2>2. rV' \in {rV, R!Idle} BY <1>4 DEF R!RecoverSettle
  <2>3. rApi' \in [up : {"up", "record"}, active : Vid \cup {R!Nil}, unsafe : BOOLEAN]
    <3>1. CASE rApi' = [rApi EXCEPT !.up = "record"] BY <3>1
    <3>2. CASE R!Up(TRUE) BY <3>2
    <3>3. QED BY <1>4, <3>1, <3>2 DEF R!RecoverSettle
  <2>4. LeaseTypes' BY <2>1, <2>2, <2>3
  <2>5. QED BY <2>1, <2>2, <2>4
<1>5. CASE R!RecoverRecord BY <1>5 DEF R!RecoverRecord
<1>6. QED BY <1>1, <1>2, <1>3, <1>4, <1>5 DEF R!Recovery

LEMMA SidecarKeeps == ASSUME R!LeaseAssumption, LeaseInv, R!Sidecar PROVE LeaseInv'
<1> USE DEF R!LeaseAssumption, LeaseInv, LeaseTypes, WorkHasLease, FlightIsAwaited, WindowIsClean, Waits, R!apiVars,
      R!engineVars, R!Nil, R!FinishAudio
<1>1. CASE R!Prepare BY <1>1 DEF R!Prepare, R!EngineIdle, R!Busy
<1>2. CASE R!Spawn BY <1>2 DEF R!Spawn
<1>3. CASE R!Watch BY <1>3 DEF R!Watch
<1>4. QED BY <1>1, <1>2, <1>3 DEF R!Sidecar

LEMMA EngineKeeps == ASSUME R!LeaseAssumption, LeaseInv, R!Engine PROVE LeaseInv'
<1> USE DEF R!LeaseAssumption, LeaseInv, LeaseTypes, WorkHasLease, FlightIsAwaited, WindowIsClean, Waits, R!apiVars,
      R!foleyVars, R!Nil
<1>1. ASSUME NEW p \in Vid \cup Foreign, R!Take(p) PROVE LeaseInv' BY <1>1 DEF R!Take
<1>2. ASSUME NEW p \in Vid \cup Foreign, R!Run(p) PROVE LeaseInv' BY <1>2 DEF R!Run
<1>3. CASE R!Done BY <1>3 DEF R!Done
<1>4. QED BY <1>1, <1>2, <1>3 DEF R!Engine

LEMMA ArrivalsKeep ==
  ASSUME R!LeaseAssumption, LeaseInv,
         \/ \E j \in Vid : R!Accept(j)
         \/ \E j \in Aud : R!AcceptAudio(j)
         \/ \E p \in Foreign : R!SubmitForeign(p)
  PROVE  LeaseInv'
<1> USE DEF R!LeaseAssumption, LeaseInv, LeaseTypes, WorkHasLease, FlightIsAwaited, WindowIsClean, Waits, R!Nil
<1>1. ASSUME NEW j \in Vid, R!Accept(j) PROVE LeaseInv' BY <1>1 DEF R!Accept, R!Idle, R!foleyVars, R!engineVars
<1>2. ASSUME NEW j \in Aud, R!AcceptAudio(j) PROVE LeaseInv' BY <1>2 DEF R!AcceptAudio, R!apiVars, R!engineVars
<1>3. ASSUME NEW p \in Foreign, R!SubmitForeign(p) PROVE LeaseInv'
  BY <1>3 DEF R!SubmitForeign, R!apiVars, R!foleyVars
<1>4. QED BY <1>1, <1>2, <1>3

LEMMA DeathsKeep ==
  ASSUME R!LeaseAssumption, LeaseInv, R!ApiDies \/ R!FoleyDies \/ R!EngineDies \/ UNCHANGED R!vars
  PROVE  LeaseInv'
<1> USE DEF R!LeaseAssumption, LeaseInv, LeaseTypes, WorkHasLease, FlightIsAwaited, WindowIsClean, Waits, R!Nil, R!apiVars,
      R!foleyVars, R!engineVars
<1>1. CASE R!ApiDies BY <1>1 DEF R!ApiDies, R!Idle
<1>2. CASE R!FoleyDies BY <1>2 DEF R!FoleyDies
<1>3. CASE R!EngineDies BY <1>3 DEF R!EngineDies
<1>4. CASE UNCHANGED R!vars BY <1>4 DEF R!vars
<1>5. QED BY <1>1, <1>2, <1>3, <1>4

LEMMA LeaseNext == ASSUME R!LeaseAssumption, LeaseInv, [R!Next]_(R!vars) PROVE LeaseInv'
BY ThreadKeeps, RecoveryKeeps, SidecarKeeps, EngineKeeps, ArrivalsKeep, DeathsKeep DEF R!Next

LEMMA LeaseIsExclusive == LeaseInv => R!GpuExclusive
BY DEF LeaseInv, LeaseTypes, WorkHasLease, WindowIsClean, R!GpuExclusive

(* However many jobs, prompts of others and deaths there are: while the    *)
(* child of the sidecar works, the engine renders no video of the API's    *)
(* but one that it took after the API had given it up.                     *)
THEOREM OneUserOfTheGpu == ASSUME R!LeaseAssumption PROVE R!Spec => []R!GpuExclusive
<1>1. R!Init => LeaseInv BY LeaseInit
<1>2. LeaseInv /\ [R!Next]_(R!vars) => LeaseInv' BY LeaseNext
<1>3. QED BY <1>1, <1>2, LeaseIsExclusive, PTL DEF R!Spec

-----------------------------------------------------------------------------
(* Rehearsal. Nobody registers once the recovery has begun, so an exercise *)
(* that was retired holds nothing any more; what it had sent is stale for  *)
(* each object that was fenced, and the watch releases only when all are.  *)
PastRetirement == nWatch \in {"fence", "recover", "done"}
MayHold == nEx = "holding" /\ "leader" \in nAlive
NobodyReturns ==
  /\ nEx = "holding" => nOwner
  /\ nRetired => nRestore /\ ~MayHold
  /\ nWatch \notin {"armed", "refused", "down"} => nRestore
  /\ "leader" \in nReused => nEx = "ended"
  /\ PastRetirement => ~MayHold
FencedIsStale ==
  /\ nWatch \in {"armed", "retire", "open", "check", "send", "wait", "pick"} => nFenced = {}
  /\ nWatch \in {"recover", "done"} => Objects \subseteq nFenced
  /\ nFencing = "current" => nWatch \in {"fence", "refused", "down"} /\ nTarget \in Objects
  /\ PastRetirement => \A o \in nFenced : nReq[o] # "current"
  /\ nWatch = "done" => nHeld = {}

(* A signal. From the stop of the leader on no member is born, so a handle *)
(* opened on somebody else's process is not followed by a comparison that  *)
(* finds a member under that number.                                       *)
Signalling == nWatch \in {"open", "check", "send", "wait"}
StopsLeader == nTarget = "leader" /\ nSig.sig = "stop"
HandleIsOwn ==
  /\ nEx = "off" => ~nOwner
  /\ Signalling => nOwner /\ nTarget \in {"leader", "child"}
  /\ nWatch = "pick" => nOwner
  /\ nWatch = "pick" \/ (Signalling /\ ~StopsLeader) => "leader" \notin nAlive \ nStopped
  /\ nWatch = "check" /\ nTarget \in nAlive => nSig.fd = "own"
  /\ nWatch = "send" => nSig.fd = "own"

RehearsalInv == N!TypeOK /\ N!NobodyElse /\ NobodyReturns /\ FencedIsStale /\ HandleIsOwn

LEMMA RehearsalInit == ASSUME N!Init PROVE RehearsalInv
<1>1. N!TypeOK
  <2>1. {nOwner, nRetired, nCancel, nRestore} \subseteq BOOLEAN BY Zenon DEF N!Init
  <2>2. nSig \in [sig : {"none", "stop", "kill"}, fd : {"none", "own", "other"}] BY DEF N!Init, N!NoSignal
  <2>3. QED BY <2>1, <2>2 DEF N!Init, N!TypeOK
<1>2. QED
  BY <1>1 DEF N!Init, RehearsalInv, N!NobodyElse, NobodyReturns, FencedIsStale, PastRetirement, MayHold, HandleIsOwn, Signalling

(* An object written to makes nothing current.                             *)
LEMMA AgedTypes ==
  ASSUME NEW f \in [Objects -> {"none", "current", "stale"}], NEW o
  PROVE  /\ N!Aged(f, o) \in [Objects -> {"none", "current", "stale"}]
         /\ \A p \in Objects : N!Aged(f, o)[p] = "current" => f[p] = "current" /\ p # o
BY DEF N!Aged

LEMMA ExerciseKeeps == ASSUME RehearsalInv, N!Exercise PROVE RehearsalInv'
<1> USE DEF RehearsalInv, N!NobodyElse, NobodyReturns, FencedIsStale, PastRetirement, MayHold, HandleIsOwn, Signalling, StopsLeader,
      N!procVars, N!fileVars, N!watchVars, N!apiVars, N!TypeOK
<1>1. CASE N!StartExercise BY <1>1 DEF N!StartExercise
<1>2. CASE N!Register
  <2>1. /\ nEx = "starting"
        /\ UNCHANGED <<nStopped, nReused, nHurt, nCustody, nRetired, nCancel, nRestore, nWatch, nTarget, nSig, nFenced, nFencing,
                       nHeld, nSeen, nReq>>
    BY <1>2 DEF N!Register
  <2>2. CASE nWatch = "armed" /\ ~nRestore /\ nEx' = "holding" /\ nOwner' = TRUE /\ nAlive' = nAlive BY <2>1, <2>2
  <2>3. CASE nEx' = "ended" /\ nAlive' = nAlive \ {"leader"} /\ nOwner' = nOwner BY <2>1, <2>3
  <2>4. QED BY <1>2, <2>2, <2>3 DEF N!Register, N!Open
<1>3. CASE N!EndExercise BY <1>3 DEF N!EndExercise, N!Holding
<1>4. CASE N!LeaderDies BY <1>4 DEF N!LeaderDies
<1>5. ASSUME NEW o \in Objects, N!ReadObject(o) PROVE RehearsalInv' BY <1>5 DEF N!ReadObject
<1>6. ASSUME NEW o \in Objects, N!SendHold(o) PROVE RehearsalInv' BY <1>6 DEF N!SendHold, N!Holding
<1>7. QED BY <1>1, <1>2, <1>3, <1>4, <1>5, <1>6 DEF N!Exercise

LEMMA EnvironmentKeeps == ASSUME RehearsalInv, N!Environment PROVE RehearsalInv'
<1> USE DEF RehearsalInv, N!NobodyElse, NobodyReturns, FencedIsStale, PastRetirement, MayHold, HandleIsOwn, Signalling, StopsLeader,
      N!procVars, N!fileVars, N!watchVars, N!apiVars, N!TypeOK
<1>1. ASSUME NEW o \in Objects, N!Land(o) PROVE RehearsalInv' BY <1>1, AgedTypes DEF N!Land
<1>2. ASSUME NEW o \in Objects, N!Touch(o) PROVE RehearsalInv' BY <1>2, AgedTypes DEF N!Touch, N!Write
<1>3. CASE N!ChildEnds BY <1>3 DEF N!ChildEnds
<1>4. ASSUME NEW p \in {"leader", "child"}, N!Reuse(p) PROVE RehearsalInv' BY <1>4 DEF N!Reuse
<1>5. QED BY <1>1, <1>2, <1>3, <1>4 DEF N!Environment

(* The watch stops and kills: the retirement and the signals it sends.     *)
LEMMA RetirementKeeps ==
  ASSUME RehearsalInv, N!Retire \/ N!OpenHandle \/ N!CheckHandle \/ N!SendSignal \/ N!AwaitStop \/ N!Pick
  PROVE  RehearsalInv'
<1> USE DEF RehearsalInv, N!NobodyElse, NobodyReturns, FencedIsStale, PastRetirement, MayHold, HandleIsOwn, Signalling, StopsLeader,
      N!procVars, N!fileVars, N!watchVars, N!apiVars, N!TypeOK, N!WatchTo
<1>1. CASE N!Retire BY <1>1 DEF N!Retire, N!SignalTo
<1>2. CASE N!OpenHandle
  <2>1. nSig' = [nSig EXCEPT !.fd = N!Holder(nTarget)] /\ N!Holder(nTarget) \in {"none", "own", "other"}
    BY <1>2 DEF N!OpenHandle, N!Holder
  <2>2. nSig'.fd = N!Holder(nTarget) /\ nSig'.sig = nSig.sig
        /\ nSig' \in [sig : {"none", "stop", "kill"}, fd : {"none", "own", "other"}]
    BY <2>1
  <2>3. nTarget \in nAlive => nSig'.fd = "own" BY <2>2 DEF N!Holder
  <2>4. nWatch' = "check" \/ (nWatch' = "wait" /\ nSig.sig = "stop") \/ (nWatch' = "pick" /\ nSig.sig # "stop")
    BY <1>2, <2>2 DEF N!OpenHandle, N!Over
  <2>5. nWatch = "open"
        /\ UNCHANGED <<nEx, nAlive, nStopped, nReused, nHurt, nOwner, nCustody, nRetired, nCancel, nRestore, nTarget, nFenced,
                       nFencing, nHeld, nSeen, nReq, nTouches, nCrashes>>
    BY <1>2 DEF N!OpenHandle
  <2>6. QED BY <2>2, <2>3, <2>4, <2>5
<1>3. CASE N!CheckHandle BY <1>3 DEF N!CheckHandle, N!Holder, N!Over
<1>4. CASE N!SendSignal
  <2>1. nSig.fd = "own" /\ nWatch = "send" BY <1>4 DEF N!SendSignal
  <2>2. /\ nStopped' \in {nStopped, nStopped \cup {nTarget}} /\ nAlive' \in {nAlive, nAlive \ {nTarget}}
        /\ nEx' \in {nEx, "ended"} /\ nHurt' = nHurt
    BY <1>4, <2>1 DEF N!SendSignal, N!Signalled
  <2>3. (nWatch' = "wait" /\ nSig.sig = "stop") \/ (nWatch' = "pick" /\ nSig.sig # "stop")
    BY <1>4 DEF N!SendSignal, N!Over
  <2>4. UNCHANGED <<nReused, nOwner, nCustody, nRetired, nCancel, nRestore, nTarget, nSig, nFenced, nFencing, nHeld, nSeen, nReq,
                    nTouches, nCrashes>>
    BY <1>4 DEF N!SendSignal
  <2>5. QED BY <2>1, <2>2, <2>3, <2>4
<1>5. CASE N!AwaitStop BY <1>5 DEF N!AwaitStop, N!Holder, N!SignalTo
<1>6. CASE N!Pick
  <2>1. /\ nWatch = "pick" /\ nCustody' \in {nCustody, nCustody \cup nAlive}
        /\ UNCHANGED <<nEx, nAlive, nStopped, nReused, nHurt, nOwner, nCancel, nRestore, nFenced, nFencing, nHeld, nSeen, nReq>>
    BY <1>6 DEF N!Pick
  <2>2. CASE nWatch' = "fence" /\ nRetired' = TRUE /\ (nAlive = {} \/ "leader" \in nReused) /\ UNCHANGED <<nTarget, nSig>>
    BY <2>1, <2>2
  <2>3. CASE nWatch' = "refused" /\ UNCHANGED <<nRetired, nTarget, nSig>> BY <2>1, <2>3
  <2>4. CASE nWatch' = "open" /\ nRetired' = nRetired
             /\ \/ nTarget' = "child" /\ nSig' = [sig |-> "stop", fd |-> "none"]
                \/ nTarget' = "leader" /\ nSig' = [sig |-> "kill", fd |-> "none"]
    BY <2>1, <2>4
  <2>5. QED BY <1>6, <2>2, <2>3, <2>4 DEF N!Pick, N!SignalTo
<1>7. QED BY <1>1, <1>2, <1>3, <1>4, <1>5, <1>6

LEMMA WatchKeeps == ASSUME RehearsalInv, N!Watch \/ N!FenceConflict \/ N!Crash PROVE RehearsalInv'
<1> USE DEF RehearsalInv, N!NobodyElse, NobodyReturns, FencedIsStale, PastRetirement, MayHold, HandleIsOwn, Signalling, StopsLeader,
      N!procVars, N!fileVars, N!watchVars, N!apiVars, N!TypeOK, N!WatchTo
<1>1. CASE N!Begin BY <1>1 DEF N!Begin
<1>2. CASE N!Fenced BY <1>2 DEF N!Fenced, N!Fences
<1>3. CASE N!Complete BY <1>3 DEF N!Complete
<1>4. CASE N!FenceWrite BY <1>4, AgedTypes DEF N!FenceWrite, N!Write
<1>5. CASE N!Again BY <1>5 DEF N!Again, N!NoSignal
<1>6. ASSUME NEW o \in Objects, N!FenceRead(o) PROVE RehearsalInv' BY <1>6 DEF N!FenceRead, N!Fences
<1>7. ASSUME NEW o \in Objects, N!Release(o) PROVE RehearsalInv' BY <1>7, AgedTypes DEF N!Release, N!Write
<1>8. CASE N!FenceConflict BY <1>8, AgedTypes DEF N!FenceConflict, N!Write
<1>9. CASE N!Crash BY <1>9 DEF N!Crash
<1> HIDE DEF RehearsalInv
<1>10. QED BY <1>1, <1>2, <1>3, <1>4, <1>5, <1>6, <1>7, <1>8, <1>9, RetirementKeeps DEF N!Watch

LEMMA RehearsalNext == ASSUME RehearsalInv, [N!Next]_(N!vars) PROVE RehearsalInv'
<1>1. CASE UNCHANGED N!vars
  BY <1>1 DEF N!vars, RehearsalInv, N!NobodyElse, NobodyReturns, FencedIsStale, PastRetirement, MayHold, HandleIsOwn, Signalling,
     StopsLeader, N!TypeOK
<1>2. QED BY <1>1, ExerciseKeeps, EnvironmentKeeps, WatchKeeps DEF N!Next

LEMMA RehearsalHolds == RehearsalInv => N!NoLateHold /\ N!NobodyElse
BY DEF RehearsalInv, FencedIsStale, PastRetirement, N!NoLateHold

(* However often the watch ends and whoever else writes the objects: once  *)
(* the recovery is recorded no object is held and no request can hold one. *)
THEOREM NothingHoldsLate == N!Spec => []N!NoLateHold
<1>1. N!Init => RehearsalInv BY RehearsalInit
<1>2. RehearsalInv /\ [N!Next]_(N!vars) => RehearsalInv' BY RehearsalNext
<1>3. QED BY <1>1, <1>2, RehearsalHolds, PTL DEF N!Spec

-----------------------------------------------------------------------------
(* OwnedJob. A run sends one CREATE and knows the UID of its Job only when *)
(* that one took effect; a run that says its Job is absent, either sent    *)
(* none or had it take effect before, so it cannot do so later.            *)
SentOnce ==
  \A r \in Runs :
    /\ oPc[r] \in {"off", "absence", "intent"} => oReq[r] = "none"
    /\ r \in oUid \/ oJob = r \/ oPod[r] # "none" => oReq[r] = "committed"
AbsenceIsKnown ==
  \A r \in Runs :
    /\ oPc[r] = "delete" => r \in oUid
    /\ O!Live /\ oPc[r] \in {"pods", "sweep", "ended"} => oReq[r] \in {"none", "committed"}
    /\ r \in oAbsent => oPc[r] = "ended"
    /\ O!Live /\ r \in oAbsent => oJob # r /\ oPod[r] = "none"
SavedBefore ==
  \A r \in Runs :
    /\ oPc[r] \in {"acking", "ack wait"} \/ oFiles[r] \cap {"staged ack", "ack"} # {} => r \in oSaved
    /\ O!Live => /\ oPc[r] = "confirm" \/ oPod[r] = "succeeded" \/ r \in oDone => r \in oSaved
                 /\ oFiles[r] \cap {"staged binding", "binding"} # {} => "scope" \in oFiles[r]
    /\ r \in oCopied => O!Live /\ r \in oDone \cap oAbsent
    /\ oPod[r] # "no scope"
OursIsDying == oDying => oJob \in Runs

OwnedInv == O!TypeOK /\ SentOnce /\ AbsenceIsKnown /\ SavedBefore /\ OursIsDying

LEMMA OwnedInit == ASSUME O!OwnedJobAssumption, O!Init PROVE OwnedInv
BY DEF O!OwnedJobAssumption, O!Init, O!TypeOK, OwnedInv, SentOnce, AbsenceIsKnown, SavedBefore, OursIsDying

Steps == {"off", "ended", "refused", "dead"} \cup O!Collecting \cup O!Clearing
LEMMA GoTypes ==
  ASSUME O!TypeOK, NEW q \in Runs, NEW s \in Steps, O!Go(q, s)
  PROVE  oPc' \in [Runs -> Steps] /\ oPc'[q] = s /\ \A r \in Runs \ {q} : oPc'[r] = oPc[r]
BY DEF O!TypeOK, O!Go, Steps

LEMMA PutTypes ==
  ASSUME O!TypeOK, NEW q \in Runs, NEW f \in {"staged", "staged binding", "staged ack"}, O!Put(q, f)
  PROVE  /\ oFiles' \in [Runs -> SUBSET {"staged", "staged binding", "scope", "binding", "staged ack", "ack"}]
         /\ oFiles'[q] = oFiles[q] \cup {f} /\ \A r \in Runs \ {q} : oFiles'[r] = oFiles[r]
BY DEF O!TypeOK, O!Put

LEMMA PodTypes ==
  ASSUME O!TypeOK, NEW q \in Runs, NEW s \in {"none", "pending", "waiting", "scanning", "ready", "succeeded", "failed", "no scope"},
         O!PodTo(q, s)
  PROVE  /\ oPod' \in [Runs -> {"none", "pending", "waiting", "scanning", "ready", "succeeded", "failed", "no scope"}]
         /\ oPod'[q] = s /\ \A r \in Runs \ {q} : oPod'[r] = oPod[r]
BY DEF O!TypeOK, O!PodTo

LEMMA CollectingKeeps ==
  ASSUME O!OwnedJobAssumption, OwnedInv, NEW q \in Runs,
         \/ O!Start(q) \/ O!Absence(q) \/ O!Created(q) \/ O!Running(q) \/ O!Delivered(q) \/ O!Ready(q)
         \/ O!Fetch(q) \/ O!Acked(q) \/ O!Refuse(q) \/ O!HardExit(q) \/ O!Die(q)
  PROVE  OwnedInv'
<1> USE DEF OwnedInv, O!Go, O!At
<1>1. UNCHANGED <<oKind, oReq, oJob, oDying, oPod, oFiles, oDone, oAbsent, oCopied>>
  BY DEF O!Start, O!Absence, O!Created, O!Running, O!Delivered, O!Ready, O!Fetch, O!Acked, O!Refuse, O!HardExit, O!Die,
     O!apiVars, O!podVars
<1>2. PICK s \in {"absence", "intent", "cleanup", "created", "bound", "delivered", "fetching", "confirm", "acking", "dead"} :
        O!Go(q, s)
  BY DEF O!Start, O!Absence, O!Created, O!Running, O!Delivered, O!Ready, O!Fetch, O!Acked, O!Refuse, O!HardExit, O!Die
<1>3. oPc'[q] = s /\ \A r \in Runs \ {q} : oPc'[r] = oPc[r] BY <1>2 DEF O!TypeOK
<1>4. oUid' \in {oUid, oUid \cup {q}} /\ (oUid' # oUid => oReq[q] = "committed")
  BY DEF O!Start, O!Absence, O!Created, O!Running, O!Delivered, O!Ready, O!Fetch, O!Acked, O!Refuse, O!HardExit, O!Die
<1>5. oSaved' \in {oSaved, oSaved \cup {q}} /\ (s = "acking" => q \in oSaved')
  BY <1>3 DEF O!Start, O!Absence, O!Created, O!Running, O!Delivered, O!Ready, O!Fetch, O!Acked, O!Refuse, O!HardExit, O!Die,
     O!TypeOK
<1>6. oPc[q] # "ended" /\ (s \in {"absence", "intent"} => oPc[q] \in {"off", "absence"})
  BY <1>3 DEF O!Start, O!Absence, O!Created, O!Running, O!Delivered, O!Ready, O!Fetch, O!Acked, O!Refuse, O!HardExit, O!Die,
     O!TypeOK, O!Collecting, O!Clearing, O!Terminal
<1>7. O!Live /\ s = "confirm" => q \in oSaved
  <2>1. O!Live /\ s = "confirm" => oPc[q] \in {"confirm", "ack wait"}
    BY <1>3 DEF O!Start, O!Absence, O!Created, O!Running, O!Delivered, O!Ready, O!Fetch, O!Acked, O!Refuse, O!HardExit,
       O!Die, O!TypeOK, O!Live
  <2>2. QED BY <2>1 DEF SavedBefore
<1>8. O!TypeOK' BY <1>1, <1>2, <1>4, <1>5 DEF O!TypeOK, O!Collecting, O!Clearing
<1>9. SentOnce' BY <1>1, <1>3, <1>4, <1>6 DEF SentOnce
<1>10. AbsenceIsKnown' BY <1>1, <1>3, <1>4, <1>6 DEF AbsenceIsKnown, O!Live
<1>11. SavedBefore' BY <1>1, <1>3, <1>5, <1>7 DEF SavedBefore, O!Live
<1>12. OursIsDying' BY <1>1 DEF OursIsDying
<1>13. QED BY <1>8, <1>9, <1>10, <1>11, <1>12

LEMMA SendingKeeps ==
  ASSUME O!OwnedJobAssumption, OwnedInv, NEW q \in Runs, O!Create(q) \/ O!Deliver(q) \/ O!SendAck(q) \/ O!Complete(q)
  PROVE  OwnedInv'
<1> USE DEF OwnedInv, O!At, O!Live
<1>1. CASE O!Create(q)
  <2>1. UNCHANGED <<oKind, oUid, oSaved, oDone, oAbsent, oCopied, oJob, oDying, oPod, oFiles>> /\ oPc[q] = "intent"
        /\ oReq' = [oReq EXCEPT ![q] = "sent"] /\ O!Go(q, "creating")
    BY <1>1 DEF O!Create, O!podVars
  <2>2. oPc' \in [Runs -> Steps] /\ oPc'[q] = "creating" /\ \A r \in Runs \ {q} : oPc'[r] = oPc[r]
    BY <2>1, GoTypes DEF Steps, O!Collecting
  <2>3. oReq' \in [Runs -> {"none", "sent", "committed", "exists"}] /\ \A r \in Runs \ {q} : oReq'[r] = oReq[r]
    BY <2>1 DEF O!TypeOK
  <2>4. q \notin oUid /\ oJob # q /\ oPod[q] = "none" /\ q \notin oAbsent BY <2>1 DEF SentOnce, AbsenceIsKnown
  <2>5. O!TypeOK' BY <2>1, <2>2, <2>3 DEF O!TypeOK, Steps
  <2>6. SentOnce' BY <2>1, <2>2, <2>3, <2>4 DEF SentOnce
  <2>7. AbsenceIsKnown' BY <2>1, <2>2, <2>3, <2>4 DEF AbsenceIsKnown
  <2>8. SavedBefore' /\ OursIsDying' BY <2>1, <2>2 DEF SavedBefore, OursIsDying
  <2>9. QED BY <2>5, <2>6, <2>7, <2>8
<1>2. CASE O!Deliver(q) \/ O!SendAck(q) \/ O!Complete(q)
  <2>1. UNCHANGED <<oKind, oReq, oUid, oSaved, oAbsent, oCopied, oJob, oDying, oPod>>
        /\ oPc[q] \in {"bound", "acking", "confirm"}
    BY <1>2 DEF O!Deliver, O!SendAck, O!Complete, O!apiVars, O!podVars
  <2>2. PICK s \in {"cleanup", "delivering", "ack wait"} : O!Go(q, s) /\ (s = "ack wait" => oPc[q] = "acking")
    BY <1>2 DEF O!Deliver, O!SendAck, O!Complete
  <2>3. oPc' \in [Runs -> Steps] /\ oPc'[q] = s /\ \A r \in Runs \ {q} : oPc'[r] = oPc[r]
    BY <2>2, GoTypes DEF Steps, O!Collecting, O!Clearing
  <2>4. \/ oFiles' = oFiles
        \/ oKind = "live" /\ O!Put(q, "staged")
        \/ oKind # "live" /\ O!Put(q, "staged binding")
        \/ oPc[q] = "acking" /\ O!Put(q, "staged ack")
    BY <1>2 DEF O!Deliver, O!SendAck, O!Complete, O!podVars
  <2>5. /\ oFiles' \in [Runs -> SUBSET {"staged", "staged binding", "scope", "binding", "staged ack", "ack"}]
        /\ \A r \in Runs : /\ oFiles'[r] \cap {"staged ack", "ack"} # {} => r \in oSaved
                           /\ oKind = "live" /\ oFiles'[r] \cap {"staged binding", "binding"} # {} => "scope" \in oFiles'[r]
    <3>1. CASE oFiles' = oFiles BY <3>1 DEF O!TypeOK, SavedBefore
    <3>2. CASE oKind = "live" /\ O!Put(q, "staged") BY <3>2, PutTypes DEF SavedBefore
    <3>3. CASE oKind # "live" /\ O!Put(q, "staged binding") BY <3>3, PutTypes DEF SavedBefore
    <3>4. CASE oPc[q] = "acking" /\ O!Put(q, "staged ack") BY <3>4, PutTypes DEF SavedBefore
    <3>5. QED BY <2>4, <3>1, <3>2, <3>3, <3>4
  <2>6. oDone' \in {oDone, oDone \cup {q}} /\ (oDone' # oDone => oPod[q] = "succeeded")
    BY <1>2 DEF O!Deliver, O!SendAck, O!Complete
  <2>7. O!TypeOK' BY <2>1, <2>3, <2>5, <2>6 DEF O!TypeOK, Steps
  <2>8. SentOnce' BY <2>1, <2>3 DEF SentOnce
  <2>9. AbsenceIsKnown' BY <2>1, <2>3 DEF AbsenceIsKnown
  <2>10. SavedBefore' BY <2>1, <2>2, <2>3, <2>5, <2>6 DEF SavedBefore
  <2>11. QED BY <2>1, <2>7, <2>8, <2>9, <2>10 DEF OursIsDying
<1>3. QED BY <1>1, <1>2

LEMMA ClearingKeeps ==
  ASSUME O!OwnedJobAssumption, OwnedInv, NEW q \in Runs,
         O!Cleanup(q) \/ O!Delete(q) \/ O!DeletePods(q) \/ O!Sweep(q) \/ O!StartCopy(q)
  PROVE  OwnedInv'
<1> USE DEF OwnedInv, O!At, O!Live
<1>1. CASE O!StartCopy(q)
  BY <1>1 DEF O!StartCopy, O!TypeOK, SentOnce, AbsenceIsKnown, SavedBefore, OursIsDying, O!apiVars, O!podVars
<1>2. CASE ~O!StartCopy(q)
  <2>1. UNCHANGED <<oKind, oReq, oSaved, oDone, oCopied, oJob, oFiles>> /\ oPc[q] \in {"cleanup", "delete", "pods", "sweep"}
    BY <1>2 DEF O!Cleanup, O!Delete, O!DeletePods, O!Sweep, O!apiVars, O!podVars
  <2>2. PICK s \in {"delete", "refused", "pods", "sweep", "ended"} : O!Go(q, s)
    BY <1>2 DEF O!Cleanup, O!Delete, O!DeletePods, O!Sweep
  <2>3. oPc' \in [Runs -> Steps] /\ oPc'[q] = s /\ \A r \in Runs \ {q} : oPc'[r] = oPc[r]
    BY <2>2, GoTypes DEF Steps, O!Clearing
  <2>4. oUid' \in {oUid, oUid \cup {q}} /\ (oUid' # oUid => oJob = q) /\ (s = "delete" => q \in oUid')
    <3>1. \A z \in Steps : O!Go(q, z) => z = s BY <2>3, GoTypes
    <3>2. \A z \in {"delete", "refused", "pods", "sweep", "ended"} : O!Go(q, z) => z = s BY <3>1 DEF Steps, O!Clearing
    <3>3. CASE O!Cleanup(q) BY <3>2, <3>3 DEF O!Cleanup
    <3>4. CASE O!Delete(q) \/ O!DeletePods(q) \/ O!Sweep(q) BY <3>2, <3>4 DEF O!Delete, O!DeletePods, O!Sweep
    <3>5. QED BY <1>2, <3>3, <3>4
  <2>5. oKind = "live" /\ s \in {"pods", "sweep", "ended"} => oReq[q] \in {"none", "committed"}
    <3>1. CASE O!Cleanup(q)
      <4>1. \A z \in {"delete", "refused"} : O!Go(q, z) => z = s
        BY <2>3, GoTypes DEF Steps, O!Clearing
      <4>2. (O!Go(q, "pods") /\ ~O!Unknown(q)) \/ s \in {"delete", "refused"} BY <3>1, <4>1 DEF O!Cleanup
      <4>3. QED BY <4>2 DEF O!Unknown, O!Attempted, SentOnce
    <3>2. CASE O!Delete(q)
      BY <3>2 DEF O!Delete, AbsenceIsKnown, SentOnce
    <3>3. CASE O!DeletePods(q) \/ O!Sweep(q) BY <3>3 DEF O!DeletePods, O!Sweep, AbsenceIsKnown
    <3>4. QED BY <1>2, <3>1, <3>2, <3>3
  <2>6. oDying' = oDying \/ (oDying' = TRUE /\ oJob = q)
    <3>1. CASE O!Delete(q)
      <4>1. CASE oJob = q BY <3>1, <4>1, Zenon DEF O!Delete
      <4>2. CASE oJob # q BY <3>1, <4>2, Zenon DEF O!Delete
      <4>3. QED BY <4>1, <4>2
    <3>2. CASE O!Cleanup(q) \/ O!DeletePods(q) \/ O!Sweep(q) BY <3>2 DEF O!Cleanup, O!DeletePods, O!Sweep, O!apiVars
    <3>3. QED BY <1>2, <3>1, <3>2
  <2>7. oPod' = oPod \/ O!PodTo(q, "none")
    BY <1>2 DEF O!Cleanup, O!Delete, O!DeletePods, O!Sweep, O!podVars
  <2>8. /\ oPod' \in [Runs -> {"none", "pending", "waiting", "scanning", "ready", "succeeded", "failed", "no scope"}]
        /\ \A r \in Runs : oPod'[r] \in {oPod[r], "none"}
    BY <2>7, PodTypes DEF O!TypeOK
  <2>9. /\ oAbsent' \in {oAbsent, oAbsent \cup {q}}
        /\ oAbsent' # oAbsent => s = "ended" /\ oJob = None /\ oPod[q] = "none"
    <3>1. CASE O!Sweep(q)
      <4>1. CASE O!Go(q, "ended")
        <5>1. O!Flagged(q) = {} => oPod[q] = "none" BY DEF O!Flagged
        <5>2. s = "ended" BY <2>3, <4>1, GoTypes DEF Steps
        <5>3. QED BY <3>1, <5>1, <5>2 DEF O!Sweep
      <4>2. CASE ~O!Go(q, "ended") BY <3>1, <4>2 DEF O!Sweep
      <4>3. QED BY <4>1, <4>2
    <3>2. CASE ~O!Sweep(q) BY <1>2, <3>2 DEF O!Cleanup, O!Delete, O!DeletePods
    <3>3. QED BY <3>1, <3>2
  <2>10. O!TypeOK' BY <2>1, <2>3, <2>4, <2>6, <2>8, <2>9 DEF O!TypeOK, Steps
  <2>11. SentOnce' BY <2>1, <2>3, <2>4, <2>8 DEF SentOnce
  <2>12. AbsenceIsKnown'
    <3>1. q \notin oAbsent BY <2>1 DEF AbsenceIsKnown
    <3>2. oJob # q \/ oJob # None BY DEF O!OwnedJobAssumption
    <3> DEFINE Known(r) ==
          /\ oPc[r] = "delete" => r \in oUid
          /\ O!Live /\ oPc[r] \in {"pods", "sweep", "ended"} => oReq[r] \in {"none", "committed"}
          /\ r \in oAbsent => oPc[r] = "ended"
          /\ O!Live /\ r \in oAbsent => oJob # r /\ oPod[r] = "none"
    <3>3. ASSUME NEW r \in Runs \ {q} PROVE Known(r)' BY <2>1, <2>3, <2>4, <2>8, <2>9 DEF AbsenceIsKnown
    <3>4. Known(q)' BY <2>1, <2>3, <2>4, <2>5, <2>8, <2>9, <3>1, <3>2
    <3> HIDE DEF Known
    <3>5. \A r \in Runs : Known(r)' BY <3>3, <3>4
    <3>6. QED BY <3>5 DEF AbsenceIsKnown, Known
  <2>13. SavedBefore' BY <2>1, <2>3, <2>8, <2>9 DEF SavedBefore
  <2>14. OursIsDying' BY <2>1, <2>6 DEF OursIsDying
  <2>15. QED BY <2>10, <2>11, <2>12, <2>13, <2>14
<1>3. QED BY <1>1, <1>2

(* A Job and its pod come by the CREATE that was sent, and only so.        *)
LEMMA ClusterKeeps ==
  ASSUME O!OwnedJobAssumption, OwnedInv,
         \/ \E q \in Runs : O!Cluster(q)
         \/ O!CollectJob \/ (\E x \in Others : O!OtherJob(x)) \/ O!OtherGone
  PROVE  OwnedInv'
<1> USE DEF OwnedInv, O!Live
<1>1. ASSUME NEW q \in Runs, O!Commit(q) PROVE OwnedInv'
  <2>1. UNCHANGED <<oKind, oPc, oUid, oSaved, oDone, oAbsent, oCopied, oDying, oFiles>> /\ oReq[q] = "sent"
    BY <1>1 DEF O!Commit, O!hostVars
  <2>2. PICK s \in {"committed", "exists"} : oReq' = [oReq EXCEPT ![q] = s]
    BY <1>1 DEF O!Commit
  <2>3. /\ oReq' \in [Runs -> {"none", "sent", "committed", "exists"}]
        /\ oReq'[q] = s /\ \A r \in Runs \ {q} : oReq'[r] = oReq[r]
    BY <2>2 DEF O!TypeOK
  <2>4. \/ oJob = None /\ oJob' = q /\ O!PodTo(q, "pending") /\ s = "committed"
        \/ UNCHANGED <<oJob, oPod>>
    BY <1>1, <2>3 DEF O!Commit, O!TypeOK
  <2>5. /\ oPod' \in [Runs -> {"none", "pending", "waiting", "scanning", "ready", "succeeded", "failed", "no scope"}]
        /\ \A r \in Runs \ {q} : oPod'[r] = oPod[r]
        /\ oPod'[q] \in {oPod[q], "pending"} /\ (oPod'[q] # oPod[q] => s = "committed")
    BY <2>4, PodTypes DEF O!TypeOK
  <2>7. q \notin oUid /\ oJob # q /\ oPod[q] = "none" BY <2>1 DEF SentOnce
  <2>8. oPc[q] \notin {"off", "absence", "intent", "delete"} BY <2>1, <2>7 DEF SentOnce, AbsenceIsKnown
  <2>9. oKind = "live" => oPc[q] \notin {"pods", "sweep", "ended"} BY <2>1 DEF AbsenceIsKnown
  <2>10. O!TypeOK' BY <2>1, <2>3, <2>4, <2>5 DEF O!TypeOK
  <2>11. oKind = "live" => q \notin oAbsent BY <2>9 DEF AbsenceIsKnown
  <2>12. SentOnce'
    <3>1. q \in oUid' \/ oJob' = q \/ oPod'[q] # "none" => oReq'[q] = "committed" BY <2>1, <2>3, <2>4, <2>5, <2>7
    <3>2. \A r \in Runs \ {q} : oReq'[r] = oReq[r] /\ oPod'[r] = oPod[r] /\ oPc'[r] = oPc[r] /\ (oJob' = r => oJob = r)
      BY <2>1, <2>3, <2>4, <2>5
    <3>3. oPc'[q] \notin {"off", "absence", "intent"} BY <2>1, <2>8
    <3>4. QED BY <2>1, <3>1, <3>2, <3>3 DEF SentOnce
  <2>13. AbsenceIsKnown'
    <3>1. \A r \in Runs \ {q} : oReq'[r] = oReq[r] /\ oPod'[r] = oPod[r] /\ oPc'[r] = oPc[r] /\ (oJob' = r => oJob = r)
      BY <2>1, <2>3, <2>4, <2>5
    <3>2. oPc'[q] = oPc[q] BY <2>1
    <3>3. QED BY <2>1, <2>8, <2>9, <2>11, <3>1, <3>2 DEF AbsenceIsKnown
  <2>14. SavedBefore' BY <2>1, <2>5, <2>7 DEF SavedBefore
  <2>15. OursIsDying' BY <2>1, <2>4 DEF OursIsDying
  <2>16. QED BY <2>10, <2>12, <2>13, <2>14, <2>15
<1>2. ASSUME NEW q \in Runs, O!StartPod(q) \/ O!CollectPod(q) \/ O!CollectOrphan(q) PROVE OwnedInv'
  <2>1. UNCHANGED <<oKind, oPc, oUid, oSaved, oDone, oAbsent, oCopied, oReq, oJob, oDying, oFiles>> /\ oPod[q] # "none"
    BY <1>2 DEF O!StartPod, O!CollectPod, O!CollectOrphan, O!hostVars, O!apiVars
  <2>2. PICK s \in {"none", "waiting"} : O!PodTo(q, s) BY <1>2 DEF O!StartPod, O!CollectPod, O!CollectOrphan
  <2>3. /\ oPod' \in [Runs -> {"none", "pending", "waiting", "scanning", "ready", "succeeded", "failed", "no scope"}]
        /\ oPod'[q] = s /\ \A r \in Runs \ {q} : oPod'[r] = oPod[r]
    BY <2>2, PodTypes
  <2>4. O!TypeOK' BY <2>1, <2>3 DEF O!TypeOK
  <2>5. SentOnce' /\ AbsenceIsKnown' BY <2>1, <2>3 DEF SentOnce, AbsenceIsKnown
  <2>6. SavedBefore' /\ OursIsDying' BY <2>1, <2>3 DEF SavedBefore, OursIsDying
  <2>7. QED BY <2>4, <2>5, <2>6
<1>3. ASSUME oJob' \in Others \cup {None}, oDying' \in {oDying, FALSE}, oDying' => oJob' \in Runs,
             UNCHANGED <<oKind, oPc, oUid, oSaved, oDone, oAbsent, oCopied, oReq, oPod, oFiles>>
      PROVE  OwnedInv'
  <2>1. \A r \in Runs : oJob' # r BY <1>3 DEF O!OwnedJobAssumption
  <2>2. O!TypeOK' BY <1>3 DEF O!TypeOK
  <2>3. QED BY <1>3, <2>1, <2>2 DEF SentOnce, AbsenceIsKnown, SavedBefore, OursIsDying
<1>4. ASSUME NEW q \in Runs, O!Snatch(q) PROVE OwnedInv' BY <1>3, <1>4 DEF O!Snatch, O!hostVars, O!podVars
<1>5. CASE O!CollectJob BY <1>3, <1>5 DEF O!CollectJob, O!hostVars, O!podVars
<1>6. ASSUME NEW x \in Others, O!OtherJob(x) PROVE OwnedInv'
  <2>1. ~oDying BY <1>6 DEF O!OtherJob, OursIsDying, O!OwnedJobAssumption
  <2>2. QED BY <1>3, <1>6, <2>1 DEF O!OtherJob, O!hostVars, O!podVars
<1>7. CASE O!OtherGone BY <1>3, <1>7 DEF O!OtherGone, O!hostVars, O!podVars
<1>8. QED BY <1>1, <1>2, <1>4, <1>5, <1>6, <1>7 DEF O!Cluster

LEMMA PodKeeps == ASSUME O!OwnedJobAssumption, OwnedInv, NEW q \in Runs, O!Pod(q) PROVE OwnedInv'
<1> USE DEF OwnedInv, O!Live
<1>1. CASE O!PublishInputs(q) \/ O!PublishAck(q)
  <2>1. UNCHANGED <<oKind, oPc, oUid, oSaved, oDone, oAbsent, oCopied, oReq, oJob, oDying, oPod>>
    BY <1>1 DEF O!PublishInputs, O!PublishAck, O!hostVars, O!apiVars
  <2>2. PICK fs \in SUBSET {"staged", "staged binding", "scope", "binding", "staged ack", "ack"} :
          /\ oFiles' = [oFiles EXCEPT ![q] = fs]
          /\ fs \cap {"staged ack", "ack"} # {} => oFiles[q] \cap {"staged ack", "ack"} # {}
          /\ "scope" \in oFiles[q] => "scope" \in fs
          /\ fs \cap {"staged binding", "binding"} # {} => "scope" \in fs \/ oFiles[q] \cap {"staged binding", "binding"} # {}
    <3>1. oFiles[q] \in SUBSET {"staged", "staged binding", "scope", "binding", "staged ack", "ack"} BY DEF O!TypeOK
    <3>2. CASE O!PublishAck(q)
      <4> DEFINE fs == (oFiles[q] \ {"staged ack"}) \cup {"ack"}
      <4>1. oFiles' = [oFiles EXCEPT ![q] = fs] /\ "staged ack" \in oFiles[q] BY <3>2 DEF O!PublishAck
      <4>2. fs \in SUBSET {"staged", "staged binding", "scope", "binding", "staged ack", "ack"} BY <3>1
      <4>3. QED BY <4>1, <4>2
    <3>3. CASE O!PublishInputs(q) /\ "staged" \in oFiles[q]
      <4> DEFINE fs == (oFiles[q] \ {"staged"}) \cup {"scope", "staged binding"}
      <4>1. oFiles' = [oFiles EXCEPT ![q] = fs] BY <3>3 DEF O!PublishInputs
      <4>2. fs \in SUBSET {"staged", "staged binding", "scope", "binding", "staged ack", "ack"} BY <3>1
      <4>3. QED BY <4>1, <4>2
    <3>4. CASE O!PublishInputs(q) /\ "staged" \notin oFiles[q]
      <4> DEFINE fs == (oFiles[q] \ {"staged binding"}) \cup {"binding"}
      <4>1. oFiles' = [oFiles EXCEPT ![q] = fs] /\ "staged binding" \in oFiles[q] BY <3>4 DEF O!PublishInputs
      <4>2. fs \in SUBSET {"staged", "staged binding", "scope", "binding", "staged ack", "ack"} BY <3>1
      <4>3. QED BY <4>1, <4>2
    <3>5. QED BY <1>1, <3>2, <3>3, <3>4
  <2>3. oFiles'[q] = fs /\ \A r \in Runs \ {q} : oFiles'[r] = oFiles[r] BY <2>2 DEF O!TypeOK
  <2>4. O!TypeOK' BY <2>1, <2>2 DEF O!TypeOK
  <2>5. SavedBefore' BY <2>1, <2>2, <2>3 DEF SavedBefore
  <2>6. QED BY <2>1, <2>4, <2>5 DEF SentOnce, AbsenceIsKnown, OursIsDying
<1>2. CASE O!Bind(q) \/ O!Scan(q) \/ O!AwaitAck(q) \/ O!PodFails(q)
  <2>1. UNCHANGED <<oKind, oPc, oUid, oSaved, oDone, oAbsent, oCopied, oReq, oJob, oDying, oFiles>> /\ oPod[q] # "none"
    BY <1>2 DEF O!Bind, O!Scan, O!AwaitAck, O!PodFails, O!Alive, O!hostVars, O!apiVars
  <2>2. PICK s \in {"scanning", "ready", "succeeded", "failed"} :
          O!PodTo(q, s) /\ (s = "succeeded" /\ oKind = "live" => q \in oSaved)
    <3>1. CASE O!Bind(q) BY <3>1 DEF O!Bind, SavedBefore
    <3>2. CASE O!Scan(q) BY <3>2 DEF O!Scan
    <3>3. CASE O!AwaitAck(q) BY <3>3 DEF O!AwaitAck, SavedBefore
    <3>4. CASE O!PodFails(q) BY <3>4 DEF O!PodFails
    <3>5. QED BY <1>2, <3>1, <3>2, <3>3, <3>4
  <2>3. /\ oPod' \in [Runs -> {"none", "pending", "waiting", "scanning", "ready", "succeeded", "failed", "no scope"}]
        /\ oPod'[q] = s /\ \A r \in Runs \ {q} : oPod'[r] = oPod[r]
    BY <2>2, PodTypes
  <2>4. O!TypeOK' BY <2>1, <2>3 DEF O!TypeOK
  <2>5. SentOnce' /\ AbsenceIsKnown' BY <2>1, <2>3 DEF SentOnce, AbsenceIsKnown
  <2>6. SavedBefore' /\ OursIsDying' BY <2>1, <2>2, <2>3 DEF SavedBefore, OursIsDying
  <2>7. QED BY <2>4, <2>5, <2>6
<1>3. QED BY <1>1, <1>2 DEF O!Pod

LEMMA OwnedNext == ASSUME O!OwnedJobAssumption, OwnedInv, [O!Next]_(O!vars) PROVE OwnedInv'
<1>1. CASE UNCHANGED O!vars
  BY <1>1 DEF O!vars, OwnedInv, O!TypeOK, SentOnce, AbsenceIsKnown, SavedBefore, OursIsDying, O!Live
<1>2. QED
  BY <1>1, CollectingKeeps, SendingKeeps, ClearingKeeps, ClusterKeeps, PodKeeps DEF O!Next, O!Host

LEMMA OwnedHolds ==
  ASSUME O!OwnedJobAssumption, OwnedInv PROVE O!AbsentIsAbsent /\ O!BaselineRetained /\ O!ForeignSurvive
BY DEF OwnedInv, O!TypeOK, SentOnce, AbsenceIsKnown, SavedBefore, OursIsDying, O!AbsentIsAbsent, O!BaselineRetained,
   O!ForeignSurvive, O!Gone, O!Live, O!OwnedJobAssumption

(* However many runs of either host there are, whatever others do to the   *)
(* Job of that NAME and however late a CREATE takes effect: the Job that a *)
(* receipt of the live host calls absent is absent from then on, the bytes *)
(* outlive the producer, and no deletion hits a Job of somebody else.      *)
THEOREM AbsenceStays == ASSUME O!OwnedJobAssumption PROVE O!Spec => [](O!AbsentIsAbsent /\ O!BaselineRetained /\ O!ForeignSurvive)
<1>1. O!Init => OwnedInv BY OwnedInit
<1>2. OwnedInv /\ [O!Next]_(O!vars) => OwnedInv' BY OwnedNext
<1>3. OwnedInv => O!AbsentIsAbsent /\ O!BaselineRetained /\ O!ForeignSurvive BY OwnedHolds
<1>4. QED BY <1>1, <1>2, <1>3, PTL DEF O!Spec

-----------------------------------------------------------------------------
(* PrivateExchange, the proofs. The first file is created exclusively, so  *)
(* one receiver at most gets past it; until that one has sealed them all   *)
(* there is no marker, and once the marker is linked once nothing changes. *)
AllSealed == \A f \in 1..Files : xProof[f] = "sealed"
Active(d) ==
  \/ xRecv[d] \in {"filling", "seal", "link", "unlink", "exited"}
  \/ xRecv[d] = "create" /\ xAt[d] > 1
OneReceiver ==
  \A d \in Deliveries :
    /\ Active(d) => xProof[1] # "absent" /\ \A e \in Deliveries : Active(e) => e = d
    /\ xHost[d] \in {"idle", "bound"} => xRecv[d] = "none"
    /\ xRecv[d] \in {"none", "started"} => xAt[d] = 1
MarkerIsWhole ==
  /\ xMarker # 0 \/ xStaged => AllSealed
  /\ xMarker = 1 => ~xStaged
  /\ \A d \in Deliveries :
       /\ Active(d) /\ xRecv[d] \in {"create", "filling", "seal"} => xMarker = 0 /\ ~xStaged
       /\ xRecv[d] = "link" => xMarker = 0 /\ xStaged
       /\ xRecv[d] = "unlink" => xMarker = 2
       /\ xRecv[d] = "exited" => xMarker = 1
       /\ xHost[d] \in {"confirming", "completed"} => xRecv[d] = "exited"
  /\ xMain = "verifying" => xMarker = 1
  /\ xMain = "refused" => xOver

(* The outcome. A request stays published, what SOURCE reads and answers   *)
(* is that request, and it publishes what it collected under its fence.    *)
RequestStays ==
  /\ \A a \in Asks :
       /\ xAsk[a] = "wait" => xReq = a
       /\ xReq = a => xAsk[a] \in {"wait", "answered", "dead"} \/ xOver
       /\ xAsk[a] = "answered" => xResp.to = a
       /\ xAsk[a] # "idle" => xMain = "finished" \/ xAsk[a] = "refused"
  /\ xSource \in {"reading", "collecting", "collected", "answering"} => xResp.to = X!NoOne /\ xReq # X!NoOne
  /\ xSource \in {"collecting", "collected", "answering"} => xRead = xReq
  /\ xSource \in {"collected", "answering"} => xResp.fenced
  /\ xResp.to # X!NoOne => xResp.to = xReq /\ xResp.fenced

ProofsInv == OneReceiver /\ MarkerIsWhole
ExchangeInv == X!TypeOK /\ ProofsInv /\ RequestStays

LEMMA ExchangeInit == ASSUME X!FilesAssumption, X!Init PROVE ExchangeInv
<1> USE DEF X!FilesAssumption, X!Init, X!NoOne
<1>1. X!TypeOK
  <2>1. /\ xHost \in [Deliveries -> {"idle", "bound", "streaming", "confirming", "completed", "refused"}]
        /\ xSent \in [Deliveries -> {"none", "some", "all", "cut"}]
        /\ xRecv \in [Deliveries -> {"none", "started", "create", "filling", "seal", "link", "unlink", "exited", "refused", "dead"}]
        /\ xAt \in [Deliveries -> 1..Files] /\ xProof \in [1..Files -> {"absent", "part", "whole", "sealed"}]
        /\ xAsk \in [Asks -> {"idle", "stage", "publish", "wait", "answered", "refused", "dead"}]
        /\ xMarker \in 0..2 /\ xKills \in 0..MaxKills
    OBVIOUS
  <2>2. xResp \in [to : Asks \cup {X!NoOne}, fenced : BOOLEAN] /\ xStaged \in BOOLEAN /\ xOver \in BOOLEAN OBVIOUS
  <2>3. QED BY <2>1, <2>2 DEF X!TypeOK
<1>2. ProofsInv BY DEF ProofsInv, OneReceiver, MarkerIsWhole, Active
<1>3. RequestStays BY DEF RequestStays
<1>4. QED BY <1>1, <1>2, <1>3 DEF ExchangeInv

(* The host of a delivery.                                                 *)
LEMMA HostKeeps == ASSUME X!FilesAssumption, ExchangeInv, NEW d \in Deliveries, X!Host(d) PROVE ExchangeInv'
<1> USE DEF ExchangeInv
<1>1. UNCHANGED <<xAt, xProof, xMarker, xStaged, xMain, xOver, xAsk, xTmp, xReq, xResp, xSource, xRead, xFence>>
  BY DEF X!Host, X!Bind, X!Bridge, X!Stream, X!Stop, X!Wait, X!Confirm, X!askVars
<1>2. PICK h \in {"refused", "bound", "streaming", "confirming", "completed"} :
        /\ xHost' = [xHost EXCEPT ![d] = h]
        /\ h = "confirming" \/ h = "completed" => xRecv[d] = "exited" /\ xRecv' = xRecv
        /\ h = "bound" => xHost[d] = "idle" /\ xRecv' = xRecv
  <2>1. CASE X!Bind(d) BY <2>1 DEF X!Bind
  <2>2. CASE X!Bridge(d) BY <2>2 DEF X!Bridge
  <2>3. CASE X!Stream(d)
    <3>1. xHost' = [xHost EXCEPT ![d] = "streaming"] BY <2>3 DEF X!Stream, X!TypeOK
    <3>2. QED BY <3>1
  <2>4. CASE X!Stop(d) BY <2>4 DEF X!Stop
  <2>5. CASE X!Wait(d) BY <2>5 DEF X!Wait
  <2>6. CASE X!Confirm(d) BY <2>6 DEF X!Confirm, ProofsInv, MarkerIsWhole
  <2>7. QED BY <2>1, <2>2, <2>3, <2>4, <2>5, <2>6 DEF X!Host
<1>3. /\ xHost' \in [Deliveries -> {"idle", "bound", "streaming", "confirming", "completed", "refused"}]
      /\ xHost'[d] = h /\ \A e \in Deliveries \ {d} : xHost'[e] = xHost[e]
  BY <1>2 DEF X!TypeOK
<1>4. xRecv' = xRecv \/ (xRecv[d] = "none" /\ \E s \in {"started", "none"} : xRecv' = [xRecv EXCEPT ![d] = s])
  BY DEF X!Host, X!Bind, X!Bridge, X!Stream, X!Stop, X!Wait, X!Confirm, ProofsInv, OneReceiver
<1>5. /\ xRecv' \in [Deliveries -> {"none", "started", "create", "filling", "seal", "link", "unlink", "exited", "refused", "dead"}]
      /\ \A e \in Deliveries : xRecv'[e] = xRecv[e] \/ (e = d /\ xRecv[e] = "none" /\ xRecv'[e] = "started")
  <2>1. CASE xRecv' = xRecv BY <2>1 DEF X!TypeOK
  <2>2. ASSUME NEW s \in {"started", "none"}, xRecv[d] = "none", xRecv' = [xRecv EXCEPT ![d] = s]
        PROVE  /\ xRecv' \in [Deliveries -> {"none", "started", "create", "filling", "seal", "link", "unlink", "exited", "refused",
                                            "dead"}]
               /\ \A e \in Deliveries : xRecv'[e] = xRecv[e] \/ (e = d /\ xRecv[e] = "none" /\ xRecv'[e] = "started")
    BY <2>2 DEF X!TypeOK
  <2>3. QED BY <1>4, <2>1, <2>2
<1>6. xSent' \in [Deliveries -> {"none", "some", "all", "cut"}]
  BY DEF X!Host, X!Bind, X!Bridge, X!Stream, X!Stop, X!Wait, X!Confirm, X!TypeOK
<1>7. xKills' \in 0..MaxKills
  BY DEF X!Host, X!Bind, X!Bridge, X!Stream, X!Stop, X!Wait, X!Confirm, X!TypeOK, X!FilesAssumption
<1>8. X!TypeOK' BY <1>1, <1>3, <1>5, <1>6, <1>7 DEF X!TypeOK
<1>9. \A e \in Deliveries : Active(e)' => Active(e) /\ xRecv'[e] = xRecv[e]
  BY <1>1, <1>5 DEF Active
<1>10. OneReceiver'
  <2>1. xHost'[d] \in {"idle", "bound"} => xRecv'[d] = "none"
    BY <1>2, <1>3 DEF ProofsInv, OneReceiver
  <2>2. QED BY <1>1, <1>3, <1>5, <1>9, <2>1 DEF ProofsInv, OneReceiver
<1>11. MarkerIsWhole'
  <2>1. \A e \in Deliveries : xHost'[e] \in {"confirming", "completed"} => xRecv'[e] = "exited"
    BY <1>2, <1>3, <1>5 DEF ProofsInv, MarkerIsWhole
  <2>2. QED BY <1>1, <1>5, <1>9, <2>1 DEF ProofsInv, MarkerIsWhole, AllSealed
<1>12. RequestStays' BY <1>1 DEF RequestStays
<1>13. QED BY <1>8, <1>10, <1>11, <1>12 DEF ProofsInv

(* The receiver.                                                           *)
LEMMA ReceiverKeeps ==
  ASSUME X!FilesAssumption, ExchangeInv, NEW d \in Deliveries, X!Receiver(d) \/ X!KillReceiver(d)
  PROVE  ExchangeInv'
<1> USE DEF ExchangeInv, ProofsInv
<1>1. UNCHANGED <<xHost, xSent, xMain, xOver, xAsk, xTmp, xReq, xResp, xSource, xRead, xFence>>
  BY DEF X!Receiver, X!CheckEmpty, X!Create, X!Fill, X!Spoil, X!Seal, X!Link, X!Unlink, X!KillReceiver, X!askVars
<1>2. PICK s \in {"create", "filling", "seal", "link", "unlink", "exited", "refused", "dead"} : X!RecvTo(d, s)
  BY DEF X!Receiver, X!CheckEmpty, X!Create, X!Fill, X!Spoil, X!Seal, X!Link, X!Unlink, X!KillReceiver
<1>3. /\ xRecv' \in [Deliveries -> {"none", "started", "create", "filling", "seal", "link", "unlink", "exited", "refused", "dead"}]
      /\ xRecv'[d] = s /\ \A e \in Deliveries \ {d} : xRecv'[e] = xRecv[e]
  BY <1>2 DEF X!RecvTo, X!TypeOK
<1>4. xRecv[d] \notin {"none", "exited"} /\ xHost[d] \notin {"idle", "bound", "confirming", "completed"}
  BY DEF X!Receiver, X!CheckEmpty, X!Create, X!Fill, X!Spoil, X!Seal, X!Link, X!Unlink, X!KillReceiver, OneReceiver,
     MarkerIsWhole
<1>5. xKills' \in 0..MaxKills
  BY DEF X!Receiver, X!CheckEmpty, X!Create, X!Fill, X!Spoil, X!Seal, X!Link, X!Unlink, X!KillReceiver, X!TypeOK,
     X!FilesAssumption
<1>6. RequestStays' BY <1>1 DEF RequestStays
<1>7. xAt[d] \in 1..Files /\ Files \in Nat /\ 1 \in 1..Files BY DEF X!TypeOK, X!FilesAssumption
<1>8. \A z \in {"create", "filling", "seal", "link", "unlink", "exited", "refused", "dead"} : X!RecvTo(d, z) => z = s
  BY <1>3 DEF X!RecvTo, X!TypeOK
(* It refuses, is killed or starts with the first file.                    *)
<1>9. CASE UNCHANGED <<xAt, xProof, xMarker, xStaged>> /\ (s \in {"refused", "dead"} \/ (s = "create" /\ xAt[d] = 1))
  <2>1. X!TypeOK' BY <1>1, <1>3, <1>5, <1>9 DEF X!TypeOK
  <2>2. \A e \in Deliveries : Active(e)' => Active(e) /\ xRecv'[e] = xRecv[e] BY <1>3, <1>9 DEF Active
  <2>3. \A e \in Deliveries : xRecv'[e] \in {"none", "started", "link", "unlink", "exited"} => xRecv'[e] = xRecv[e]
    BY <1>3, <1>9
  <2>4. OneReceiver' BY <1>1, <1>3, <1>4, <1>9, <2>2, <2>3 DEF OneReceiver
  <2>5. MarkerIsWhole' BY <1>1, <1>3, <1>4, <1>9, <2>2, <2>3 DEF MarkerIsWhole, AllSealed
  <2>6. QED BY <1>6, <2>1, <2>4, <2>5
<1>10. CASE X!Create(d) /\ s = "filling"
  <2>1. /\ xRecv[d] = "create" /\ xProof[xAt[d]] = "absent" /\ xProof' = [xProof EXCEPT ![xAt[d]] = "part"]
        /\ UNCHANGED <<xAt, xMarker, xStaged>>
    BY <1>8, <1>10 DEF X!Create
  <2>2. xMarker = 0 /\ ~xStaged BY <1>7, <2>1 DEF MarkerIsWhole, AllSealed
  <2>3. \A e \in Deliveries : Active(e) => e = d
    BY <1>7, <2>1 DEF OneReceiver, Active
  <2>4. xProof'[1] # "absent"
    BY <1>7, <2>1 DEF OneReceiver, Active, X!TypeOK
  <2>5. X!TypeOK' BY <1>1, <1>3, <1>5, <2>1 DEF X!TypeOK
  <2>6. \A e \in Deliveries : Active(e)' => e = d BY <1>3, <2>1, <2>3 DEF Active
  <2>7. OneReceiver' BY <1>1, <1>3, <1>4, <1>10, <2>1, <2>4, <2>6 DEF OneReceiver
  <2>8. MarkerIsWhole' BY <1>1, <1>3, <1>4, <1>10, <2>1, <2>2, <2>6 DEF MarkerIsWhole, AllSealed, Active
  <2>9. QED BY <1>6, <2>5, <2>7, <2>8
<1>11. CASE X!Fill(d)
  <2>1. /\ xRecv[d] = "filling" /\ xProof' = [xProof EXCEPT ![xAt[d]] = "whole"] /\ UNCHANGED <<xMarker, xStaged>>
        /\ \/ s = "create" /\ xAt[d] < Files /\ xAt' = [xAt EXCEPT ![d] = @ + 1]
           \/ s \in {"seal", "refused"} /\ xAt' = xAt
    BY <1>8, <1>11 DEF X!Fill
  <2>2. xAt' \in [Deliveries -> 1..Files] /\ (s = "create" => xAt'[d] > 1) /\ \A e \in Deliveries \ {d} : xAt'[e] = xAt[e]
    <3>1. xAt \in [Deliveries -> 1..Files] BY DEF X!TypeOK
    <3>2. CASE xAt[d] < Files /\ xAt' = [xAt EXCEPT ![d] = xAt[d] + 1]
      <4>1. xAt[d] + 1 \in 1..Files /\ xAt[d] + 1 > 1 BY <1>7, <3>2
      <4>2. QED BY <3>1, <3>2, <4>1
    <3>3. QED BY <2>1, <3>1, <3>2
  <2>3. xMarker = 0 /\ ~xStaged /\ Active(d) BY <2>1 DEF MarkerIsWhole, Active
  <2>4. \A e \in Deliveries : Active(e)' => e = d BY <1>3, <2>2, <2>3 DEF OneReceiver, Active
  <2>5. xProof'[1] # "absent" BY <1>7, <2>1, <2>3 DEF OneReceiver, X!TypeOK
  <2>6. X!TypeOK' BY <1>1, <1>3, <1>5, <2>1, <2>2 DEF X!TypeOK
  <2>7. OneReceiver' BY <1>1, <1>3, <1>4, <2>1, <2>2, <2>4, <2>5 DEF OneReceiver
  <2>8. MarkerIsWhole' BY <1>1, <1>3, <1>4, <2>1, <2>3, <2>4 DEF MarkerIsWhole, AllSealed, Active
  <2>9. QED BY <1>6, <2>6, <2>7, <2>8
<1>12. CASE X!Seal(d) /\ s = "link"
  <2>1. /\ xRecv[d] = "seal" /\ xProof' = [f \in 1..Files |-> "sealed"] /\ xStaged' = TRUE /\ UNCHANGED <<xAt, xMarker>>
    BY <1>8, <1>12 DEF X!Seal
  <2>2. xMarker = 0 /\ Active(d) BY <2>1 DEF MarkerIsWhole, Active
  <2>3. \A e \in Deliveries : Active(e)' => e = d BY <1>3, <2>1, <2>2 DEF OneReceiver, Active
  <2>4. X!TypeOK'
    <3>1. xProof' \in [1..Files -> {"absent", "part", "whole", "sealed"}] BY <2>1
    <3>2. xStaged' \in BOOLEAN BY <2>1
    <3>3. QED BY <1>1, <1>3, <1>5, <2>1, <3>1, <3>2 DEF X!TypeOK
  <2>5. OneReceiver' BY <1>1, <1>3, <1>4, <1>7, <1>12, <2>1, <2>3 DEF OneReceiver
  <2>6. MarkerIsWhole' BY <1>1, <1>3, <1>4, <1>12, <2>1, <2>2, <2>3 DEF MarkerIsWhole, AllSealed, Active
  <2>7. QED BY <1>6, <2>4, <2>5, <2>6
<1>13. CASE (X!Link(d) /\ s = "unlink") \/ X!Unlink(d)
  <2>1. /\ UNCHANGED <<xAt, xProof>>
        /\ \/ s = "unlink" /\ xRecv[d] = "link" /\ xMarker' = 2 /\ xStaged' = xStaged
           \/ s = "exited" /\ xRecv[d] = "unlink" /\ xMarker' = 1 /\ xStaged' = FALSE
    BY <1>8, <1>13 DEF X!Link, X!Unlink
  <2>2. Active(d) /\ AllSealed /\ xMarker # 1 BY <2>1 DEF MarkerIsWhole, Active
  <2>3. \A e \in Deliveries : Active(e)' => e = d BY <1>3, <2>1, <2>2 DEF OneReceiver, Active
  <2>4. X!TypeOK'
    <3>1. xMarker' \in 0..2 BY <2>1
    <3>2. xStaged' \in BOOLEAN BY <2>1 DEF X!TypeOK
    <3>3. QED BY <1>1, <1>3, <1>5, <2>1, <3>1, <3>2 DEF X!TypeOK
  <2>5. OneReceiver' BY <1>1, <1>3, <1>4, <2>1, <2>2, <2>3 DEF OneReceiver
  <2>6. MarkerIsWhole' BY <1>1, <1>3, <1>4, <2>1, <2>2, <2>3 DEF MarkerIsWhole, AllSealed, Active
  <2>7. QED BY <1>6, <2>4, <2>5, <2>6
<1>14. QED
  <2> DEFINE Quits == /\ UNCHANGED <<xAt, xProof, xMarker, xStaged>>
                      /\ s \in {"refused", "dead"} \/ (s = "create" /\ xAt[d] = 1)
  <2>1. CASE X!CheckEmpty(d)
    <3>1. (X!RecvTo(d, "refused") \/ X!RecvTo(d, "create")) /\ UNCHANGED <<xAt, xProof, xMarker, xStaged>> /\ xAt[d] = 1
      BY <2>1 DEF X!CheckEmpty, OneReceiver
    <3>2. s = "refused" \/ s = "create" BY <1>8, <3>1
    <3>3. QED BY <1>9, <3>1, <3>2
  <2>2. CASE X!Create(d)
    <3>1. (X!RecvTo(d, "refused") /\ UNCHANGED <<xAt, xProof, xMarker, xStaged>>) \/ X!RecvTo(d, "filling")
      BY <2>2 DEF X!Create
    <3>2. Quits \/ s = "filling" BY <1>8, <3>1
    <3>3. QED BY <1>9, <1>10, <2>2, <3>2
  <2>3. CASE X!Seal(d)
    <3>1. (X!RecvTo(d, "refused") /\ UNCHANGED <<xAt, xProof, xMarker, xStaged>>) \/ X!RecvTo(d, "link")
      BY <2>3 DEF X!Seal
    <3>2. Quits \/ s = "link" BY <1>8, <3>1
    <3>3. QED BY <1>9, <1>12, <2>3, <3>2
  <2>4. CASE X!Link(d)
    <3>1. (X!RecvTo(d, "refused") /\ UNCHANGED <<xAt, xProof, xMarker, xStaged>>) \/ X!RecvTo(d, "unlink")
      BY <2>4 DEF X!Link
    <3>2. Quits \/ s = "unlink" BY <1>8, <3>1
    <3>3. QED BY <1>9, <1>13, <2>4, <3>2
  <2>5. CASE X!Spoil(d) \/ X!KillReceiver(d)
    <3>1. (X!RecvTo(d, "refused") \/ X!RecvTo(d, "dead")) /\ UNCHANGED <<xAt, xProof, xMarker, xStaged>>
      BY <2>5 DEF X!Spoil, X!KillReceiver
    <3>2. s = "refused" \/ s = "dead" BY <1>8, <3>1
    <3>3. QED BY <1>9, <3>1, <3>2
  <2>6. QED BY <1>11, <1>13, <2>1, <2>2, <2>3, <2>4, <2>5 DEF X!Receiver

(* MAIN, the exchange child, SOURCE and the clock.                         *)
LEMMA MainKeeps == ASSUME X!FilesAssumption, ExchangeInv, X!Main PROVE ExchangeInv'
<1> USE DEF ExchangeInv, X!MainTo
<1>1. UNCHANGED <<xHost, xSent, xRecv, xAt, xProof, xMarker, xStaged, xAsk, xTmp, xReq, xResp, xSource, xRead, xFence, xOver, xKills>>
      /\ xMain # "finished"
  BY DEF X!Main, X!MakeDirectory, X!Look, X!Verify, X!MoveCopies, X!askVars
<1>2. /\ xMain' \in {"waiting", "verifying", "moving", "finished", "refused"}
      /\ xMain' = "verifying" => xMarker = 1
      /\ xMain' = "refused" => xOver
  BY DEF X!Main, X!MakeDirectory, X!Look, X!Verify, X!MoveCopies, ProofsInv, MarkerIsWhole, AllSealed
<1>3. X!TypeOK' BY <1>1, <1>2 DEF X!TypeOK
<1>4. ProofsInv' BY <1>1, <1>2 DEF ProofsInv, OneReceiver, MarkerIsWhole, Active, AllSealed
<1>5. RequestStays' BY <1>1 DEF RequestStays
<1>6. QED BY <1>3, <1>4, <1>5

LEMMA ProofsApart ==
  ASSUME ProofsInv, UNCHANGED X!proofVars, xOver => xOver' PROVE ProofsInv'
BY DEF X!proofVars, ProofsInv, OneReceiver, MarkerIsWhole, Active, AllSealed

LEMMA ChildKeeps ==
  ASSUME X!FilesAssumption, ExchangeInv, NEW a \in Asks, X!Child(a) \/ X!KillAsk(a)
  PROVE  ExchangeInv'
<1> USE DEF ExchangeInv, X!FilesAssumption
<1>1. UNCHANGED <<X!proofVars, xMain, xOver, xResp, xSource, xRead, xFence>>
  BY DEF X!Child, X!Ask, X!Stage, X!Publish, X!Answered, X!KillAsk, X!proofVars
<1>2. PICK s \in {"refused", "stage", "publish", "wait", "answered", "dead"} : X!AskTo(a, s)
  BY DEF X!Child, X!Ask, X!Stage, X!Publish, X!Answered, X!KillAsk
<1>3. /\ xAsk' \in [Asks -> {"idle", "stage", "publish", "wait", "answered", "refused", "dead"}]
      /\ xAsk'[a] = s /\ \A b \in Asks \ {a} : xAsk'[b] = xAsk[b]
  BY <1>2 DEF X!AskTo, X!TypeOK
<1>4. \A z \in {"refused", "stage", "publish", "wait", "answered", "dead"} : X!AskTo(a, z) => z = s
  BY <1>3 DEF X!AskTo, X!TypeOK
<1>5. xTmp' \in {xTmp, a, X!NoOne} /\ xKills' \in 0..MaxKills /\ xAsk[a] \notin {"answered", "refused", "dead"}
  BY DEF X!Child, X!Ask, X!Stage, X!Publish, X!Answered, X!KillAsk, X!TypeOK
<1>6. /\ xReq' = xReq \/ (s = "wait" /\ xReq = X!NoOne /\ xReq' = a)
      /\ s = "wait" => xReq' = a
  BY <1>4 DEF X!Child, X!Ask, X!Stage, X!Publish, X!Answered, X!KillAsk
<1>7. xReq = a => xAsk[a] = "wait" \/ xOver
  BY <1>5 DEF RequestStays
<1>8. xAsk[a] = "wait" => s \in {"answered", "dead"} \/ xOver
  BY <1>4 DEF X!Child, X!Ask, X!Stage, X!Publish, X!Answered, X!KillAsk, RequestStays
<1>9. s = "answered" => xResp.to = a
  BY <1>4 DEF X!Child, X!Ask, X!Stage, X!Publish, X!Answered, X!KillAsk
<1>10. xMain = "finished" \/ s = "refused"
  BY <1>4 DEF X!Child, X!Ask, X!Stage, X!Publish, X!Answered, X!KillAsk, RequestStays
<1>11. X!TypeOK' BY <1>1, <1>3, <1>5, <1>6 DEF X!TypeOK, X!proofVars
<1>12. ProofsInv' BY <1>1, ProofsApart
<1>13. RequestStays' BY <1>1, <1>3, <1>5, <1>6, <1>7, <1>8, <1>9, <1>10 DEF RequestStays
<1>14. QED BY <1>11, <1>12, <1>13

LEMMA SourceKeeps == ASSUME X!FilesAssumption, ExchangeInv, X!Source \/ X!LoseFence \/ X!Deadline PROVE ExchangeInv'
<1> USE DEF ExchangeInv, X!FilesAssumption
<1>1. UNCHANGED <<X!proofVars, xAsk, xTmp, xReq>> /\ (xOver => xOver')
  BY DEF X!Source, X!Poll, X!ReadRequest, X!Collect, X!Reread, X!PublishResponse, X!SourceStops, X!SourceTo, X!LoseFence,
     X!Deadline, X!askVars
<1>2. ProofsInv' BY <1>1, ProofsApart
<1>3. CASE X!LoseFence \/ X!Deadline
  <2>1. UNCHANGED <<X!proofVars, xAsk, xTmp, xReq, xResp, xSource, xRead>> BY <1>3 DEF X!LoseFence, X!Deadline, X!askVars
  <2>2. xOver' \in BOOLEAN /\ xFence' \in {"held", "lost", "again"} /\ xKills' \in 0..MaxKills
    <3>1. CASE X!LoseFence BY <3>1 DEF X!LoseFence, X!TypeOK
    <3>2. CASE X!Deadline BY <3>2 DEF X!Deadline, X!askVars, X!TypeOK
    <3>3. QED BY <1>3, <3>1, <3>2
  <2>3. X!TypeOK' BY <2>1, <2>2 DEF X!TypeOK, X!proofVars
  <2>4. RequestStays' BY <1>1, <2>1 DEF RequestStays, X!proofVars
  <2>5. QED BY <1>2, <2>3, <2>4
<1>4. CASE X!Source
  <2>1. UNCHANGED <<X!proofVars, xAsk, xTmp, xReq, xOver, xFence, xKills>>
    BY <1>4 DEF X!Source, X!Poll, X!ReadRequest, X!Collect, X!Reread, X!PublishResponse, X!SourceStops, X!SourceTo
  <2>2. /\ xSource' \in {"polling", "reading", "collecting", "collected", "answering", "stopped"}
        /\ xRead' \in Asks \cup {X!NoOne} /\ xResp' \in [to : Asks \cup {X!NoOne}, fenced : BOOLEAN]
    BY <1>4 DEF X!Source, X!Poll, X!ReadRequest, X!Collect, X!Reread, X!PublishResponse, X!SourceStops, X!SourceTo, X!TypeOK,
       X!Health
  <2>3. X!TypeOK' BY <2>1, <2>2 DEF X!TypeOK, X!proofVars
  <2>4. RequestStays'
    <3> USE DEF X!SourceTo, X!TypeOK, RequestStays, X!proofVars, X!Health
    <3>1. CASE X!Poll BY <3>1 DEF X!Poll
    <3>2. CASE X!ReadRequest BY <3>2 DEF X!ReadRequest
    <3>3. CASE X!Collect BY <3>3 DEF X!Collect
    <3>4. CASE X!Reread BY <3>4 DEF X!Reread
    <3>5. CASE X!PublishResponse
      <4>1. CASE xOver \/ xResp.to # X!NoOne BY <3>5, <4>1 DEF X!PublishResponse
      <4>2. CASE ~(xOver \/ xResp.to # X!NoOne)
        <5>1. xSource = "answering" /\ xSource' = "polling" /\ xResp' = [xResp EXCEPT !.to = xRead] /\ xRead' = xRead
          BY <3>5, <4>2 DEF X!PublishResponse
        <5>2. xResp'.to = xReq /\ xResp'.fenced = xResp.fenced /\ xResp.fenced BY <5>1
        <5>3. \A a \in Asks : xAsk[a] # "answered" BY <4>2
        <5>4. QED BY <2>1, <5>1, <5>2, <5>3
      <4>3. QED BY <4>1, <4>2
    <3>6. CASE X!SourceStops BY <3>6 DEF X!SourceStops
    <3>7. QED BY <1>4, <3>1, <3>2, <3>3, <3>4, <3>5, <3>6 DEF X!Source
  <2>5. QED BY <1>2, <2>3, <2>4
<1>5. QED BY <1>3, <1>4

LEMMA ExchangeNext == ASSUME X!FilesAssumption, ExchangeInv, [X!Next]_(X!xvars) PROVE ExchangeInv'
<1>1. CASE UNCHANGED X!xvars
  <2>1. UNCHANGED <<X!proofVars, xAsk, xTmp, xReq, xResp, xSource, xRead, xFence, xOver, xKills, xHost, xSent, xRecv, xAt, xProof,
                    xMarker, xStaged, xMain>>
    BY <1>1 DEF X!xvars, X!proofVars, X!askVars
  <2>2. X!TypeOK' BY <2>1 DEF ExchangeInv, X!TypeOK
  <2>3. ProofsInv' BY <2>1, ProofsApart DEF ExchangeInv
  <2>4. RequestStays' BY <2>1 DEF ExchangeInv, RequestStays
  <2>5. QED BY <2>2, <2>3, <2>4 DEF ExchangeInv
<1>2. QED BY <1>1, HostKeeps, ReceiverKeeps, MainKeeps, ChildKeeps, SourceKeeps DEF X!Next

LEMMA ExchangeHolds == ASSUME X!FilesAssumption, ExchangeInv PROVE X!Undisturbed /\ X!OwnAnswer
<1>1. X!Undisturbed
  BY DEF ExchangeInv, ProofsInv, MarkerIsWhole, RequestStays, X!Undisturbed, X!FilesAssumption, X!TypeOK
<1>2. X!OwnAnswer
  <2> SUFFICES ASSUME NEW a \in Asks, xAsk[a] = "answered"
               PROVE  xResp = [to |-> a, fenced |-> TRUE] /\ xMain = "finished"
    BY DEF X!OwnAnswer
  <2>1. xResp.to = a /\ xResp.to # X!NoOne /\ xMain = "finished" BY DEF ExchangeInv, RequestStays, X!FilesAssumption
  <2>2. xResp.fenced /\ xResp \in [to : Asks \cup {X!NoOne}, fenced : BOOLEAN]
    BY <2>1 DEF ExchangeInv, RequestStays, X!TypeOK
  <2>3. QED BY <2>1, <2>2
<1>3. QED BY <1>1, <1>2

(* However many deliveries, exchanges, files and kills there are: what was *)
(* published whole is not refused while there is time, and an answer is to *)
(* the request and was collected under the one fence.                      *)
THEOREM WhatIsPublishedIsKept == ASSUME X!FilesAssumption PROVE X!Spec => [](X!Undisturbed /\ X!OwnAnswer)
<1>1. X!Init => ExchangeInv BY ExchangeInit
<1>2. ExchangeInv /\ [X!Next]_(X!xvars) => ExchangeInv' BY ExchangeNext
<1>3. ExchangeInv => X!Undisturbed /\ X!OwnAnswer BY ExchangeHolds
<1>4. QED BY <1>1, <1>2, <1>3, PTL DEF X!Spec

-----------------------------------------------------------------------------
(* The composition. What one of them does leaves the others alone, so each *)
(* step of the whole is one of each of them or a stutter of it.            *)
LEMMA EachSteps ==
  ASSUME [OneNext]_onevars
  PROVE  /\ [X!Next]_(X!xvars) /\ [O!Next]_(O!vars) /\ [Q!Next]_(Q!vars) /\ [N!Next]_(N!vars)
         /\ [R!Next]_(R!vars) /\ [B!Next]_(B!vars) /\ [D!Next]_(D!vars) /\ [L!Next]_(L!vars)
<1>1. [X!Next]_(X!xvars) BY DEF OneNext, onevars, xvars, X!xvars, X!proofVars, X!askVars
<1>2. [O!Next]_(O!vars) BY DEF OneNext, onevars, ovars, O!vars
<1>3. [Q!Next]_(Q!vars) BY DEF OneNext, onevars, qvars, Q!vars
<1>4. [N!Next]_(N!vars) BY DEF OneNext, onevars, nvars, N!vars
<1>5. [R!Next]_(R!vars) BY DEF OneNext, onevars, rvars, R!vars, R!apiVars, R!foleyVars, R!engineVars
<1>6. [B!Next]_(B!vars) BY DEF OneNext, onevars, bvars, B!vars
<1>7. [D!Next]_(D!vars) BY DEF OneNext, onevars, dvars, D!vars
<1>8. [L!Next]_(L!vars) BY DEF OneNext, onevars, lvars, L!vars, L!World, L!File, L!Choice, L!Delivery, L!Spent, L!Residue
<1>9. QED BY <1>1, <1>2, <1>3, <1>4, <1>5, <1>6, <1>7, <1>8

OneInv ==
  ExchangeInv /\ OwnedInv /\ ReadersInv /\ RehearsalInv /\ LeaseInv /\ DesktopInv /\ DeliverInv /\ LedgerInv

LEMMA OneAlways == OneSpec => []OneInv
<1> USE InstancesAssumption DEF InstancesAssumption
<1>1. OneInit => OneInv
  BY ExchangeInit, OwnedInit, ReadersInit, RehearsalInit, LeaseInit, DesktopInit, DeliverInit, LedgerInit
  DEF OneInit, OneInv
<1>2. OneInv /\ [OneNext]_onevars => OneInv'
  BY EachSteps, ExchangeNext, OwnedNext, ReadersNext, RehearsalNext, LeaseNext, DesktopNext, DeliverNext, LedgerNext
  DEF OneInv
<1>3. QED BY <1>1, <1>2, PTL DEF OneSpec

(* Proofs, rows and answers arrive whole, in order and for the request     *)
(* they answer, however many receivers, readers and exchanges there are.   *)
THEOREM AllIsDelivered == OneSpec => []DeliveredWhole
<1>1. OneInv => DeliveredWhole
  BY InstancesAssumption, ExchangeHolds, RowsAreInOrder DEF InstancesAssumption, OneInv, DeliveredWhole
<1>2. QED BY <1>1, OneAlways, PTL

(* A CREATE, a patch or a request that takes effect late undoes neither a  *)
(* receipt of absence nor a recorded recovery.                             *)
THEOREM NothingIsUndone == OneSpec => []LateUndoesNothing
<1>1. OneInv => LateUndoesNothing
  BY InstancesAssumption, OwnedHolds, RehearsalHolds DEF InstancesAssumption, OneInv, LateUndoesNothing
<1>2. QED BY <1>1, OneAlways, PTL

(* A deletion hits the Job of its own run, a signal a process of its own.  *)
THEOREM OthersAreSpared == OneSpec => OnlyOwn
<1>1. OneInv => O!ForeignSurvive /\ N!NobodyElse
  BY InstancesAssumption, OwnedHolds, RehearsalHolds DEF InstancesAssumption, OneInv
<1>2. OneInv /\ [OneNext]_onevars => [B!EndsOwn]_(B!vars) BY EachSteps, StopsOwn DEF OneInv
<1>3. QED BY <1>1, <1>2, OneAlways, PTL DEF OneSpec, OnlyOwn, B!OthersSurvive

(* The GPU has one user and the scene one edit at a time.                  *)
THEOREM UsersAreAlone == OneSpec => []OneAtATime
<1>1. OneInv => OneAtATime BY LeaseIsExclusive DEF OneInv, OneAtATime, DesktopInv, EditHasLock, B!OneEdit
<1>2. QED BY <1>1, OneAlways, PTL

(* A merge, a reconciliation and a backend read each have what authorises  *)
(* them, and an attempt that has ended reads nothing more.                 *)
THEOREM AllIsAuthorised == OneSpec => AsAuthorised
<1>1. OneInv => D!ReviewedMerge /\ L!LedgerHolds
  BY DEF OneInv, DeliverInv, LedgerInv, SpendInv, ProofInv, L!LedgerHolds
<1>2. OneInv /\ [OneNext]_onevars => [L!SpendsNothing]_(L!vars) BY EachSteps, EndedSpends DEF OneInv
<1>3. QED BY <1>1, <1>2, OneAlways, PTL DEF OneSpec, AsAuthorised, L!EndedStays
=============================================================================
