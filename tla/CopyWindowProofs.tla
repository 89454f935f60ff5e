-------------------------- MODULE CopyWindowProofs --------------------------
(***************************************************************************)
(* What TLAPS proves of CopyWindow, whichever of supervisor and watchdog   *)
(* dies, whenever: its types, that workers and applications keep apart,    *)
(* that a window reported complete kept its ceiling, and that nothing is   *)
(* resumed onto the frozen stop revision but by the actuation.             *)
(*                                                                         *)
(* WindowInv is the inductive invariant.  The watchdog passes through the  *)
(* stop request before it looks for Jobs, so that what exists after its    *)
(* look was under way before; and what stands between the outage and a     *)
(* Job is that only a watchdog past this look resumes anything.            *)
(***************************************************************************)
EXTENDS CopyWindow, TLAPS

(* Where the supervisor still may not have an activation on record.        *)
Staging == {"stage", "armed"}
(* Where it has seen the completed outage behind held applications.        *)
Fenced == {"bind", "submit", "submitting", "observe", "work", "retire"}
(* Where the watchdog has been through the stop request.                   *)
Recovering == {"clean", "restore", "check", "release", "returned"}

(* Clocks: the window starts after its activation, and the watchdog keeps  *)
(* what it has read of both for good.                                      *)
StagedFirst == sup.pc \in Staging => act = Unset
GateHasBudget == sup.pc \in {"gate", "fence"} \cup Fenced => act # Unset
BudgetPast == act # Unset => act <= now
WindowAfterBudget == ledger.start # Unset => act # Unset /\ act <= ledger.start
ClocksKept == w.budget \in {Unset, act} /\ w.start \in {Unset, ledger.start}
RevokedPast == wpc \in {"touch"} \cup Recovering => w.revoked
BoundPast ==
  wpc \in {"touch", "actuate", "rehold"} \cup Recovering /\ ledger.start # Unset => Origin(w) # Unset
CompleteEnds == w.complete => wpc = "returned" /\ ~w.recover

(* The actuation, never yet revoked and not complete.                      *)
ActuatesOnce == wpc \in {"actuate", "rehold"} => w.began /\ ~w.done /\ ~w.revoked /\ w.budget # Unset
BeganFirst == (w.done => w.began) /\ (w.began => act # Unset)

(* The way back.                                                           *)
StoppedPast == (wpc \in Recovering \/ w.verified) => stop
VerifiedPast == (wpc \in Recovering \ {"clean"} \/ artifact = "normal") => w.verified
NormalPast == wpc \in {"check", "release", "returned"} => artifact = "normal"

(* After the stop request nothing is submitted that is not late, and after *)
(* the look for Jobs nothing else exists.                                  *)
FlyIsLate == stop => fly \subseteq late /\ (sup.pc = "submitting" => sup.next \in late)
RestIsLate == w.verified => \A j \in Jobs : job[j] # "none" => j \in late

(* Before that look the outage of a phase that creates Jobs is complete.   *)
AllHeld == artifact = "stop" /\ \A a \in Apps : ks[a] = "held"
AllStopped == \A a \in Apps : app[a] = "stopped"
FenceHolds == ~w.verified /\ sup.pc = "fence" => w.done /\ AllHeld
OutageHolds ==
  ~w.verified /\ (sup.pc \in Fenced \/ "main" \in fly \/ job["main"] # "none")
    => w.done /\ AllHeld /\ AllStopped

Clocks ==
  /\ StagedFirst /\ GateHasBudget /\ BudgetPast /\ WindowAfterBudget
  /\ ClocksKept /\ RevokedPast /\ BoundPast /\ CompleteEnds
WayBack == ActuatesOnce /\ BeganFirst /\ StoppedPast /\ VerifiedPast /\ NormalPast
Apart == FlyIsLate /\ RestIsLate /\ FenceHolds /\ OutageHolds

OutageInv == Clocks /\ WayBack /\ Apart /\ CeilingKept
WindowInv == TypeOK /\ OutageInv
-----------------------------------------------------------------------------
LEMMA InitInv == Init => WindowInv
<1> SUFFICES ASSUME Init PROVE WindowInv OBVIOUS
<1> USE WindowAssumption DEF Init
<1>1. TypeOK
  <2>1. ledger \in Ledgers /\ w \in WatchStates BY DEF Ledgers, WatchStates, Moments
  <2>2. sup \in [pc : SupervisorSteps \cup Ended, next : Jobs] BY DEF SupervisorSteps, Jobs
  <2>3. now \in Clock /\ act \in Moments /\ drops \in 0..MaxDrop /\ crashes \in 0..MaxCrash BY DEF Clock, Moments
  <2>4. QED BY <2>1, <2>2, <2>3 DEF TypeOK, WatchdogSteps
<1>2. OutageInv
  <2>1. ~w.revoked /\ ~w.complete /\ ~w.verified /\ ~w.began /\ ~w.done /\ w.budget = Unset /\ w.start = Unset
    OBVIOUS
  <2>2. sup.pc = "stage" /\ ledger.start = Unset OBVIOUS
  <2>3. Clocks
    BY <2>1, <2>2 DEF Clocks, StagedFirst, GateHasBudget, BudgetPast, WindowAfterBudget, ClocksKept, RevokedPast,
                      BoundPast, CompleteEnds, Staging, Fenced, Recovering
  <2>4. WayBack
    BY <2>1, <2>2 DEF WayBack, ActuatesOnce, BeganFirst, StoppedPast, VerifiedPast, NormalPast, Recovering
  <2>5. Apart BY <2>1, <2>2 DEF Apart, FlyIsLate, RestIsLate, FenceHolds, OutageHolds, Fenced, Jobs
  <2>6. QED BY <2>1, <2>3, <2>4, <2>5 DEF OutageInv, CeilingKept
<1>3. QED BY <1>1, <1>2 DEF WindowInv

(* The types of what the watchdog saves.                                   *)
LEMMA BoundTyped == ASSUME TypeOK PROVE Bound \in WatchStates
BY DEF TypeOK, WatchStates, Bound, Ledgers

LEMMA RevokedTyped == ASSUME NEW s \in WatchStates PROVE Revoked(s) \in WatchStates
BY DEF WatchStates, Revoked

LEMMA TouchTyped == ASSUME TypeOK, Touch PROVE stop' \in BOOLEAN /\ late' \subseteq Jobs
<1>1. sup.next \in Jobs BY DEF TypeOK
<1>2. fly \cup (IF sup.pc = "submitting" THEN {sup.next} ELSE {}) \subseteq Jobs BY <1>1 DEF TypeOK
<1>3. QED BY <1>2 DEF TypeOK, Touch

(* A pass of the watchdog that saves s and goes on at pc.                  *)
LEMMA RoundTyped ==
  ASSUME TypeOK, NEW s \in WatchStates, NEW pc \in WatchdogSteps, Round(s, pc)
  PROVE  TypeOK'
BY DEF TypeOK, Round, clusterVars, supVars

LEMMA SupervisorTypes == ASSUME TypeOK, Supervisor PROVE TypeOK'
<1> USE WindowAssumption DEF TypeOK, SupervisorSteps, WatchdogSteps, Ended, Clock, Moments, Jobs, GoTo, clusterVars, supVars, watchVars
<1>1. CASE Arm BY <1>1 DEF Arm
<1>2. CASE Activate BY <1>2 DEF Activate
<1>3. CASE WaitForStop
  <2>1. ledger' \in Ledgers
    <3>1. ledger \in Ledgers /\ now \in Moments OBVIOUS
    <3>2. ledger' = ledger \/ ledger' = [ledger EXCEPT !.start = now, !.beat = now] BY <1>3 DEF WaitForStop
    <3> HIDE DEF TypeOK, Moments, Jobs, Clock
    <3>3. QED BY <3>1, <3>2 DEF Ledgers
  <2>2. QED BY <1>3, <2>1 DEF WaitForStop
<1>4. CASE ServiceFence BY <1>4 DEF ServiceFence
<1>5. CASE Bind
  <2>1. ledger' \in Ledgers BY <1>5 DEF Bind, Ledgers
  <2>2. QED BY <1>5, <2>1 DEF Bind
<1>6. CASE Submit BY <1>6 DEF Submit
<1>7. CASE Create BY <1>7 DEF Create
<1>8. CASE Observe
  <2>1. ledger' \in Ledgers BY <1>8 DEF Observe, Ledgers
  <2>2. QED BY <1>8, <2>1 DEF Observe
<1>9. CASE SourceWorks BY <1>9 DEF SourceWorks
<1>10. CASE ReaderWorks BY <1>10 DEF ReaderWorks, Delete
<1>11. CASE MainWorks BY <1>11 DEF MainWorks
<1>12. CASE Retire BY <1>12 DEF Retire
<1>13. CASE Refuse BY <1>13 DEF Refuse
<1>14. CASE StopMain BY <1>14 DEF StopMain, Delete
<1>15. CASE StopRest BY <1>15 DEF StopRest, Delete
<1>16. CASE CleanupFailed BY <1>16 DEF CleanupFailed
<1>17. CASE RequestRestore
  BY <1>17, TouchTyped DEF RequestRestore
<1>18. CASE Await BY <1>18 DEF Await
<1>19. CASE Heartbeat
  <2>1. ledger' \in Ledgers BY <1>19 DEF Heartbeat, Ledgers
  <2>2. QED BY <1>19, <2>1 DEF Heartbeat
<1>20. QED
  BY <1>1, <1>2, <1>3, <1>4, <1>5, <1>6, <1>7, <1>8, <1>9, <1>10, <1>11, <1>12, <1>13, <1>14, <1>15, <1>16, <1>17,
     <1>18, <1>19 DEF Supervisor

LEMMA WatchdogTypes == ASSUME TypeOK, Watchdog PROVE TypeOK'
<1>1. CASE MissCeiling
  <2>1. Revoked(Bound) \in WatchStates BY BoundTyped, RevokedTyped
  <2>2. [Revoked(Bound) EXCEPT !.missed = TRUE] \in WatchStates BY <2>1 DEF WatchStates
  <2>3. "touch" \in WatchdogSteps /\ Round([Revoked(Bound) EXCEPT !.missed = TRUE], "touch")
    BY <1>1 DEF MissCeiling, WatchdogSteps
  <2>4. QED BY <2>2, <2>3, RoundTyped
<1>2. CASE Revoke
  <2>1. Revoked(Bound) \in WatchStates BY BoundTyped, RevokedTyped DEF WatchStates
  <2>2. "touch" \in WatchdogSteps /\ Round(Revoked(Bound), "touch") BY <1>2 DEF Revoke, WatchdogSteps
  <2>3. QED BY <2>1, <2>2, RoundTyped
<1>3. CASE Accept
  <2>1. [Bound EXCEPT !.accepted = TRUE] \in WatchStates BY BoundTyped, RevokedTyped DEF WatchStates
  <2>2. "idle" \in WatchdogSteps /\ Round([Bound EXCEPT !.accepted = TRUE], "idle") BY <1>3 DEF Accept, WatchdogSteps
  <2>3. QED BY <2>1, <2>2, RoundTyped
<1>4. CASE Seal
  <2>1. [Bound EXCEPT !.ready = TRUE] \in WatchStates BY BoundTyped, RevokedTyped DEF WatchStates
  <2>2. "idle" \in WatchdogSteps /\ Round([Bound EXCEPT !.ready = TRUE], "idle") BY <1>4 DEF Seal, WatchdogSteps
  <2>3. QED BY <2>1, <2>2, RoundTyped
<1>5. CASE BeginActuation
  <2>1. [Bound EXCEPT !.began = TRUE, !.ready = TRUE] \in WatchStates BY BoundTyped, RevokedTyped DEF WatchStates
  <2>2. "actuate" \in WatchdogSteps /\ Round([Bound EXCEPT !.began = TRUE, !.ready = TRUE], "actuate") BY <1>5 DEF BeginActuation, WatchdogSteps
  <2>3. QED BY <2>1, <2>2, RoundTyped
<1>6. CASE CompleteActuation
  <2>1. [w EXCEPT !.done = TRUE] \in WatchStates BY DEF TypeOK, WatchStates
  <2>2. QED BY <1>6, <2>1 DEF CompleteActuation, Step, TypeOK, WatchdogSteps, clusterVars, supVars
<1>7. CASE AbortActuation
  <2>1. Revoked(w) \in WatchStates BY RevokedTyped DEF TypeOK
  <2>2. QED BY <1>7, <2>1 DEF AbortActuation, TypeOK, WatchdogSteps, clusterVars, supVars
<1>8. CASE TouchStop
  BY <1>8, TouchTyped DEF TouchStop, Step, TypeOK, WatchdogSteps, clusterVars, supVars
<1>9. CASE CleanUp BY <1>9 DEF CleanUp, Step, Delete, TypeOK, WatchdogSteps, clusterVars, supVars
<1>10. CASE VerifyAbsent
  <2>1. [w EXCEPT !.verified = TRUE] \in WatchStates BY DEF TypeOK, WatchStates
  <2>2. QED BY <1>10, <2>1 DEF VerifyAbsent, TypeOK, WatchdogSteps, clusterVars, supVars
<1>11. CASE RestoreSource BY <1>11 DEF RestoreSource, Step, TypeOK, WatchdogSteps, clusterVars, supVars
<1>12. CASE Finish
  <2>1. (~w.missed) \in BOOLEAN /\ now \in Moments BY DEF TypeOK, WatchStates, Moments
  <2>2. [w EXCEPT !.complete = ~w.missed, !.recover = FALSE, !.doneAt = now] \in WatchStates
    BY <2>1 DEF TypeOK, WatchStates
  <2>3. QED BY <1>12, <2>2 DEF Finish, Step, TypeOK, WatchdogSteps, clusterVars, supVars
<1>13. CASE Unconverged BY <1>13 DEF Unconverged, Step, TypeOK, WatchdogSteps, clusterVars, supVars
<1>14. CASE WatchdogRestarts BY <1>14 DEF WatchdogRestarts, Step, TypeOK, WatchdogSteps, clusterVars, supVars
<1>15. ASSUME NEW a \in Apps, ReleaseStop(a) PROVE TypeOK'
  BY <1>15 DEF ReleaseStop, Step, Resume, TypeOK, WatchdogSteps, clusterVars, supVars
<1>16. ASSUME NEW a \in Apps, Rehold(a) PROVE TypeOK'
  BY <1>16 DEF Rehold, Step, TypeOK, WatchdogSteps, clusterVars, supVars
<1>17. ASSUME NEW a \in Apps, ReleaseScope(a) PROVE TypeOK'
  BY <1>17 DEF ReleaseScope, Step, Resume, TypeOK, WatchdogSteps, clusterVars, supVars
<1>18. QED
  BY <1>1, <1>2, <1>3, <1>4, <1>5, <1>6, <1>7, <1>8, <1>9, <1>10, <1>11, <1>12, <1>13, <1>14, <1>15, <1>16, <1>17 DEF Watchdog

LEMMA OutsideTypes ==
  ASSUME TypeOK, SupervisorDies \/ WatchdogDies \/ MergeInverse \/ OperatorStops \/ Tick \/ Settle \/ (\E a \in Apps : DropHold(a))
  PROVE  TypeOK'
<1> USE WindowAssumption DEF TypeOK, SupervisorSteps, WatchdogSteps, Ended, Clock, Moments, Jobs, GoTo, clusterVars, supVars, watchVars
<1>1. CASE SupervisorDies BY <1>1 DEF SupervisorDies
<1>2. CASE WatchdogDies BY <1>2 DEF WatchdogDies
<1>3. CASE MergeInverse BY <1>3 DEF MergeInverse
<1>4. CASE OperatorStops BY <1>4, TouchTyped DEF OperatorStops
<1>5. CASE Tick BY <1>5 DEF Tick
<1>6. ASSUME NEW a \in Apps, Reconcile(a) PROVE TypeOK'
  BY <1>6 DEF Reconcile
<1>7. ASSUME NEW a \in Apps, DropHold(a) PROVE TypeOK'
  BY <1>7 DEF DropHold
<1>8. ASSUME NEW j \in Jobs, Land(j) PROVE TypeOK'
  BY <1>8 DEF Land
<1>9. ASSUME NEW j \in Jobs, Gone(j) PROVE TypeOK'
  BY <1>9 DEF Gone
<1>10. QED
  BY <1>1, <1>2, <1>3, <1>4, <1>5, <1>6, <1>7, <1>8, <1>9 DEF Settle

-----------------------------------------------------------------------------
(* The first absence is entered with the time it is seen.                   *)
LEMMA WindowOpens == ASSUME TypeOK, WaitForStop PROVE ledger'.start \in {ledger.start, now}
BY DEF TypeOK, WaitForStop, Ledgers

(* The supervisor: it begins clocks, and creates only in its outage.       *)
LEMMA SupervisorInv == ASSUME WindowInv, Supervisor, TypeOK' PROVE OutageInv'
<1> USE WindowAssumption DEF WindowInv, OutageInv, TypeOK, Clocks, WayBack, Apart, CeilingKept, StagedFirst, GateHasBudget, BudgetPast,
      WindowAfterBudget, ClocksKept, RevokedPast, BoundPast, CompleteEnds, ActuatesOnce, BeganFirst, StoppedPast,
      VerifiedPast, NormalPast, FlyIsLate, RestIsLate, AllHeld, AllStopped, FenceHolds, OutageHolds, Staging, Fenced,
      Recovering, Unset, Clock, Moments, Jobs, Ledgers, WatchStates, Origin, Least, SupervisorSteps, WatchdogSteps,
      Ended, LiveHolds, clusterVars, supVars, watchVars, GoTo, Guard, Touch, Delete
<1>1. CASE Arm BY <1>1 DEF Arm
<1>2. CASE Activate BY <1>2 DEF Activate
<1>3. CASE WaitForStop
  <2>1. Clocks'
    (* The first absence is seen after the activation, and by a watchdog   *)
    (* that is not revoked: it has bound the budget, or nothing yet.        *)
    <3>1. w' = w /\ act' = act /\ now' = now /\ wpc' = wpc BY <1>3 DEF WaitForStop
    <3>2. StagedFirst' /\ GateHasBudget' BY <1>3, <3>1 DEF WaitForStop
    <3>3. WindowAfterBudget'
      <4>1. act # Unset /\ act <= now BY <1>3 DEF WaitForStop
      <4>2. ledger'.start \in {ledger.start, now} BY <1>3, WindowOpens
      <4>3. QED BY <3>1, <4>1, <4>2
    <3>4. BudgetPast' /\ CompleteEnds' BY <3>1
    <3>5. ClocksKept' /\ RevokedPast' BY <1>3, <3>1 DEF WaitForStop
    <3>6. BoundPast'
      <4>1. CASE ledger.start = Unset BY <1>3, <3>1, <4>1 DEF WaitForStop
      <4>2. CASE ledger.start # Unset BY <1>3, <3>1, <4>2 DEF WaitForStop
      <4>3. QED BY <4>1, <4>2
    <3>7. QED BY <3>2, <3>3, <3>4, <3>5, <3>6
  <2>2. WayBack' /\ Apart' BY <1>3 DEF WaitForStop
  <2>3. CeilingKept' BY <1>3 DEF WaitForStop
  <2>4. QED BY <2>1, <2>2, <2>3
<1>4. CASE ServiceFence BY <1>4 DEF ServiceFence
<1>5. CASE Bind BY <1>5 DEF Bind
<1>6. CASE Submit BY <1>6 DEF Submit
<1>7. CASE Create BY <1>7 DEF Create
<1>8. CASE Observe BY <1>8 DEF Observe
<1>9. CASE SourceWorks BY <1>9 DEF SourceWorks
<1>10. CASE ReaderWorks BY <1>10 DEF ReaderWorks
<1>11. CASE MainWorks BY <1>11 DEF MainWorks
<1>12. CASE Retire BY <1>12 DEF Retire
<1>13. CASE Refuse BY <1>13 DEF Refuse
<1>14. CASE StopMain BY <1>14 DEF StopMain
<1>15. CASE StopRest BY <1>15 DEF StopRest
<1>16. CASE CleanupFailed BY <1>16 DEF CleanupFailed
<1>17. CASE RequestRestore BY <1>17 DEF RequestRestore
<1>18. CASE Await BY <1>18 DEF Await
<1>19. CASE Heartbeat BY <1>19 DEF Heartbeat
<1>20. QED
  BY <1>1, <1>2, <1>3, <1>4, <1>5, <1>6, <1>7, <1>8, <1>9, <1>10, <1>11, <1>12, <1>13, <1>14, <1>15, <1>16, <1>17,
     <1>18, <1>19 DEF Supervisor

(* The watchdog.                                                           *)
LEMMA WatchdogInv == ASSUME WindowInv, Watchdog, TypeOK' PROVE OutageInv'
<1> USE WindowAssumption DEF WindowInv, OutageInv, TypeOK, Clocks, WayBack, Apart, CeilingKept, StagedFirst, GateHasBudget, BudgetPast,
      WindowAfterBudget, ClocksKept, RevokedPast, BoundPast, CompleteEnds, ActuatesOnce, BeganFirst, StoppedPast,
      VerifiedPast, NormalPast, FlyIsLate, RestIsLate, AllHeld, AllStopped, FenceHolds, OutageHolds, Staging, Fenced,
      Recovering, Unset, Clock, Moments, Jobs, Ledgers, WatchStates, Origin, Least, SupervisorSteps, WatchdogSteps,
      Ended, LiveHolds, clusterVars, supVars, watchVars, Touch, Delete, Step, Round, Bound, Revoked, Resume,
      PhaseAbsent, Missed
<1>1. CASE MissCeiling
  <2>1. Clocks' BY <1>1 DEF MissCeiling
  <2>2. WayBack' BY <1>1 DEF MissCeiling
  <2>3. Apart' BY <1>1 DEF MissCeiling
  <2>4. CeilingKept' BY <1>1 DEF MissCeiling
  <2>5. QED BY <2>1, <2>2, <2>3, <2>4
<1>2. CASE Revoke
  <2>1. Clocks' BY <1>2 DEF Revoke
  <2>2. WayBack' BY <1>2 DEF Revoke
  <2>3. Apart' BY <1>2 DEF Revoke
  <2>4. CeilingKept' BY <1>2 DEF Revoke
  <2>5. QED BY <2>1, <2>2, <2>3, <2>4
<1>3. CASE Accept
  <2>1. Clocks' BY <1>3 DEF Accept
  <2>2. WayBack' BY <1>3 DEF Accept
  <2>3. Apart' BY <1>3 DEF Accept
  <2>4. CeilingKept' BY <1>3 DEF Accept
  <2>5. QED BY <2>1, <2>2, <2>3, <2>4
<1>4. CASE Seal
  <2>1. Clocks' BY <1>4 DEF Seal
  <2>2. WayBack' BY <1>4 DEF Seal
  <2>3. Apart' BY <1>4 DEF Seal
  <2>4. CeilingKept' BY <1>4 DEF Seal
  <2>5. QED BY <2>1, <2>2, <2>3, <2>4
<1>5. CASE BeginActuation
  <2>1. Clocks' BY <1>5 DEF BeginActuation
  <2>2. WayBack' BY <1>5 DEF BeginActuation
  <2>3. Apart' BY <1>5 DEF BeginActuation
  <2>4. CeilingKept' BY <1>5 DEF BeginActuation
  <2>5. QED BY <2>1, <2>2, <2>3, <2>4
<1>6. CASE CompleteActuation
  <2>1. Clocks' BY <1>6 DEF CompleteActuation
  <2>2. WayBack' BY <1>6 DEF CompleteActuation
  <2>3. Apart' BY <1>6 DEF CompleteActuation
  <2>4. CeilingKept' BY <1>6 DEF CompleteActuation
  <2>5. QED BY <2>1, <2>2, <2>3, <2>4
<1>7. CASE AbortActuation
  <2>1. Clocks' BY <1>7 DEF AbortActuation
  <2>2. WayBack' BY <1>7 DEF AbortActuation
  <2>3. Apart' BY <1>7 DEF AbortActuation
  <2>4. CeilingKept' BY <1>7 DEF AbortActuation
  <2>5. QED BY <2>1, <2>2, <2>3, <2>4
<1>8. CASE TouchStop
  <2>1. Clocks' BY <1>8 DEF TouchStop
  <2>2. WayBack' BY <1>8 DEF TouchStop
  <2>3. Apart' BY <1>8 DEF TouchStop
  <2>4. CeilingKept' BY <1>8 DEF TouchStop
  <2>5. QED BY <2>1, <2>2, <2>3, <2>4
<1>9. CASE CleanUp BY <1>9 DEF CleanUp
<1>10. CASE VerifyAbsent
  <2>1. Clocks' BY <1>10 DEF VerifyAbsent
  <2>2. WayBack' BY <1>10 DEF VerifyAbsent
  <2>3. Apart' BY <1>10 DEF VerifyAbsent
  <2>4. CeilingKept' BY <1>10 DEF VerifyAbsent
  <2>5. QED BY <2>1, <2>2, <2>3, <2>4
<1>11. CASE RestoreSource BY <1>11 DEF RestoreSource
<1>12. CASE Finish
  <2>1. Clocks' BY <1>12 DEF Finish
  <2>2. WayBack' BY <1>12 DEF Finish
  <2>3. Apart' BY <1>12 DEF Finish
  <2>4. CeilingKept' BY <1>12 DEF Finish
  <2>5. QED BY <2>1, <2>2, <2>3, <2>4
<1>13. CASE Unconverged BY <1>13 DEF Unconverged
<1>14. CASE WatchdogRestarts BY <1>14 DEF WatchdogRestarts
<1>15. ASSUME NEW a \in Apps, ReleaseStop(a) PROVE OutageInv'
  BY <1>15 DEF ReleaseStop
<1>16. ASSUME NEW a \in Apps, Rehold(a) PROVE OutageInv'
  BY <1>16 DEF Rehold
<1>17. ASSUME NEW a \in Apps, ReleaseScope(a) PROVE OutageInv'
  BY <1>17 DEF ReleaseScope
<1>18. QED
  BY <1>1, <1>2, <1>3, <1>4, <1>5, <1>6, <1>7, <1>8, <1>9, <1>10, <1>11, <1>12, <1>13, <1>14, <1>15, <1>16, <1>17 DEF Watchdog

(* The cluster, deaths and time.                                           *)
LEMMA OutsideInv ==
  ASSUME WindowInv, SupervisorDies \/ WatchdogDies \/ MergeInverse \/ OperatorStops \/ Tick \/ Settle \/ (\E a \in Apps : DropHold(a)), TypeOK'
  PROVE  OutageInv'
<1> USE WindowAssumption DEF WindowInv, OutageInv, TypeOK, Clocks, WayBack, Apart, CeilingKept, StagedFirst, GateHasBudget, BudgetPast,
      WindowAfterBudget, ClocksKept, RevokedPast, BoundPast, CompleteEnds, ActuatesOnce, BeganFirst, StoppedPast,
      VerifiedPast, NormalPast, FlyIsLate, RestIsLate, AllHeld, AllStopped, FenceHolds, OutageHolds, Staging, Fenced,
      Recovering, Unset, Clock, Moments, Jobs, Ledgers, WatchStates, Origin, Least, SupervisorSteps, WatchdogSteps,
      Ended, LiveHolds, clusterVars, supVars, watchVars, GoTo, Touch
<1>1. CASE SupervisorDies BY <1>1 DEF SupervisorDies
<1>2. CASE WatchdogDies BY <1>2 DEF WatchdogDies
<1>3. CASE MergeInverse BY <1>3 DEF MergeInverse
<1>4. CASE OperatorStops BY <1>4 DEF OperatorStops
<1>5. CASE Tick BY <1>5 DEF Tick
<1>6. ASSUME NEW a \in Apps, Reconcile(a) PROVE OutageInv'
  BY <1>6 DEF Reconcile
<1>7. ASSUME NEW a \in Apps, DropHold(a) PROVE OutageInv'
  BY <1>7 DEF DropHold
<1>8. ASSUME NEW j \in Jobs, Land(j) PROVE OutageInv'
  BY <1>8 DEF Land
<1>9. ASSUME NEW j \in Jobs, Gone(j) PROVE OutageInv'
  BY <1>9 DEF Gone
<1>10. QED
  BY <1>1, <1>2, <1>3, <1>4, <1>5, <1>6, <1>7, <1>8, <1>9 DEF Settle

-----------------------------------------------------------------------------
(* WindowInv holds of every behaviour.                                     *)
THEOREM InvHolds == Spec => []WindowInv
<1>1. Init => WindowInv BY InitInv
<1>2. WindowInv /\ [Next]_vars => WindowInv'
  <2> SUFFICES ASSUME WindowInv, [Next]_vars PROVE WindowInv' OBVIOUS
  <2>1. TypeOK BY DEF WindowInv
  <2>2. CASE Supervisor BY <2>1, <2>2, SupervisorTypes, SupervisorInv DEF WindowInv
  <2>3. CASE Watchdog BY <2>1, <2>3, WatchdogTypes, WatchdogInv DEF WindowInv
  <2>4. CASE UNCHANGED vars
    BY <2>4 DEF vars, WindowInv, OutageInv, TypeOK, Clocks, WayBack, Apart, CeilingKept, StagedFirst, GateHasBudget, BudgetPast,
       WindowAfterBudget, ClocksKept, RevokedPast, BoundPast, CompleteEnds, ActuatesOnce, BeganFirst, StoppedPast,
       VerifiedPast, NormalPast, FlyIsLate, RestIsLate, AllHeld, AllStopped, FenceHolds, OutageHolds, Staging,
       Fenced, Recovering, Unset, Clock, Moments, Jobs, Ledgers, WatchStates, Origin, Least, clusterVars, supVars,
       watchVars
  <2>5. CASE SupervisorDies \/ WatchdogDies \/ MergeInverse \/ OperatorStops \/ Tick \/ Settle
               \/ (\E a \in Apps : DropHold(a))
    BY <2>1, <2>5, OutsideTypes, OutsideInv DEF WindowInv
  <2>6. QED BY <2>2, <2>3, <2>4, <2>5 DEF Next
<1>3. QED BY <1>1, <1>2, PTL DEF Spec

(* Every state has its types.                                              *)
THEOREM TypeCorrect == Spec => []TypeOK
<1>1. WindowInv => TypeOK BY DEF WindowInv
<1>2. QED BY <1>1, InvHolds, PTL

(* MAIN writes only in the full outage the watchdog completed, and after   *)
(* an application is resumed on Normal no Job of the phase exists but one  *)
(* whose creation was under way when the stop was requested: whichever     *)
(* process dies, however late the API server settles what it was sent.     *)
THEOREM WorkersKeptApart == Spec => []WorkersAlone
<1>1. WindowInv => OnlyLateCreates
  BY DEF WindowInv, OutageInv, WayBack, Apart, VerifiedPast, RestIsLate, OnlyLateCreates
<1>2. WindowInv => WritesInOutage
  (* Past the look for Jobs a MAIN that exists is late.                    *)
  BY DEF WindowInv, OutageInv, Apart, RestIsLate, OutageHolds, AllHeld, AllStopped, WritesInOutage, Jobs
<1>3. QED BY <1>1, <1>2, InvHolds, PTL DEF WorkersAlone

(* A window that is reported complete was restored within its ceiling,     *)
(* counted from the first absence on record.                               *)
THEOREM CeilingHolds == Spec => []CeilingKept
<1>1. WindowInv => CeilingKept BY DEF WindowInv, OutageInv
<1>2. QED BY <1>1, InvHolds, PTL

(* Only the actuation, never yet revoked and not complete, opens a hold    *)
(* while the frozen stop revision is what Flux would apply.                *)
THEOREM PausesAreFresh == Spec => NoStalePause
<1> DEFINE Fresh == \A a \in Apps : (ks[a] = "held" /\ ks'[a] = "open" /\ artifact = "stop" /\ drops' = drops)
                     => w.began /\ ~w.done /\ ~w.revoked /\ ~stop
<1>1. WindowInv /\ [Next]_vars => [Fresh]_vars
  <2> SUFFICES ASSUME WindowInv, Next, NEW a \in Apps,
                      ks[a] = "held", ks'[a] = "open", artifact = "stop", drops' = drops
               PROVE  w.began /\ ~w.done /\ ~w.revoked /\ ~stop
    OBVIOUS
  <2>1. CASE \E b \in Apps : ReleaseStop(b)
    BY <2>1 DEF ReleaseStop, Step, WindowInv, OutageInv, WayBack, ActuatesOnce
  <2>2. CASE \E b \in Apps : ReleaseScope(b)
    (* The source is restored before any scope is released.                *)
    BY <2>2 DEF ReleaseScope, Step, WindowInv, OutageInv, WayBack, NormalPast
  <2>3. CASE \E b \in Apps : Rehold(b) BY <2>3 DEF Rehold, WindowInv, TypeOK
  <2>4. CASE \E b \in Apps : DropHold(b) BY <2>4 DEF DropHold, WindowInv, TypeOK
  <2>5. CASE UNCHANGED ks BY <2>5
  <2>6. QED
    BY <2>1, <2>2, <2>3, <2>4, <2>5
    DEF Next, Supervisor, Watchdog, Settle, clusterVars, Round, Arm, Activate, WaitForStop, ServiceFence, Bind, Submit, Create, Observe, SourceWorks, ReaderWorks, MainWorks,
        Retire, Refuse, StopMain, StopRest, CleanupFailed, RequestRestore, Await, Heartbeat, MissCeiling, Revoke,
        Accept, Seal, BeginActuation, CompleteActuation, AbortActuation, TouchStop, CleanUp, VerifyAbsent,
        RestoreSource, Finish, Unconverged, WatchdogRestarts, SupervisorDies, WatchdogDies, MergeInverse,
        OperatorStops, Tick, Reconcile, Land, Gone
<1>2. QED BY <1>1, InvHolds, PTL DEF Spec, NoStalePause
=============================================================================
