-------------------------- MODULE CoordinationProofs --------------------------
(***************************************************************************)
(* What TLAPS proves of Coordination, for any signals, windows and bounds: *)
(* its types, that an attempt is summoned once and on a claim, that no     *)
(* writer lowers a claim, that a page about pods was earned by one, and    *)
(* that no page is repeated within its window.                             *)
(*                                                                         *)
(* ClaimInv is the inductive invariant.  The triage decides on what it     *)
(* read before a long attribution; Snapshot says that what it read of the  *)
(* claim is still so when it writes, since only the triage claims, and it  *)
(* runs alone.                                                             *)
(***************************************************************************)
EXTENDS Coordination, TLAPS

Holds == triage.at \in {"attribute", "upgrade", "nonupgrade"}

(* A triage that runs has a regression, and so a signature.                *)
HasSignature == triage.at # "idle" => triage.ids # {}

(* What the triage holds of the claim is what is on record.                *)
Snapshot == Holds /\ triage.read # "error" => (triage.prev.attempted <=> Claimed(Sig))

(* An entry that says upgrade, or attempted, stems from a claim.           *)
Stems(s) == OnRecord(s) => (cm[s].class = "upgrade" \/ cm[s].attempted => s \in tried)
RecordStems == \A s \in Sigs : Stems(s)

(* So does a run, and what the triage holds.                               *)
RunStems == triage.at \in {"run", "record", "escalate"} \/ triage.prev.attempted => Sig \in tried

ClaimInv == TypeOK /\ HasSignature /\ Snapshot /\ RecordStems /\ RunStems

-----------------------------------------------------------------------------
LEMMA CappedType == ASSUME NEW i \in Nat, NEW max \in Nat
                    PROVE  Capped(i, max) \in 0..max
BY DEF Capped

LEMMA BoundsType == /\ Never \in Nat /\ Oldest \in Nat /\ RunSpan \in 0..Oldest
                    /\ 0 \in 0..Oldest /\ 0..RunSpan \subseteq 0..Oldest
                    /\ Never \in 0..Never /\ 0 \in 0..Never /\ Repage \in 0..Never
                    /\ 0..Repage \subseteq 0..Never
BY SignalsAssumption DEF Never, Oldest

(* An entry is never mistaken for its absence.                             *)
LEMMA EntryIsRecord == \A e \in Entry : e # Absent
BY DEF Entry, Absent

(* A set of regressions has a signature.                                   *)
LEMMA SigIsSig == \A ids \in SUBSET Signals : ids # {} => SigOf(ids) \in Sigs
BY DEF Signals, Sigs, SigOf

LEMMA FieldsOf ==
  ASSUME TypeOK, NEW s \in Sigs, OnRecord(s)
  PROVE  /\ cm[s] \in Entry /\ cm[s].class \in {"none", "upgrade", "nonupgrade"}
         /\ cm[s].attempted \in BOOLEAN /\ cm[s].result \in Results
         /\ cm[s].seen \in 0..Oldest /\ cm[s].paged \in 0..Never
<1>1. cm[s] \in Entry
  BY DEF TypeOK, OnRecord
<1> QED BY <1>1 DEF Entry

LEMMA TriageFields ==
  ASSUME TypeOK
  PROVE  /\ triage.at \in {"idle", "attribute", "upgrade", "nonupgrade", "run", "record", "escalate"}
         /\ triage.ids \subseteq Signals /\ triage.read \in {"ok", "absent", "error"}
         /\ triage.prev.attempted \in BOOLEAN /\ triage.prev.result \in Results
         /\ triage.result \in Results /\ triage.ticks \in 0..RunSpan
<1>1. triage \in TriageStates
  BY DEF TypeOK
<1>2. triage.prev \in [attempted : BOOLEAN, result : Results]
  BY <1>1 DEF TriageStates
<1> QED BY <1>1, <1>2 DEF TriageStates

LEMMA UpsertedType ==
  ASSUME TypeOK, NEW s \in Sigs, NEW class \in {"upgrade", "nonupgrade"},
         NEW attempted \in BOOLEAN, NEW result \in Results
  PROVE  Upserted(s, class, attempted, result) \in Entry
<1>1. (IF OnRecord(s) THEN cm[s].paged ELSE Never) \in 0..Never
  BY FieldsOf, BoundsType
<1>2. (IF OnRecord(s) THEN cm[s].seen ELSE triage.ticks) \in 0..Oldest
  <2>1. triage.ticks \in 0..RunSpan
    BY TriageFields
  <2> QED BY <2>1, FieldsOf, BoundsType
<1> QED BY <1>1, <1>2 DEF Upserted, Entry

LEMMA UpsertedFields ==
  ASSUME NEW s, NEW class, NEW attempted, NEW result
  PROVE  /\ Upserted(s, class, attempted, result).class = class
         /\ Upserted(s, class, attempted, result).attempted = attempted
BY DEF Upserted

LEMMA StampedType ==
  ASSUME TypeOK, NEW s \in Sigs
  PROVE  /\ Stamped(s) \in Entry
         /\ OnRecord(s) => Stamped(s).class = cm[s].class /\ Stamped(s).attempted = cm[s].attempted
         /\ ~OnRecord(s) => Stamped(s).class = "none" /\ Stamped(s).attempted = FALSE
<1>1. CASE OnRecord(s)
  <2>1. cm[s] \in Entry
    BY <1>1, FieldsOf
  <2>2. Stamped(s) = [cm[s] EXCEPT !.paged = 0]
    BY <1>1 DEF Stamped
  <2> QED BY <1>1, <2>1, <2>2, BoundsType DEF Entry
<1>2. CASE ~OnRecord(s)
  BY <1>2, BoundsType DEF Stamped, Entry, Results
<1> QED BY <1>1, <1>2

(***************************************************************************)
(* Writes.  A write lets an entry alone when it goes, or keeps its class   *)
(* and its claim, or is new without a claim.                               *)
(***************************************************************************)
Mild(s) == OnRecord(s)' => \/ /\ OnRecord(s) /\ cm'[s].class = cm[s].class
                              /\ cm'[s].attempted = cm[s].attempted
                           \/ /\ ~OnRecord(s) /\ cm'[s].class = "none"
                              /\ cm'[s].attempted = FALSE

(* Mild writes lower no claim and raise none.                              *)
LEMMA MildKeeps ==
  ASSUME NEW s \in Sigs, Mild(s)
  PROVE  /\ OnRecord(s)' => (Claimed(s)' <=> Claimed(s))
         /\ Claimed(s)' => Claimed(s)
         /\ Stems(s) /\ tried \subseteq tried' => Stems(s)'
<1>1. CASE ~OnRecord(s)'
  BY <1>1 DEF Claimed, Stems
<1>2. CASE /\ OnRecord(s)' /\ OnRecord(s) /\ cm'[s].class = cm[s].class
           /\ cm'[s].attempted = cm[s].attempted
  BY <1>2, Zenon DEF Claimed, Stems
<1>3. CASE /\ OnRecord(s)' /\ ~OnRecord(s) /\ cm'[s].class = "none"
           /\ cm'[s].attempted = FALSE
  BY <1>3 DEF Claimed, Stems
<1> QED BY <1>1, <1>2, <1>3 DEF Mild

(* state_upsert writes one entry and prunes.                               *)
LEMMA UpsertWrites ==
  ASSUME TypeOK, NEW s \in Sigs, NEW class \in {"upgrade", "nonupgrade"},
         NEW attempted \in BOOLEAN, NEW result \in Results,
         Upsert(s, class, attempted, result)
  PROVE  /\ cm' \in [Sigs -> Entry \cup {Absent}] /\ exists' \in BOOLEAN
         /\ forgot' \subseteq Sigs /\ told' \in [Sigs -> 0..Repage] /\ faults' \in 0..MaxFaults
         /\ OnRecord(s)' /\ cm'[s].class = class /\ cm'[s].attempted = attempted
         /\ \A t \in Sigs \ {s} : Mild(t)
<1>1. cm' = [t \in Sigs |-> IF t = s THEN Upserted(s, class, attempted, result)
                            ELSE IF Fresh(t) THEN cm[t] ELSE Absent]
  BY DEF Upsert, Write
<1>2. Upserted(s, class, attempted, result) \in Entry
  BY UpsertedType
<1>3. \A t \in Sigs : cm[t] \in Entry \cup {Absent}
  BY DEF TypeOK
<1>4. cm' \in [Sigs -> Entry \cup {Absent}]
  BY <1>1, <1>2, <1>3
<1>5. exists' \in BOOLEAN /\ told' \in [Sigs -> 0..Repage] /\ faults' \in 0..MaxFaults
  BY DEF Upsert, TypeOK
<1>6. forgot' \subseteq Sigs
  BY DEF Upsert, Write, TypeOK
<1>7. cm'[s] = Upserted(s, class, attempted, result)
  BY <1>1
<1>8. OnRecord(s)'
  BY <1>2, <1>7, EntryIsRecord DEF OnRecord
<1>9. cm'[s].class = class /\ cm'[s].attempted = attempted
  <2>1. /\ Upserted(s, class, attempted, result).class = class
        /\ Upserted(s, class, attempted, result).attempted = attempted
    BY UpsertedFields
  <2> QED BY <1>7, <2>1, Zenon
<1>10. ASSUME NEW t \in Sigs \ {s} PROVE Mild(t)
  <2>1. cm'[t] = cm[t] \/ cm'[t] = Absent
    BY <1>1
  <2> QED BY <2>1, Zenon DEF Mild, OnRecord
<1> QED BY <1>4, <1>5, <1>6, <1>8, <1>9, <1>10

(* A write that is refused leaves everything alone.                        *)
LEMMA RefusedKeeps ==
  ASSUME TypeOK, Refused
  PROVE  cm' = cm /\ exists' = exists /\ told' = told /\ forgot' = forgot /\ faults' \in 0..MaxFaults
BY SignalsAssumption DEF Refused, Fault, state, TypeOK

LEMMA FaultType == ASSUME TypeOK, Fault PROVE faults' \in 0..MaxFaults
BY SignalsAssumption DEF TypeOK, Fault

LEMMA CollectedType == ASSUME TypeOK, NEW ids, Collected(ids)
                       PROVE  ids \subseteq Signals /\ faults' \in 0..MaxFaults
BY FaultType DEF Collected, TypeOK, Signals

LEMMA IdleType ==
  /\ TriageIdle.at = "idle" /\ TriageIdle.ids = {} /\ TriageIdle.read = "ok"
  /\ TriageIdle.prev = NoAttempt /\ NoAttempt.attempted = FALSE
  /\ NoAttempt \in [attempted : BOOLEAN, result : Results]
  /\ TriageIdle \in TriageStates /\ GateIdle \in GateStates
  /\ GateIdle.at = "idle"
BY SignalsAssumption DEF TriageIdle, NoAttempt, GateIdle, Results, TriageStates, GateStates

(* What the gate does to itself after a decision keeps it well typed.      *)
LEMMA GateType ==
  /\ \A sig \in Sigs \cup {{}}, flux, pods, again, heard \in BOOLEAN :
       [at |-> "page", sig |-> sig, flux |-> flux, pods |-> pods,
        again |-> again, heard |-> heard] \in GateStates
  /\ \A g \in GateStates : /\ [g EXCEPT !.at = "stamp", !.heard = TRUE] \in GateStates
                            /\ [g EXCEPT !.at = "stamp"] \in GateStates
                            /\ [g EXCEPT !.at = "escalate", !.heard = FALSE] \in GateStates
BY DEF GateStates

(* The triage goes on with what it holds, or with its run.                 *)
GoesOn == /\ triage'.ids = triage.ids /\ triage'.read = triage.read /\ triage'.prev = triage.prev
          /\ triage'.at # "idle" => triage.at # "idle"
          /\ Holds' => Holds
          /\ triage'.at \in {"run", "record", "escalate"} =>
               triage.at \in {"run", "record", "escalate"}

(* No step lowers a claim.                                                 *)
ClaimsStay == \A s \in Sigs : Claimed(s) /\ OnRecord(s)' => Claimed(s)'

(* The invariant when the triage is done.                                  *)
LEMMA DoneKeeps ==
  ASSUME TypeOK', RecordStems', triage' = TriageIdle
  PROVE  ClaimInv'
<1>1. triage'.at = "idle" /\ triage'.prev.attempted = FALSE
  BY IdleType
<1> QED BY <1>1 DEF ClaimInv, HasSignature, Snapshot, Holds, RunStems

(* The invariant across a step whose writes are mild.                      *)
LEMMA MildStep ==
  ASSUME ClaimInv, TypeOK', \A s \in Sigs : Mild(s), tried' = tried,
         triage' = TriageIdle \/ GoesOn,
         Holds => triage' = TriageIdle \/ \A s \in Sigs : OnRecord(s) => OnRecord(s)'
  PROVE  ClaimInv' /\ ClaimsStay
<1>1. RecordStems'
  BY MildKeeps DEF ClaimInv, RecordStems
<1>2. ClaimsStay
  BY MildKeeps DEF ClaimsStay
<1>3. CASE GoesOn /\ triage' # TriageIdle
  <2>1. HasSignature' /\ RunStems'
    BY <1>3 DEF ClaimInv, HasSignature, RunStems, Sig, GoesOn
  <2>2. Snapshot'
    <3> SUFFICES ASSUME Holds', triage.read # "error"
                 PROVE  triage.prev.attempted <=> Claimed(Sig)'
      BY <1>3, Zenon DEF Snapshot, GoesOn
    <3>1. Holds
      BY <1>3 DEF GoesOn
    <3>2. Sig \in Sigs /\ Sig' = Sig
      BY <1>3, <3>1, SigIsSig, TriageFields DEF ClaimInv, HasSignature, Holds, Sig, GoesOn
    <3>3. Claimed(Sig)' <=> Claimed(Sig)
      BY <1>3, <3>1, <3>2, MildKeeps DEF Claimed
    <3>4. triage.prev.attempted <=> Claimed(Sig)
      BY <3>1, Zenon DEF ClaimInv, Snapshot
    <3> QED BY <3>3, <3>4, Zenon
  <2> QED BY <1>1, <1>2, <2>1, <2>2 DEF ClaimInv
<1> QED BY <1>1, <1>2, <1>3, DoneKeeps

LEMMA NothingWritten ==
  ASSUME cm' = cm
  PROVE  \A s \in Sigs : Mild(s) /\ (OnRecord(s) => OnRecord(s)')
BY DEF Mild, OnRecord

LEMMA SameGoesOn == ASSUME triage' = triage PROVE GoesOn
BY DEF GoesOn, Holds

-----------------------------------------------------------------------------
LEMMA InitClaim == Init => ClaimInv
<1> SUFFICES ASSUME Init PROVE ClaimInv
  OBVIOUS
<1>1. TypeOK
  <2>1. cm \in [Sigs -> Entry \cup {Absent}] /\ told \in [Sigs -> 0..Repage]
    BY SignalsAssumption DEF Init
  <2>2. gate \in GateStates /\ triage \in TriageStates
    BY IdleType DEF Init
  <2>3. faults \in 0..MaxFaults
    BY SignalsAssumption DEF Init
  <2> QED BY <2>1, <2>2, <2>3 DEF Init, TypeOK
<1>2. \A s \in Sigs : ~OnRecord(s)
  BY DEF Init, OnRecord
<1>3. triage.at = "idle" /\ triage.prev.attempted = FALSE
  BY IdleType DEF Init
<1> QED BY <1>1, <1>2, <1>3
        DEF ClaimInv, HasSignature, Snapshot, Holds, RecordStems, Stems, RunStems

(* The gate reads the CM and stamps it; it never claims.                   *)
LEMMA GateKeeps == ClaimInv /\ (GateStep \/ GateKilled) => ClaimInv' /\ ClaimsStay
<1> SUFFICES ASSUME ClaimInv, GateStep \/ GateKilled PROVE ClaimInv' /\ ClaimsStay
  OBVIOUS
<1>0. TypeOK
  BY DEF ClaimInv
<1>1. CASE GateLook
  <2>1. PICK ids \in SUBSET Signals, e \in Entry \cup {Absent} :
           Decide(ids, e) /\ faults' \in 0..MaxFaults
    <3>1. \A ids \in SUBSET Signals : ids # {} => cm[SigOf(ids)] \in Entry \cup {Absent}
      BY <1>0, SigIsSig DEF TypeOK
    <3> QED BY <1>0, <1>1, <3>1, CollectedType, FaultType DEF GateLook
  <2>2. SigOf(ids) \in Sigs \cup {{}}
    <3>1. CASE ids = {}
      BY <3>1 DEF SigOf
    <3> QED BY <3>1, SigIsSig
  <2>3. gate' \in GateStates
    <3> DEFINE flux == ids \cap Flux # {} /\ Phase(e) # "inflight"
               pods == ids \cap Pods # {} /\ Phase(e) = "failed"
               again == e # Absent /\ e.paged # Never
    <3>1. \/ gate' = [at |-> "page", sig |-> SigOf(ids), flux |-> flux, pods |-> pods,
                      again |-> again, heard |-> FALSE]
          \/ gate' = GateIdle
      BY <2>1, Zenon DEF Decide
    <3>2. flux \in BOOLEAN /\ pods \in BOOLEAN /\ again \in BOOLEAN
      BY Zenon
    <3> HIDE DEF flux, pods, again
    <3> QED BY <2>2, <3>1, <3>2, IdleType, GateType
  <2>4. TypeOK'
    BY <1>0, <1>1, <2>1, <2>3 DEF GateLook, TypeOK, cluster, state, history
  <2> QED BY <1>1, <2>4, MildStep, NothingWritten, SameGoesOn DEF GateLook, state, history
<1>2. CASE GatePage
  <2>1. faults' \in 0..MaxFaults
    BY <1>0, <1>2, FaultType DEF GatePage, TypeOK
  <2>2. TypeOK'
    BY <1>0, <1>2, <2>1, GateType DEF GatePage, TypeOK, cluster, state, history
  <2> QED BY <1>2, <2>2, MildStep, NothingWritten, SameGoesOn DEF GatePage, state, history
<1>3. CASE GateStamp
  <2>1. CASE exists /\ cm' = [cm EXCEPT ![gate.sig] = Stamped(gate.sig)]
             /\ told' = [told EXCEPT ![gate.sig] = 0] /\ forgot' = forgot \ {gate.sig}
             /\ UNCHANGED <<exists, faults, tried>>
    <3>1. \A s \in Sigs : /\ cm'[s] = (IF s = gate.sig THEN Stamped(s) ELSE cm[s])
      BY <1>0, <2>1 DEF TypeOK
    <3>2. cm' \in [Sigs -> Entry \cup {Absent}]
      <4>1. gate.sig \in Sigs => Stamped(gate.sig) \in Entry
        BY <1>0, StampedType
      <4> QED BY <1>0, <2>1, <4>1 DEF TypeOK
    <3>3. ASSUME NEW s \in Sigs
          PROVE  Mild(s) /\ (OnRecord(s) => OnRecord(s)')
      <4>1. CASE s # gate.sig
        BY <3>1, <4>1 DEF Mild, OnRecord
      <4>2. CASE s = gate.sig
        <5>1. cm'[s] = Stamped(s)
          BY <3>1, <4>2
        <5>2. OnRecord(s)'
          BY <1>0, <5>1, StampedType, EntryIsRecord DEF OnRecord
        <5>3. /\ OnRecord(s) => cm'[s].class = cm[s].class /\ cm'[s].attempted = cm[s].attempted
              /\ ~OnRecord(s) => cm'[s].class = "none" /\ cm'[s].attempted = FALSE
          BY <1>0, <5>1, StampedType, Zenon
        <5> QED BY <5>2, <5>3, Zenon DEF Mild
      <4> QED BY <4>1, <4>2
    <3>4. TypeOK'
      <4>1. gate' \in GateStates
        BY <1>0, <1>3, IdleType, GateType DEF GateStamp, TypeOK
      <4>2. told' \in [Sigs -> 0..Repage]
        <5>1. told \in [Sigs -> 0..Repage] /\ 0 \in 0..Repage
          BY <1>0, SignalsAssumption DEF TypeOK
        <5> QED BY <2>1, <5>1
      <4> QED BY <1>0, <1>3, <2>1, <3>2, <4>1, <4>2 DEF GateStamp, TypeOK, cluster
    <3> QED BY <1>3, <2>1, <3>3, <3>4, MildStep, SameGoesOn DEF GateStamp
  <2>2. CASE \/ ~exists /\ UNCHANGED <<state, faults, history>>
             \/ Refused /\ UNCHANGED tried
    <3>1. cm' = cm /\ exists' = exists /\ told' = told /\ forgot' = forgot /\ tried' = tried
          /\ faults' \in 0..MaxFaults
      BY <1>0, <2>2, RefusedKeeps DEF state, history, TypeOK
    <3>2. TypeOK'
      BY <1>0, <1>3, <3>1, IdleType, GateType DEF GateStamp, TypeOK, cluster
    <3> QED BY <1>3, <3>1, <3>2, MildStep, NothingWritten, SameGoesOn DEF GateStamp
  <2> QED BY <1>3, <2>1, <2>2 DEF GateStamp
<1>4. CASE GateEscalate \/ GateKilled
  <2>1. faults' \in 0..MaxFaults
    BY <1>0, <1>4, FaultType DEF GateEscalate, GateKilled, TypeOK
  <2>2. TypeOK'
    BY <1>0, <1>4, <2>1, IdleType DEF GateEscalate, GateKilled, TypeOK, cluster, state, history
  <2> QED BY <1>4, <2>2, MildStep, NothingWritten, SameGoesOn DEF GateEscalate, GateKilled, state, history
<1> QED BY <1>1, <1>2, <1>3, <1>4 DEF GateStep

(* What the triage does to itself keeps it well typed.                     *)
LEMMA TriageType ==
  /\ \A ids \in SUBSET Signals, read \in {"ok", "absent", "error"},
        prev \in [attempted : BOOLEAN, result : Results] :
       /\ [TriageIdle EXCEPT !.at = "attribute", !.ids = ids, !.read = read, !.prev = prev]
            \in TriageStates
       /\ [TriageIdle EXCEPT !.at = "attribute", !.ids = ids, !.read = read] \in TriageStates
  /\ \A ids \in SUBSET Signals : [TriageIdle EXCEPT !.at = "run", !.ids = ids] \in TriageStates
  /\ \A t \in TriageStates :
       /\ \A to \in {"upgrade", "nonupgrade", "escalate"} : [t EXCEPT !.at = to] \in TriageStates
       /\ \A result \in Results : [t EXCEPT !.at = "record", !.result = result] \in TriageStates
<1>1. ASSUME NEW t \in TriageStates
      PROVE  /\ \A to \in {"upgrade", "nonupgrade", "escalate"} : [t EXCEPT !.at = to] \in TriageStates
             /\ \A result \in Results : [t EXCEPT !.at = "record", !.result = result] \in TriageStates
  BY DEF TriageStates
<1>2. ASSUME NEW ids \in SUBSET Signals, NEW read \in {"ok", "absent", "error"},
             NEW prev \in [attempted : BOOLEAN, result : Results]
      PROVE  /\ [TriageIdle EXCEPT !.at = "attribute", !.ids = ids, !.read = read, !.prev = prev]
                   \in TriageStates
             /\ [TriageIdle EXCEPT !.at = "attribute", !.ids = ids, !.read = read] \in TriageStates
  BY IdleType DEF TriageStates
<1>3. \A ids \in SUBSET Signals : [TriageIdle EXCEPT !.at = "run", !.ids = ids] \in TriageStates
  BY IdleType DEF TriageStates
<1> QED BY <1>1, <1>2, <1>3

LEMMA AttemptType ==
  ASSUME TypeOK, NEW s \in Sigs
  PROVE  /\ Attempt(s) \in [attempted : BOOLEAN, result : Results]
         /\ Attempt(s).attempted <=> Claimed(s)
<1>1. CASE OnRecord(s)
  <2> DEFINE attempted == cm[s].attempted
             result == cm[s].result
  <2>1. attempted \in BOOLEAN /\ result \in Results
    BY <1>1, FieldsOf
  <2>2. Attempt(s) = [attempted |-> attempted, result |-> result]
    BY <1>1, Zenon DEF Attempt
  <2>3. Claimed(s) <=> attempted
    BY <1>1, Zenon DEF Claimed
  <2> HIDE DEF attempted, result
  <2>4. Attempt(s) \in [attempted : BOOLEAN, result : Results] /\ Attempt(s).attempted = attempted
    BY <2>1, <2>2
  <2> QED BY <2>3, <2>4, Zenon
<1>2. CASE ~OnRecord(s)
  BY <1>2, IdleType DEF Attempt, Claimed
<1> QED BY <1>1, <1>2

(* state_upsert by a triage that has, or has just made, a claim.           *)
LEMMA UpsertKeeps ==
  ASSUME ClaimInv, triage.at # "idle", NEW s \in Sigs, s = Sig,
         NEW class \in {"upgrade", "nonupgrade"}, NEW attempted \in BOOLEAN,
         NEW result \in Results, Upsert(s, class, attempted, result),
         tried \subseteq tried', class = "upgrade" \/ attempted => s \in tried'
  PROVE  /\ RecordStems' /\ OnRecord(s)' /\ Claimed(s)' = attempted
         /\ cm' \in [Sigs -> Entry \cup {Absent}] /\ exists' \in BOOLEAN
         /\ forgot' \subseteq Sigs /\ told' \in [Sigs -> 0..Repage] /\ faults' \in 0..MaxFaults
         /\ \A t \in Sigs \ {s} : Mild(t)
<1>1. /\ cm' \in [Sigs -> Entry \cup {Absent}] /\ exists' \in BOOLEAN
      /\ forgot' \subseteq Sigs /\ told' \in [Sigs -> 0..Repage] /\ faults' \in 0..MaxFaults
      /\ OnRecord(s)' /\ cm'[s].class = class /\ cm'[s].attempted = attempted
      /\ \A t \in Sigs \ {s} : Mild(t)
  BY UpsertWrites DEF ClaimInv
<1>2. Claimed(s)' = attempted
  BY <1>1, Zenon DEF Claimed
<1>3. Stems(s)'
  BY <1>1, Zenon DEF Stems
<1>4. \A t \in Sigs \ {s} : Stems(t)'
  BY <1>1, MildKeeps DEF ClaimInv, RecordStems
<1>5. RecordStems'
  BY <1>3, <1>4 DEF RecordStems
<1> QED BY <1>1, <1>2, <1>5

LEMMA SigType == ASSUME ClaimInv, triage.at # "idle" PROVE Sig \in Sigs
BY SigIsSig, TriageFields DEF ClaimInv, HasSignature, Sig

(* Every step of the triage keeps the invariant.                           *)
LEMMA TriageKeeps == ClaimInv /\ (TriageStep \/ TriageKilled) => ClaimInv' /\ ClaimsStay
<1> SUFFICES ASSUME ClaimInv, TriageStep \/ TriageKilled PROVE ClaimInv' /\ ClaimsStay
  OBVIOUS
<1>0. TypeOK
  BY DEF ClaimInv
<1>1. CASE TriagePrune
  <2>1. \A s \in Sigs : Mild(s)
    <3>1. cm' = cm \/ \A s \in Sigs : cm'[s] = cm[s] \/ cm'[s] = Absent
      BY <1>1 DEF TriagePrune, Write
    <3> QED BY <3>1, Zenon DEF Mild, OnRecord
  <2>2. cm' \in [Sigs -> Entry \cup {Absent}] /\ forgot' \subseteq Sigs
    BY <1>0, <1>1 DEF TriagePrune, Write, TypeOK
  <2>3. faults' \in 0..MaxFaults
    BY <1>0, <1>1, CollectedType, FaultType DEF TriagePrune
  <2>4. TypeOK'
    BY <1>0, <1>1, <2>2, <2>3 DEF TriagePrune, TypeOK, cluster
  <2>5. ~Holds
    BY <1>1 DEF TriagePrune, Holds
  <2> QED BY <1>1, <2>1, <2>4, <2>5, MildStep, SameGoesOn DEF TriagePrune
<1>2. CASE TriageLook
  <2>1. PICK ids \in (SUBSET Signals) \ {{}} :
          /\ faults' \in 0..MaxFaults
          /\ \/ triage' = [TriageIdle EXCEPT !.at = "attribute", !.ids = ids,
                  !.read = IF exists THEN "ok" ELSE "absent", !.prev = Attempt(SigOf(ids))]
             \/ triage' = [TriageIdle EXCEPT !.at = "attribute", !.ids = ids, !.read = "error"]
    BY <1>0, <1>2, CollectedType, FaultType DEF TriageLook
  <2> DEFINE s == SigOf(ids)
             read == IF exists THEN "ok" ELSE "absent"
             prev == Attempt(s)
  <2>2. s \in Sigs
    BY SigIsSig
  <2>3. read \in {"ok", "absent", "error"} /\ prev \in [attempted : BOOLEAN, result : Results]
        /\ (prev.attempted <=> Claimed(s))
    BY <1>0, <2>2, AttemptType
  <2>4. \/ triage' = [TriageIdle EXCEPT !.at = "attribute", !.ids = ids, !.read = read, !.prev = prev]
        \/ triage' = [TriageIdle EXCEPT !.at = "attribute", !.ids = ids, !.read = "error"]
    BY <2>1
  <2>5. cm' = cm /\ tried' = tried
    BY <1>2 DEF TriageLook, state, history
  <2>6. Sig' = s /\ (Claimed(s)' <=> Claimed(s))
    <3>1. triage'.ids = ids
      BY <2>1 DEF TriageIdle
    <3>2. Claimed(s)' <=> Claimed(s)
      BY <2>5 DEF Claimed, OnRecord
    <3> QED BY <3>1, <3>2 DEF Sig
  <2>7. Claimed(s) => s \in tried
    BY <2>2, Zenon DEF ClaimInv, RecordStems, Stems, Claimed
  <2> HIDE DEF s, read, prev
  <2>8. TypeOK'
    <3>1. triage' \in TriageStates
      <4>1. ids \in SUBSET Signals /\ "error" \in {"ok", "absent", "error"}
        OBVIOUS
      <4>2. /\ [TriageIdle EXCEPT !.at = "attribute", !.ids = ids, !.read = read, !.prev = prev]
                 \in TriageStates
            /\ [TriageIdle EXCEPT !.at = "attribute", !.ids = ids, !.read = "error"] \in TriageStates
        BY <2>3, <4>1, TriageType, Zenon
      <4> QED BY <2>4, <4>2, Zenon
    <3> QED BY <1>0, <1>2, <2>1, <3>1 DEF TriageLook, TypeOK, cluster, state, history
  <2>9. /\ triage'.at = "attribute" /\ triage'.ids = ids
        /\ \/ triage'.prev = prev
           \/ triage'.prev = NoAttempt /\ triage'.read = "error"
    BY <2>4 DEF TriageIdle
  <2>10. RecordStems'
    BY <2>5, NothingWritten, MildKeeps DEF ClaimInv, RecordStems
  <2>11. HasSignature'
    BY <2>9 DEF HasSignature
  <2>12. Snapshot'
    <3>1. CASE triage'.prev = prev
      BY <2>3, <2>6, <3>1, Zenon DEF Snapshot
    <3>2. CASE triage'.read = "error"
      BY <3>2 DEF Snapshot
    <3> QED BY <2>9, <3>1, <3>2
  <2>13. RunStems'
    <3>1. CASE triage'.prev = prev
      BY <2>3, <2>5, <2>6, <2>7, <2>9, <3>1 DEF RunStems
    <3>2. CASE triage'.prev = NoAttempt
      BY <2>9, <3>2, IdleType DEF RunStems
    <3> QED BY <2>9, <3>1, <3>2
  <2>14. ClaimsStay
    BY <2>5, NothingWritten, MildKeeps DEF ClaimsStay
  <2> QED BY <2>8, <2>10, <2>11, <2>12, <2>13, <2>14 DEF ClaimInv
<1>3. CASE Attribute
  <2>1. faults' \in 0..MaxFaults /\ cm' = cm
    BY <1>0, <1>3, FaultType DEF Attribute, state, TypeOK
  <2>2. \E to \in {"upgrade", "nonupgrade"} : triage' = [triage EXCEPT !.at = to]
    BY <1>3 DEF Attribute
  <2>3. triage' \in TriageStates
    BY <1>0, <2>2, TriageType DEF TypeOK
  <2>4. TypeOK'
    BY <1>0, <1>3, <2>1, <2>3 DEF Attribute, TypeOK, cluster, state, history
  <2>5. GoesOn
    <3>1. triage \in TriageStates /\ triage.at = "attribute"
      BY <1>0, <1>3 DEF Attribute, TypeOK
    <3> QED BY <2>2, <3>1 DEF GoesOn, Holds, TriageStates
  <2> QED BY <1>3, <2>1, <2>4, <2>5, MildStep, NothingWritten DEF Attribute, history
<1>4. CASE Unverifiable \/ TriageEscalate \/ TriageKilled
  <2>1. /\ faults' \in 0..MaxFaults /\ cm' = cm /\ triage' = TriageIdle
        /\ UNCHANGED <<cluster, state, due, gate, history>>
    BY <1>0, <1>4, FaultType
       DEF Unverifiable, TriageEscalate, TriageKilled, state, history, TypeOK
  <2>2. TypeOK'
    BY <1>0, <2>1, IdleType DEF TypeOK, cluster, state, history
  <2> QED BY <2>1, <2>2, MildStep, NothingWritten DEF history
<1>5. CASE Return
  <2>1. PICK ids \in SUBSET Signals, result \in {"fixed", "pending", "failed"} :
           /\ Collected(ids) /\ triage' = [triage EXCEPT !.at = "record", !.result = result]
    BY <1>5 DEF Return
  <2>2. faults' \in 0..MaxFaults /\ cm' = cm
    BY <1>0, <1>5, <2>1, CollectedType DEF Return, state
  <2>3. triage' \in TriageStates
    BY <1>0, <2>1, TriageType DEF TypeOK, Results
  <2>4. TypeOK'
    BY <1>0, <1>5, <2>2, <2>3 DEF Return, TypeOK, cluster, state, history
  <2>5. GoesOn
    <3>1. triage \in TriageStates /\ triage.at = "run"
      BY <1>0, <1>5 DEF Return, TypeOK
    <3> QED BY <2>1, <3>1 DEF GoesOn, Holds, TriageStates
  <2> QED BY <1>5, <2>2, <2>4, <2>5, MildStep, NothingWritten DEF Return, history
<1>6. ASSUME Refused, UNCHANGED <<cluster, due, gate, tried>>,
             triage' \in {TriageIdle, [triage EXCEPT !.at = "escalate"]},
             triage' # TriageIdle => triage.at = "record"
      PROVE  ClaimInv' /\ ClaimsStay
  <2>1. cm' = cm /\ exists' = exists /\ told' = told /\ forgot' = forgot /\ faults' \in 0..MaxFaults
    BY <1>0, <1>6, RefusedKeeps
  <2>2. triage' \in TriageStates
    BY <1>0, <1>6, IdleType, TriageType DEF TypeOK
  <2>3. TypeOK'
    BY <1>0, <1>6, <2>1, <2>2 DEF TypeOK, cluster
  <2>4. triage' = TriageIdle \/ GoesOn
    <3>1. triage \in TriageStates
      BY <1>0 DEF TypeOK
    <3> QED BY <1>6, <3>1 DEF GoesOn, Holds, TriageStates
  <2> QED BY <1>6, <2>1, <2>3, <2>4, MildStep, NothingWritten
<1>7. ASSUME triage.at # "idle", NEW s \in Sigs, s = Sig,
             NEW class \in {"upgrade", "nonupgrade"}, NEW attempted \in BOOLEAN,
             NEW result \in Results, Upsert(s, class, attempted, result),
             class = "upgrade" \/ attempted => s \in tried',
             tried \subseteq tried', tried' \subseteq Sigs,
             UNCHANGED <<cluster, due, gate>>, triage' \in TriageStates
      PROVE  /\ TypeOK' /\ RecordStems'
             /\ (Claimed(s) => attempted) => ClaimsStay
  <2>1. /\ RecordStems' /\ OnRecord(s)' /\ Claimed(s)' = attempted
        /\ \A t \in Sigs \ {s} : Mild(t)
        /\ cm' \in [Sigs -> Entry \cup {Absent}] /\ exists' \in BOOLEAN
        /\ forgot' \subseteq Sigs /\ told' \in [Sigs -> 0..Repage] /\ faults' \in 0..MaxFaults
    BY <1>7, UpsertKeeps
  <2>2. TypeOK'
    BY <1>0, <1>7, <2>1 DEF TypeOK, cluster
  <2>3. \A t \in Sigs \ {s} : Claimed(t) /\ OnRecord(t)' => Claimed(t)'
    BY <2>1, MildKeeps
  <2>4. (Claimed(s) => attempted) => ClaimsStay
    BY <2>1, <2>3, Zenon DEF ClaimsStay
  <2> QED BY <2>1, <2>2, <2>4
<1>8. tried \subseteq Sigs /\ TriageIdle \in TriageStates
  BY <1>0, IdleType DEF TypeOK
<1>9. CASE AlreadyTried
  <2>1. triage.at # "idle" /\ Holds /\ triage.prev.attempted /\ triage.prev.result \in Results
    BY <1>0, <1>9, TriageFields DEF AlreadyTried, Holds
  <2>2. PICK s \in Sigs : s = Sig
    BY <2>1, SigType
  <2>3. s \in tried
    BY <2>1, <2>2 DEF ClaimInv, RunStems
  <2>4. CASE Refused
    BY <1>6, <1>9, <2>4 DEF AlreadyTried
  <2>5. CASE Upsert(Sig, "upgrade", TRUE, triage.prev.result)
    <3>1. PICK result \in Results : result = triage.prev.result
      BY <2>1
    <3>2. Upsert(s, "upgrade", TRUE, result)
      BY <2>2, <2>5, <3>1
    <3>3. TypeOK' /\ RecordStems' /\ ClaimsStay
      BY <1>7, <1>8, <1>9, <2>1, <2>2, <2>3, <3>2 DEF AlreadyTried
    <3> QED BY <1>9, <3>3, DoneKeeps DEF AlreadyTried
  <2> QED BY <1>9, <2>4, <2>5 DEF AlreadyTried
<1>10. CASE Claim
  <2>1. triage.at # "idle" /\ triage.ids \in SUBSET Signals /\ triage.ids # {}
    BY <1>0, <1>10, TriageFields DEF Claim, ClaimInv, HasSignature
  <2>2. PICK s \in Sigs : s = Sig
    BY <2>1, SigType
  <2>3. CASE Refused /\ Stop
    BY <1>6, <1>10, <2>3 DEF Claim, Stop
  <2>4. CASE Upsert(Sig, "upgrade", TRUE, "none") /\ Summon
    <3>1. triage' = [TriageIdle EXCEPT !.at = "run", !.ids = triage.ids] /\ tried' = tried \cup {s}
      BY <2>2, <2>4 DEF Summon
    <3>2. triage' \in TriageStates
      <4>1. [TriageIdle EXCEPT !.at = "run", !.ids = triage.ids] \in TriageStates
        BY <2>1, TriageType, Zenon
      <4> QED BY <3>1, <4>1
    <3>3. Upsert(s, "upgrade", TRUE, "none") /\ "none" \in Results
      BY <2>2, <2>4 DEF Results
    <3>4. TypeOK' /\ RecordStems' /\ ClaimsStay
      BY <1>7, <1>8, <1>10, <2>1, <2>2, <3>1, <3>2, <3>3 DEF Claim
    <3>5. triage'.at = "run" /\ triage'.ids = triage.ids
      BY <3>1 DEF TriageIdle
    <3>6. HasSignature' /\ Snapshot'
      BY <2>1, <3>5 DEF HasSignature, Snapshot, Holds
    <3>7. RunStems'
      BY <2>2, <3>1, <3>5 DEF RunStems, Sig
    <3> QED BY <3>4, <3>6, <3>7 DEF ClaimInv
  <2> QED BY <1>10, <2>3, <2>4 DEF Claim
<1>11. CASE Record
  <2>1. /\ triage.at # "idle" /\ Holds /\ triage.prev.attempted \in BOOLEAN
        /\ triage.prev.result \in Results
    BY <1>0, <1>11, TriageFields DEF Record, Holds
  <2>2. PICK s \in Sigs : s = Sig
    BY <2>1, SigType
  <2>3. CASE Refused
    BY <1>6, <1>11, <2>3 DEF Record
  <2>4. CASE UNCHANGED <<state, faults, told, forgot>>
    <3>1. TypeOK'
      BY <1>0, <1>8, <1>11, <2>4 DEF Record, TypeOK, cluster, state
    <3> QED BY <1>11, <2>4, <3>1, MildStep, NothingWritten DEF Record, state
  <2>5. CASE /\ triage.read = "ok"
             /\ Upsert(Sig, "nonupgrade", triage.prev.attempted,
                       IF triage.prev.attempted THEN triage.prev.result ELSE "none")
    <3>1. PICK attempted \in BOOLEAN : attempted = triage.prev.attempted
      BY <2>1, Zenon
    <3>2. PICK result \in Results :
             result = IF triage.prev.attempted THEN triage.prev.result ELSE "none"
      BY <2>1 DEF Results
    <3>3. Upsert(s, "nonupgrade", attempted, result)
      BY <2>2, <2>5, <3>1, <3>2, Zenon
    <3>4. attempted => s \in tried
      BY <2>2, <3>1, Zenon DEF ClaimInv, RunStems
    <3>5. /\ TypeOK' /\ RecordStems'
          /\ (Claimed(s) => attempted) => ClaimsStay
      BY <1>7, <1>8, <1>11, <2>1, <2>2, <3>3, <3>4 DEF Record
    <3>6. Claimed(s) => attempted
      <4>1. triage.prev.attempted <=> Claimed(Sig)
        BY <2>1, <2>5 DEF ClaimInv, Snapshot
      <4> QED BY <2>2, <3>1, <4>1, Zenon
    <3> QED BY <1>11, <3>5, <3>6, DoneKeeps DEF Record
  <2> QED BY <1>11, <2>3, <2>4, <2>5 DEF Record
<1>12. CASE RecordResult
  <2>1. triage.at # "idle" /\ triage.at = "record" /\ triage.result \in Results
    BY <1>0, <1>12, TriageFields DEF RecordResult
  <2>2. PICK s \in Sigs : s = Sig
    BY <2>1, SigType
  <2>3. s \in tried
    BY <2>1, <2>2 DEF ClaimInv, RunStems
  <2>4. CASE Refused
    BY <1>6, <1>12, <2>1, <2>4 DEF RecordResult
  <2>5. CASE Upsert(Sig, "upgrade", TRUE, triage.result)
    <3>1. PICK result \in Results : result = triage.result
      BY <2>1
    <3>2. Upsert(s, "upgrade", TRUE, result)
      BY <2>2, <2>5, <3>1
    <3>3. triage' \in TriageStates
      BY <1>0, <1>8, <1>12, TriageType DEF RecordResult, TypeOK
    <3>4. TypeOK' /\ RecordStems' /\ ClaimsStay
      BY <1>7, <1>8, <1>12, <2>1, <2>2, <2>3, <3>2, <3>3 DEF RecordResult
    <3>5. CASE triage' = TriageIdle
      BY <3>4, <3>5, DoneKeeps
    <3>6. CASE triage' = [triage EXCEPT !.at = "escalate"]
      <4>1. triage'.at = "escalate" /\ triage'.ids = triage.ids
        BY <1>0, <3>6 DEF TypeOK, TriageStates
      <4>2. HasSignature' /\ Snapshot'
        BY <2>1, <4>1 DEF ClaimInv, HasSignature, Snapshot, Holds
      <4>3. RunStems'
        BY <1>12, <2>2, <2>3, <4>1 DEF RunStems, Sig, RecordResult
      <4> QED BY <3>4, <4>2, <4>3 DEF ClaimInv
    <3> QED BY <1>12, <3>5, <3>6 DEF RecordResult
  <2> QED BY <1>12, <2>4, <2>5 DEF RecordResult
<1> QED
  BY <1>1, <1>2, <1>3, <1>4, <1>5, <1>9, <1>10, <1>11, <1>12 DEF TriageStep

(* So does the clock, which ages entries, and the cluster.                 *)
LEMMA TickKeeps == ClaimInv /\ Tick => ClaimInv' /\ ClaimsStay
<1> SUFFICES ASSUME ClaimInv, Tick PROVE ClaimInv' /\ ClaimsStay
  OBVIOUS
<1>0. TypeOK
  BY DEF ClaimInv
<1> DEFINE Old(s) == [cm[s] EXCEPT !.seen = Capped(@ + 1, Oldest),
                        !.paged = IF @ = Never THEN Never ELSE Capped(@ + 1, Repage)]
<1>1. \A s \in Sigs : cm'[s] = IF ~OnRecord(s) THEN Absent ELSE Old(s)
  BY DEF Tick, Aged
<1>2. ASSUME NEW s \in Sigs, OnRecord(s)
      PROVE  Old(s) \in Entry /\ Old(s).class = cm[s].class /\ Old(s).attempted = cm[s].attempted
  <2>1. cm[s] \in Entry
    BY <1>0, <1>2, FieldsOf
  <2>2. cm[s].seen + 1 \in Nat /\ cm[s].paged + 1 \in Nat
    BY <1>0, <1>2, FieldsOf
  <2>3. /\ Capped(cm[s].seen + 1, Oldest) \in 0..Oldest
        /\ (IF cm[s].paged = Never THEN Never ELSE Capped(cm[s].paged + 1, Repage)) \in 0..Never
    <3>1. Oldest \in Nat /\ Repage \in Nat
      BY BoundsType, SignalsAssumption
    <3>2. Capped(cm[s].paged + 1, Repage) \in 0..Repage /\ Capped(cm[s].seen + 1, Oldest) \in 0..Oldest
      BY <2>2, <3>1, CappedType
    <3> QED BY <3>2, BoundsType
  <2> QED BY <2>1, <2>3 DEF Entry
<1>3. \A s \in Sigs : Mild(s) /\ (OnRecord(s) => OnRecord(s)')
  <2> SUFFICES ASSUME NEW s \in Sigs PROVE Mild(s) /\ (OnRecord(s) => OnRecord(s)')
    OBVIOUS
  <2> HIDE DEF Old
  <2>1. CASE ~OnRecord(s)
    BY <1>1, <2>1 DEF Mild, OnRecord
  <2>2. CASE OnRecord(s)
    <3>1. cm'[s] = Old(s)
      BY <1>1, <2>2
    <3>2. OnRecord(s)'
      BY <1>2, <2>2, <3>1, EntryIsRecord DEF OnRecord
    <3> QED BY <1>2, <2>2, <3>1, <3>2, Zenon DEF Mild
  <2> QED BY <2>1, <2>2
<1>4. cm' \in [Sigs -> Entry \cup {Absent}]
  <2> HIDE DEF Old
  <2>1. DOMAIN cm' = Sigs /\ cm' = [s \in Sigs |-> cm'[s]]
    BY DEF Tick, Aged
  <2>2. \A s \in Sigs : cm'[s] \in Entry \cup {Absent}
    BY <1>1, <1>2
  <2> QED BY <2>1, <2>2
<1>5. told' \in [Sigs -> 0..Repage]
  <2>1. \A s \in Sigs : told[s] + 1 \in Nat /\ Repage \in Nat
    BY <1>0, SignalsAssumption DEF TypeOK
  <2>2. \A s \in Sigs : Capped(told[s] + 1, Repage) \in 0..Repage
    BY <2>1, CappedType
  <2> QED BY <2>2 DEF Tick, Aged
<1>6. triage' \in TriageStates /\ GoesOn
  <2>1. CASE triage.at = "idle"
    BY <1>0, <2>1, SameGoesOn DEF Tick, Aged, TypeOK
  <2>2. CASE triage.at = "run"
    <3>1. triage \in TriageStates /\ triage' = [triage EXCEPT !.ticks = @ + 1] /\ triage.ticks < RunSpan
      BY <1>0, <2>2 DEF Tick, Aged, TypeOK
    <3>2. triage.ticks + 1 \in 0..RunSpan
      BY <1>0, <3>1, TriageFields, SignalsAssumption
    <3> QED BY <2>2, <3>1, <3>2 DEF TriageStates, GoesOn, Holds
  <2> QED BY <2>1, <2>2 DEF Tick, Aged
<1>7. TypeOK'
  <2>1. forgot' \subseteq Sigs /\ due' \subseteq {"gate", "triage"}
    BY <1>0 DEF Tick, Aged, TypeOK
  <2> QED BY <1>0, <1>4, <1>5, <1>6, <2>1 DEF Tick, Aged, TypeOK, cluster
<1> QED BY <1>3, <1>6, <1>7, MildStep DEF Tick, Aged

LEMMA StepKeeps == ClaimInv /\ [Next]_vars => ClaimInv' /\ ClaimsStay
<1> SUFFICES ASSUME ClaimInv, [Next]_vars PROVE ClaimInv' /\ ClaimsStay
  OBVIOUS
<1>1. CASE Tick
  BY <1>1, TickKeeps
<1>2. CASE GateStep \/ GateKilled
  BY <1>2, GateKeeps
<1>3. CASE TriageStep \/ TriageKilled
  BY <1>3, TriageKeeps
<1>4. ASSUME NEW x \in Signals, Break(x) \/ Heal(x) \/ Merge(x)
      PROVE  ClaimInv' /\ ClaimsStay
  <2>1. UNCHANGED <<state, due, gate, triage, faults, history>>
    BY <1>4 DEF Break, Heal, Merge
  <2>2. TypeOK'
    BY <1>4, <2>1 DEF Break, Heal, Merge, ClaimInv, TypeOK, state, history
  <2> QED BY <2>1, <2>2, MildStep, NothingWritten, SameGoesOn DEF state, history
<1>5. CASE UNCHANGED vars
  <2>1. TypeOK'
    BY <1>5 DEF ClaimInv, TypeOK, vars, cluster, state, history
  <2> QED BY <1>5, <2>1, MildStep, NothingWritten, SameGoesOn DEF vars, state, history
<1> QED BY <1>1, <1>2, <1>3, <1>4, <1>5 DEF Next

LEMMA ClaimInvariant == Spec => []ClaimInv
BY InitClaim, StepKeeps, PTL DEF Spec

-----------------------------------------------------------------------------
(* Every reachable state is well typed: no run outlives its timeout, and   *)
(* what the jobs write are entries.                                        *)
THEOREM TypeCorrect == Spec => []TypeOK
<1>1. ClaimInv => TypeOK
  BY DEF ClaimInv
<1> QED BY <1>1, ClaimInvariant, PTL

(* An agent is only summoned by a write that claims what nobody had        *)
(* claimed, on any of the jobs' interleavings: money is spent once for as  *)
(* long as the entry lives, whatever dies after the claim.                 *)
THEOREM SummonsAreClaimed == Spec => SummonIsClaimed
<1> DEFINE A == Summons => ~Claimed(Sig) /\ Claimed(Sig)'
<1>1. ASSUME ClaimInv, [Next]_vars PROVE [A]_vars
  <2> SUFFICES ASSUME Next, Summons PROVE ~Claimed(Sig) /\ Claimed(Sig)'
    BY <1>1
  <2>1. Claim
    <3>1. triage'.at = "run" /\ triage.at # "run"
      BY DEF Summons
    <3>2. triage' # triage /\ triage' # TriageIdle /\ triage \in TriageStates
      BY <1>1, <3>1, IdleType DEF ClaimInv, TypeOK
    <3>3. ~TriageLook /\ ~Attribute /\ ~Return /\ ~RecordResult
      BY <3>1, <3>2 DEF TriageLook, Attribute, Return, RecordResult, TriageIdle, TriageStates
    <3>4. ~Tick
      BY <3>1, <3>2 DEF Tick, Aged, TriageStates
    <3> QED
      BY <3>2, <3>3, <3>4
      DEF Next, GateStep, GateLook, GatePage, GateStamp, GateEscalate, GateKilled, TriageStep,
          TriagePrune, AlreadyTried, Unverifiable, Record, TriageEscalate, TriageKilled,
          Break, Heal, Merge
  <2>2. /\ Holds /\ triage.at # "idle" /\ triage.read # "error" /\ ~triage.prev.attempted
        /\ Upsert(Sig, "upgrade", TRUE, "none") /\ Summon
    BY <2>1, IdleType DEF Claim, Holds, Stop, Summons
  <2>3. ~Claimed(Sig)
    BY <1>1, <2>2, Zenon DEF ClaimInv, Snapshot
  <2>4. PICK s \in Sigs : s = Sig
    BY <1>1, <2>2, SigType
  <2>5. Upsert(s, "upgrade", TRUE, "none") /\ "none" \in Results /\ TRUE \in BOOLEAN
        /\ "upgrade" \in {"upgrade", "nonupgrade"}
    BY <2>2, <2>4 DEF Results
  <2>6. Claimed(s)'
    <3>1. tried \subseteq tried' /\ s \in tried'
      BY <2>2, <2>4 DEF Summon
    <3>2. Claimed(s)' = TRUE
      BY <1>1, <2>2, <2>4, <2>5, <3>1, UpsertKeeps
    <3> QED BY <3>2, Zenon
  <2>7. Sig' = s
    BY <2>2, <2>4 DEF Summon, Sig, TriageIdle
  <2> QED BY <2>3, <2>6, <2>7, Zenon
<1> QED BY <1>1, ClaimInvariant, PTL DEF Spec, SummonIsClaimed

(* No write of either job lowers a claim: the gate's stamp, the refresh,   *)
(* the record of a regression that has become a nonupgrade one (#3182).    *)
THEOREM ClaimsAreKept == Spec => ClaimIsKept
<1> DEFINE A == \A s \in Sigs : Claimed(s) /\ OnRecord(s)' => Claimed(s)'
<1>1. ASSUME ClaimInv, [Next]_vars PROVE [A]_vars
  BY <1>1, StepKeeps DEF ClaimsStay
<1> QED BY <1>1, ClaimInvariant, PTL DEF Spec, ClaimIsKept

(* The gate only pages about pods when an attempt was claimed for the very *)
(* signature it pages.                                                     *)
THEOREM PodPagesAreEarned == Spec => PodPageIsEarned
<1> DEFINE A == Pages /\ gate'.pods => gate'.sig \in tried
<1>1. ASSUME ClaimInv, [Next]_vars PROVE [A]_vars
  <2> SUFFICES ASSUME Next, Pages, gate'.pods PROVE gate'.sig \in tried
    BY <1>1
  <2>1. GateLook
    <3>1. gate.at = "idle" /\ gate'.at = "page" /\ gate' # gate /\ gate' # GateIdle
      BY IdleType DEF Pages
    <3> QED
      BY <3>1
      DEF Next, Tick, Aged, GateStep, GatePage, GateStamp, GateEscalate, GateKilled, TriageStep,
          TriagePrune, TriageLook, Attribute, AlreadyTried, Unverifiable, Claim, Record, Return,
          RecordResult, TriageEscalate, TriageKilled, Break, Heal, Merge
  <2>2. PICK ids \in SUBSET Signals, e \in {Absent} \cup {cm[s] : s \in Sigs} :
          /\ Decide(ids, e)
          /\ e = Absent \/ (ids # {} /\ e = cm[SigOf(ids)])
    BY <2>1, SigIsSig DEF GateLook
  <2> DEFINE flux == ids \cap Flux # {} /\ Phase(e) # "inflight"
             pods == ids \cap Pods # {} /\ Phase(e) = "failed"
             again == e # Absent /\ e.paged # Never
  <2>3. gate' = [at |-> "page", sig |-> SigOf(ids), flux |-> flux, pods |-> pods,
                 again |-> again, heard |-> FALSE]
    <3>1. gate' # GateIdle
      BY IdleType DEF Pages
    <3> QED BY <2>2, <3>1, Zenon DEF Decide
  <2>4. pods /\ gate'.sig = SigOf(ids)
    <3> HIDE DEF flux, pods, again
    <3>1. gate'.pods = pods /\ gate'.sig = SigOf(ids)
      BY <2>3
    <3> QED BY <3>1, Zenon
  <2>5. e.class = "upgrade"
    BY <2>4 DEF Phase
  <2>6. ids # {} /\ e = cm[SigOf(ids)] /\ e # Absent
    BY <2>2, <2>5 DEF Absent
  <2>7. SigOf(ids) \in Sigs
    BY <2>6, SigIsSig
  <2> QED BY <1>1, <2>4, <2>5, <2>6, <2>7 DEF ClaimInv, RecordStems, Stems, OnRecord
<1> QED BY <1>1, ClaimInvariant, PTL DEF Spec, PodPageIsEarned

-----------------------------------------------------------------------------
(* The stamp on record is that of the last page, for as long as that page  *)
(* is recent and its entry was not dropped: whoever else writes the entry  *)
(* keeps the stamp.                                                        *)
StampStands == \A s \in Sigs : told[s] < Repage => s \in forgot \/ (OnRecord(s) /\ cm[s].paged = told[s])

LEMMA DropsAreForgotten ==
  ASSUME StampStands, NEW new, Write(new), told' = told,
         \A s \in Sigs : OnRecord(s) /\ new[s] # Absent => new[s].paged = cm[s].paged
  PROVE  StampStands'
<1> SUFFICES ASSUME NEW s \in Sigs, told[s] < Repage, s \notin forgot'
             PROVE  OnRecord(s)' /\ cm'[s].paged = told[s]
  BY DEF StampStands
<1>1. s \notin forgot /\ OnRecord(s) /\ cm[s].paged = told[s] BY DEF StampStands, Write
<1>2. new[s] # Absent BY <1>1 DEF Write
<1>3. QED BY <1>1, <1>2 DEF Write, OnRecord

LEMMA UpsertKeepsStamp ==
  ASSUME StampStands, NEW s \in Sigs, NEW class, NEW attempted, NEW result, Upsert(s, class, attempted, result)
  PROVE  StampStands'
<1> DEFINE new == [t \in Sigs |-> IF t = s THEN Upserted(s, class, attempted, result)
                                  ELSE IF Fresh(t) THEN cm[t] ELSE Absent]
<1>1. Write(new) /\ told' = told BY DEF Upsert
<1>2. ASSUME NEW t \in Sigs, OnRecord(t), new[t] # Absent PROVE new[t].paged = cm[t].paged
  <2>1. CASE t = s
    <3>1. new[t] = Upserted(s, class, attempted, result) BY <2>1
    <3>2. Upserted(s, class, attempted, result).paged = cm[s].paged BY <1>2, <2>1 DEF Upserted
    <3>3. QED BY <2>1, <3>1, <3>2
  <2>2. CASE t # s BY <1>2, <2>2
  <2>3. QED BY <2>1, <2>2
<1> HIDE DEF new
<1>3. QED BY <1>1, <1>2, DropsAreForgotten

LEMMA QuietKeepsStamp == ASSUME StampStands, cm' = cm, told' = told, forgot' = forgot PROVE StampStands'
BY DEF StampStands, OnRecord

LEMMA GateKeepsStamp == ASSUME ClaimInv, StampStands, GateStamp PROVE StampStands'
<1>1. CASE UNCHANGED <<cm, told, forgot>> BY <1>1, QuietKeepsStamp
<1>2. CASE /\ cm' = [cm EXCEPT ![gate.sig] = Stamped(gate.sig)]
           /\ told' = [told EXCEPT ![gate.sig] = 0] /\ forgot' = forgot \ {gate.sig}
  <2> SUFFICES ASSUME NEW s \in Sigs, told'[s] < Repage, s \notin forgot'
               PROVE  OnRecord(s)' /\ cm'[s].paged = told'[s]
    BY DEF StampStands
  <2>1. cm \in [Sigs -> Entry \cup {Absent}] /\ told \in [Sigs -> 0..Repage] BY DEF ClaimInv, TypeOK
  <2>2. CASE s = gate.sig
    <3>1. cm'[s] = Stamped(s) /\ told'[s] = 0 BY <1>2, <2>1, <2>2
    <3>2. Stamped(s) \in Entry BY StampedType DEF ClaimInv
    <3>3. Stamped(s).paged = 0
      <4>1. CASE OnRecord(s)
        <5>1. cm[s] \in Entry BY <4>1, FieldsOf DEF ClaimInv
        <5>2. QED BY <4>1, <5>1 DEF Stamped, Entry
      <4>2. CASE ~OnRecord(s) BY <4>2 DEF Stamped
      <4>3. QED BY <4>1, <4>2
    <3>4. QED BY <3>1, <3>2, <3>3, EntryIsRecord DEF OnRecord
  <2>3. CASE s # gate.sig
    <3>1. cm'[s] = cm[s] /\ told'[s] = told[s] /\ s \notin forgot BY <1>2, <2>1, <2>3
    <3>2. QED BY <3>1 DEF StampStands, OnRecord
  <2>4. QED BY <2>2, <2>3
<1>3. QED BY <1>1, <1>2 DEF GateStamp, Refused, state, history

LEMMA TickKeepsStamp == ASSUME ClaimInv, StampStands, Tick PROVE StampStands'
<1> SUFFICES ASSUME NEW s \in Sigs, told'[s] < Repage, s \notin forgot'
             PROVE  OnRecord(s)' /\ cm'[s].paged = told'[s]
  BY DEF StampStands
<1>1. told[s] \in 0..Repage /\ Repage \in Nat BY SignalsAssumption DEF ClaimInv, TypeOK
<1>2. told'[s] = Capped(told[s] + 1, Repage) BY DEF Tick, Aged
<1>3. told[s] < Repage /\ told'[s] = told[s] + 1 /\ s \notin forgot
  <2>1. told[s] < Repage /\ told'[s] = told[s] + 1 BY <1>1, <1>2 DEF Capped
  <2>2. forgot' = {t \in forgot : told'[t] < Repage} BY DEF Tick, Aged
  <2>3. QED BY <2>1, <2>2
<1>4. OnRecord(s) /\ cm[s].paged = told[s] BY <1>3 DEF StampStands
<1> DEFINE old == [cm[s] EXCEPT !.seen = Capped(@ + 1, Oldest),
                                !.paged = IF @ = Never THEN Never ELSE Capped(@ + 1, Repage)]
<1>5. cm'[s] = old BY <1>4 DEF Tick, Aged
<1>6. cm[s] \in Entry BY <1>4, FieldsOf DEF ClaimInv
<1>7. old.paged = IF cm[s].paged = Never THEN Never ELSE Capped(cm[s].paged + 1, Repage) BY <1>6 DEF Entry
<1>8. old # Absent
  <2>1. DOMAIN old = DOMAIN cm[s] /\ DOMAIN cm[s] = {"class", "attempted", "result", "seen", "paged"} BY <1>6 DEF Entry
  <2>2. DOMAIN Absent = {"class"} BY DEF Absent
  <2>3. QED BY <2>1, <2>2
<1> HIDE DEF old
<1>9. old.paged = told[s] + 1 BY <1>1, <1>2, <1>3, <1>4, <1>7 DEF Never
<1>10. QED BY <1>3, <1>5, <1>8, <1>9 DEF OnRecord

LEMMA TriageKeepsStamp == ASSUME ClaimInv, StampStands, TriageStep \/ TriageKilled PROVE StampStands'
<1>1. CASE TriagePrune
  <2>1. CASE UNCHANGED <<cm, forgot>> BY <1>1, <2>1, QuietKeepsStamp DEF TriagePrune
  <2>2. CASE Write([s \in Sigs |-> IF Fresh(s) THEN cm[s] ELSE Absent])
    BY <1>1, <2>2, DropsAreForgotten DEF TriagePrune
  <2>3. QED BY <1>1, <2>1, <2>2 DEF TriagePrune
<1>2. CASE AlreadyTried \/ Claim \/ Record \/ RecordResult
  <2>1. Sig \in Sigs
    <3>1. triage.at # "idle" BY <1>2 DEF AlreadyTried, Claim, Record, RecordResult
    <3>2. QED BY <3>1, SigType
  <2>2. ASSUME NEW class, NEW attempted, NEW result, Upsert(Sig, class, attempted, result) PROVE StampStands'
    BY <2>1, <2>2, UpsertKeepsStamp
  <2>3. \/ UNCHANGED <<cm, told, forgot>>
        \/ \E class, attempted, result : Upsert(Sig, class, attempted, result)
    BY <1>2 DEF AlreadyTried, Claim, Record, RecordResult, Refused, state
  <2>4. QED BY <2>2, <2>3, QuietKeepsStamp
<1>3. CASE TriageLook \/ Attribute \/ Unverifiable \/ Return \/ TriageEscalate \/ TriageKilled
  BY <1>3, QuietKeepsStamp DEF TriageLook, Attribute, Unverifiable, Return, TriageEscalate, TriageKilled, state, history
<1>4. QED BY <1>1, <1>2, <1>3 DEF TriageStep

LEMMA StampKeeps == ASSUME ClaimInv, StampStands, [Next]_vars PROVE StampStands'
<1>1. CASE GateLook \/ GatePage \/ GateEscalate \/ GateKilled
  BY <1>1, QuietKeepsStamp DEF GateLook, GatePage, GateEscalate, GateKilled, state, history
<1>2. ASSUME NEW x \in Signals, Break(x) \/ Heal(x) \/ Merge(x) PROVE StampStands'
  BY <1>2, QuietKeepsStamp DEF Break, Heal, Merge, state, history
<1>3. CASE UNCHANGED vars BY <1>3, QuietKeepsStamp DEF vars, state, history
<1>4. QED BY <1>1, <1>2, <1>3, GateKeepsStamp, TickKeepsStamp, TriageKeepsStamp DEF Next, GateStep

(* The gate repeats no page within the window, whatever the triage writes  *)
(* to the entry it stamped, but for an entry that was dropped and a CM it  *)
(* could not read.                                                         *)
THEOREM PagesAreThrottled == Spec => Throttled
<1> DEFINE A == Pages => told[gate'.sig] >= Repage \/ gate'.sig \in forgot \/ faults' > faults
<1>1. ASSUME ClaimInv, StampStands, [Next]_vars PROVE [A]_vars
  <2> SUFFICES ASSUME Next, Pages, ~(faults' > faults), gate'.sig \notin forgot PROVE told[gate'.sig] >= Repage
    BY <1>1
  <2>1. GateLook
    <3>1. gate.at = "idle" /\ gate'.at = "page" /\ gate' # gate /\ gate' # GateIdle
      BY IdleType DEF Pages
    <3> QED
      BY <3>1
      DEF Next, Tick, Aged, GateStep, GatePage, GateStamp, GateEscalate, GateKilled, TriageStep,
          TriagePrune, TriageLook, Attribute, AlreadyTried, Unverifiable, Claim, Record, Return,
          RecordResult, TriageEscalate, TriageKilled, Break, Heal, Merge
  <2>2. ~Fault
    BY <1>1 DEF Fault, ClaimInv, TypeOK
  <2>3. PICK ids \in SUBSET Signals : Decide(ids, IF ids = {} THEN Absent ELSE cm[SigOf(ids)])
    BY <2>1, <2>2 DEF GateLook
  <2> DEFINE e == IF ids = {} THEN Absent ELSE cm[SigOf(ids)]
             flux == ids \cap Flux # {} /\ Phase(e) # "inflight"
             pods == ids \cap Pods # {} /\ Phase(e) = "failed"
             again == e # Absent /\ e.paged # Never
             page == [at |-> "page", sig |-> SigOf(ids), flux |-> flux, pods |-> pods, again |-> again, heard |-> FALSE]
  <2>4. gate' = page /\ (flux \/ pods) /\ ~Deduped(e)
    <3>1. gate' # GateIdle
      BY IdleType DEF Pages
    <3>2. gate' = IF (flux \/ pods) /\ ~Deduped(e) THEN page ELSE GateIdle
      BY <2>3 DEF Decide
    <3> HIDE DEF flux, pods, page, e
    <3> QED BY <3>1, <3>2
  <2>5. ids # {} /\ SigOf(ids) \in Sigs
    BY <2>4, SigIsSig
  <2>6. gate'.sig = SigOf(ids)
    <3> HIDE DEF flux, pods, again, e
    <3> QED BY <2>4
  <2>7. OnRecord(SigOf(ids)) => ~(cm[SigOf(ids)].paged < Repage)
    BY <2>4, <2>5 DEF Deduped, OnRecord
  <2>8. told[SigOf(ids)] \in 0..Repage /\ Repage \in Nat
    BY <1>1, <2>5, SignalsAssumption DEF ClaimInv, TypeOK
  <2> QED BY <1>1, <2>5, <2>6, <2>7, <2>8 DEF StampStands
<1>2. Init => StampStands BY SignalsAssumption DEF Init, StampStands
<1>3. ClaimInv /\ StampStands /\ [Next]_vars => StampStands' BY StampKeeps
<1> QED BY <1>1, <1>2, <1>3, ClaimInvariant, PTL DEF Spec, Throttled
=============================================================================
