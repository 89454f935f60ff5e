-------------------------- MODULE PrivateExchange --------------------------
(***************************************************************************)
(* Private files between the operator's host and two running writer pods,  *)
(* over children that `kubectl exec` starts inside them:                   *)
(*   - deliver-main-copy-proofs.py streams the reviewed proofs to a        *)
(*     receiver in MAIN (proof_transport.py), which publishes a marker by  *)
(*     a hard link that MAIN, waiting, must not read too early;            *)
(*   - exchange-source-outcome.py leaves one request in SOURCE's private   *)
(*     directory; the connection's owner (outcome_mailbox.py) verifies the *)
(*     outcome under its own database fence and publishes one response.    *)
(* Killing the host's kubectl does not kill the child in the pod: it goes  *)
(* on with what it has. Nothing is retried by itself, but an operator may  *)
(* run a delivery or an exchange again: Deliveries and Asks are the runs.  *)
(***************************************************************************)
EXTENDS Integers, FiniteSets

CONSTANTS
    Deliveries,     \* runs of deliver-main-copy-proofs.py
    Asks,           \* runs of exchange-source-outcome.py
    Files,          \* how many proof files one delivery has
    MaxKills        \* bound on faults: a killed child, a cut stream, a lost fence

NoOne == "nobody"

(* What is assumed of the constants. *)
FilesAssumption == Files \in Nat \ {0} /\ NoOne \notin Asks /\ MaxKills \in Nat

VARIABLES
    xHost,      \* the host's side of each delivery
    xSent,      \* what of the stream has left the host: some, all, cut short
    xRecv,      \* the receiver of each delivery inside MAIN's pod
    xAt,        \* the file each receiver is at
    xProof,     \* the proof files in MAIN's private directory
    xMarker,    \* link count of ready.json: 0 absent, 2 just linked, 1 published
    xStaged,    \* a staging name of the marker is in the directory
    xMain,      \* MAIN's wait for the proofs, and its run
    xOver,      \* the absolute deadline of the Job has passed
    xAsk,       \* each exchange child in SOURCE's pod
    xTmp,       \* whose request is staged
    xReq,       \* whose request is published
    xResp,      \* the response: whose request, collected under the fence or not
    xSource,    \* SOURCE's poll of its mailbox
    xRead,      \* the request SOURCE read
    xFence,     \* SOURCE's transaction: held, lost, or begun again
    xKills      \* faults spent

proofVars == <<xHost, xSent, xRecv, xAt, xProof, xMarker, xStaged, xMain>>
askVars   == <<xAsk, xTmp, xReq, xResp, xSource, xRead, xFence>>
xvars     == <<proofVars, askVars, xOver, xKills>>

Init ==
    /\ xHost = [d \in Deliveries |-> "idle"]
    /\ xSent = [d \in Deliveries |-> "none"]
    /\ xRecv = [d \in Deliveries |-> "none"]
    /\ xAt = [d \in Deliveries |-> 1]
    /\ xProof = [f \in 1..Files |-> "absent"]
    /\ xMarker = 0 /\ xStaged = FALSE
    /\ xMain = "starting"
    /\ xOver = FALSE
    /\ xAsk = [a \in Asks |-> "idle"]
    /\ xTmp = NoOne /\ xReq = NoOne
    /\ xResp = [to |-> NoOne, fenced |-> FALSE]
    /\ xSource = "polling" /\ xRead = NoOne
    /\ xFence = "held" /\ xKills = 0

-----------------------------------------------------------------------------
(* The host: every pin, identity and lease is checked before the first byte. *)

Bind(d) ==
    /\ xHost[d] = "idle" /\ xMain = "waiting"
    /\ xHost' = [xHost EXCEPT ![d] = IF xOver THEN "refused" ELSE "bound"]
    /\ UNCHANGED <<xSent, xRecv, xAt, xProof, xMarker, xStaged, xMain, askVars, xOver, xKills>>

(* A read-only child in MAIN takes the stats of the whole library as MAIN   *)
(* sees it; they must be those SOURCE took, at MAIN's and SOURCE's side the *)
(* same files. Then MAIN and the lease are verified again and the receiver  *)
(* is started.                                                              *)
Bridge(d) ==
    /\ xHost[d] = "bound"
    /\ \E same \in BOOLEAN :
         LET go == same /\ ~xOver /\ xMain = "waiting" /\ xFence = "held" IN
         /\ xHost' = [xHost EXCEPT ![d] = IF go THEN "streaming" ELSE "refused"]
         /\ xRecv' = [xRecv EXCEPT ![d] = IF go THEN "started" ELSE "none"]
         /\ xSent' = [xSent EXCEPT ![d] = IF go THEN "some" ELSE "none"]
    /\ UNCHANGED <<xAt, xProof, xMarker, xStaged, xMain, askVars, xOver, xKills>>

Stream(d) ==
    /\ xHost[d] = "streaming" /\ xSent[d] = "some" /\ ~xOver
    /\ xSent' = [xSent EXCEPT ![d] = "all"]
    /\ UNCHANGED <<xHost, xRecv, xAt, xProof, xMarker, xStaged, xMain, askVars, xOver, xKills>>

(* The 12-second cap, a signal, or a proof that changed while it was hashed *)
(* or streamed: the host refuses and kills its kubectl. The receiver only   *)
(* sees the end of the stream, and nothing at all once it has every byte.   *)
Stop(d) ==
    /\ xHost[d] \in {"streaming", "confirming"}
    /\ xOver \/ xKills < MaxKills
    /\ xKills' = IF xOver THEN xKills ELSE xKills + 1
    /\ xHost' = [xHost EXCEPT ![d] = "refused"]
    /\ xSent' = [xSent EXCEPT ![d] = IF @ = "some" THEN "cut" ELSE @]
    /\ UNCHANGED <<xRecv, xAt, xProof, xMarker, xStaged, xMain, askVars, xOver>>

ReceiverEnded(d) ==
    /\ xHost[d] = "streaming" /\ xSent[d] = "all"
    /\ xRecv[d] \in {"exited", "refused", "dead"}

Wait(d) ==
    /\ ReceiverEnded(d)
    /\ xHost' = [xHost EXCEPT ![d] =
                    IF xRecv[d] = "exited" THEN "confirming" ELSE "refused"]
    /\ UNCHANGED <<xSent, xRecv, xAt, xProof, xMarker, xStaged, xMain, askVars, xOver, xKills>>

(* MAIN, still running or completed, the source lease and the phase ledger *)
(* are read once more before the host records the delivery as completed.   *)
Confirm(d) ==
    /\ xHost[d] = "confirming"
    /\ xHost' = [xHost EXCEPT ![d] =
            IF xOver \/ xMain = "refused" \/ xFence # "held"
            THEN "refused" ELSE "completed"]
    /\ UNCHANGED <<xSent, xRecv, xAt, xProof, xMarker, xStaged, xMain, askVars, xOver, xKills>>

Host(d) == Bind(d) \/ Bridge(d) \/ Stream(d) \/ Stop(d) \/ Wait(d) \/ Confirm(d)

-----------------------------------------------------------------------------
(* The receiver. *)

RecvTo(d, s) == xRecv' = [xRecv EXCEPT ![d] = s]

CheckEmpty(d) ==
    /\ xRecv[d] = "started"
    /\ RecvTo(d, IF xOver \/ xStaged \/ xMarker # 0
                       \/ \E f \in 1..Files : xProof[f] # "absent"
                 THEN "refused" ELSE "create")
    /\ UNCHANGED <<xHost, xSent, xAt, xProof, xMarker, xStaged, xMain, askVars, xOver, xKills>>

Create(d) ==                                    \* O_CREAT | O_EXCL
    /\ xRecv[d] = "create"
    /\ IF xProof[xAt[d]] # "absent"
       THEN RecvTo(d, "refused") /\ UNCHANGED xProof
       ELSE /\ RecvTo(d, "filling")
            /\ xProof' = [xProof EXCEPT ![xAt[d]] = "part"]
    /\ UNCHANGED <<xHost, xSent, xAt, xMarker, xStaged, xMain, askVars, xOver, xKills>>

(* The whole file came and hashes to what the Job's environment approved. *)
Fill(d) ==
    /\ xRecv[d] = "filling" /\ ~xOver /\ xSent[d] \in {"all", "cut"}
    /\ xProof' = [xProof EXCEPT ![xAt[d]] = "whole"]
    /\ IF xAt[d] < Files
       THEN RecvTo(d, "create") /\ xAt' = [xAt EXCEPT ![d] = @ + 1]
       ELSE RecvTo(d, IF xSent[d] = "all" THEN "seal" ELSE "refused") /\ UNCHANGED xAt
    /\ UNCHANGED <<xHost, xSent, xMarker, xStaged, xMain, askVars, xOver, xKills>>

(* Truncated, expired, or other bytes than approved: the file stays behind. *)
Spoil(d) ==
    /\ xRecv[d] = "filling" /\ (xOver \/ xSent[d] = "cut")
    /\ RecvTo(d, "refused")
    /\ UNCHANGED <<xHost, xSent, xAt, xProof, xMarker, xStaged, xMain, askVars, xOver, xKills>>

Seal(d) ==                  \* exact contents, then every file mode 0400
    /\ xRecv[d] = "seal"
    /\ IF xOver \/ xMarker # 0 \/ xStaged
       THEN RecvTo(d, "refused") /\ UNCHANGED <<xProof, xStaged>>
       ELSE /\ RecvTo(d, "link")
            /\ xProof' = [f \in 1..Files |-> "sealed"]
            /\ xStaged' = TRUE
    /\ UNCHANGED <<xHost, xSent, xAt, xMarker, xMain, askVars, xOver, xKills>>

Link(d) ==
    /\ xRecv[d] = "link"
    /\ IF xOver \/ xMarker # 0
       THEN RecvTo(d, "refused") /\ UNCHANGED xMarker
       ELSE RecvTo(d, "unlink") /\ xMarker' = 2
    /\ UNCHANGED <<xHost, xSent, xAt, xProof, xStaged, xMain, askVars, xOver, xKills>>

Unlink(d) ==
    /\ xRecv[d] = "unlink"
    /\ RecvTo(d, "exited") /\ xMarker' = 1 /\ xStaged' = FALSE
    /\ UNCHANGED <<xHost, xSent, xAt, xProof, xMain, askVars, xOver, xKills>>

KillReceiver(d) ==
    /\ xRecv[d] \notin {"none", "exited", "refused", "dead"} /\ xKills < MaxKills
    /\ RecvTo(d, "dead") /\ xKills' = xKills + 1
    /\ UNCHANGED <<xHost, xSent, xAt, xProof, xMarker, xStaged, xMain, askVars, xOver>>

Receiver(d) ==
    CheckEmpty(d) \/ Create(d) \/ Fill(d) \/ Spoil(d) \/ Seal(d) \/ Link(d) \/ Unlink(d)

-----------------------------------------------------------------------------
(* MAIN. *)

MainTo(s) ==
    /\ xMain' = s
    /\ UNCHANGED <<xHost, xSent, xRecv, xAt, xProof, xMarker, xStaged, askVars, xOver, xKills>>

MakeDirectory == xMain = "starting" /\ MainTo("waiting")

(* Mutant: the marker is read as soon as its name is there. *)
LookTooEarly ==
    /\ xMain = "waiting"
    /\ xOver \/ xMarker # 0
    /\ MainTo(IF xOver THEN "refused" ELSE "verifying")

Look ==
    /\ xMain = "waiting"
    /\ xOver \/ xMarker = 1             \* st_nlink # 2
    /\ MainTo(IF xOver THEN "refused" ELSE "verifying")

(* Exact contents, marker and files re-read, re-hashed, immutable. *)
Verify ==
    /\ xMain = "verifying"
    /\ MainTo(IF /\ ~xOver /\ ~xStaged
                 /\ \A f \in 1..Files : xProof[f] = "sealed"
              THEN "moving" ELSE "refused")

MoveCopies == xMain = "moving" /\ MainTo(IF xOver THEN "refused" ELSE "finished")

Main == MakeDirectory \/ Look \/ Verify \/ MoveCopies

-----------------------------------------------------------------------------
(* The exchange child in SOURCE's pod. *)

AskTo(a, s) == xAsk' = [xAsk EXCEPT ![a] = s]

Ask(a) ==                   \* none of the three names exists
    /\ xAsk[a] = "idle" /\ xMain = "finished"
    /\ AskTo(a, IF xOver \/ xTmp # NoOne \/ xReq # NoOne \/ xResp.to # NoOne
                THEN "refused" ELSE "stage")
    /\ UNCHANGED <<proofVars, xTmp, xReq, xResp, xSource, xRead, xFence, xOver, xKills>>

Stage(a) ==                 \* O_CREAT | O_EXCL
    /\ xAsk[a] = "stage"
    /\ IF xOver \/ xTmp # NoOne
       THEN AskTo(a, "refused") /\ UNCHANGED xTmp
       ELSE AskTo(a, "publish") /\ xTmp' = a
    /\ UNCHANGED <<proofVars, xReq, xResp, xSource, xRead, xFence, xOver, xKills>>

(* renameat2(RENAME_NOREPLACE); a refused child unlinks the name it staged. *)
Publish(a) ==
    /\ xAsk[a] = "publish" /\ xTmp' = NoOne
    /\ IF xOver \/ xReq # NoOne
       THEN AskTo(a, "refused") /\ UNCHANGED xReq
       ELSE AskTo(a, "wait") /\ xReq' = a
    /\ UNCHANGED <<proofVars, xResp, xSource, xRead, xFence, xOver, xKills>>

(* The response is for this request, and the request still the one staged. *)
Answered(a) ==
    /\ xAsk[a] = "wait" /\ (xOver \/ xResp.to # NoOne)
    /\ AskTo(a, IF xOver \/ xResp.to # a \/ xReq # a THEN "refused" ELSE "answered")
    /\ UNCHANGED <<proofVars, xTmp, xReq, xResp, xSource, xRead, xFence, xOver, xKills>>

KillAsk(a) ==
    /\ xAsk[a] \in {"stage", "publish", "wait"} /\ xKills < MaxKills
    /\ AskTo(a, "dead") /\ xKills' = xKills + 1
    /\ UNCHANGED <<proofVars, xTmp, xReq, xResp, xSource, xRead, xFence, xOver>>

Child(a) == Ask(a) \/ Stage(a) \/ Publish(a) \/ Answered(a)

-----------------------------------------------------------------------------
(* SOURCE, the owner of the connection. Its local guard sees a closed        *)
(* connection; only the health query tells the transaction it began from     *)
(* another one begun since.                                                  *)

LocalGuard == xFence # "lost"
Health == xFence = "held"

SourceTo(s) == xSource' = s /\ UNCHANGED <<proofVars, xAsk, xTmp, xReq, xFence, xOver, xKills>>

Poll ==
    /\ xSource = "polling" /\ xReq # NoOne /\ xResp.to = NoOne
    /\ SourceTo(IF xOver \/ ~Health THEN "stopped" ELSE "reading")
    /\ UNCHANGED <<xResp, xRead>>

ReadRequest ==
    /\ xSource = "reading" /\ xRead' = xReq /\ UNCHANGED xResp
    /\ SourceTo(IF xOver \/ ~Health THEN "stopped" ELSE "collecting")

Collect ==
    /\ xSource = "collecting"
    /\ SourceTo(IF xOver \/ ~Health THEN "stopped" ELSE "collected")
    /\ xResp' = [xResp EXCEPT !.fenced = Health] /\ UNCHANGED xRead

Reread ==
    /\ xSource = "collected" /\ UNCHANGED <<xResp, xRead>>
    /\ SourceTo(IF xOver \/ ~LocalGuard \/ xReq # xRead THEN "stopped" ELSE "answering")

PublishResponse ==
    /\ xSource = "answering" /\ UNCHANGED xRead
    /\ IF xOver \/ xResp.to # NoOne
       THEN SourceTo("stopped") /\ UNCHANGED xResp
       ELSE SourceTo("polling") /\ xResp' = [xResp EXCEPT !.to = xRead]

SourceStops ==          \* the poll's own local guard, and SOURCE's alarm
    /\ xSource = "polling" /\ (xOver \/ ~LocalGuard)
    /\ SourceTo("stopped") /\ UNCHANGED <<xResp, xRead>>

Source == Poll \/ ReadRequest \/ Collect \/ Reread \/ PublishResponse \/ SourceStops

LoseFence ==
    /\ xFence = "held" /\ xSource # "stopped" /\ xKills < MaxKills
    /\ xFence' \in {"lost", "again"} /\ xKills' = xKills + 1
    /\ UNCHANGED <<proofVars, xAsk, xTmp, xReq, xResp, xSource, xRead, xOver>>

Deadline == ~xOver /\ xOver' = TRUE /\ UNCHANGED <<proofVars, askVars, xKills>>

-----------------------------------------------------------------------------
Next ==
    \/ \E d \in Deliveries : Host(d) \/ Receiver(d) \/ KillReceiver(d)
    \/ \E a \in Asks : Child(a) \/ KillAsk(a)
    \/ Main \/ Source \/ LoseFence \/ Deadline

(* Processes that are alive run, and the clock does. *)
Progress ==
    \/ \E d \in Deliveries : Receiver(d) \/ Bridge(d) \/ Stream(d) \/ Wait(d) \/ Confirm(d) \/ (xOver /\ Stop(d))
    \/ \E a \in Asks : Stage(a) \/ Publish(a) \/ Answered(a)
    \/ Main \/ Source \/ Deadline

Spec == Init /\ [][Next]_xvars /\ WF_xvars(Progress)

-----------------------------------------------------------------------------
TypeOK ==
    /\ xHost \in [Deliveries -> {"idle", "bound", "streaming", "confirming", "completed", "refused"}]
    /\ xSent \in [Deliveries -> {"none", "some", "all", "cut"}]
    /\ xRecv \in [Deliveries -> {"none", "started", "create", "filling", "seal", "link",
                                 "unlink", "exited", "refused", "dead"}]
    /\ xAt \in [Deliveries -> 1..Files]
    /\ xProof \in [1..Files -> {"absent", "part", "whole", "sealed"}]
    /\ xMarker \in 0..2 /\ xStaged \in BOOLEAN /\ xOver \in BOOLEAN
    /\ xMain \in {"starting", "waiting", "verifying", "moving", "finished", "refused"}
    /\ xAsk \in [Asks -> {"idle", "stage", "publish", "wait", "answered", "refused", "dead"}]
    /\ {xTmp, xReq, xRead} \subseteq Asks \cup {NoOne}
    /\ xResp \in [to : Asks \cup {NoOne}, fenced : BOOLEAN]
    /\ xSource \in {"polling", "reading", "collecting", "collected", "answering", "stopped"}
    /\ xFence \in {"held", "lost", "again"} /\ xKills \in 0..MaxKills

(* What was delivered is not lost to the way it is published: while the Job *)
(* has time, MAIN never refuses proofs a receiver finished publishing, an   *)
(* exchange never refuses a response made for its own request, and what the *)
(* host records as completed is what MAIN has before it. The link count of  *)
(* the marker (wait_ready) and the no-replace renames are what it hangs on. *)
Undisturbed ==
    xOver \/
    /\ (\E d \in Deliveries : xRecv[d] = "exited") => xMain # "refused"
    /\ \A d \in Deliveries : xHost[d] = "completed" => xRecv[d] = "exited" /\ xMarker = 1
    /\ \A a \in Asks : xResp.to = a => xAsk[a] # "refused"

(* The outcome handed to the operator was collected for the request it      *)
(* answers, and from its first health query to its last under the one       *)
(* transaction SOURCE began: a transaction begun again in between passes    *)
(* the local guard and must not pass for the fence (process_pending).       *)
OwnAnswer ==
    \A a \in Asks : xAsk[a] = "answered" =>
        xResp = [to |-> a, fenced |-> TRUE] /\ xMain = "finished"

(* Nobody waits on a dead peer: MAIN, every started delivery and every      *)
(* living exchange end, with a result or with a refusal.                    *)
Ended ==
    /\ xMain \in {"finished", "refused"}
    /\ \A d \in Deliveries : xHost[d] \in {"idle", "completed", "refused"}
    /\ \A a \in Asks : xAsk[a] \in {"idle", "answered", "refused", "dead"}
=============================================================================
