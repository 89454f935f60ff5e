---------------------------- MODULE EpubReaders ----------------------------
(***************************************************************************)
(* read_epubs of bound_census_collectors.py: two reader threads take the   *)
(* EPUBs of the library from a bounded queue and give whole rows back      *)
(* through another; the caller emits them in the order of the paths. No    *)
(* thread is ever joined: a read may hang on NFS and the caller must still *)
(* end by its deadline.                                                    *)
(***************************************************************************)
EXTENDS Integers, Sequences

CONSTANTS Readers,        \* the threads, READ_STREAMS of them
          ReadStreams, ReorderWindow,
          Count           \* paths 1..Count

(* What is assumed of the constants. *)
ReadersAssumption == {ReadStreams, ReorderWindow, Count} \subseteq Nat \ {0}

VARIABLES
  qAt,        \* the caller: health, submit, get, emit, returned, refused
  qSubmitted, qReceived,
  qTasks, qResults,  \* the queues
  qReorder,   \* received and not emitted
  qRows,      \* emitted
  qReader,    \* each thread: the path it has, 0 none, and what it does
  qChanged,   \* paths that are not what the walk saw
  qError,     \* first_error
  qCancelled, qLate

vars == <<qAt, qSubmitted, qReceived, qTasks, qResults, qReorder, qRows, qReader, qChanged,
          qError, qCancelled, qLate>>
callerVars == <<qSubmitted, qReceived, qTasks, qReorder, qRows>>

Init ==
  /\ qAt = "health" /\ qSubmitted = 0 /\ qReceived = 0
  /\ qTasks = <<>> /\ qResults = <<>> /\ qReorder = {} /\ qRows = <<>>
  /\ qReader = [w \in Readers |-> [at |-> "idle", path |-> 0]]
  /\ qChanged \in {{}} \cup {{p} : p \in 1..Count}
  /\ qError = FALSE /\ qCancelled = FALSE /\ qLate = FALSE

Deadline == ~qLate /\ qLate' = TRUE /\ UNCHANGED <<qAt, callerVars, qResults, qReader, qChanged, qError, qCancelled>>

-----------------------------------------------------------------------------
(* The caller. *)

Healthy == ~qError /\ ~qLate

(* control_health before each round and before each row; finally cancels. *)
CallerTo(s) ==
  /\ qAt' = IF Healthy THEN s ELSE "refused"
  /\ qCancelled' = (qCancelled \/ ~Healthy \/ s = "returned")

ControlHealth ==
  /\ qAt = "health" /\ CallerTo(IF Len(qRows) = Count THEN "returned" ELSE "submit")
  /\ UNCHANGED <<callerVars, qResults, qReader, qChanged, qError, qLate>>

MaySubmit ==
  /\ qSubmitted < Count /\ qSubmitted - qReceived < ReadStreams
  /\ qSubmitted - Len(qRows) < ReorderWindow

(* put_nowait: a full queue raises.                                        *)
Submit ==
  /\ qAt = "submit" /\ MaySubmit
  /\ IF Len(qTasks) < ReadStreams
     THEN /\ qTasks' = Append(qTasks, qSubmitted + 1) /\ qSubmitted' = qSubmitted + 1
          /\ UNCHANGED <<qAt, qCancelled>>
     ELSE qAt' = "full" /\ qCancelled' = TRUE /\ UNCHANGED <<qTasks, qSubmitted>>
  /\ UNCHANGED <<qReceived, qReorder, qRows, qResults, qReader, qChanged, qError, qLate>>

SubmitEnds ==
  /\ qAt = "submit" /\ ~MaySubmit /\ qAt' = "get"
  /\ UNCHANGED <<callerVars, qResults, qReader, qChanged, qError, qCancelled, qLate>>

(* results.get: a row, or nothing yet.                                     *)
Get ==
  /\ qAt = "get" /\ qResults # <<>>
  /\ LET index == Head(qResults) IN
     /\ CallerTo(IF index > Len(qRows) /\ index <= qSubmitted /\ index \notin qReorder THEN "emit" ELSE "refused")
     /\ qReorder' = qReorder \cup {index} /\ qReceived' = qReceived + 1
  /\ qResults' = Tail(qResults)
  /\ UNCHANGED <<qSubmitted, qTasks, qRows, qReader, qChanged, qError, qLate>>

GetNothing ==
  /\ qAt = "get" /\ qResults = <<>> /\ CallerTo(IF Len(qRows) = Count THEN "returned" ELSE "submit")
  /\ UNCHANGED <<callerVars, qResults, qReader, qChanged, qError, qLate>>

Next1 == Len(qRows) + 1
Emitted == IF Next1 \in qReorder THEN Next1 ELSE 0

Emit ==
  /\ qAt = "emit"
  /\ IF qReorder # {} /\ Emitted # 0
     THEN /\ CallerTo("emit") /\ qRows' = Append(qRows, Emitted) /\ qReorder' = qReorder \ {Emitted}
     ELSE qAt' = "health" /\ UNCHANGED <<qCancelled, qRows, qReorder>>
  /\ UNCHANGED <<qSubmitted, qReceived, qTasks, qResults, qReader, qChanged, qError, qLate>>

Caller == ControlHealth \/ Submit \/ SubmitEnds \/ Get \/ GetNothing \/ Emit

-----------------------------------------------------------------------------
(* A reader thread. *)

ReaderTo(w, s, p) == qReader' = [qReader EXCEPT ![w] = [at |-> s, path |-> p]]
Fail(w) == ReaderTo(w, "ended", 0) /\ qError' = TRUE /\ qCancelled' = TRUE

Take(w) ==
  /\ qReader[w].at = "idle" /\ ~qCancelled /\ qTasks # <<>>
  /\ ReaderTo(w, "reading", Head(qTasks)) /\ qTasks' = Tail(qTasks)
  /\ UNCHANGED <<qAt, qSubmitted, qReceived, qReorder, qRows, qResults, qChanged, qError, qCancelled, qLate>>

Leave(w) ==
  /\ qReader[w].at = "idle" /\ qCancelled /\ ReaderTo(w, "ended", 0)
  /\ UNCHANGED <<qAt, callerVars, qResults, qChanged, qError, qCancelled, qLate>>

Sound(w) == ~qLate /\ ~qCancelled /\ qReader[w].path \notin qChanged

(* read_epub; the guard may raise before it, in it and after it. *)
ReadEpub(w) ==
  /\ qReader[w].at = "reading"
  /\ IF Sound(w) THEN ReaderTo(w, "putting", qReader[w].path) /\ UNCHANGED <<qError, qCancelled>> ELSE Fail(w)
  /\ UNCHANGED <<qAt, callerVars, qResults, qChanged, qLate>>

PutResult(w) ==
  /\ qReader[w].at = "putting"
  /\ \/ /\ (qLate \/ qCancelled) /\ Fail(w) /\ UNCHANGED qResults
     \/ /\ ~qLate /\ ~qCancelled /\ Len(qResults) < ReadStreams
        /\ qResults' = Append(qResults, qReader[w].path) /\ ReaderTo(w, "idle", 0)
        /\ UNCHANGED <<qError, qCancelled>>
  /\ UNCHANGED <<qAt, callerVars, qChanged, qLate>>

Reader(w) == Take(w) \/ Leave(w) \/ ReadEpub(w) \/ PutResult(w)

-----------------------------------------------------------------------------
Next == Caller \/ (\E w \in Readers : Reader(w)) \/ Deadline

(* The caller and the clock run; a reader may hang for ever. *)
Progress == Caller \/ Deadline
Spec == Init /\ [][Next]_vars /\ WF_vars(Caller) /\ WF_vars(Deadline)

TypeOK ==
  /\ qAt \in {"health", "submit", "get", "emit", "returned", "refused", "full"}
  /\ {qSubmitted, qReceived} \subseteq 0..Count
  /\ qTasks \in Seq(1..Count) /\ qResults \in Seq(1..Count) /\ qRows \in Seq(1..Count)
  /\ qReorder \cup qChanged \subseteq 1..Count /\ {qError, qCancelled, qLate} \subseteq BOOLEAN
  /\ qReader \in [Readers -> [at : {"idle", "reading", "putting", "ended"}, path : 0..Count]]

(* What is returned is every row, once, in order, each read as the walk    *)
(* saw it, and the queue of tasks is never full when one is put in it, the *)
(* one refusal no file, clock or reader would explain (read_epubs).        *)
RowsInOrder ==
  /\ \A i \in 1..Len(qRows) : qRows[i] = i /\ i \notin qChanged
  /\ qAt = "returned" => Len(qRows) = Count
  /\ qAt # "full" /\ qReceived <= qSubmitted

(* The caller ends though every reader hangs (read_epubs, no join). *)
Ended == qAt \in {"returned", "refused"}
=============================================================================
