--------------------------- MODULE CopyRetention ---------------------------
(***************************************************************************)
(* Retaining a redundant EPUB copy (epub_copies.py) from the main writer   *)
(* Job (book_copy_writer.py): evidence is collected and joined on the host *)
(* (epub_copy_preflight.py, bound_census.py), the writer locks the         *)
(* application's tables, proves that nothing changed, and moves each       *)
(* approved copy to a backup by a hard link and an unlink, one at a time.  *)
(* The library is one group: same title, same author.                      *)
(***************************************************************************)
EXTENDS Integers, FiniteSets

CONSTANTS Paths,      \* the files of the group
          Bound,      \* the census of a bound run: earlier bytes, current stat
          MaxActs,    \* bound: what outsiders do
          MaxRuns     \* bound: runs of the writer

(* What is assumed of the constants. *)
RetentionAssumption ==
  Bound \in BOOLEAN /\ MaxActs \in Nat /\ MaxRuns \in Nat

VARIABLES
  vFile,    \* version under each library path, 0 without one
  vBak,     \* STATE_DIR/copies: manifests (of) and what their file holds
  vLinked,  \* copies whose name and backup are one inode
  vGone,    \* history: the versions the writer removed
  vPtr,     \* the file LazyLibrarian's BookFile names
  vLocks,   \* files that saved metadata in Kavita depends on
  vQuiet,   \* LazyLibrarian and Kavita are stopped
  vWanted,  \* files that rows of the application depend on
  vMarked,  \* copies under a hold or an .ll_ignore marker
  vEv,      \* the evidence: files, wanted, approved selection, and its age
  vFence,   \* the SHARE locks: none, held, lost
  vLock,    \* STATE_DIR/lock
  vRun,     \* the writer: pc, todo, current copy, the first one proved
  vLate,    \* the keeper changed after its last recheck
  vActs, vRuns

vars == <<vFile, vBak, vLinked, vGone, vPtr, vLocks, vQuiet, vWanted, vMarked, vEv, vFence,
          vLock, vRun, vLate, vActs, vRuns>>

NoEvidence == [files |-> [p \in Paths |-> 0], bytes |-> [p \in Paths |-> 0], locks |-> {},
               wanted |-> {}, ptr |-> "none", after |-> FALSE, chosen |-> {}, stage |-> "none",
               fresh |-> FALSE]
Idle == [pc |-> "idle", todo |-> {}, cur |-> "none", done |-> {}]

Init ==
  /\ vFile = [p \in Paths |-> 1] /\ vBak = [c \in Paths |-> {}] /\ vLinked = {}
  /\ vGone = [c \in Paths |-> {}] /\ vWanted = {} /\ vMarked = {}
  /\ vPtr \in Paths /\ vLocks = {} /\ vQuiet = FALSE
  /\ vEv = NoEvidence /\ vFence = "none" /\ vLock = FALSE /\ vRun = Idle
  /\ vLate = FALSE /\ vActs = 0 /\ vRuns = 0

----------------------------------------------------------------------------
(* Outsiders.  LazyLibrarian and Kavita change what they keep until they   *)
(* are stopped; the application commits rows while no SHARE lock stands; a *)
(* file can change under anyone's hand.                                    *)

Acts == vActs < MaxActs /\ vActs' = vActs + 1
New == vActs + 2
Files == <<vFile, vBak, vLinked, vGone>>
Deps == <<vPtr, vLocks, vQuiet, vWanted, vMarked>>
Own == <<vEv, vFence, vLock, vRun>>

PointerMoves(p) ==
  /\ Acts /\ ~vQuiet /\ vFile[p] # 0 /\ p # vPtr /\ vPtr' = p
  /\ UNCHANGED <<Files, vLocks, vQuiet, vWanted, vMarked, Own, vLate, vRuns>>

KavitaLocks(c) ==
  /\ Acts /\ ~vQuiet /\ c \notin vLocks /\ vLocks' = vLocks \cup {c}
  /\ UNCHANGED <<Files, vPtr, vQuiet, vWanted, vMarked, Own, vLate, vRuns>>

AppWants(c) ==
  /\ Acts /\ vFence # "held" /\ c \notin vWanted /\ vWanted' = vWanted \cup {c}
  /\ UNCHANGED <<Files, vPtr, vLocks, vQuiet, vMarked, Own, vLate, vRuns>>

Mark(c) ==
  /\ Acts /\ c \notin vMarked /\ vMarked' = vMarked \cup {c}
  /\ UNCHANGED <<Files, vPtr, vLocks, vQuiet, vWanted, Own, vLate, vRuns>>

(* A new file under the name, or none: the backup keeps the old inode.     *)
Replace(p, n) ==
  /\ Acts /\ vFile[p] # n /\ vFile' = [vFile EXCEPT ![p] = n] /\ vLinked' = vLinked \ {p}
  /\ vLate' = (vLate \/ (p = vEv.ptr /\ vRun.pc = "unlink"))
  /\ UNCHANGED <<vBak, vGone, Deps, Own, vRuns>>

(* A write in place reaches the backup too while both are one inode.       *)
Rewrite(c) ==
  /\ Acts /\ vFile[c] # 0
  /\ vBak' = [vBak EXCEPT ![c] = {IF c \in vLinked /\ b.holds = vFile[c]
                                  THEN [b EXCEPT !.holds = New] ELSE b : b \in @}]
  /\ vFile' = [vFile EXCEPT ![c] = New]
  /\ vLate' = (vLate \/ (c = vEv.ptr /\ vRun.pc = "unlink"))
  /\ UNCHANGED <<vLinked, vGone, Deps, Own, vRuns>>

LoseConnection ==
  /\ Acts /\ vFence = "held" /\ vFence' = "lost"
  /\ UNCHANGED <<Files, Deps, vEv, vLock, vRun, vLate, vRuns>>

Expire ==
  /\ vEv.fresh /\ vEv' = [vEv EXCEPT !.fresh = FALSE]
  /\ UNCHANGED <<Files, Deps, vFence, vLock, vRun, vLate, vActs, vRuns>>

(* The window stops both programs, and starts them again only once the     *)
(* writer has ended; the next window has another phase token.              *)
Quiesce ==
  /\ ~vQuiet /\ vRuns < MaxRuns /\ vQuiet' = TRUE
  /\ UNCHANGED <<Files, vPtr, vLocks, vWanted, vMarked, Own, vLate, vActs, vRuns>>
Resume ==
  /\ vQuiet /\ vRun.pc = "idle" /\ vQuiet' = FALSE /\ vEv' = [vEv EXCEPT !.fresh = FALSE]
  /\ UNCHANGED <<Files, vPtr, vLocks, vWanted, vMarked, vFence, vLock, vRun, vLate, vActs, vRuns>>

----------------------------------------------------------------------------
(* The evidence, each source read at a moment of its own.                  *)

EvUnchanged == UNCHANGED <<Files, Deps, vFence, vLock, vRun, vLate, vActs, vRuns>>
Capture(stage, next, ev) ==
  /\ vRun.pc = "idle" /\ vEv.stage = stage /\ vEv' = [ev EXCEPT !.stage = next] /\ EvUnchanged

(* The live byte baseline: every file read whole, once, days before or now.*)
CaptureBytes == vRuns < MaxRuns /\ Capture("none", "bytes", [NoEvidence EXCEPT !.bytes = vFile])

(* The library census.  "after" is what the attestation's established_at   *)
(* says of this read's start, the first of the phase.                      *)
CollectLibrary ==
  Capture("bytes", "library", [vEv EXCEPT !.files = vFile, !.fresh = TRUE, !.after = vQuiet])

(* ll_capture: the BookFile of every book.                                 *)
CaptureLL == Capture("library", "ll", [vEv EXCEPT !.ptr = vPtr])

(* kavita_dependencies: reading lists, collections, locked metadata.       *)
CaptureKavita == Capture("ll", "kavita", [vEv EXCEPT !.locks = vLocks])

CaptureApp == Capture("kavita", "app", [vEv EXCEPT !.wanted = vWanted])

(* bind_live_baseline: the stat census must be the baseline's, file by     *)
(* file, before its hashes are borrowed.                                   *)
BindBaseline == Bound => vEv.files = vEv.bytes

(* Mutant: both programs are stopped by now, whenever they were stopped.   *)
AttestedNow == vQuiet

(* The attestation: both programs stopped before the first read began, and *)
(* still so when it was checked.                                           *)
Attested == vQuiet /\ vEv.after

(* prepare: what no dependency protects, when the pointer names one file.  *)
Eligible == {c \in Paths \ {vEv.ptr} : vEv.files[c] # 0 /\ c \notin vEv.wanted \cup vEv.locks}

Assemble ==
  /\ vEv.stage = "app" /\ vEv.fresh /\ Attested /\ BindBaseline /\ vEv.files[vEv.ptr] # 0
  /\ \E chosen \in SUBSET (Eligible \ vMarked) \ {{}} :
       Capture("app", "joined", [vEv EXCEPT !.chosen = chosen])

(* Blocked, expired or used evidence is collected again.                   *)
Abandon == vEv.stage # "none" /\ Capture(vEv.stage, "none", NoEvidence)

----------------------------------------------------------------------------
(* The writer.  Every step that fails its test ends in Refuse.             *)

WriterUnchanged == UNCHANGED <<Deps, vEv, vActs>>
Go(pc) == vRun' = [vRun EXCEPT !.pc = pc]

(* health(): the original transaction still answers and holds its locks.   *)
Health == vFence = "held"

EnterFence ==
  /\ vRun.pc = "idle" /\ vEv.stage = "joined" /\ vEv.fresh /\ vRuns < MaxRuns
  /\ vFence' = "held" /\ vRuns' = vRuns + 1 /\ vLate' = FALSE
  /\ vRun' = [Idle EXCEPT !.pc = "compare"]
  /\ UNCHANGED <<Files, vLock>> /\ WriterUnchanged

CompareCapture ==
  /\ vRun.pc = "compare" /\ Health /\ vEv.fresh /\ vEv.wanted = vWanted
  /\ Go("lock") /\ UNCHANGED <<Files, vFence, vLock, vLate, vRuns>> /\ WriterUnchanged

(* A lock left by a killed run is never taken over.                        *)
ConverterLock ==
  /\ vRun.pc = "lock" /\ ~vLock /\ vLock' = TRUE /\ Go("census")
  /\ UNCHANGED <<Files, vFence, vLate, vRuns>> /\ WriterUnchanged

(* consolidate hashes every file, consolidate_bound compares every stat    *)
(* and hashes the selected ones and their keeper.                          *)
Census ==
  /\ vRun.pc = "census" /\ Health /\ vEv.fresh
  /\ vFile = vEv.files /\ (Bound => vEv.bytes = vFile)
  /\ vEv.chosen \subseteq Eligible \ vMarked
  /\ vRun' = [vRun EXCEPT !.pc = "choose", !.todo = vEv.chosen]
  /\ UNCHANGED <<Files, vFence, vLock, vLate, vRuns>> /\ WriterUnchanged

(* guard(): fresh, still unprotected, the keeper still the census file.    *)
Guard(c) ==
  /\ Health /\ vEv.fresh
  /\ c \in Eligible \ vMarked /\ vFile[vEv.ptr] = vEv.files[vEv.ptr]

(* move_copy to its first writes; a backup of this name is never reused.   *)
WriteManifest(c) ==
  /\ vRun.pc = "choose" /\ c \in vRun.todo /\ vFile[c] = vEv.files[c] /\ c \notin vLinked
  /\ Guard(c) /\ \A b \in vBak[c] : b.of # vFile[c]
  /\ vBak' = [vBak EXCEPT ![c] = @ \cup {[of |-> vFile[c], holds |-> 0]}]
  /\ vRun' = [vRun EXCEPT !.pc = "link", !.cur = c]
  /\ UNCHANGED <<vFile, vLinked, vGone, vFence, vLock, vLate, vRuns>> /\ WriterUnchanged

(* The link, after the guard, the health query and the identity check.     *)
Link ==
  LET c == vRun.cur IN
  /\ vRun.pc = "link" /\ Guard(c) /\ vFile[c] = vEv.files[c]
  /\ vBak' = [vBak EXCEPT ![c] = {IF b.of = vFile[c] THEN [b EXCEPT !.holds = vFile[c]] ELSE b
                                  : b \in @}]
  /\ vLinked' = vLinked \cup {c} /\ Go("hash")
  /\ UNCHANGED <<vFile, vGone, vFence, vLock, vLate, vRuns>> /\ WriterUnchanged

(* Both names are hashed, then the last full guard.                        *)
HashBoth ==
  LET c == vRun.cur IN
  /\ vRun.pc = "hash" /\ Health /\ c \in vLinked /\ vFile[c] = vEv.files[c] /\ Guard(c)
  /\ Go("unlink") /\ vLate' = FALSE
  /\ UNCHANGED <<Files, vFence, vLock, vRuns>> /\ WriterUnchanged

(* check_source: the same inode, unchanged, under exactly two names.       *)
CheckSource(c) == vFile[c] = vEv.files[c] /\ c \in vLinked

(* The removal.  Between the health query, the check and the system call   *)
(* the code does no other I/O: one action.                                 *)
Unlink ==
  LET c == vRun.cur IN
  /\ vRun.pc = "unlink" /\ vEv.fresh /\ Health /\ CheckSource(c)
  /\ vGone' = [vGone EXCEPT ![c] = @ \cup {vFile[c]}]
  /\ vFile' = [vFile EXCEPT ![c] = 0] /\ vLinked' = vLinked \ {c}
  /\ vRun' = [vRun EXCEPT !.pc = IF vRun.done = {} THEN "verify" ELSE "choose",
                          !.todo = @ \ {c}, !.done = @ \cup {c}]
  /\ UNCHANGED <<vBak, vFence, vLock, vLate, vRuns>> /\ WriterUnchanged

(* What the library must be now: the census without what was moved.        *)
Remaining == [p \in Paths |-> IF p \in vRun.done THEN 0 ELSE vEv.files[p]]

(* verify_first_retention: nothing else follows until the first is proved. *)
VerifyFirst ==
  /\ vRun.pc = "verify" /\ Health /\ vEv.fresh
  /\ \A c \in vRun.done : [of |-> vEv.files[c], holds |-> vEv.files[c]] \in vBak[c]
  /\ vFile = Remaining /\ Go("choose")
  /\ UNCHANGED <<Files, vFence, vLock, vLate, vRuns>> /\ WriterUnchanged

Release == vFence' = "none" /\ vRun' = [vRun EXCEPT !.pc = "idle"]

(* The last census of a bound run, and the way out.                        *)
Finish ==
  /\ vRun.pc = "choose" /\ vRun.todo = {} /\ (Bound => vFile = Remaining)
  /\ Release /\ vLock' = FALSE /\ UNCHANGED <<Files, vLate, vRuns>> /\ WriterUnchanged

(* A test that failed, a deadline, a signal: the locks are released and    *)
(* what was done stays, both names of a half-moved copy included.          *)
Refuse ==
  /\ vRun.pc # "idle" /\ Release
  /\ vLock' = (vLock /\ vRun.pc \in {"compare", "lock"})
  /\ UNCHANGED <<Files, vLate, vRuns>> /\ WriterUnchanged

(* SIGKILL: the directory lock stays, the connection's locks do not.       *)
Kill ==
  /\ vRun.pc # "idle" /\ Acts /\ Release
  /\ UNCHANGED <<Files, vLock, vLate, vRuns, Deps, vEv>>

(* The operator, after review.                                             *)
ClearLock ==
  /\ vLock /\ vRun.pc = "idle" /\ vLock' = FALSE
  /\ UNCHANGED <<Files, vFence, vRun, vLate, vRuns>> /\ WriterUnchanged

(* restore_retained_copy: a fresh inode, only under an absent name.        *)
RestoreRetainedCopy(c) ==
  /\ Acts /\ vFile[c] = 0 /\ c \notin vMarked
  /\ \E b \in vBak[c] : b.holds = b.of /\ b.of # 0 /\ vFile' = [vFile EXCEPT ![c] = b.of]
  /\ UNCHANGED <<vBak, vLinked, vGone, Deps, Own, vLate, vRuns>>

Outsiders ==
  \/ \E p \in Paths : \/ PointerMoves(p) \/ KavitaLocks(p) \/ AppWants(p) \/ Mark(p)
                      \/ Rewrite(p) \/ Replace(p, New) \/ Replace(p, 0) \/ RestoreRetainedCopy(p)
  \/ LoseConnection \/ Expire \/ Quiesce \/ Resume

Evidence ==
  \/ CaptureBytes \/ CollectLibrary \/ CaptureLL \/ CaptureKavita \/ CaptureApp \/ Assemble
  \/ Abandon

Writer ==
  \/ EnterFence \/ CompareCapture \/ ConverterLock \/ Census \/ Link \/ HashBoth \/ Unlink
  \/ VerifyFirst \/ Finish \/ Refuse \/ \E c \in Paths : WriteManifest(c)

Next == Outsiders \/ Evidence \/ Writer \/ Kill \/ ClearLock

Spec == Init /\ [][Next]_vars

----------------------------------------------------------------------------
TypeOK ==
  /\ vFile \in [Paths -> Nat] /\ vLinked \subseteq Paths
  /\ vBak \in [Paths -> SUBSET [of : Nat, holds : Nat]] /\ vGone \in [Paths -> SUBSET Nat]
  /\ vFence \in {"none", "held", "lost"} /\ vLock \in BOOLEAN /\ vLate \in BOOLEAN

(* Every version of a copy the writer removed is in a backup under the     *)
(* manifest that names it, whole and out of reach of writes to the library:*)
(* across races with other writers of the folder, refusals and kills.      *)
RetainedRecoverable ==
  \A c \in Paths : \A n \in vGone[c] : [of |-> n, holds |-> n] \in vBak[c]

(* No file is removed that LazyLibrarian points at, that saved metadata in *)
(* Kavita needs or that a row of the application wants at that moment,     *)
(* whenever each was committed.                                            *)
UnneededOnly ==
  [][\A c \in Paths : vGone'[c] # vGone[c] => c # vPtr /\ c \notin vLocks \cup vWanted]_vars

(* A copy is removed only beside the keeper as the census read it, or one  *)
(* that an outsider changed after the removal's own recheck of it.         *)
KeeperStays ==
  [][\A c \in Paths : vGone'[c] # vGone[c] => vFile[vPtr] = vEv.files[vPtr] \/ vLate]_vars
=============================================================================
