--------------------------- MODULE BookAcquisition ---------------------------
(***************************************************************************)
(* The patched LazyLibrarian from a wanted book to a file in the library:  *)
(* searchbook.py and resultlist.py pick a release and hand it to a         *)
(* download client, postprocess.py imports what came back. The searches    *)
(* and the post-processor are threads over one database and one download   *)
(* directory. A row of the wanted table is a pair <<book, release>>, and   *)
(* so is the folder its download leaves on disk; a folder carries the name *)
(* of its release, so the rows of one release cannot tell theirs apart.    *)
(***************************************************************************)
EXTENDS Naturals, FiniteSets

CONSTANTS Books, Releases,
          Torrents,        \* rows fetched by the torrent client, the others by SABnzbd
          Poor,            \* releases whose folder holds no file of a wanted type
          Offers,          \* [Books -> SUBSET Releases]: what the providers find
          Searchers,       \* search threads: the daily backlog, searches by hand
          KeepSeeding, DestinationCopy,   \* settings
          MaxEvents,       \* bound: books marked Wanted again, LL.(id) folders, runs or processes that
                           \* end, old downloads of which a client says nothing
          None

ASSUME AcquisitionAssumption ==
  /\ Poor \subseteq Releases /\ Torrents \subseteq Books \X Releases
  /\ Offers \in [Books -> SUBSET Releases]
  /\ {KeepSeeding, DestinationCopy} \subseteq BOOLEAN
  /\ MaxEvents \in Nat

Rows == UNION {{b} \X Offers[b] : b \in Books}

VARIABLES
  dBook,       \* books.Status
  dRow,        \* wanted.Status, by row
  dJob,        \* the row's job at its client: none, loading, done (a torrent that seeds), finished, failed, gone
  dOld,        \* rows snatched long ago: half an hour, TASK_AGE
  dDisk,       \* rows whose folder is in the download directory
  dLib,        \* releases whose files are in the library, by book
  dPP, dAt,    \* the post-processor: its step, its row and the folder it imports (its row, in a second pass)
  dTodo,       \* the rows it selected, with the status they had
  dReady,      \* the rows it found ready and has not come to
  dLeft,       \* something was left to watch when it looked
  dScheduled,  \* the PostProcessor job is scheduled
  dSearch, dList, dPick,   \* by search thread: step, books to look for, the row chosen
  dManual,     \* books with an LL.(bookid) folder in the download directory
  dEvents,
  dClash       \* history: rows that were Snatched, or whose book was, when a search wrote its failure over them

vars == <<dBook, dRow, dJob, dOld, dDisk, dLib, dPP, dAt, dTodo, dReady, dLeft, dScheduled,
          dSearch, dList, dPick, dManual, dEvents, dClash>>
clientVars == <<dJob, dOld>>
fileVars == <<dDisk, dLib, dManual>>
ppVars == <<dPP, dAt, dTodo, dReady, dLeft>>
searchVars == <<dSearch, dList, dPick, dClash>>

Init ==
  /\ dBook = [b \in Books |-> "Wanted"]
  /\ dRow = [p \in Rows |-> "none"] /\ dJob = [p \in Rows |-> "none"] /\ dOld = {}
  /\ dDisk = {} /\ dLib = [b \in Books |-> {}]
  /\ dPP = "idle" /\ dAt = None /\ dTodo = {} /\ dReady = {} /\ dLeft = FALSE /\ dScheduled = FALSE
  /\ dSearch = [s \in Searchers |-> "idle"] /\ dList = [s \in Searchers |-> {}]
  /\ dPick = [s \in Searchers |-> None]
  /\ dManual = {} /\ dEvents = 0 /\ dClash = {}

Torrent(p) == p \in Torrents
RowsOf(b) == {p \in Rows : p[1] = b}
UnderWay == {"Snatched", "Aborted", "Seeding"}
WithStatus(S) == {p \in Rows : dRow[p] \in S}
Event == dEvents < MaxEvents /\ dEvents' = dEvents + 1

-----------------------------------------------------------------------------
(* Searching. *)

(* The books on the list: Wanted, and no row of theirs is Snatched. *)
List(s) ==
  /\ dSearch[s] = "idle"
  /\ dList' = [dList EXCEPT ![s] = {b \in Books : dBook[b] = "Wanted" /\ \A p \in RowsOf(b) : dRow[p] # "Snatched"}]
  /\ dList'[s] # {} /\ dSearch' = [dSearch EXCEPT ![s] = "search"]
  /\ UNCHANGED <<dBook, dRow, clientVars, fileVars, ppVars, dScheduled, dPick, dClash, dEvents>>

(* A release that failed at a provider is known by its name, whatever its book and the spelling of the row. *)
FailedRelease(p) == \E q \in Rows : q[2] = p[2] /\ (Torrent(q) <=> Torrent(p)) /\ dRow[q] = "Failed"

(* A book whose search is delayed, or that finds nothing, is left for another day. *)
Pass(s, b) ==
  /\ dSearch[s] = "search" /\ b \in dList[s]
  /\ dList' = [dList EXCEPT ![s] = @ \ {b}]
  /\ dSearch' = [dSearch EXCEPT ![s] = IF dList'[s] = {} THEN "idle" ELSE @]
  /\ UNCHANGED <<dBook, dRow, clientVars, fileVars, ppVars, dScheduled, dPick, dClash, dEvents>>

FindBest(s, b, r) ==
  /\ dSearch[s] = "search" /\ b \in dList[s] /\ r \in Offers[b] /\ ~FailedRelease(<<b, r>>)
  /\ dPick' = [dPick EXCEPT ![s] = <<b, r>>] /\ dSearch' = [dSearch EXCEPT ![s] = "pick"]
  /\ dList' = [dList EXCEPT ![s] = @ \ {b}]
  /\ UNCHANGED <<dBook, dRow, clientVars, fileVars, ppVars, dScheduled, dClash, dEvents>>

Next1(s) == dSearch' = [dSearch EXCEPT ![s] = IF dList[s] = {} THEN "idle" ELSE "search"]

(* download_result looks into both tables again before it writes the row. *)
Reserve(s) ==
  LET p == dPick[s] IN
  /\ dSearch[s] = "pick"
  /\ IF dBook[p[1]] = "Snatched" \/ \E q \in RowsOf(p[1]) : dRow[q] = "Snatched"
     THEN Next1(s) /\ dPick' = [dPick EXCEPT ![s] = None] /\ UNCHANGED dRow
     ELSE /\ dRow' = [dRow EXCEPT ![p] = "Matched"]
          /\ dSearch' = [dSearch EXCEPT ![s] = "send"] /\ UNCHANGED dPick
  /\ UNCHANGED <<dBook, clientVars, fileVars, ppVars, dScheduled, dList, dClash, dEvents>>

(* The client takes it, and both tables say Snatched, or the row is Failed, whatever it was: another search *)
(* that passed Reserve may have made it Snatched. *)
Send(s) ==
  LET p == dPick[s] IN
  /\ dSearch[s] = "send"
  /\ \/ /\ dRow' = [dRow EXCEPT ![p] = "Snatched"] /\ dBook' = [dBook EXCEPT ![p[1]] = "Snatched"]
        /\ dJob' = [dJob EXCEPT ![p] = "loading"] /\ dOld' = dOld \ {p}
        /\ dSearch' = [dSearch EXCEPT ![s] = "wake"] /\ UNCHANGED <<dPick, dClash>>
     \/ /\ dRow' = [dRow EXCEPT ![p] = "Failed"] /\ Next1(s) /\ dPick' = [dPick EXCEPT ![s] = None]
        /\ dClash' = IF dRow[p] = "Snatched" \/ (dRow[p] \in UnderWay /\ dBook[p[1]] = "Snatched")
                     THEN dClash \cup {p} ELSE dClash
        /\ UNCHANGED <<dBook, clientVars>>
  /\ UNCHANGED <<fileVars, ppVars, dScheduled, dList, dEvents>>

Wake(s) ==
  /\ dSearch[s] = "wake" /\ dScheduled' = TRUE
  /\ Next1(s) /\ dPick' = [dPick EXCEPT ![s] = None]
  /\ UNCHANGED <<dBook, dRow, clientVars, fileVars, ppVars, dList, dClash, dEvents>>

-----------------------------------------------------------------------------
(* The clients, the clock, the user. *)

Download(p) ==
  /\ dJob[p] = "loading"
  /\ dJob' = [dJob EXCEPT ![p] = IF Torrent(p) THEN "done" ELSE "finished"] /\ dDisk' = dDisk \cup {p}
  /\ UNCHANGED <<dBook, dRow, dOld, dLib, dManual, ppVars, dScheduled, searchVars, dEvents>>

(* SABnzbd fails a job, "Duplicate NZB" among others; a torrent stops seeding or is removed, its files stay. *)
JobEnds(p) ==
  /\ \/ ~Torrent(p) /\ dJob[p] = "loading" /\ dJob' = [dJob EXCEPT ![p] = "failed"]
     \/ Torrent(p) /\ dJob[p] = "done" /\ dJob' = [dJob EXCEPT ![p] = "finished"]
     \/ Torrent(p) /\ dJob[p] \in {"done", "finished"} /\ dJob' = [dJob EXCEPT ![p] = "gone"]
  /\ UNCHANGED <<dBook, dRow, dOld, fileVars, ppVars, dScheduled, searchVars, dEvents>>

Grow(p) ==
  /\ dRow[p] = "Snatched" /\ p \notin dOld /\ dOld' = dOld \cup {p}
  /\ UNCHANGED <<dBook, dRow, dJob, fileVars, ppVars, dScheduled, searchVars, dEvents>>

Ask(b) ==
  /\ Event /\ dBook[b] # "Wanted" /\ dBook' = [dBook EXCEPT ![b] = "Wanted"]
  /\ UNCHANGED <<dRow, clientVars, fileVars, ppVars, dScheduled, searchVars>>

DropFolder(b) ==
  /\ Event /\ dManual' = dManual \cup {b}
  /\ UNCHANGED <<dBook, dRow, clientVars, dDisk, dLib, ppVars, dScheduled, searchVars>>

-----------------------------------------------------------------------------
(* A run of the post-processor: which of the Snatched rows are ready. *)

StartRun ==
  /\ dScheduled /\ dPP = "idle" /\ dPP' = "check"
  /\ dTodo' = WithStatus({"Snatched"}) \X {"Snatched"} /\ dReady' = {}
  /\ UNCHANGED <<dBook, dRow, clientVars, fileVars, dAt, dLeft, dScheduled, searchVars, dEvents>>

(* Mutant: what the filter did before: a failed job is "not found", hence ready. *)
ReadyWithFailed(p) == dJob[p] \in {"done", "finished", "gone", "failed"}
(* No row whose job SABnzbd failed is ready; a removed torrent is. *)
Ready(p) == dJob[p] \in {"done", "finished", "gone"}

(* Asking for the progress turns the row of a failed SABnzbd job Aborted. *)
Aborting(p) == IF dJob[p] = "failed" THEN [dRow EXCEPT ![p] = "Aborted"] ELSE dRow

(* UPDATE books SET status='Wanted' WHERE status='Snatched'. *)
Unwant(b) == IF dBook[b] = "Snatched" THEN [dBook EXCEPT ![b] = "Wanted"] ELSE dBook

(* UPDATE wanted SET Status='Failed' WHERE Status='Snatched'. *)
SnatchedFails(p, rows) == [rows EXCEPT ![p] = IF @ = "Snatched" THEN "Failed" ELSE @]

(* A client that does not answer reports -2, which the filter lets through. *)
Check(p) ==
  /\ dPP = "check" /\ <<p, "Snatched">> \in dTodo
  /\ dTodo' = dTodo \ {<<p, "Snatched">>}
  /\ \/ dRow' = Aborting(p) /\ dReady' = (IF Ready(p) THEN dReady \cup {p} ELSE dReady)
     \/ dReady' = dReady \cup {p} /\ UNCHANGED dRow
  /\ UNCHANGED <<dBook, clientVars, fileVars, dPP, dAt, dLeft, dScheduled, searchVars, dEvents>>

(* Its contents are rejected: the row fails, the book is Wanted again, the client deletes the task. *)
Reject(p) ==
  /\ dPP = "check" /\ <<p, "Snatched">> \in dTodo /\ dJob[p] \in {"loading", "done", "finished"}
  /\ dTodo' = dTodo \ {<<p, "Snatched">>}
  /\ dBook' = Unwant(p[1]) /\ dRow' = [dRow EXCEPT ![p] = "Failed"]
  /\ dJob' = [dJob EXCEPT ![p] = "none"] /\ dDisk' = dDisk \ {p}
  /\ UNCHANGED <<dOld, dLib, dManual, dPP, dAt, dReady, dLeft, dScheduled, searchVars, dEvents>>

Compile ==
  /\ dPP = "check" /\ dTodo = {} /\ dPP' = "import"
  /\ UNCHANGED <<dBook, dRow, clientVars, fileVars, dAt, dTodo, dReady, dLeft, dScheduled, searchVars, dEvents>>

-----------------------------------------------------------------------------
(* Importing one row. *)

Usable(q) == q \in dDisk /\ q[2] \notin Poor
(* First where the client says, then any folder with the name. *)
ClientFolder(p) == {q \in {p} : dJob[p] \in {"done", "finished"}}
KnownLocation(p) == {q \in ClientFolder(p) : Usable(q)}
Alike(p, q) == p[2] = q[2]
FuzzyMatches(p) == {q \in Rows : Alike(p, q) /\ Usable(q)}
Targeted(p) == dPP = "import" /\ KnownLocation(p) # {}
Candidates(p) == IF Targeted(p) THEN KnownLocation(p) ELSE FuzzyMatches(p)

(* The row whose turn it is; when its import from where the client says failed, the folders with the name follow. *)
Turn(p) == (dPP = "import" /\ p \in dReady) \/ (dPP = "second" /\ dAt = p)

(* The work is on a copy when the original must stay. *)
OnCopy(p) == DestinationCopy \/ (Torrent(p) /\ KeepSeeding)

Import(p, q) ==
  /\ Turn(p) /\ q \in Candidates(p)
  /\ dLib' = [dLib EXCEPT ![p[1]] = @ \cup {q[2]}]
  /\ dPP' = "record" /\ dAt' = <<p, q>> /\ dReady' = dReady \ {p}
  /\ UNCHANGED <<dBook, dRow, clientVars, dDisk, dManual, dTodo, dLeft, dScheduled, searchVars, dEvents>>

(* The files cannot be copied: row Failed, book Wanted whatever it was, the files renamed to .fail. *)
FailImport(p, q) ==
  /\ Turn(p) /\ q \in Candidates(p) /\ dReady' = dReady \ {p}
  /\ IF Targeted(p) THEN dPP' = "second" /\ dAt' = p ELSE dPP' = "import" /\ dAt' = None
  /\ dRow' = SnatchedFails(p, dRow)
  /\ dBook' = [dBook EXCEPT ![p[1]] = "Wanted"]
  /\ dDisk' = IF OnCopy(p) THEN dDisk ELSE dDisk \ {q}
  /\ UNCHANGED <<clientVars, dLib, dManual, dTodo, dLeft, dScheduled, searchVars, dEvents>>

(* Nothing fits: the reason is noted on an object that ends with the loop. *)
NoMatch(p) ==
  /\ Turn(p) /\ Candidates(p) = {}
  /\ dReady' = dReady \ {p} /\ dPP' = "import" /\ dAt' = None
  /\ UNCHANGED <<dBook, dRow, clientVars, fileVars, dTodo, dLeft, dScheduled, searchVars, dEvents>>

(* The row is Processed before the book is Open. *)
Record ==
  LET p == dAt[1] IN
  /\ dPP = "record" /\ dPP' = "extras"
  /\ dRow' = [dRow EXCEPT ![p] = IF @ = "Snatched" THEN "Processed" ELSE @]
  /\ UNCHANGED <<dBook, clientVars, fileVars, dAt, dTodo, dReady, dLeft, dScheduled, searchVars, dEvents>>

Extras ==
  /\ dPP = "extras" /\ dPP' = "client"
  /\ dBook' = [dBook EXCEPT ![dAt[1][1]] = "Open"]
  /\ UNCHANGED <<dRow, clientVars, fileVars, dAt, dTodo, dReady, dLeft, dScheduled, searchVars, dEvents>>

(* _update_download_status; the question itself aborts the row of a failed job, or the client is silent. *)
Settled(p) == IF dJob[p] = "done" /\ KeepSeeding THEN "Seeding" ELSE "Processed"
AskClient ==
  LET p == dAt[1] IN
  /\ dPP = "client" /\ dPP' = "clean"
  /\ \/ dRow' = IF dJob[p] \in {"done", "finished"} /\ dRow[p] \in {"Snatched", "Processed"}
                THEN [dRow EXCEPT ![p] = Settled(p)] ELSE Aborting(p)
     \/ UNCHANGED dRow
  /\ UNCHANGED <<dBook, clientVars, fileVars, dAt, dTodo, dReady, dLeft, dScheduled, searchVars, dEvents>>

(* Mutant: the walk up to the folder to delete ends one directory too high. *)
DirectoryToo == IF OnCopy(dAt[1]) THEN {} ELSE dDisk
(* What may be deleted: the copy, or the folder that was imported. *)
ToDelete == IF OnCopy(dAt[1]) THEN {} ELSE {dAt[2]}
Clean ==
  /\ dPP = "clean" /\ dPP' = "import"
  /\ dDisk' = dDisk \ ToDelete /\ dAt' = None
  /\ UNCHANGED <<dBook, dRow, clientVars, dLib, dManual, dTodo, dReady, dLeft, dScheduled, searchVars, dEvents>>

-----------------------------------------------------------------------------
(* Folders named LL.(bookid). *)

Folders ==
  /\ dPP = "import" /\ dReady = {} /\ dPP' = "folders"
  /\ UNCHANGED <<dBook, dRow, clientVars, fileVars, dAt, dTodo, dReady, dLeft, dScheduled, searchVars, dEvents>>

(* Every row of the book becomes Processed, whatever it was. *)
ProcessBook(b) ==
  /\ dPP = "folders" /\ b \in dManual /\ dBook[b] # "Open"
  /\ dLib' = [dLib EXCEPT ![b] = @ \cup {b}]
  /\ dRow' = [p \in Rows |-> IF p[1] = b /\ dRow[p] # "none" THEN "Processed" ELSE dRow[p]]
  /\ dPP' = "folderextras" /\ dAt' = b
  /\ UNCHANGED <<dBook, clientVars, dDisk, dManual, dTodo, dReady, dLeft, dScheduled, searchVars, dEvents>>

FolderExtras ==
  /\ dPP = "folderextras" /\ dPP' = "folders" /\ dAt' = None
  /\ dBook' = [dBook EXCEPT ![dAt] = "Open"]
  /\ dManual' = IF DestinationCopy THEN dManual ELSE dManual \ {dAt}
  /\ UNCHANGED <<dRow, clientVars, dDisk, dLib, dTodo, dReady, dLeft, dScheduled, searchVars, dEvents>>

(* It cannot be imported: one Snatched row fails, the book is Wanted. *)
FailBook(b) ==
  /\ dPP = "folders" /\ b \in dManual /\ dBook[b] # "Open"
  /\ LET snatched == {p \in RowsOf(b) : dRow[p] = "Snatched"} IN
     \/ snatched = {} /\ UNCHANGED dRow
     \/ \E p \in snatched : dRow' = [dRow EXCEPT ![p] = "Failed"]
  /\ dBook' = [dBook EXCEPT ![b] = "Wanted"] /\ dManual' = dManual \ {b}
  /\ UNCHANGED <<clientVars, dDisk, dLib, ppVars, dScheduled, searchVars, dEvents>>

-----------------------------------------------------------------------------
(* The rows that are not settled. *)

(* Nothing is marked Failed: every row is read anew, and no new object knows a failure. *)
MarkUnprocessed == dPP = "folders" /\ dPP' = "manage"
Manage ==
  /\ MarkUnprocessed
  /\ dTodo' = {<<p, dRow[p]>> : p \in WithStatus(UnderWay)}
  /\ UNCHANGED <<dBook, dRow, clientVars, fileVars, dAt, dReady, dLeft, dScheduled, searchVars, dEvents>>

Abort(p, rows) ==
  /\ dBook' = Unwant(p[1]) /\ dRow' = rows /\ dJob' = [dJob EXCEPT ![p] = "none"]
  /\ UNCHANGED dDisk

(* Mutant: only what the client does not know is given up, a download that stalls is not. *)
TimedOutUnknown(p) == p \in dOld /\ dJob[p] \in {"none", "gone", "failed"}
(* Not found for half an hour, or not complete in time. *)
TimedOut(p) == p \in dOld /\ dJob[p] \in {"none", "loading", "gone", "failed"}
Answered(p) ==
  IF TimedOut(p) THEN Abort(p, SnatchedFails(p, Aborting(p)))
  ELSE dRow' = Aborting(p) /\ UNCHANGED <<dBook, dJob, dDisk>>
(* A silent client (-2) has not found the row either, complete as its job may be; it may still delete the task. *)
Silent(p) ==
  /\ p \in dOld /\ dBook' = Unwant(p[1]) /\ dRow' = SnatchedFails(p, dRow)
  /\ \/ dJob' = [dJob EXCEPT ![p] = "none"] /\ dDisk' = dDisk \ ClientFolder(p)
     \/ UNCHANGED <<dJob, dDisk>>
ManageSnatched(p) ==
  \/ Answered(p) /\ UNCHANGED dEvents
  \/ Silent(p) /\ Event
  \/ p \notin dOld /\ UNCHANGED <<dBook, dRow, dJob, dDisk, dEvents>>
ManageAborted(p) == Abort(p, [dRow EXCEPT ![p] = IF @ = "Aborted" THEN "Failed" ELSE @])

ManageSeeding(p) ==
  /\ \/ /\ dRow' = [dRow EXCEPT ![p] = IF dRow[p] # "Seeding" THEN @
                                       ELSE IF dJob[p] = "gone" THEN "Snatched"
                                       ELSE IF dJob[p] = "finished" THEN "Processed" ELSE @]
        /\ dDisk' = IF dJob[p] = "finished" /\ ~DestinationCopy THEN dDisk \ {p} ELSE dDisk
     \/ UNCHANGED <<dRow, dDisk>>   \* the client is silent
  /\ UNCHANGED <<dBook, dJob>>

ManageStatus(p, status) ==
  /\ dPP = "manage" /\ <<p, status>> \in dTodo
  /\ dTodo' = dTodo \ {<<p, status>>}
  /\ CASE status = "Snatched" -> ManageSnatched(p)
       [] status = "Aborted" -> ManageAborted(p) /\ UNCHANGED dEvents
       [] status = "Seeding" -> ManageSeeding(p) /\ UNCHANGED dEvents
  /\ UNCHANGED <<dOld, dLib, dManual, dPP, dAt, dReady, dLeft, dScheduled, searchVars>>

(* Two selects, then the decision: Aborted rows are not counted. *)
Count ==
  /\ dPP = "manage" /\ dTodo = {} /\ dPP' = "schedule"
  /\ dLeft' = (WithStatus({"Snatched", "Seeding"}) # {})
  /\ UNCHANGED <<dBook, dRow, clientVars, fileVars, dAt, dTodo, dReady, dScheduled, searchVars, dEvents>>
Schedule ==
  /\ dPP = "schedule" /\ dPP' = "idle"
  /\ dScheduled' = (dLeft /\ dScheduled) /\ dLeft' = FALSE
  /\ UNCHANGED <<dBook, dRow, clientVars, fileVars, dAt, dTodo, dReady, searchVars, dEvents>>

(* An exception ends the run, the end of the process ends the searches too; what starts again is scheduled. *)
Break ==
  /\ dPP # "idle" /\ dPP' = "idle" /\ dAt' = None /\ dTodo' = {} /\ dReady' = {} /\ dLeft' = FALSE
Crash ==
  /\ Event /\ Break
  /\ \/ UNCHANGED <<dScheduled, searchVars>>
     \/ /\ dScheduled' = (WithStatus({"Snatched", "Seeding"}) # {})
        /\ dSearch' = [s \in Searchers |-> "idle"] /\ dList' = [s \in Searchers |-> {}]
        /\ dPick' = [s \in Searchers |-> None] /\ UNCHANGED dClash
  /\ UNCHANGED <<dBook, dRow, clientVars, fileVars>>

-----------------------------------------------------------------------------
Run ==
  \/ StartRun \/ Compile \/ Record \/ Extras \/ AskClient \/ Clean
  \/ Folders \/ FolderExtras \/ Manage \/ Count \/ Schedule
  \/ \E p \in Rows : Check(p) \/ Reject(p) \/ NoMatch(p)
  \/ \E p, q \in Rows : Import(p, q) \/ FailImport(p, q)
  \/ \E b \in Books : ProcessBook(b) \/ FailBook(b)
  \/ \E p \in Rows, status \in UnderWay : ManageStatus(p, status)
Searching(s) ==
  \/ List(s) \/ Reserve(s) \/ Send(s) \/ Wake(s)
  \/ \E b \in Books : Pass(s, b) \/ (\E r \in Releases : FindBest(s, b, r))
Next ==
  \/ Run \/ Crash
  \/ \E s \in Searchers : Searching(s)
  \/ \E p \in Rows : Download(p) \/ JobEnds(p) \/ Grow(p)
  \/ \E b \in Books : Ask(b) \/ DropFolder(b)

(* Scheduled runs come and go on; time passes. No download has to end. *)
Fairness == WF_vars(Run) /\ \A p \in Rows : WF_vars(Grow(p))
Spec == Init /\ [][Next]_vars /\ Fairness

-----------------------------------------------------------------------------
TypeOK ==
  /\ dBook \in [Books -> {"Wanted", "Snatched", "Open"}]
  /\ dRow \in [Rows -> {"none", "Matched", "Snatched", "Aborted", "Processed", "Failed", "Seeding"}]
  /\ dJob \in [Rows -> {"none", "loading", "done", "finished", "failed", "gone"}] /\ dOld \subseteq Rows
  /\ dDisk \subseteq Rows /\ dLib \in [Books -> SUBSET (Releases \cup Books)]
  /\ dPP \in {"idle", "check", "import", "second", "record", "extras", "client", "clean", "folders", "folderextras",
               "manage", "schedule"}
  /\ dTodo \subseteq Rows \X UnderWay /\ dReady \subseteq Rows
  /\ {dLeft, dScheduled} \subseteq BOOLEAN /\ dManual \subseteq Books
  /\ dSearch \in [Searchers -> {"idle", "search", "pick", "send", "wake"}]
  /\ dList \in [Searchers -> SUBSET Books] /\ dPick \in [Searchers -> Rows \cup {None}]
  /\ dEvents \in 0..MaxEvents /\ dClash \subseteq Rows

(* An Aborted row does not come to be imported: the same-named download of another book is not taken for it *)
(* (_get_ready_from_snatched, the fix of the failed history slot). *)
AbortedNeverImports == \A p \in Rows : dRow[p] = "Aborted" => p \notin dReady

(* A Snatched book, which searches skip for ever, is not forgotten: some row of it is still under way, or its *)
(* files are in the library, where the daily scan finds them. Two searches that reserve one row do forget it, *)
(* when the client takes the request of the first and refuses that of the second. *)
Backed(b) == dLib[b] # {} \/ \E p \in RowsOf(b) : dRow[p] \in UnderWay
Clashed(b) == \E p \in RowsOf(b) : p \in dClash /\ dRow[p] = "Failed"
SnatchedIsBacked == \A b \in Books : dBook[b] = "Snatched" => Backed(b) \/ Clashed(b)

(* The rows of the wanted table agree with what happens to them: an Aborted one imports nothing, and a book *)
(* that is Snatched has one that is under way, or its files. *)
RowsAgree == AbortedNeverImports /\ SnatchedIsBacked

(* Files leave the download directory only after a copy of them is in the library, or with the failure of a *)
(* row that fetched that release (the rejected task, the folder renamed to .fail), unless searches clashed *)
(* over it and a third one has reserved it since, or one has reserved it between its two passes. *)
FailedNow(p) == dRow'[p] = "Failed" \/ (dPP = "second" /\ dAt = p) \/ p \in dClash
LosesNothing ==
  \A q \in dDisk \ dDisk' : (\E b \in Books : q[2] \in dLib'[b]) \/ \E p \in Rows : Alike(p, q) /\ FailedNow(p)
NothingLost == [][LosesNothing]_vars

(* While the post-processor stays scheduled no row stays Snatched for ever, unless its download is complete *)
(* and nothing in the download directory fits it. *)
Hopeless(p) == dJob[p] \in {"done", "finished"} /\ FuzzyMatches(p) = {}
RowSettles ==
  <>[]dScheduled => \A p \in Rows : []<>(dRow[p] # "Snatched" \/ Hopeless(p))

(* "Mark unprocessed books as Failed to force a retry on next search": a complete download nothing of which *)
(* fits does not stay Snatched. *)
UnmatchedIsFailed == \A p \in Rows : dRow[p] = "Snatched" /\ Hopeless(p) ~> dRow[p] # "Snatched"
=============================================================================
