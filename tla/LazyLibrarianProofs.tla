------------------------- MODULE LazyLibrarianProofs -------------------------
(***************************************************************************)
(* What the patched LazyLibrarian guarantees for any number of books,      *)
(* releases and search threads, any library, settings and number of        *)
(* events: the rows of the wanted table agree with what is done about      *)
(* them, files only leave the download directory for the library or with a *)
(* failure, a book's file is a file of that book, the scan deletes no      *)
(* author who owns books, and an upgrade that is killed anywhere, any      *)
(* number of times, loses no book of a reading list, no series and no      *)
(* member.                                                                 *)
(*                                                                         *)
(* AcqInv: a run of the post-processor only works on rows that were        *)
(* Snatched when it began; they stay so, or become what the run makes of   *)
(* them, unless a second search writes its failure over one (dClash). What *)
(* the run holds is in the library from the step that imports it to the    *)
(* one that deletes it.                                                    *)
(* ScanInv: a scan that has found the book of a file is still at that      *)
(* file, and the two share a title; nothing else names a file, and ids     *)
(* only pass between rows of one title.                                    *)
(* SchemaInv: while a table that is rebuilt is away its rows are in temp,  *)
(* the columns that would make a start use temp again are gone, and the    *)
(* foreign keys are off; what is dropped next has been copied.             *)
(***************************************************************************)
EXTENDS LazyLibrarianJobs, FiniteSetTheorems, TLAPS

-----------------------------------------------------------------------------
(* Fetching. *)

Importing == dPP \in {"record", "extras", "client", "clean"}

(* The lists of a run are empty outside the step that works them off. *)
ListsEnd ==
  /\ dPP \notin {"check", "manage"} => dTodo = {}
  /\ dPP \notin {"check", "import", "second"} /\ ~Importing => dReady = {}

(* What is left to do about a Snatched row is left of a row still Snatched. *)
TodoIsSnatched ==
  \A p \in Rows : <<p, "Snatched">> \in dTodo => dRow[p] = "Snatched" \/ p \in dClash

(* A row to check is not Aborted, and not ready before it is checked. *)
TodoIsUnchecked ==
  dPP = "check" => \A p \in Rows, status \in UnderWay : <<p, status>> \in dTodo =>
                     status = "Snatched" /\ p \notin dReady /\ dRow[p] # "Aborted"

(* A ready row is Snatched. *)
ReadyIsSnatched == \A p \in dReady : dRow[p] = "Snatched" \/ p \in dClash

(* What is imported is in the library, under the name of its release. *)
ImportIsHere ==
  Importing => \E p, q \in Rows : /\ dAt = <<p, q>> /\ p \notin dReady
                                  /\ Alike(p, q) /\ q[2] \in dLib[p[1]]

(* So is what seeds, and what was found seeding. *)
SeedIsHere ==
  \A p \in Rows : dRow[p] = "Seeding" \/ <<p, "Seeding">> \in dTodo => p[2] \in dLib[p[1]]

(* Past the choice of a release a search has chosen one. *)
PicksAreRows ==
  \A s \in Searchers : dSearch[s] \in {"pick", "send", "wake"} => dPick[s] \in Rows

FolderIsBook == dPP = "folderextras" => dAt \in Books

AcqInv ==
  /\ TypeOK /\ ListsEnd /\ TodoIsSnatched /\ TodoIsUnchecked /\ ReadyIsSnatched
  /\ ImportIsHere /\ SeedIsHere /\ PicksAreRows /\ FolderIsBook /\ AbortedNeverImports /\ SnatchedIsBacked

(* One search thread: what it is about to send is not Snatched, nor its book, and cannot become so. *)
Pursued(p) == p \in dReady \/ (dPP = "second" /\ dAt = p) \/ (Importing /\ dAt[1] = p)
Fresh(p) ==
  /\ dRow[p] \in {"Matched", "Processed", "Aborted", "Failed"} /\ (dRow[p] = "Processed" => ~Pursued(p))
  /\ dBook[p[1]] # "Snatched"
SendIsFresh == \A s \in Searchers : dSearch[s] = "send" => Fresh(dPick[s])
NoClash == dClash = {} /\ SendIsFresh

-----------------------------------------------------------------------------
(* Lemmas. *)

(* A row is of a book and of a release it is offered.                      *)
LEMMA RowShape == \A p \in Rows : p[1] \in Books /\ p[2] \in Releases
BY AcquisitionAssumption DEF Rows, AcquisitionAssumption

(* What can be imported is a row's folder, of the same name.               *)
LEMMA CandidatesAreAlike == \A p \in Rows : \A q \in Candidates(p) : q \in Rows /\ q \in dDisk /\ Alike(p, q)
<1> SUFFICES ASSUME NEW p \in Rows, NEW q \in Candidates(p) PROVE q \in Rows /\ q \in dDisk /\ Alike(p, q)
  OBVIOUS
<1>1. CASE q \in KnownLocation(p)
  BY <1>1 DEF KnownLocation, ClientFolder, Usable, Alike
<1>2. CASE q \in FuzzyMatches(p)
  BY <1>2 DEF FuzzyMatches, Usable
<1>3. QED BY <1>1, <1>2 DEF Candidates

(* AcqInv reads nothing of the clients, of the searches' lists and of the  *)
(* folders; what else keeps still keeps it.                                *)
LEMMA Frame ==
  ASSUME AcqInv, TypeOK', PicksAreRows',
         UNCHANGED <<dBook, dRow, dLib, dPP, dAt, dTodo, dReady, dClash>>
  PROVE  AcqInv'
BY DEF AcqInv, ListsEnd, TodoIsSnatched, TodoIsUnchecked, ReadyIsSnatched, ImportIsHere, SeedIsHere,
       FolderIsBook, AbortedNeverImports, SnatchedIsBacked, Backed, Clashed, RowsOf, Importing

LEMMA InitInv == Init => AcqInv
<1> SUFFICES ASSUME Init PROVE AcqInv
  OBVIOUS
<1>1. TypeOK
  <2>1. dEvents \in 0..MaxEvents
    BY AcquisitionAssumption DEF AcquisitionAssumption, Init
  <2>2. /\ dBook \in [Books -> {"Wanted", "Snatched", "Open"}] /\ dLib \in [Books -> SUBSET (Releases \cup Books)]
        /\ dSearch \in [Searchers -> {"idle", "search", "pick", "send", "wake"}]
        /\ dList \in [Searchers -> SUBSET Books] /\ dPick \in [Searchers -> Rows \cup {None}]
    BY DEF Init
  <2>3. QED BY <2>1, <2>2 DEF Init, TypeOK
<1>2. QED
  BY <1>1 DEF Init, AcqInv, ListsEnd, TodoIsSnatched, TodoIsUnchecked, ReadyIsSnatched, ImportIsHere, SeedIsHere,
       PicksAreRows, FolderIsBook, AbortedNeverImports, SnatchedIsBacked, Importing

-----------------------------------------------------------------------------
(* Types. *)

LEMMA SearchTypes ==
  ASSUME TypeOK, PicksAreRows, NEW s \in Searchers, Searching(s)
  PROVE  TypeOK' /\ PicksAreRows'
<1> USE DEF TypeOK, PicksAreRows, clientVars, fileVars, ppVars, Next1
<1>1. CASE List(s)
  BY <1>1 DEF List
<1>2. CASE Reserve(s)
  BY <1>2 DEF Reserve
<1>3. CASE Send(s)
  BY <1>3 DEF Send
<1>4. CASE Wake(s)
  BY <1>4 DEF Wake
<1>5. CASE \E b \in Books : Pass(s, b)
  BY <1>5 DEF Pass
<1>6. CASE \E b \in Books, r \in Releases : FindBest(s, b, r)
  <2>1. PICK b \in Books, r \in Releases : FindBest(s, b, r)
    BY <1>6
  <2>2. <<b, r>> \in Rows
    BY <2>1 DEF FindBest, Rows
  <2>3. QED BY <2>1, <2>2 DEF FindBest
<1>7. QED BY <1>1, <1>2, <1>3, <1>4, <1>5, <1>6 DEF Searching

LEMMA OutsideTypes ==
  ASSUME TypeOK, PicksAreRows,
         \/ \E p \in Rows : Download(p) \/ JobEnds(p) \/ Grow(p)
         \/ \E b \in Books : Ask(b) \/ DropFolder(b)
         \/ Crash
  PROVE  TypeOK' /\ PicksAreRows'
<1> USE DEF TypeOK, PicksAreRows, clientVars, fileVars, ppVars, searchVars, Event
<1> MaxEvents \in Nat
  BY AcquisitionAssumption DEF AcquisitionAssumption
<1>1. CASE \E p \in Rows : Download(p)
  BY <1>1 DEF Download
<1>2. CASE \E p \in Rows : JobEnds(p)
  BY <1>2 DEF JobEnds
<1>3. CASE \E p \in Rows : Grow(p)
  BY <1>3 DEF Grow
<1>4. CASE \E b \in Books : Ask(b)
  BY <1>4 DEF Ask
<1>5. CASE \E b \in Books : DropFolder(b)
  BY <1>5 DEF DropFolder
<1>6. CASE Crash
  <2>1. dScheduled' \in BOOLEAN
    BY <1>6 DEF Crash
  <2>2. /\ dSearch' \in [Searchers -> {"idle", "search", "pick", "send", "wake"}]
        /\ dList' \in [Searchers -> SUBSET Books] /\ dPick' \in [Searchers -> Rows \cup {None}]
        /\ dClash' \subseteq Rows /\ PicksAreRows'
    BY <1>6 DEF Crash
  <2>3. dEvents' \in 0..MaxEvents
    BY <1>6 DEF Crash
  <2>4. {dLeft', dScheduled'} \subseteq BOOLEAN
    BY <1>6, <2>1 DEF Crash, Break
  <2>5. QED BY <1>6, <2>2, <2>3, <2>4 DEF Crash, Break
<1>7. QED BY <1>1, <1>2, <1>3, <1>4, <1>5, <1>6

LEMMA RunTypes ==
  ASSUME TypeOK, PicksAreRows, ImportIsHere, FolderIsBook, Run
  PROVE  TypeOK' /\ PicksAreRows'
<1> USE DEF TypeOK, PicksAreRows, clientVars, fileVars, ppVars, searchVars
<1>1. CASE StartRun
  BY <1>1 DEF StartRun, WithStatus, UnderWay
<1>2. CASE Compile
  BY <1>2 DEF Compile
<1>3. CASE Record
  BY <1>3 DEF Record
<1>4. CASE Extras
  <2>1. dAt[1][1] \in Books
    BY <1>4, RowShape DEF Extras, ImportIsHere, Importing
  <2>2. QED BY <1>4, <2>1 DEF Extras
<1>5. CASE AskClient
  BY <1>5 DEF AskClient, Settled, Aborting
<1>6. CASE Clean
  BY <1>6 DEF Clean
<1>7. CASE Folders
  BY <1>7 DEF Folders
<1>8. CASE FolderExtras
  BY <1>8 DEF FolderExtras, FolderIsBook
<1>9. CASE Manage
  BY <1>9 DEF Manage, MarkUnprocessed, WithStatus
<1>10. CASE Count
  <2>1. dLeft' \in BOOLEAN
    BY <1>10 DEF Count
  <2>2. QED BY <1>10, <2>1 DEF Count
<1>11. CASE Schedule
  <2>1. dScheduled' \in BOOLEAN
    BY <1>11 DEF Schedule
  <2>2. QED BY <1>11, <2>1 DEF Schedule
<1>12. CASE \E p \in Rows : Check(p)
  BY <1>12 DEF Check, Aborting
<1>13. CASE \E p \in Rows : Reject(p)
  <2>1. PICK p \in Rows : Reject(p)
    BY <1>13
  <2>2. /\ dBook' \in [Books -> {"Wanted", "Snatched", "Open"}] /\ dTodo' \subseteq Rows \X UnderWay
        /\ dDisk' \subseteq Rows
    BY <2>1 DEF Reject, Unwant
  <2>3. /\ dRow' \in [Rows -> {"none", "Matched", "Snatched", "Aborted", "Processed", "Failed", "Seeding"}]
        /\ dJob' \in [Rows -> {"none", "loading", "done", "finished", "failed", "gone"}]
    BY <2>1 DEF Reject
  <2>4. QED BY <2>1, <2>2, <2>3 DEF Reject
<1>14. CASE \E p \in Rows : NoMatch(p)
  BY <1>14 DEF NoMatch
<1>15. CASE \E p, q \in Rows : Import(p, q)
  BY <1>15, RowShape DEF Import
<1>16. CASE \E p, q \in Rows : FailImport(p, q)
  <2>1. PICK p \in Rows, q \in Rows : FailImport(p, q)
    BY <1>16
  <2>2. /\ dBook' \in [Books -> {"Wanted", "Snatched", "Open"}] /\ dReady' \subseteq Rows /\ dDisk' \subseteq Rows
    BY <2>1 DEF FailImport
  <2>3. dRow' \in [Rows -> {"none", "Matched", "Snatched", "Aborted", "Processed", "Failed", "Seeding"}]
    BY <2>1 DEF FailImport, SnatchedFails
  <2>4. dPP' \in {"import", "second"}
    BY <2>1 DEF FailImport
  <2>5. QED BY <2>1, <2>2, <2>3, <2>4 DEF FailImport
<1>17. CASE \E b \in Books : ProcessBook(b)
  BY <1>17 DEF ProcessBook
<1>18. CASE \E b \in Books : FailBook(b)
  BY <1>18 DEF FailBook, RowsOf
<1>19. CASE \E p \in Rows, status \in UnderWay : ManageStatus(p, status)
  <2>1. PICK p \in Rows, status \in UnderWay : ManageStatus(p, status)
    BY <1>19
  <2>2. CASE status = "Snatched"
    <3>1. dEvents' \in 0..MaxEvents
      BY <2>1, <2>2, AcquisitionAssumption DEF ManageStatus, ManageSnatched, Event, AcquisitionAssumption
    <3>2. CASE Answered(p)
      BY <2>1, <3>1, <3>2 DEF ManageStatus, Answered, Abort, Aborting, SnatchedFails, Unwant
    <3>3. CASE Silent(p)
      BY <2>1, <3>1, <3>3 DEF ManageStatus, Silent, SnatchedFails, Unwant
    <3>4. CASE UNCHANGED <<dBook, dRow, dJob, dDisk>>
      BY <2>1, <3>1, <3>4 DEF ManageStatus
    <3>5. QED BY <2>1, <2>2, <3>2, <3>3, <3>4 DEF ManageStatus, ManageSnatched
  <2>3. CASE status = "Aborted"
    BY <2>1, <2>3 DEF ManageStatus, ManageAborted, Abort, Unwant
  <2>4. CASE status = "Seeding"
    BY <2>1, <2>4 DEF ManageStatus, ManageSeeding
  <2>5. QED BY <2>2, <2>3, <2>4 DEF UnderWay
<1>20. QED
  BY <1>1, <1>2, <1>3, <1>4, <1>5, <1>6, <1>7, <1>8, <1>9, <1>10, <1>11, <1>12, <1>13, <1>14, <1>15, <1>16,
     <1>17, <1>18, <1>19 DEF Run

-----------------------------------------------------------------------------
(* Searches. *)

LEMMA SearchInv ==
  ASSUME AcqInv, NEW s \in Searchers, Searching(s), TypeOK', PicksAreRows'
  PROVE  AcqInv'
<1>1. CASE List(s) \/ Wake(s) \/ (\E b \in Books : Pass(s, b) \/ (\E r \in Releases : FindBest(s, b, r)))
  BY <1>1, Frame DEF List, Wake, Pass, FindBest, ppVars, fileVars
<1>2. CASE Reserve(s) /\ dRow' = dRow
  BY <1>2, Frame DEF Reserve, ppVars, fileVars
<1>3. ASSUME Reserve(s), dRow' # dRow PROVE AcqInv'
  <2> DEFINE p == dPick[s]
  <2>1. /\ p \in Rows /\ dBook[p[1]] # "Snatched" /\ (\A q \in RowsOf(p[1]) : dRow[q] # "Snatched")
        /\ dRow' = [dRow EXCEPT ![p] = "Matched"]
        /\ UNCHANGED <<dBook, dLib, dPP, dAt, dTodo, dReady, dClash>>
    BY <1>3 DEF Reserve, ppVars, fileVars, AcqInv, PicksAreRows
  <2>2. dRow[p] # "Snatched" /\ p[1] \in Books /\ dRow'[p] = "Matched" /\ \A q \in Rows \ {p} : dRow'[q] = dRow[q]
    BY <2>1, RowShape DEF RowsOf, AcqInv, TypeOK
  <2>3. ListsEnd' /\ TodoIsSnatched' /\ TodoIsUnchecked' /\ ReadyIsSnatched' /\ AbortedNeverImports'
    BY <2>1, <2>2 DEF AcqInv, ListsEnd, TodoIsSnatched, TodoIsUnchecked, ReadyIsSnatched, AbortedNeverImports,
         Importing
  <2>4. ImportIsHere' /\ SeedIsHere' /\ FolderIsBook'
    BY <2>1, <2>2 DEF AcqInv, ImportIsHere, SeedIsHere, FolderIsBook, Importing
  <2>5. SnatchedIsBacked'
    BY <2>1, <2>2 DEF AcqInv, SnatchedIsBacked, Backed, Clashed, RowsOf
  <2>6. QED BY <1>3, <2>3, <2>4, <2>5 DEF AcqInv
<1>4. ASSUME Send(s) PROVE AcqInv'
  <2> DEFINE p == dPick[s]
  <2>1. p \in Rows /\ p[1] \in Books /\ dReady \subseteq Rows /\ UNCHANGED <<dLib, dPP, dAt, dTodo, dReady>>
    BY <1>4, RowShape DEF Send, ppVars, fileVars, AcqInv, TypeOK, PicksAreRows
  <2>2. \A q \in Rows \ {p} : dRow'[q] = dRow[q]
    BY <1>4, <2>1 DEF Send, AcqInv, TypeOK
  <2>3. CASE dRow'[p] = "Snatched"
    <3>1. /\ dBook' = [dBook EXCEPT ![p[1]] = "Snatched"] /\ dClash' = dClash /\ dRow'[p] = "Snatched"
      BY <1>4, <2>1, <2>3 DEF Send, AcqInv, TypeOK
    <3>2. ListsEnd' /\ TodoIsSnatched' /\ TodoIsUnchecked'
      BY <2>1, <2>2, <3>1 DEF AcqInv, ListsEnd, TodoIsSnatched, TodoIsUnchecked, Importing, UnderWay
    <3>3. ReadyIsSnatched' /\ AbortedNeverImports'
      BY <2>1, <2>2, <3>1 DEF AcqInv, ReadyIsSnatched, AbortedNeverImports
    <3>4. ImportIsHere' /\ SeedIsHere' /\ FolderIsBook'
      BY <2>1, <2>2, <3>1 DEF AcqInv, ImportIsHere, SeedIsHere, FolderIsBook, Importing
    <3>5. SnatchedIsBacked'
      BY <2>1, <2>2, <3>1 DEF AcqInv, TypeOK, SnatchedIsBacked, Backed, Clashed, RowsOf, UnderWay
    <3>6. QED BY <3>2, <3>3, <3>4, <3>5 DEF AcqInv
  <2>4. CASE dRow'[p] # "Snatched"
    <3>1. /\ dBook' = dBook /\ dRow'[p] = "Failed" /\ (dRow[p] = "Snatched" => p \in dClash')
          /\ (dRow[p] \in UnderWay /\ dBook[p[1]] = "Snatched" => p \in dClash') /\ dClash \subseteq dClash'
      BY <1>4, <2>1, <2>4 DEF Send, AcqInv, TypeOK
    <3>2. ListsEnd' /\ TodoIsSnatched' /\ TodoIsUnchecked'
      BY <2>1, <2>2, <3>1 DEF AcqInv, ListsEnd, TodoIsSnatched, TodoIsUnchecked, Importing, UnderWay
    <3>3. ReadyIsSnatched' /\ AbortedNeverImports'
      BY <2>1, <2>2, <3>1 DEF AcqInv, ReadyIsSnatched, AbortedNeverImports
    <3>4. ImportIsHere' /\ SeedIsHere' /\ FolderIsBook'
      BY <2>1, <2>2, <3>1 DEF AcqInv, ImportIsHere, SeedIsHere, FolderIsBook, Importing
    <3>5. SnatchedIsBacked'
      BY <2>1, <2>2, <3>1 DEF AcqInv, SnatchedIsBacked, Backed, Clashed, RowsOf
    <3>6. QED BY <3>2, <3>3, <3>4, <3>5 DEF AcqInv
  <2>5. QED BY <2>3, <2>4
<1>5. QED BY <1>1, <1>2, <1>3, <1>4 DEF Searching

-----------------------------------------------------------------------------
(* Clients, the clock, users, and the end of a run. *)

LEMMA OutsideInv ==
  ASSUME AcqInv, TypeOK', PicksAreRows',
         \/ \E p \in Rows : Download(p) \/ JobEnds(p) \/ Grow(p)
         \/ \E b \in Books : Ask(b) \/ DropFolder(b)
         \/ Crash
  PROVE  AcqInv'
<1>1. CASE \/ \E p \in Rows : Download(p) \/ JobEnds(p) \/ Grow(p)
           \/ \E b \in Books : DropFolder(b)
  BY <1>1, Frame DEF Download, JobEnds, Grow, DropFolder, ppVars, fileVars, searchVars
<1>2. ASSUME NEW b \in Books, Ask(b) PROVE AcqInv'
  <2>1. dBook' = [dBook EXCEPT ![b] = "Wanted"] /\ UNCHANGED <<dRow, dLib, dPP, dAt, dTodo, dReady, dClash>>
    BY <1>2 DEF Ask, ppVars, fileVars, searchVars
  <2>2. SnatchedIsBacked'
    BY <2>1 DEF AcqInv, TypeOK, SnatchedIsBacked, Backed, Clashed, RowsOf
  <2>3. QED
    BY <2>1, <2>2 DEF AcqInv, ListsEnd, TodoIsSnatched, TodoIsUnchecked, ReadyIsSnatched, ImportIsHere,
         SeedIsHere, FolderIsBook, AbortedNeverImports, Importing
<1>3. ASSUME Crash PROVE AcqInv'
  <2>1. /\ dPP' = "idle" /\ dTodo' = {} /\ dReady' = {} /\ UNCHANGED <<dBook, dRow, dLib, dClash>>
    BY <1>3 DEF Crash, Break, fileVars, searchVars
  <2>2. QED
    BY <2>1 DEF AcqInv, ListsEnd, TodoIsSnatched, TodoIsUnchecked, ReadyIsSnatched, ImportIsHere, SeedIsHere,
         FolderIsBook, AbortedNeverImports, SnatchedIsBacked, Backed, Clashed, RowsOf, Importing
<1>4. QED BY <1>1, <1>2, <1>3

-----------------------------------------------------------------------------
(* The run of the post-processor. *)

(* A step that only turns to the next part of the run. *)
LEMMA TurnInv ==
  ASSUME AcqInv, TypeOK', PicksAreRows',
         Compile \/ Folders \/ Count \/ Schedule \/ Clean \/ (\E p \in Rows : NoMatch(p))
  PROVE  AcqInv'
<1>1. UNCHANGED <<dBook, dRow, dLib, dTodo, dClash>>
  BY DEF Compile, Folders, Count, Schedule, Clean, NoMatch, fileVars, searchVars
<1>2. dReady' \subseteq dReady /\ ~Importing' /\ dPP' # "check" /\ dPP' # "folderextras"
  BY DEF Compile, Folders, Count, Schedule, Clean, NoMatch, Turn, Importing
<1>3. ListsEnd'
  BY <1>1 DEF AcqInv, ListsEnd, Compile, Folders, Count, Schedule, Clean, NoMatch, Turn, Importing
<1>4. TodoIsSnatched' /\ TodoIsUnchecked' /\ ImportIsHere' /\ SeedIsHere' /\ FolderIsBook' /\ AbortedNeverImports'
  BY <1>1, <1>2 DEF AcqInv, TodoIsSnatched, TodoIsUnchecked, ImportIsHere, SeedIsHere, FolderIsBook,
       AbortedNeverImports
<1>5. ReadyIsSnatched'
  BY <1>1, <1>2 DEF AcqInv, ReadyIsSnatched
<1>6. SnatchedIsBacked'
  BY <1>1 DEF AcqInv, SnatchedIsBacked, Backed, Clashed, RowsOf
<1>7. QED BY <1>3, <1>4, <1>5, <1>6 DEF AcqInv

LEMMA StartInv ==
  ASSUME AcqInv, TypeOK', PicksAreRows', StartRun
  PROVE  AcqInv'
<1>1. /\ dPP' = "check" /\ dReady' = {} /\ dTodo' = WithStatus({"Snatched"}) \X {"Snatched"}
      /\ UNCHANGED <<dBook, dRow, dLib, dClash>>
  BY DEF StartRun, fileVars, searchVars
<1>2. \A p \in Rows, status \in UnderWay : <<p, status>> \in dTodo' => dRow[p] = "Snatched" /\ status = "Snatched"
  BY <1>1 DEF WithStatus
<1>3. "Snatched" \in UnderWay /\ "Seeding" \in UnderWay
  BY DEF UnderWay
<1>4. TodoIsSnatched' /\ TodoIsUnchecked'
  BY <1>1, <1>2, <1>3 DEF TodoIsSnatched, TodoIsUnchecked
<1>5. SeedIsHere'
  BY <1>1, <1>2, <1>3 DEF AcqInv, SeedIsHere
<1>6. QED
  BY <1>1, <1>4, <1>5 DEF AcqInv, ListsEnd, ReadyIsSnatched, ImportIsHere, FolderIsBook, AbortedNeverImports,
       SnatchedIsBacked, Backed, Clashed, RowsOf, Importing

LEMMA CheckInv ==
  ASSUME AcqInv, TypeOK', PicksAreRows', NEW p \in Rows, Check(p)
  PROVE  AcqInv'
<1>1. /\ dPP = "check" /\ dPP' = "check" /\ <<p, "Snatched">> \in dTodo /\ dTodo' = dTodo \ {<<p, "Snatched">>}
      /\ UNCHANGED <<dBook, dLib, dAt, dClash>>
  BY DEF Check, fileVars, searchVars
<1>2. p \notin dReady /\ dRow[p] # "Aborted" /\ (dRow[p] = "Snatched" \/ p \in dClash)
  BY <1>1 DEF AcqInv, TodoIsUnchecked, TodoIsSnatched, UnderWay
<1>3. \A q \in Rows \ {p} : dRow'[q] = dRow[q] /\ (q \in dReady' <=> q \in dReady)
  BY DEF Check, Aborting, AcqInv, TypeOK
<1>4. \/ dRow'[p] = "Aborted" /\ p \notin dReady'
      \/ dRow'[p] = dRow[p]
  BY <1>2 DEF Check, Aborting, Ready, AcqInv, TypeOK
<1>5. dReady' \subseteq Rows /\ dTodo' \subseteq Rows \X UnderWay
  BY DEF TypeOK
<1>6. \A q \in Rows, status \in UnderWay : <<q, status>> \in dTodo' =>
        status = "Snatched" /\ <<q, status>> \in dTodo /\ q # p
  BY <1>1 DEF AcqInv, TodoIsUnchecked
<1>7. "Snatched" \in UnderWay /\ "Seeding" \in UnderWay /\ "Aborted" \in UnderWay
  BY DEF UnderWay
<1>8. TodoIsSnatched'
  BY <1>1, <1>3, <1>6, <1>7 DEF AcqInv, TodoIsSnatched
<1>9. TodoIsUnchecked'
  BY <1>1, <1>3, <1>6 DEF AcqInv, TodoIsUnchecked
<1>10. ReadyIsSnatched' /\ AbortedNeverImports'
  BY <1>1, <1>2, <1>3, <1>4, <1>5 DEF AcqInv, ReadyIsSnatched, AbortedNeverImports
<1>11. SeedIsHere'
  BY <1>1, <1>3, <1>4, <1>6, <1>7 DEF AcqInv, SeedIsHere
<1>12. SnatchedIsBacked'
  BY <1>1, <1>3, <1>4, <1>7 DEF AcqInv, SnatchedIsBacked, Backed, Clashed, RowsOf
<1>13. QED
  BY <1>1, <1>8, <1>9, <1>10, <1>11, <1>12 DEF AcqInv, ListsEnd, ImportIsHere, FolderIsBook, Importing

LEMMA RejectInv ==
  ASSUME AcqInv, TypeOK', PicksAreRows', NEW p \in Rows, Reject(p)
  PROVE  AcqInv'
<1>1. /\ dPP = "check" /\ dPP' = "check" /\ <<p, "Snatched">> \in dTodo /\ dTodo' = dTodo \ {<<p, "Snatched">>}
      /\ dBook' = Unwant(p[1]) /\ dRow' = [dRow EXCEPT ![p] = "Failed"]
      /\ UNCHANGED <<dLib, dAt, dReady, dClash>>
  BY DEF Reject, searchVars
<1>2. p \notin dReady /\ p[1] \in Books
  BY <1>1, RowShape DEF AcqInv, TodoIsUnchecked, UnderWay
<1>3. dRow'[p] = "Failed" /\ (\A q \in Rows \ {p} : dRow'[q] = dRow[q]) /\ dReady \subseteq Rows
  BY <1>1 DEF AcqInv, TypeOK
<1>4. dBook'[p[1]] # "Snatched" /\ \A b \in Books \ {p[1]} : dBook'[b] = dBook[b]
  BY <1>1, <1>2 DEF Unwant, AcqInv, TypeOK
<1>5. \A q \in Rows, status \in UnderWay : <<q, status>> \in dTodo' =>
        status = "Snatched" /\ <<q, status>> \in dTodo /\ q # p
  BY <1>1 DEF AcqInv, TodoIsUnchecked
<1>6. "Snatched" \in UnderWay /\ "Seeding" \in UnderWay
  BY DEF UnderWay
<1>7. TodoIsSnatched'
  BY <1>1, <1>3, <1>5, <1>6 DEF AcqInv, TodoIsSnatched
<1>8. TodoIsUnchecked'
  BY <1>1, <1>3, <1>5 DEF AcqInv, TodoIsUnchecked
<1>9. ReadyIsSnatched' /\ AbortedNeverImports'
  BY <1>1, <1>2, <1>3 DEF AcqInv, ReadyIsSnatched, AbortedNeverImports
<1>10. SeedIsHere'
  BY <1>1, <1>3, <1>5, <1>6 DEF AcqInv, SeedIsHere
<1>11. SnatchedIsBacked'
  BY <1>1, <1>3, <1>4 DEF AcqInv, SnatchedIsBacked, Backed, Clashed, RowsOf
<1>12. QED
  BY <1>1, <1>7, <1>8, <1>9, <1>10, <1>11 DEF AcqInv, ListsEnd, ImportIsHere, FolderIsBook, Importing

LEMMA ImportInv ==
  ASSUME AcqInv, TypeOK', PicksAreRows', NEW p \in Rows, NEW q \in Rows, Import(p, q)
  PROVE  AcqInv'
<1>1. /\ dPP \in {"import", "second"} /\ dPP' = "record" /\ dAt' = <<p, q>> /\ dReady' = dReady \ {p}
      /\ UNCHANGED <<dBook, dRow, dTodo, dClash>>
  BY DEF Import, Turn, searchVars
<1>2. Alike(p, q) /\ p[1] \in Books
  BY CandidatesAreAlike, RowShape DEF Import
<1>3. q[2] \in dLib'[p[1]] /\ \A b \in Books : dLib[b] \subseteq dLib'[b]
  BY <1>2 DEF Import, AcqInv, TypeOK
<1>4. ImportIsHere'
  BY <1>1, <1>2, <1>3 DEF ImportIsHere, Alike
<1>5. SeedIsHere'
  BY <1>1, <1>3, RowShape DEF AcqInv, SeedIsHere
<1>6. SnatchedIsBacked'
  BY <1>1, <1>3 DEF AcqInv, SnatchedIsBacked, Backed, Clashed, RowsOf
<1>7. QED
  BY <1>1, <1>4, <1>5, <1>6 DEF AcqInv, ListsEnd, TodoIsSnatched, TodoIsUnchecked, ReadyIsSnatched, FolderIsBook,
       AbortedNeverImports, Importing

LEMMA FailImportInv ==
  ASSUME AcqInv, TypeOK', PicksAreRows', NEW p \in Rows, NEW q \in Rows, FailImport(p, q)
  PROVE  AcqInv'
<1>1. /\ {dPP, dPP'} \subseteq {"import", "second"} /\ dReady' = dReady \ {p} /\ p[1] \in Books
      /\ dBook' = [dBook EXCEPT ![p[1]] = "Wanted"] /\ UNCHANGED <<dLib, dTodo, dClash>>
  BY RowShape DEF FailImport, Turn, searchVars
<1>2. /\ \A r \in Rows \ {p} : dRow'[r] = dRow[r]
      /\ dRow'[p] = dRow[p] \/ dRow'[p] = "Failed"
      /\ dReady \subseteq Rows /\ dTodo = {}
  BY <1>1 DEF FailImport, SnatchedFails, AcqInv, TypeOK, ListsEnd
<1>3. dBook'[p[1]] # "Snatched" /\ \A b \in Books \ {p[1]} : dBook'[b] = dBook[b]
  BY <1>1 DEF AcqInv, TypeOK
<1>4. ReadyIsSnatched' /\ AbortedNeverImports'
  BY <1>1, <1>2 DEF AcqInv, ReadyIsSnatched, AbortedNeverImports
<1>5. SnatchedIsBacked'
  BY <1>1, <1>2, <1>3 DEF AcqInv, SnatchedIsBacked, Backed, Clashed, RowsOf
<1>6. QED
  BY <1>1, <1>2, <1>4, <1>5 DEF AcqInv, ListsEnd, TodoIsSnatched, TodoIsUnchecked, ImportIsHere, SeedIsHere,
       FolderIsBook, Importing

(* The steps that settle what was imported. *)
LEMMA SettleInv ==
  ASSUME AcqInv, TypeOK', PicksAreRows', Record \/ Extras \/ AskClient
  PROVE  AcqInv'
<1> DEFINE p == dAt[1]
<1>1. /\ Importing /\ Importing' /\ UNCHANGED <<dLib, dAt, dTodo, dReady, dClash>>
      /\ dPP' # "check" /\ dPP' # "folderextras" /\ dTodo = {}
  BY DEF Record, Extras, AskClient, Importing, fileVars, searchVars, AcqInv, ListsEnd
<1>2. p \in Rows /\ p[1] \in Books /\ p \notin dReady /\ p[2] \in dLib[p[1]]
  BY <1>1, RowShape DEF AcqInv, ImportIsHere, Alike
<1>3. \A r \in Rows \ {p} : dRow'[r] = dRow[r]
  BY <1>2 DEF Record, Extras, AskClient, Aborting, AcqInv, TypeOK
<1>4. \A b \in Books \ {p[1]} : dBook'[b] = dBook[b]
  BY DEF Record, Extras, AskClient, AcqInv, TypeOK
<1>5. dReady \subseteq Rows
  BY DEF AcqInv, TypeOK
<1>6. ReadyIsSnatched'
  BY <1>1, <1>2, <1>3, <1>5 DEF AcqInv, ReadyIsSnatched
<1>7. AbortedNeverImports'
  BY <1>1, <1>2, <1>3 DEF AcqInv, AbortedNeverImports
<1>8. SnatchedIsBacked'
  BY <1>1, <1>2, <1>3, <1>4 DEF AcqInv, SnatchedIsBacked, Backed, Clashed, RowsOf
<1>9. SeedIsHere' /\ ImportIsHere'
  BY <1>1, <1>2, <1>3 DEF AcqInv, SeedIsHere, ImportIsHere, Importing
<1>10. ListsEnd' /\ TodoIsSnatched' /\ TodoIsUnchecked' /\ FolderIsBook'
  BY <1>1 DEF AcqInv, ListsEnd, TodoIsSnatched, TodoIsUnchecked, FolderIsBook, Importing
<1>11. QED BY <1>6, <1>7, <1>8, <1>9, <1>10 DEF AcqInv

(* The folders named after books. *)
LEMMA FolderInv ==
  ASSUME AcqInv, TypeOK', PicksAreRows', FolderExtras \/ (\E b \in Books : ProcessBook(b) \/ FailBook(b))
  PROVE  AcqInv'
<1>1. /\ dPP \in {"folders", "folderextras"} /\ dPP' \in {"folders", "folderextras"}
      /\ dTodo = {} /\ dReady = {} /\ UNCHANGED <<dTodo, dReady, dClash>>
  BY DEF FolderExtras, ProcessBook, FailBook, ppVars, searchVars, AcqInv, ListsEnd, Importing
<1>2. FolderIsBook' /\ \A p \in Rows : dRow'[p] = "Seeding" => dRow[p] = "Seeding"
  BY DEF FolderExtras, ProcessBook, FailBook, FolderIsBook, AcqInv, TypeOK, ppVars
<1>3. \A b \in Books : dLib[b] \subseteq dLib'[b]
  BY DEF FolderExtras, ProcessBook, FailBook, AcqInv, TypeOK
<1>4. SeedIsHere'
  BY <1>1, <1>2, <1>3, RowShape DEF AcqInv, SeedIsHere
<1>5. SnatchedIsBacked'
  <2>1. CASE FolderExtras
    <3>1. dAt \in Books /\ dBook' = [dBook EXCEPT ![dAt] = "Open"] /\ UNCHANGED <<dRow, dLib, dClash>>
      BY <2>1 DEF FolderExtras, AcqInv, FolderIsBook, searchVars
    <3>2. QED BY <3>1 DEF AcqInv, TypeOK, SnatchedIsBacked, Backed, Clashed, RowsOf
  <2>2. ASSUME NEW b \in Books, ProcessBook(b) PROVE SnatchedIsBacked'
    <3>1. /\ dLib'[b] # {} /\ UNCHANGED <<dBook, dClash>>
          /\ \A c \in Books \ {b} : \A p \in RowsOf(c) : dRow'[p] = dRow[p]
          /\ \A c \in Books \ {b} : dLib'[c] = dLib[c]
      BY <2>2 DEF ProcessBook, AcqInv, TypeOK, RowsOf, searchVars
    <3>2. QED BY <3>1 DEF AcqInv, SnatchedIsBacked, Backed, Clashed, RowsOf
  <2>3. ASSUME NEW b \in Books, FailBook(b) PROVE SnatchedIsBacked'
    <3>1. /\ dBook'[b] # "Snatched" /\ UNCHANGED <<dLib, dClash>>
          /\ \A c \in Books \ {b} : dBook'[c] = dBook[c] /\ \A p \in RowsOf(c) : dRow'[p] = dRow[p]
      BY <2>3 DEF FailBook, AcqInv, TypeOK, RowsOf, searchVars
    <3>2. QED BY <3>1 DEF AcqInv, SnatchedIsBacked, Backed, Clashed, RowsOf
  <2>4. QED BY <2>1, <2>2, <2>3
<1>6. QED
  BY <1>1, <1>2, <1>4, <1>5 DEF AcqInv, ListsEnd, TodoIsSnatched, TodoIsUnchecked, ReadyIsSnatched, ImportIsHere,
       AbortedNeverImports, Importing

LEMMA ManageInv ==
  ASSUME AcqInv, TypeOK', PicksAreRows', Manage
  PROVE  AcqInv'
<1>1. /\ dPP = "folders" /\ dPP' = "manage" /\ dReady = {} /\ UNCHANGED <<dBook, dRow, dLib, dReady, dClash>>
      /\ dTodo' = {<<p, dRow[p]>> : p \in WithStatus(UnderWay)}
  BY DEF Manage, MarkUnprocessed, fileVars, searchVars, AcqInv, ListsEnd, Importing
<1>2. \A p \in Rows, status \in UnderWay : <<p, status>> \in dTodo' => dRow[p] = status
  BY <1>1
<1>3. "Snatched" \in UnderWay /\ "Seeding" \in UnderWay
  BY DEF UnderWay
<1>4. TodoIsSnatched' /\ SeedIsHere'
  BY <1>1, <1>2, <1>3 DEF AcqInv, TodoIsSnatched, SeedIsHere
<1>5. QED
  BY <1>1, <1>4 DEF AcqInv, ListsEnd, TodoIsUnchecked, ReadyIsSnatched, ImportIsHere, FolderIsBook,
       AbortedNeverImports, SnatchedIsBacked, Backed, Clashed, RowsOf, Importing

(* One row left over: it is given up with its book, or moves on. *)
LEMMA ManageStatusInv ==
  ASSUME AcqInv, TypeOK', PicksAreRows', NEW p \in Rows, NEW status \in UnderWay, ManageStatus(p, status)
  PROVE  AcqInv'
<1>1. /\ dPP = "manage" /\ dPP' = "manage" /\ dReady = {} /\ <<p, status>> \in dTodo
      /\ dTodo' = dTodo \ {<<p, status>>} /\ UNCHANGED <<dLib, dReady, dClash>> /\ p[1] \in Books
  BY RowShape DEF ManageStatus, searchVars, AcqInv, ListsEnd, Importing
<1>2. \A b \in Books \ {p[1]} : Unwant(p[1])[b] = dBook[b]
  BY DEF Unwant, AcqInv, TypeOK
<1>3. Unwant(p[1])[p[1]] # "Snatched"
  BY <1>1 DEF Unwant, AcqInv, TypeOK
<1>4. /\ \A q \in Rows \ {p} : dRow'[q] = dRow[q]
      /\ dRow'[p] = "Seeding" => dRow[p] = "Seeding"
      /\ status # "Snatched" /\ dRow[p] = "Snatched" => dRow'[p] = "Snatched"
      /\ \/ dBook' = Unwant(p[1])
         \/ dBook' = dBook /\ \/ dRow'[p] \in UnderWay
                              \/ dRow'[p] = dRow[p]
                              \/ dLib[p[1]] # {}
  <2>1. CASE status = "Snatched" /\ Answered(p)
    <3>1. CASE TimedOut(p)
      <4>1. dBook' = Unwant(p[1]) /\ dRow' = SnatchedFails(p, Aborting(p))
        BY <2>1, <3>1 DEF Answered, Abort
      <4>2. QED BY <2>1, <4>1 DEF SnatchedFails, Aborting, AcqInv, TypeOK
    <3>2. CASE ~TimedOut(p)
      <4>1. dBook' = dBook /\ dRow' = Aborting(p)
        BY <2>1, <3>2 DEF Answered
      <4>2. QED BY <2>1, <4>1 DEF Aborting, AcqInv, TypeOK, UnderWay
    <3>3. QED BY <3>1, <3>2
  <2>2. CASE status = "Snatched" /\ Silent(p)
    <3>1. dBook' = Unwant(p[1]) /\ dRow' = SnatchedFails(p, dRow)
      BY <2>2 DEF Silent
    <3>2. QED BY <2>2, <3>1 DEF SnatchedFails, AcqInv, TypeOK
  <2>3. CASE status = "Aborted"
    <3>1. dBook' = Unwant(p[1]) /\ dRow' = [dRow EXCEPT ![p] = IF @ = "Aborted" THEN "Failed" ELSE @]
      BY <2>3 DEF ManageStatus, ManageAborted, Abort
    <3>2. QED BY <2>3, <3>1 DEF AcqInv, TypeOK
  <2>4. CASE status = "Seeding"
    <3>1. /\ dBook' = dBook
          /\ \/ dRow' = [dRow EXCEPT ![p] = IF dRow[p] # "Seeding" THEN @
                                            ELSE IF dJob[p] = "gone" THEN "Snatched"
                                            ELSE IF dJob[p] = "finished" THEN "Processed" ELSE @]
             \/ dRow' = dRow
      BY <2>4 DEF ManageStatus, ManageSeeding
    <3>2. p[2] \in dLib[p[1]]
      BY <1>1, <2>4 DEF AcqInv, SeedIsHere
    <3>3. CASE dRow' = dRow
      BY <2>4, <3>1, <3>3
    <3>4. CASE dRow' # dRow
      BY <2>4, <3>1, <3>2, <3>4 DEF AcqInv, TypeOK
    <3>5. QED BY <3>3, <3>4
  <2>5. CASE UNCHANGED <<dBook, dRow>>
    BY <2>5
  <2>6. status = "Snatched" => Answered(p) \/ Silent(p) \/ UNCHANGED <<dBook, dRow>>
    BY DEF ManageStatus, ManageSnatched
  <2>7. QED BY <2>1, <2>2, <2>3, <2>4, <2>5, <2>6 DEF UnderWay
<1>5. \A b \in Books \ {p[1]} : dBook'[b] = dBook[b]
  BY <1>2, <1>4
<1>6. TodoIsSnatched' /\ SeedIsHere'
  BY <1>1, <1>4 DEF AcqInv, TodoIsSnatched, SeedIsHere
<1>7. SnatchedIsBacked'
  BY <1>1, <1>3, <1>4, <1>5 DEF AcqInv, SnatchedIsBacked, Backed, Clashed, RowsOf
<1>8. QED
  BY <1>1, <1>6, <1>7 DEF AcqInv, ListsEnd, TodoIsUnchecked, ReadyIsSnatched, ImportIsHere, FolderIsBook,
       AbortedNeverImports, Importing

LEMMA RunInv ==
  ASSUME AcqInv, TypeOK', PicksAreRows', Run
  PROVE  AcqInv'
BY TurnInv, StartInv, CheckInv, RejectInv, ImportInv, FailImportInv, SettleInv, FolderInv, ManageInv,
   ManageStatusInv DEF Run

-----------------------------------------------------------------------------
LEMMA NextAcq == ASSUME AcqInv, [Next]_vars PROVE AcqInv'
<1>1. TypeOK /\ PicksAreRows /\ ImportIsHere /\ FolderIsBook
  BY DEF AcqInv
<1>2. CASE Run
  BY <1>1, <1>2, RunTypes, RunInv
<1>3. CASE \E s \in Searchers : Searching(s)
  BY <1>1, <1>3, SearchTypes, SearchInv
<1>4. CASE \/ \E p \in Rows : Download(p) \/ JobEnds(p) \/ Grow(p)
           \/ \E b \in Books : Ask(b) \/ DropFolder(b)
           \/ Crash
  BY <1>1, <1>4, OutsideTypes, OutsideInv
<1>5. CASE UNCHANGED vars
  <2>1. TypeOK' /\ PicksAreRows'
    BY <1>1, <1>5 DEF vars, TypeOK, PicksAreRows
  <2>2. QED BY <1>5, <2>1, Frame DEF vars
<1>6. QED BY <1>2, <1>3, <1>4, <1>5 DEF Next

(* What leaves the download directory, step by step.                       *)
LEMMA StepsLoseNothing ==
  ASSUME AcqInv, [Next]_vars
  PROVE  LosesNothing
<1>1. CASE dDisk \subseteq dDisk'
  BY <1>1 DEF LosesNothing
<1>2. CASE dDisk' # dDisk /\ \E p \in Rows : Reject(p)
  <2>1. PICK p \in Rows : Reject(p)
    BY <1>2
  <2>2. dRow'[p] = "Failed" /\ \A q \in dDisk \ dDisk' : q = p
    BY <2>1 DEF Reject, AcqInv, TypeOK
  <2>3. QED BY <2>2 DEF LosesNothing, FailedNow, Alike
<1>3. CASE \E p, q \in Rows : FailImport(p, q)
  <2>1. PICK p \in Rows, q \in Rows : FailImport(p, q)
    BY <1>3
  <2>2. Alike(p, q) /\ \A r \in dDisk \ dDisk' : r = q
    BY <2>1, CandidatesAreAlike DEF FailImport
  <2>3. FailedNow(p)
    BY <2>1 DEF FailImport, Turn, SnatchedFails, FailedNow, AcqInv, TypeOK, ReadyIsSnatched
  <2>4. QED BY <2>2, <2>3 DEF LosesNothing
<1>4. CASE Clean
  <2>1. PICK p \in Rows, q \in Rows : dAt = <<p, q>> /\ q[2] \in dLib[p[1]]
    BY <1>4 DEF Clean, AcqInv, ImportIsHere, Importing
  <2>2. p[1] \in Books /\ dLib' = dLib /\ \A r \in dDisk \ dDisk' : r = q
    BY <1>4, <2>1, RowShape DEF Clean, ToDelete
  <2>3. QED BY <2>1, <2>2 DEF LosesNothing
<1>5. CASE \E p \in Rows, status \in UnderWay : ManageStatus(p, status)
  <2>1. PICK p \in Rows, status \in UnderWay : ManageStatus(p, status)
    BY <1>5
  <2>2. CASE status = "Seeding"
    <3>1. p[2] \in dLib[p[1]]
      BY <2>1, <2>2 DEF ManageStatus, AcqInv, SeedIsHere
    <3>2. dLib' = dLib /\ p[1] \in Books /\ \A r \in dDisk \ dDisk' : r = p
      BY <2>1, <2>2, RowShape DEF ManageStatus, ManageSeeding
    <3>3. QED BY <3>1, <3>2 DEF LosesNothing
  <2>3. CASE status = "Snatched" /\ Silent(p) /\ dDisk' # dDisk
    <3>1. dRow' = SnatchedFails(p, dRow) /\ \A r \in dDisk \ dDisk' : r = p
      BY <2>3 DEF Silent, ClientFolder
    <3>2. dRow[p] = "Snatched" \/ p \in dClash
      BY <2>1, <2>3 DEF ManageStatus, AcqInv, TodoIsSnatched
    <3>3. FailedNow(p)
      BY <3>1, <3>2 DEF SnatchedFails, FailedNow, AcqInv, TypeOK
    <3>4. QED BY <3>1, <3>3 DEF LosesNothing, Alike
  <2>4. CASE dDisk' = dDisk
    BY <2>4 DEF LosesNothing
  <2>5. QED
    BY <2>1, <2>2, <2>3, <2>4 DEF ManageStatus, ManageSnatched, Answered, ManageAborted, Abort, UnderWay
<1>6. CASE Next /\ ~\E p \in Rows : Reject(p)
  <2>1. CASE \/ StartRun \/ Compile \/ Record \/ Extras \/ AskClient \/ Folders \/ FolderExtras
             \/ Manage \/ Count \/ Schedule \/ Crash
    <3>1. dDisk' = dDisk
      BY <2>1 DEF StartRun, Compile, Record, Extras, AskClient, Folders, FolderExtras, Manage, Count, Schedule,
           Crash, fileVars
    <3>2. QED BY <1>1, <3>1
  <2>2. CASE \/ \E p \in Rows : Check(p) \/ NoMatch(p) \/ (\E q \in Rows : Import(p, q))
             \/ \E b \in Books : ProcessBook(b) \/ FailBook(b)
    BY <1>1, <2>2 DEF Check, NoMatch, Import, ProcessBook, FailBook, fileVars
  <2>3. CASE \E s \in Searchers : Searching(s)
    <3>1. PICK s \in Searchers : Searching(s)
      BY <2>3
    <3>2. dDisk' = dDisk
      BY <3>1 DEF Searching, List, Reserve, Send, Wake, Pass, FindBest, fileVars
    <3>3. QED BY <1>1, <3>2
  <2>4. CASE \/ \E p \in Rows : Download(p) \/ JobEnds(p) \/ Grow(p)
             \/ \E b \in Books : Ask(b) \/ DropFolder(b)
    BY <1>1, <2>4 DEF Download, JobEnds, Grow, Ask, DropFolder, fileVars
  <2>5. CASE Run
    BY <1>3, <1>4, <1>5, <1>6, <2>1, <2>2, <2>5 DEF Run
  <2>6. QED BY <1>6, <2>1, <2>3, <2>4, <2>5 DEF Next
<1>7. QED BY <1>1, <1>2, <1>6 DEF vars

-----------------------------------------------------------------------------
(* One search thread. *)

LEMMA OneSearchSearches ==
  ASSUME AcqInv, NoClash, \A s, t \in Searchers : s = t, NEW s \in Searchers, Searching(s)
  PROVE  NoClash'
<1>1. CASE List(s) \/ Wake(s) \/ (\E b \in Books : Pass(s, b) \/ (\E r \in Releases : FindBest(s, b, r)))
  <2>1. CASE List(s) \/ Wake(s)
    BY <2>1 DEF List, Wake, Next1, NoClash, SendIsFresh, AcqInv, TypeOK
  <2>2. CASE \E b \in Books : Pass(s, b)
    BY <2>2 DEF Pass, NoClash, SendIsFresh, AcqInv, TypeOK
  <2>3. CASE \E b \in Books, r \in Releases : FindBest(s, b, r)
    BY <2>3 DEF FindBest, NoClash, SendIsFresh, AcqInv, TypeOK
  <2>4. QED BY <1>1, <2>1, <2>2, <2>3
<1>2. CASE Reserve(s)
  <2>1. dPick[s] \in Rows /\ UNCHANGED <<dBook, dClash>>
    BY <1>2 DEF Reserve, AcqInv, PicksAreRows
  <2>2. dSearch'[s] = "send" => /\ dPick'[s] = dPick[s] /\ dRow'[dPick[s]] = "Matched"
                               /\ dBook[dPick[s][1]] # "Snatched"
    BY <1>2, <2>1 DEF Reserve, Next1, AcqInv, TypeOK
  <2>3. QED BY <2>1, <2>2 DEF NoClash, SendIsFresh, Fresh
<1>3. CASE Send(s)
  <2>1. dRow[dPick[s]] # "Snatched" /\ dBook[dPick[s][1]] # "Snatched"
    BY <1>3 DEF Send, NoClash, SendIsFresh, Fresh
  <2>2. dSearch'[s] # "send" /\ dClash' = dClash
    BY <1>3, <2>1 DEF Send, Next1, AcqInv, TypeOK
  <2>3. QED BY <2>2 DEF NoClash, SendIsFresh
<1>4. QED BY <1>1, <1>2, <1>3 DEF Searching

(* A run makes no book Snatched, no row Matched, and a row Snatched or Seeding only when it was in its hands. *)
LEMMA RunFreshens ==
  ASSUME AcqInv, Run, NEW p \in Rows, Fresh(p), <<p, "Snatched">> \notin dTodo
  PROVE  Fresh(p)'
<1> USE DEF AcqInv, TypeOK
<1> p[1] \in Books
  BY RowShape
<1>1. CASE \E q \in Rows : Check(q) \/ Reject(q) \/ NoMatch(q)
  <2>1. PICK q \in Rows : Check(q) \/ Reject(q) \/ NoMatch(q)
    BY <1>1
  <2>2. dBook'[p[1]] # "Snatched"
    BY <2>1 DEF Check, Reject, NoMatch, Unwant, Fresh
  <2>3. Check(q) \/ Reject(q) => q # p
    BY DEF Check, Reject
  <2>4. dRow'[p] = dRow[p]
    BY <2>1, <2>3 DEF Check, Reject, NoMatch, Aborting
  <2>5. Pursued(p)' => Pursued(p)
    BY <2>1, <2>3 DEF Check, Reject, NoMatch, Turn, Pursued, Importing
  <2>6. QED BY <2>2, <2>4, <2>5 DEF Fresh
<1>2. CASE \E q, r \in Rows : Import(q, r) \/ FailImport(q, r)
  <2>1. PICK q \in Rows, r \in Rows : Import(q, r) \/ FailImport(q, r)
    BY <1>2
  <2>2. dBook'[p[1]] # "Snatched"
    BY <2>1 DEF Import, FailImport, Fresh
  <2>3. dRow'[p] = dRow[p]
    BY <2>1 DEF Import, FailImport, SnatchedFails, Fresh
  <2>4. Pursued(p)' => Pursued(p)
    BY <2>1 DEF Import, FailImport, Turn, Pursued, Importing
  <2>5. QED BY <2>2, <2>3, <2>4 DEF Fresh
<1>3. CASE Record \/ Extras \/ AskClient \/ Clean
  <2>1. Importing /\ dReady' = dReady /\ (Pursued(p)' => Pursued(p))
    BY <1>3 DEF Record, Extras, AskClient, Clean, Pursued, Importing
  <2>2. dBook'[p[1]] # "Snatched"
    BY <1>3 DEF Record, Extras, AskClient, Clean, Fresh
  <2>3. dRow'[p] = dRow[p] \/ dRow'[p] = "Aborted"
    <3>1. CASE dAt[1] = p
      <4>1. dRow[p] \notin {"Snatched", "Processed"}
        BY <2>1, <3>1 DEF Fresh, Pursued
      <4>2. QED BY <1>3, <3>1, <4>1 DEF Record, Extras, AskClient, Aborting, Clean
    <3>2. CASE dAt[1] # p
      BY <1>3, <3>2 DEF Record, Extras, AskClient, Aborting, Clean
    <3>3. QED BY <3>1, <3>2
  <2>4. QED BY <2>1, <2>2, <2>3 DEF Fresh
<1>4. CASE StartRun \/ Compile \/ Folders \/ FolderExtras \/ Manage \/ Count \/ Schedule
  <2>1. dRow' = dRow /\ (Pursued(p)' => Pursued(p))
    BY <1>4 DEF StartRun, Compile, Folders, FolderExtras, Manage, MarkUnprocessed, Count, Schedule, Pursued, Importing
  <2>2. dBook'[p[1]] # "Snatched"
    BY <1>4 DEF StartRun, Compile, Folders, FolderExtras, Manage, Count, Schedule, Fresh
  <2>3. QED BY <2>1, <2>2 DEF Fresh
<1>5. CASE \E b \in Books : ProcessBook(b) \/ FailBook(b)
  <2>1. ~Pursued(p)'
    BY <1>5 DEF ProcessBook, FailBook, ppVars, ListsEnd, Pursued, Importing
  <2>2. dRow'[p] \in {"Matched", "Processed", "Aborted", "Failed"}
    BY <1>5 DEF ProcessBook, FailBook, RowsOf, Fresh
  <2>3. dBook'[p[1]] # "Snatched"
    BY <1>5 DEF ProcessBook, FailBook, Fresh
  <2>4. QED BY <2>1, <2>2, <2>3 DEF Fresh
<1>6. CASE \E q \in Rows, status \in UnderWay : ManageStatus(q, status)
  <2>1. PICK q \in Rows, status \in UnderWay : ManageStatus(q, status)
    BY <1>6
  <2>2. dBook'[p[1]] # "Snatched"
    <3>1. dBook' = dBook \/ dBook' = Unwant(q[1])
      BY <2>1 DEF ManageStatus, ManageSnatched, Answered, Silent, ManageAborted, ManageSeeding, Abort, UnderWay
    <3>2. QED BY <3>1 DEF Unwant, Fresh
  <2>3. status = "Snatched" => q # p
    BY <2>1 DEF ManageStatus
  <2>4. dRow'[p] \in {dRow[p], "Failed"}
    <3>1. CASE status = "Snatched"
      BY <2>1, <2>3, <3>1 DEF ManageStatus, ManageSnatched, Answered, Silent, Abort, Aborting, SnatchedFails
    <3>2. CASE status = "Aborted"
      BY <2>1, <3>2 DEF ManageStatus, ManageAborted, Abort
    <3>3. CASE status = "Seeding"
      BY <2>1, <3>3 DEF ManageStatus, ManageSeeding, Fresh
    <3>4. QED BY <3>1, <3>2, <3>3 DEF UnderWay
  <2>5. ~Pursued(p)'
    BY <2>1 DEF ManageStatus, ListsEnd, Pursued, Importing
  <2>6. QED BY <2>2, <2>4, <2>5 DEF Fresh
<1>7. QED BY <1>1, <1>2, <1>3, <1>4, <1>5, <1>6 DEF Run

LEMMA OneSearchRun ==
  ASSUME AcqInv, NoClash, Run
  PROVE  NoClash'
<1>1. UNCHANGED searchVars
  BY DEF Run, StartRun, Compile, Record, Extras, AskClient, Clean, Folders, FolderExtras, Manage, Count, Schedule,
       Check, Reject, NoMatch, Import, FailImport, ProcessBook, FailBook, ManageStatus, ppVars
<1>2. ASSUME NEW s \in Searchers, dSearch[s] = "send" PROVE Fresh(dPick[s])'
  <2>1. dPick[s] \in Rows /\ Fresh(dPick[s]) /\ dPick'[s] = dPick[s]
    BY <1>1, <1>2 DEF AcqInv, PicksAreRows, NoClash, SendIsFresh, searchVars
  <2>2. <<dPick[s], "Snatched">> \notin dTodo
    BY <2>1 DEF AcqInv, NoClash, TodoIsSnatched, Fresh
  <2>3. PICK p \in Rows : p = dPick[s]
    BY <2>1
  <2>4. Fresh(p)'
    BY <2>1, <2>2, <2>3, RunFreshens
  <2>5. QED BY <2>1, <2>3, <2>4 DEF Fresh, Pursued, Importing
<1>3. QED BY <1>1, <1>2 DEF searchVars, NoClash, SendIsFresh

LEMMA OneSearchOutside ==
  ASSUME AcqInv, NoClash,
         \/ \E p \in Rows : Download(p) \/ JobEnds(p) \/ Grow(p)
         \/ \E b \in Books : Ask(b) \/ DropFolder(b)
         \/ Crash \/ UNCHANGED vars
  PROVE  NoClash'
<1>1. dRow' = dRow /\ dClash' = dClash /\ \A p \in Rows : Pursued(p)' => Pursued(p)
  BY DEF Download, JobEnds, Grow, Ask, DropFolder, Crash, Break, vars, ppVars, searchVars, Pursued, Importing
<1>2. \A s \in Searchers : dSearch'[s] = "send" => dSearch[s] = "send" /\ dPick'[s] = dPick[s]
  BY DEF Download, JobEnds, Grow, Ask, DropFolder, Crash, vars, searchVars
<1>3. \A b \in Books : dBook'[b] = "Snatched" => dBook[b] = "Snatched"
  BY DEF Download, JobEnds, Grow, Ask, DropFolder, Crash, vars, AcqInv, TypeOK
<1>4. ASSUME NEW p \in Rows, Fresh(p) PROVE Fresh(p)'
  BY <1>1, <1>3, <1>4, RowShape DEF Fresh
<1>5. ASSUME NEW s \in Searchers, dSearch'[s] = "send" PROVE Fresh(dPick[s])'
  <2>1. PICK p \in Rows : p = dPick[s] /\ dPick'[s] = p /\ Fresh(p)
    BY <1>2, <1>5 DEF AcqInv, PicksAreRows, NoClash, SendIsFresh
  <2>2. Fresh(p)'
    BY <1>4, <2>1
  <2>3. QED BY <2>1, <2>2 DEF Fresh, Pursued, Importing
<1>6. QED BY <1>1, <1>5 DEF NoClash, SendIsFresh

-----------------------------------------------------------------------------
(* Scanning. *)

(* A scan that has found the book of a file is still at that file, and it is the file's title. *)
BookStates == {"none", "Skipped", "Wanted", "Snatched", "Open"}
ScanTypes(c) == yBook \in [Ids -> BookStates] /\ yFile \in [Ids -> Files[c] \cup {None}]
FilesRight == \A b \in Ids : yFile[b] # None => Title[yFile[b]] = Title[b]
HitIsHere(c) ==
  /\ yPC \in {"match", "link"} => yAt \in 1..Len(Tree[c])
  /\ yPC = "link" => Title[yHit] = Title[Tree[c][yAt]]
ScanInv(c) == ScanTypes(c) /\ FilesRight /\ HitIsHere(c)

LEMMA ScanConstants ==
  ASSUME NEW c \in Catalogues
  PROVE  /\ Tree[c] \in Seq(Files[c]) /\ None \notin Ids /\ None \notin Files[c]
         /\ \A f \in Files[c] : IdOf[f] # None => Title[IdOf[f]] = Title[f]
BY InstancesAssumption DEF Y!ScanAssumption

LEMMA InitScan == ASSUME NEW c \in Catalogues, Y(c)!Init PROVE ScanInv(c)
<1>1. yBook \in [Ids -> BookStates] BY DEF Y!Init, BookStates
<1>2. yFile = [b \in Ids |-> None] /\ yPC = "idle" BY DEF Y!Init
<1>3. QED BY <1>1, <1>2 DEF ScanInv, ScanTypes, FilesRight, HitIsHere

(* Most steps name no new file and leave the scan where it is. *)
LEMMA FilesStay ==
  ASSUME NEW c \in Catalogues, ScanInv(c), yBook' \in [Ids -> BookStates], yFile' \in [Ids -> Files[c] \cup {None}],
         \A b \in Ids : yFile'[b] \in {yFile[b], None},
         (yPC' \notin {"match", "link"}) \/ UNCHANGED <<yPC, yAt, yHit>>
  PROVE  ScanInv(c)'
<1>1. FilesRight' BY DEF ScanInv, FilesRight
<1>2. HitIsHere(c)' BY DEF ScanInv, HitIsHere
<1>3. QED BY <1>1, <1>2 DEF ScanInv, ScanTypes

LEMMA DeletesKeep ==
  ASSUME NEW c \in Catalogues, ScanTypes(c), NEW A, Y(c)!DeleteAuthors(A)
  PROVE  /\ yBook' \in [Ids -> BookStates] /\ yFile' \in [Ids -> Files[c] \cup {None}]
         /\ \A b \in Ids : yFile'[b] \in {yFile[b], None}
BY DEF Y!DeleteAuthors, ScanTypes, BookStates

LEMMA OutsideScan ==
  ASSUME NEW c \in Catalogues, ScanInv(c),
         \/ Y(c)!AddBook \/ Y(c)!AddLink \/ Y(c)!Loaded \/ Y(c)!LoadFails
         \/ \E a \in Authors : Y(c)!LoadAuthor(a)
         \/ \E b \in Ids : Y(c)!AddAuthor(b) \/ Y(c)!LoadBook(b) \/ Y(c)!RejectBook(b) \/ Y(c)!Snatch(b)
         \/ (\E f \in Files[c] : Y(c)!Lose(f)) \/ UNCHANGED yvars
  PROVE  ScanInv(c)'
<1>1. UNCHANGED <<yFile, yPC, yAt, yHit>>
  BY DEF Y!AddBook, Y!AddLink, Y!Loaded, Y!LoadFails, Y!LoadAuthor, Y!AddAuthor, Y!LoadBook, Y!RejectBook,
         Y!Snatch, Y!Lose, yvars, Y!bookVars, Y!scanVars
<1>2. yBook' \in [Ids -> BookStates]
  <2>1. CASE yBook' = yBook BY <2>1 DEF ScanInv, ScanTypes
  <2>2. CASE Y(c)!AddBook BY <2>2 DEF Y!AddBook, ScanInv, ScanTypes, BookStates
  <2>3. CASE \E b \in Ids : Y(c)!LoadBook(b) \/ Y(c)!Snatch(b)
    BY <2>3 DEF Y!LoadBook, Y!Snatch, ScanInv, ScanTypes, BookStates
  <2>4. QED
    BY <2>1, <2>2, <2>3 DEF Y!AddLink, Y!Loaded, Y!LoadFails, Y!LoadAuthor, Y!AddAuthor, Y!RejectBook,
       Y!Lose, yvars, Y!bookVars
<1>3. QED BY <1>1, <1>2, FilesStay DEF ScanInv, ScanTypes

LEMMA WalkScan ==
  ASSUME NEW c \in Catalogues, ScanInv(c),
         \/ Y(c)!Walk \/ Y(c)!Identify \/ Y(c)!WalkEnds \/ Y(c)!Prune \/ Y(c)!NoMatch
         \/ (\E remove \in BOOLEAN : Y(c)!StartScan(remove))
         \/ \E b \in Ids, f \in Files[c] : Y(c)!Blank(b, f)
  PROVE  ScanInv(c)'
<1>1. CASE Y(c)!Walk \/ Y(c)!WalkEnds \/ \E remove \in BOOLEAN : Y(c)!StartScan(remove)
  <2>1. UNCHANGED <<yBook, yFile>> /\ yPC' \in {"walk", "prune", "blank"}
    BY <1>1 DEF Y!Walk, Y!WalkEnds, Y!StartScan, Y!ToNext, Y!bookVars
  <2>2. QED BY <2>1, FilesStay DEF ScanInv, ScanTypes
<1>2. CASE Y(c)!Identify
  <2>1. UNCHANGED <<yBook, yFile, yAt>> /\ yPC' = "match" /\ yAt \in 1..Len(Tree[c])
    BY <1>2 DEF Y!Identify, Y!bookVars
  <2>2. QED BY <2>1 DEF ScanInv, ScanTypes, FilesRight, HitIsHere
<1>3. CASE Y(c)!Prune
  <2>1. /\ yBook' \in [Ids -> BookStates] /\ yFile' \in [Ids -> Files[c] \cup {None}]
        /\ \A b \in Ids : yFile'[b] \in {yFile[b], None}
    BY <1>3, DeletesKeep DEF Y!Prune, ScanInv, ScanTypes
  <2>2. yPC' = "idle" BY <1>3 DEF Y!Prune
  <2>3. QED BY <2>1, <2>2, FilesStay
<1>4. CASE Y(c)!NoMatch
  <2>1. /\ yBook' \in [Ids -> BookStates] /\ yFile' \in [Ids -> Files[c] \cup {None}]
        /\ \A b \in Ids : yFile'[b] \in {yFile[b], None}
    BY <1>4, DeletesKeep DEF Y!NoMatch, ScanInv
  <2>2. yPC' = "walk" BY <1>4 DEF Y!NoMatch, Y!ToNext
  <2>3. QED BY <2>1, <2>2, FilesStay
<1>5. CASE \E b \in Ids, f \in Files[c] : Y(c)!Blank(b, f)
  <2>1. UNCHANGED <<yPC, yAt, yHit>> /\ yBook' \in [Ids -> BookStates] /\ yFile' \in [Ids -> Files[c] \cup {None}]
        /\ \A b \in Ids : yFile'[b] \in {yFile[b], None}
    BY <1>5 DEF Y!Blank, ScanInv, ScanTypes, BookStates
  <2>2. QED BY <2>1, FilesStay
<1>6. QED BY <1>1, <1>2, <1>3, <1>4, <1>5

(* Whichever way the book is found, it is of the file's title. *)
LEMMA MatchScan ==
  ASSUME NEW c \in Catalogues, ScanInv(c), NEW b \in Ids,
         \/ Y(c)!MatchId(b) \/ Y(c)!MatchRekeyed(b) \/ Y(c)!MatchTitle(b)
         \/ Y(c)!MatchAdded(b) \/ Y(c)!MatchElsewhere(b) \/ Y(c)!MatchSearch(b)
  PROVE  ScanInv(c)'
<1> DEFINE here == Tree[c][yAt]
<1>1. yAt' = yAt /\ yPC = "match" /\ yAt \in 1..Len(Tree[c]) /\ here \in Files[c]
  BY ScanConstants DEF Y!MatchId, Y!MatchRekeyed, Y!MatchTitle, Y!MatchAdded, Y!MatchElsewhere, Y!MatchSearch, Y!Hit,
     ScanInv, HitIsHere
<1>2. IdOf[here] # None => Title[IdOf[here]] = Title[here] BY <1>1, ScanConstants
<1>3. Title[yHit'] = Title[here]
  <2>1. CASE Y(c)!MatchId(b) \/ Y(c)!MatchAdded(b)
    BY <1>2, <2>1, ScanConstants DEF Y!MatchId, Y!MatchAdded, Y!Hit, Y!OwnId, Y!Here
  <2>2. CASE Y(c)!MatchRekeyed(b)
    BY <1>2, <2>2 DEF Y!MatchRekeyed, Y!Hit, Y!OwnId, Y!Here
  <2>3. CASE Y(c)!MatchTitle(b) \/ Y(c)!MatchElsewhere(b)
    BY <2>3 DEF Y!MatchTitle, Y!MatchElsewhere, Y!Hit, Y!ByTitle, Y!Preferred, Y!SameTitle, Y!Here
  <2>4. CASE Y(c)!MatchSearch(b)
    BY <2>4 DEF Y!MatchSearch, Y!Hit, Y!TitleHere, Y!Here
  <2>5. QED BY <2>1, <2>2, <2>3, <2>4
<1>4. HitIsHere(c)' BY <1>1, <1>3 DEF HitIsHere
<1>5. ScanTypes(c)' /\ FilesRight'
  <2>1. CASE UNCHANGED <<yBook, yFile>> BY <2>1 DEF ScanInv, ScanTypes, FilesRight
  <2>2. CASE UNCHANGED yFile /\ \E d : Y(c)!AddRow(d)
    <3>1. PICK d : Y(c)!AddRow(d) BY <2>2
    <3>2. yBook' = [yBook EXCEPT ![d] = "Skipped"] BY <3>1 DEF Y!AddRow
    <3>3. QED BY <2>2, <3>2 DEF ScanInv, ScanTypes, FilesRight, BookStates
  <2>3. CASE Y(c)!MatchRekeyed(b)
    <3> DEFINE id == IdOf[here]
    <3>1. /\ yBook' = [yBook EXCEPT ![id] = yBook[b], ![b] = "none"]
          /\ yFile' = [yFile EXCEPT ![id] = yFile[b], ![b] = None]
          /\ id # None /\ Title[b] = Title[here]
      BY <2>3 DEF Y!MatchRekeyed, Y!Rekey, Y!OwnId, Y!Here, Y!SameTitle
    <3>2. Title[id] = Title[b] BY <1>2, <3>1
    <3> HIDE DEF id, here
    <3>3. ScanTypes(c)' BY <3>1 DEF ScanInv, ScanTypes, BookStates
    <3>4. FilesRight' BY <3>1, <3>2 DEF ScanInv, ScanTypes, FilesRight
    <3>5. QED BY <3>3, <3>4
  <2>4. QED
    BY <2>1, <2>2, <2>3 DEF Y!MatchId, Y!MatchTitle, Y!MatchAdded, Y!MatchElsewhere, Y!MatchSearch, Y!AddRow, Y!bookVars
<1>6. QED BY <1>4, <1>5 DEF ScanInv

LEMMA LinkScan == ASSUME NEW c \in Catalogues, ScanInv(c), Y(c)!Link \/ Y(c)!Move \/ Y(c)!Drop PROVE ScanInv(c)'
<1> DEFINE here == Tree[c][yAt]
<1>1. yPC' \notin {"match", "link"}
  BY DEF Y!Link, Y!Move, Y!Drop, Y!ToNext
<1>2. CASE UNCHANGED <<yBook, yFile>> BY <1>1, <1>2, FilesStay DEF ScanInv, ScanTypes
<1>3. ASSUME Y(c)!Link, yFile' = [yFile EXCEPT ![yHit] = here], yBook' = [yBook EXCEPT ![yHit] = "Open"]
      PROVE  ScanInv(c)'
  <2>1. here \in Files[c] /\ Title[yHit] = Title[here]
    BY <1>3, ScanConstants DEF Y!Link, ScanInv, HitIsHere
  <2> HIDE DEF here
  <2>2. ScanTypes(c)' BY <1>3, <2>1 DEF ScanInv, ScanTypes, BookStates
  <2>3. FilesRight' BY <1>3, <2>1 DEF ScanInv, ScanTypes, FilesRight
  <2>4. HitIsHere(c)' BY <1>1 DEF HitIsHere
  <2>5. QED BY <2>2, <2>3, <2>4 DEF ScanInv
<1>4. CASE Y(c)!Drop
  <2>1. /\ yBook' \in [Ids -> BookStates] /\ yFile' \in [Ids -> Files[c] \cup {None}]
        /\ \A b \in Ids : yFile'[b] \in {yFile[b], None}
    BY <1>4, DeletesKeep DEF Y!Drop, ScanInv
  <2>2. QED BY <1>1, <2>1, FilesStay
<1>5. CASE Y(c)!Move BY <1>2, <1>5 DEF Y!Move
<1>6. QED BY <1>2, <1>3, <1>4, <1>5 DEF Y!Link, Y!Here

LEMMA RestartScan == ASSUME NEW c \in Catalogues, ScanInv(c), Y(c)!Restart PROVE ScanInv(c)'
<1>1. yPC' = "idle" BY DEF Y!Restart
<1>2. /\ yBook' \in [Ids -> BookStates] /\ yFile' \in [Ids -> Files[c] \cup {None}]
      /\ \A b \in Ids : yFile'[b] \in {yFile[b], None}
  BY DEF Y!Restart, Y!CheckDb, Y!Synced, ScanInv, ScanTypes, BookStates
<1>3. QED BY <1>1, <1>2, FilesStay

LEMMA ImportScan ==
  ASSUME NEW c \in Catalogues, ScanInv(c), NEW b \in Ids, NEW f \in Files[c], Y(c)!Import(b, f) PROVE ScanInv(c)'
<1>1. UNCHANGED <<yPC, yAt, yHit>> /\ Title[f] = Title[b] BY DEF Y!Import, Y!scanVars
<1>2. ScanTypes(c)' /\ FilesRight' BY <1>1 DEF Y!Import, ScanInv, ScanTypes, FilesRight, BookStates
<1>3. QED BY <1>1, <1>2 DEF ScanInv, HitIsHere

LEMMA NextScan ==
  ASSUME NEW c \in Catalogues, ScanInv(c), Y(c)!Next \/ UNCHANGED yvars PROVE ScanInv(c)'
BY OutsideScan, WalkScan, MatchScan, LinkScan, RestartScan, ImportScan DEF Y!Next, Y!Scan, Y!Match

(* The deletes that go by TotalBooks take no book with them.               *)
LEMMA DeletesSpare == ASSUME NEW c \in Catalogues, ScanInv(c) PROVE Y(c)!SparesOwners
<1>1. CASE Y(c)!Prune
  <2>1. \A b \in Ids : yBook'[b] = yBook[b]
    BY <1>1 DEF Y!Prune, Y!DeleteAuthors, Y!Empty, ScanInv, ScanTypes
  <2>2. QED BY <2>1 DEF Y!SparesOwners, Y!TitlesOf, Y!Named, Y!Rows
<1>2. CASE Y(c)!Restart
  <2>1. \A b \in Ids : yBook[b] # "none" /\ ~Y(c)!Unfinished(yOwner[b]) => yBook'[b] # "none"
    BY <1>2 DEF Y!Restart, Y!CheckDb, Y!Synced, Y!OwnedBy, Y!Rows, ScanInv, ScanTypes
  <2>2. QED BY <2>1 DEF Y!SparesOwners, Y!TitlesOf, Y!Named, Y!Rows
<1>3. QED BY <1>1, <1>2 DEF Y!SparesOwners

-----------------------------------------------------------------------------
(* Upgrading. *)

(* Series and the tables that refer to it are rebuilt through temp, one after the other: while one of them *)
(* is away its rows are in temp. Each has its key column, and so has temp then.                             *)
Rebuild == Z!Tables \cup {"series"}
Away(t) == ~Z!Exists(t)
AllThere == \A t \in Rebuild : Z!Exists(t)

(* Columns that mark an old database are where they were. *)
ColumnsApart ==
  \A c \in zHas : /\ c = <<c[1], c[2]>> /\ (c[2] = "SeriesID INTEGER" => c[1] = "series")
                  /\ (c[2] = "HaveRead" => c[1] = "users")
KeysThere == \A t \in Rebuild : Z!Exists(t) => <<t, "key">> \in zHas

(* With a table away no start runs a step again that would use temp. *)
AwayInTemp ==
  \A t \in Rebuild : Away(t) =>
    /\ <<"temp", "key">> \in zHas /\ \A s \in Rebuild \ {t} : Z!Exists(s)
    /\ Z!OldSeries \notin zHas /\ <<"users", "HaveRead">> \notin zHas /\ <<"jobs", "Start">> \in zHas
    /\ zPC = "schema" /\ zLine > 0 =>
         zStep \notin {3, 24, 27}
         \/ <<t, zStep, zLine>> \in {<<"series", 27, 5>>, <<"member", 27, 8>>, <<"seriesauthors", 27, 11>>}

(* What the steps done so far have left. *)
StepsDone ==
  zPC = "schema" =>
    /\ zStep > 3 \/ (zStep = 3 /\ zLine = 4) => <<"jobs", "Start">> \in zHas
    /\ zStep > 24 \/ (zStep = 24 /\ zLine >= 10) => <<"users", "HaveRead">> \notin zHas
    /\ zStep = 27 /\ zLine >= 5 => Z!OldSeries \notin zHas

(* The foreign keys are off when a table is dropped that others refer to. *)
ForeignOff ==
  zPC = "schema" /\ ((zStep = 24 /\ zLine \in 9..10) \/ (zStep = 27 /\ zLine \in 2..13)) => ~zForeign

(* What is dropped next has been copied. *)
Titled(l) == {e[2] : e \in {d \in zLists : d[1] = l}}
Copied ==
  zPC = "schema" =>
    /\ zStep = 24 /\ zLine \in 6..9 => zUsers \subseteq zLists
    /\ \A i \in 1..4 : zStep = 26 /\ zLine = 2*i + 1 => Titled(Z!Lists[i]) \subseteq Z!InReadingLists
    /\ zStep = 27 /\ zLine \in 1..4 => Z!OldSeries \in zHas
    /\ zStep = 27 /\ zLine \in {4, 7, 10} => <<"temp", "key">> \in zHas
    /\ zStep = 27 /\ zLine = 4 => zTemp = {Z!Key(i) : i \in zSeries}
    /\ zStep = 27 /\ zLine = 7 => zTemp = zMember["member"]
    /\ zStep = 27 /\ zLine = 10 => zTemp = zMember["seriesauthors"]

NumberedYet == Z!OldSeries \in zHas => zSeries \subseteq SeriesIds

OldInv ==
  /\ ColumnsApart /\ KeysThere /\ AwayInTemp /\ StepsDone /\ ForeignOff /\ Copied /\ NumberedYet

(* A new database has nothing to lose. *)
Blank ==
  /\ zUsers = {} /\ zLists = {} /\ zMerged = {} /\ zSeries = {} /\ zTemp = {}
  /\ \A t \in Z!Tables : zMember[t] = {}

RowTypes ==
  /\ zMember = [t \in Z!Tables |-> zMember[t]] /\ zLists \subseteq Z!ListNames \X ReadBooks
  /\ IsFiniteSet(zSeries) /\ IsFiniteSet(zTemp) /\ \A t \in Z!Tables : IsFiniteSet(zMember[t])
StepTypes == zStep \in 1..32 /\ zLine \in Nat /\ (zLine > 0 => zStep <= 31 /\ zLine <= Len(Z!Steps[zStep].do))
SchemaTypes == RowTypes /\ StepTypes

SchemaInv == SchemaTypes /\ (zVersion = 0 => Blank) /\ (Blank \/ OldInv)
-----------------------------------------------------------------------------
(* The instance has a copy of the standard module. *)
LEMMA SameCount == \A S : Z!Cardinality(S) = Cardinality(S)
BY DEF Z!Cardinality, Cardinality
LEMMA SameFinite == \A S : Z!IsFiniteSet(S) <=> IsFiniteSet(S)
BY DEF Z!IsFiniteSet, IsFiniteSet

(* The table of steps. *)

LEMMA StepTable ==
  /\ Len(Z!Steps) = 31
  /\ \A k \in 1..12 : Z!Steps[k] = Z!Steps61To70[k]
  /\ \A k \in 13..23 : Z!Steps[k] = Z!Steps71To81[k - 12]
  /\ \A k \in 24..26 : Z!Steps[k] = Z!Steps82To84[k - 23]
  /\ \A k \in 27..31 : Z!Steps[k] = Z!Steps85To89[k - 26]
<1>1. Len(Z!Steps) = 31
  BY DEF Z!Steps, Z!Steps61To70, Z!Steps71To81, Z!Steps82To84, Z!Steps85To89
<1>2. \A k \in 1..12 : Z!Steps[k] = Z!Steps61To70[k]
  BY DEF Z!Steps, Z!Steps61To70, Z!Steps71To81, Z!Steps82To84, Z!Steps85To89
<1>3. \A k \in 13..23 : Z!Steps[k] = Z!Steps71To81[k - 12]
  BY DEF Z!Steps, Z!Steps61To70, Z!Steps71To81, Z!Steps82To84, Z!Steps85To89
<1>4. \A k \in 24..26 : Z!Steps[k] = Z!Steps82To84[k - 23]
  BY DEF Z!Steps, Z!Steps61To70, Z!Steps71To81, Z!Steps82To84, Z!Steps85To89
<1>5. \A k \in 27..31 : Z!Steps[k] = Z!Steps85To89[k - 26]
  BY DEF Z!Steps, Z!Steps61To70, Z!Steps71To81, Z!Steps82To84, Z!Steps85To89
<1>6. QED BY <1>1, <1>2, <1>3, <1>4, <1>5

(* Most statements add a column or a table, never one of those that mark an old database. *)
OldColumns == {"SeriesID INTEGER", "HaveRead"}
Plain(st) ==
  /\ st = <<st[1], st[2], st[3]>> /\ st[3] \notin OldColumns
  /\ st[1] = "add" \/ (st[1] = "create" /\ st[2] \notin Rebuild \cup {"temp"})
PlainStep(s) == Len(s.do) \in Nat \ {0} /\ \A j \in 1..Len(s.do) : Plain(s.do[j])

LEMMA AddPlain == \A t, c : c \notin OldColumns => Plain(Z!Add(t, c))
BY DEF Plain, Z!Add
LEMMA CreatePlain == \A t, c : c \notin OldColumns /\ t \notin Rebuild \cup {"temp"} => Plain(Z!Create(t, c))
BY DEF Plain, Z!Create
LEMMA RunPlain ==
  /\ \A v, l, h, a : Plain(a) => PlainStep(Z!Run(v, l, h, <<a>>))
  /\ \A v, l, h, a, b : Plain(a) /\ Plain(b) => PlainStep(Z!Run(v, l, h, <<a, b>>))
  /\ \A v, l, h, a, b, c : Plain(a) /\ Plain(b) /\ Plain(c) => PlainStep(Z!Run(v, l, h, <<a, b, c>>))
<1>1. \A v, l, h, a, b : Plain(a) /\ Plain(b) => PlainStep(Z!Run(v, l, h, <<a, b>>))
  <2> SUFFICES ASSUME NEW v, NEW l, NEW h, NEW a, NEW b, Plain(a), Plain(b)
               PROVE PlainStep(Z!Run(v, l, h, <<a, b>>))
    OBVIOUS
  <2>1. Z!Run(v, l, h, <<a, b>>).do = <<a, b>> BY DEF Z!Run
  <2>2. QED BY <2>1 DEF PlainStep
<1>2. \A v, l, h, a, b, c : Plain(a) /\ Plain(b) /\ Plain(c) => PlainStep(Z!Run(v, l, h, <<a, b, c>>))
  <2> SUFFICES ASSUME NEW v, NEW l, NEW h, NEW a, NEW b, NEW c, Plain(a), Plain(b), Plain(c)
               PROVE  PlainStep(Z!Run(v, l, h, <<a, b, c>>))
    OBVIOUS
  <2>1. Z!Run(v, l, h, <<a, b, c>>).do = <<a, b, c>> BY DEF Z!Run
  <2>2. Len(<<a, b, c>>) = 3 /\ \A j \in 1..3 : <<a, b, c>>[j] \in {a, b, c} OBVIOUS
  <2>3. Len(<<a, b, c>>) \in Nat \ {0} BY <2>2
  <2>4. QED BY <2>1, <2>2, <2>3 DEF PlainStep
<1>3. \A v, l, h, a : Plain(a) => PlainStep(Z!Run(v, l, h, <<a>>))
  <2> SUFFICES ASSUME NEW v, NEW l, NEW h, NEW a, Plain(a) PROVE PlainStep(Z!Run(v, l, h, <<a>>))
    OBVIOUS
  <2>1. Z!Run(v, l, h, <<a>>).do = <<a>> BY DEF Z!Run
  <2>2. QED BY <2>1 DEF PlainStep
<1>4. QED BY <1>1, <1>2, <1>3
LEMMA ColumnPlain == ASSUME NEW v, NEW t, NEW c, c \notin OldColumns PROVE PlainStep(Z!Column(v, t, c))
BY DEF PlainStep, Plain, Z!Column, Z!Run, Z!Add
LEMMA TablePlain ==
  ASSUME NEW v, NEW t, NEW c, c \notin OldColumns, t \notin Rebuild \cup {"temp"}
  PROVE PlainStep(Z!Table(v, t, c))
BY DEF PlainStep, Plain, Z!Table, Z!Run, Z!Create

LEMMA PlainSteps ==
  /\ \A k \in 1..12 \ {3} : PlainStep(Z!Steps61To70[k])
  /\ \A k \in 1..11 : PlainStep(Z!Steps71To81[k])
  /\ PlainStep(Z!Steps82To84[2])
  /\ \A k \in 2..5 : PlainStep(Z!Steps85To89[k])
<1>1. \A k \in 1..12 \ {3} : PlainStep(Z!Steps61To70[k])
  <2>1. PlainStep(Z!Steps61To70[1])
    <3>1. Z!Steps61To70[1] = Z!Column(61, "series", "Reason") BY DEF Z!Steps61To70
    <3>2. QED BY <3>1, ColumnPlain DEF OldColumns, Rebuild, Z!Tables
  <2>2. PlainStep(Z!Steps61To70[2])
    <3>1. Z!Steps61To70[2] = Z!Column(62, "authors", "About") BY DEF Z!Steps61To70
    <3>2. QED BY <3>1, ColumnPlain DEF OldColumns, Rebuild, Z!Tables
  <2>3. PlainStep(Z!Steps61To70[4])
    <3>1. Z!Steps61To70[4] = Z!Column(64, "pastissues", "Added") BY DEF Z!Steps61To70
    <3>2. QED BY <3>1, ColumnPlain DEF OldColumns, Rebuild, Z!Tables
  <2>4. PlainStep(Z!Steps61To70[5])
    <3>1. Z!Steps61To70[5] = Z!Run(65, {<<"users", "Abandoned">>}, {},
          <<Z!Add("users", "Reading"), Z!Add("users", "Abandoned")>>)
      BY DEF Z!Steps61To70
    <3>2. QED BY <3>1, RunPlain, AddPlain, CreatePlain DEF OldColumns, Rebuild, Z!Tables
  <2>5. PlainStep(Z!Steps61To70[6])
    <3>1. Z!Steps61To70[6] = Z!Table(66, "subscribers", "UserID") BY DEF Z!Steps61To70
    <3>2. QED BY <3>1, TablePlain DEF OldColumns, Rebuild, Z!Tables
  <2>6. PlainStep(Z!Steps61To70[7])
    <3>1. Z!Steps61To70[7] = Z!Column(67, "users", "Prefs") BY DEF Z!Steps61To70
    <3>2. QED BY <3>1, ColumnPlain DEF OldColumns, Rebuild, Z!Tables
  <2>7. PlainStep(Z!Steps61To70[8])
    <3>1. Z!Steps61To70[8] = Z!Column(68, "wanted", "Completed") BY DEF Z!Steps61To70
    <3>2. QED BY <3>1, ColumnPlain DEF OldColumns, Rebuild, Z!Tables
  <2>8. PlainStep(Z!Steps61To70[9])
    <3>1. Z!Steps61To70[9] = Z!Column(69, "authors", "AKA") BY DEF Z!Steps61To70
    <3>2. QED BY <3>1, ColumnPlain DEF OldColumns, Rebuild, Z!Tables
  <2>9. PlainStep(Z!Steps61To70[10])
    <3>1. Z!Steps61To70[10] = Z!Column(69, "books", "LT_WorkID") BY DEF Z!Steps61To70
    <3>2. QED BY <3>1, ColumnPlain DEF OldColumns, Rebuild, Z!Tables
  <2>10. PlainStep(Z!Steps61To70[11])
    <3>1. Z!Steps61To70[11] = Z!Column(70, "authors", "gr_id") BY DEF Z!Steps61To70
    <3>2. QED BY <3>1, ColumnPlain DEF OldColumns, Rebuild, Z!Tables
  <2>11. PlainStep(Z!Steps61To70[12])
    <3>1. Z!Steps61To70[12] = Z!Column(70, "books", "gr_id") BY DEF Z!Steps61To70
    <3>2. QED BY <3>1, ColumnPlain DEF OldColumns, Rebuild, Z!Tables
  <2>12. QED BY <2>1, <2>2, <2>3, <2>4, <2>5, <2>6, <2>7, <2>8, <2>9, <2>10, <2>11
<1>2. \A k \in 1..11 : PlainStep(Z!Steps71To81[k])
  <2>1. PlainStep(Z!Steps71To81[1])
    <3>1. Z!Steps71To81[1] = Z!Column(71, "books", "Narrator") BY DEF Z!Steps71To81
    <3>2. QED BY <3>1, ColumnPlain DEF OldColumns, Rebuild, Z!Tables
  <2>2. PlainStep(Z!Steps71To81[2])
    <3>1. Z!Steps71To81[2] = Z!Run(72, {<<"authors", "HaveAudioBooks">>}, {},
          <<Z!Add("authors", "HaveEBooks"), Z!Add("authors", "HaveAudioBooks")>>)
      BY DEF Z!Steps71To81
    <3>2. QED BY <3>1, RunPlain, AddPlain, CreatePlain DEF OldColumns, Rebuild, Z!Tables
  <2>3. PlainStep(Z!Steps71To81[3])
    <3>1. Z!Steps71To81[3] = Z!Column(73, "series", "gr_id") BY DEF Z!Steps71To81
    <3>2. QED BY <3>1, ColumnPlain DEF OldColumns, Rebuild, Z!Tables
  <2>4. PlainStep(Z!Steps71To81[4])
    <3>1. Z!Steps71To81[4] = Z!Column(74, "users", "Theme") BY DEF Z!Steps71To81
    <3>2. QED BY <3>1, ColumnPlain DEF OldColumns, Rebuild, Z!Tables
  <2>5. PlainStep(Z!Steps71To81[5])
    <3>1. Z!Steps71To81[5] = Z!Column(75, "authors", "ol_id") BY DEF Z!Steps71To81
    <3>2. QED BY <3>1, ColumnPlain DEF OldColumns, Rebuild, Z!Tables
  <2>6. PlainStep(Z!Steps71To81[6])
    <3>1. Z!Steps71To81[6] = Z!Column(76, "wanted", "Label") BY DEF Z!Steps71To81
    <3>2. QED BY <3>1, ColumnPlain DEF OldColumns, Rebuild, Z!Tables
  <2>7. PlainStep(Z!Steps71To81[7])
    <3>1. Z!Steps71To81[7] = Z!Run(77, {<<"magazines", "Genre">>}, {},
          <<Z!Add("magazines", "Genre"), Z!Add("comics", "Genre")>>)
      BY DEF Z!Steps71To81
    <3>2. QED BY <3>1, RunPlain, AddPlain, CreatePlain DEF OldColumns, Rebuild, Z!Tables
  <2>8. PlainStep(Z!Steps71To81[8])
    <3>1. Z!Steps71To81[8] = Z!Run(78, {<<"users", "Login_Count">>}, {},
                  <<Z!Add("users", "Last_Login"), Z!Add("users", "Login_Count"),
                  Z!Create("sent_file", "UserID")>>)
      BY DEF Z!Steps71To81
    <3>2. QED BY <3>1, RunPlain, AddPlain, CreatePlain DEF OldColumns, Rebuild, Z!Tables
  <2>9. PlainStep(Z!Steps71To81[9])
    <3>1. Z!Steps71To81[9] = Z!Run(79, {<<"series", "Source">>}, {Z!OldSeries}, <<Z!Add("series", "Source")>>)
      BY DEF Z!Steps71To81
    <3>2. QED BY <3>1, RunPlain, AddPlain DEF OldColumns
  <2>10. PlainStep(Z!Steps71To81[10])
    <3>1. Z!Steps71To81[10] = Z!Table(80, "unauthorised", "UserID") BY DEF Z!Steps71To81
    <3>2. QED BY <3>1, TablePlain DEF OldColumns, Rebuild, Z!Tables
  <2>11. PlainStep(Z!Steps71To81[11])
    <3>1. Z!Steps71To81[11] = Z!Run(81, {<<"books", "ol_id">>}, {},
          <<Z!Add("books", "ol_id"), Z!Add("books", "gb_id")>>)
      BY DEF Z!Steps71To81
    <3>2. QED BY <3>1, RunPlain, AddPlain, CreatePlain DEF OldColumns, Rebuild, Z!Tables
  <2>12. QED BY <2>1, <2>2, <2>3, <2>4, <2>5, <2>6, <2>7, <2>8, <2>9, <2>10, <2>11
<1>3. PlainStep(Z!Steps82To84[2])
  <2>1. Z!Steps82To84[2] = Z!Run(83, {<<"books", "hc_id">>}, {},
                            <<Z!Add("books", "hc_id"), Z!Add("authors", "hc_id"), Z!Add("users", "hc_id")>>)
    BY DEF Z!Steps82To84
  <2>2. QED BY <2>1, RunPlain, AddPlain DEF OldColumns
<1>4. \A k \in 2..5 : PlainStep(Z!Steps85To89[k])
  <2>1. PlainStep(Z!Steps85To89[2])
    <3>1. Z!Steps85To89[2] = Z!Column(86, "magazines", "Language") BY DEF Z!Steps85To89
    <3>2. QED BY <3>1, ColumnPlain DEF OldColumns, Rebuild, Z!Tables
  <2>2. PlainStep(Z!Steps85To89[3])
    <3>1. Z!Steps85To89[3] = Z!Column(87, "users", "hc_token") BY DEF Z!Steps85To89
    <3>2. QED BY <3>1, ColumnPlain DEF OldColumns, Rebuild, Z!Tables
  <2>3. PlainStep(Z!Steps85To89[4])
    <3>1. Z!Steps85To89[4] = Z!Table(88, "bookauthors", "Role") BY DEF Z!Steps85To89
    <3>2. QED BY <3>1, TablePlain DEF OldColumns, Rebuild, Z!Tables
  <2>4. PlainStep(Z!Steps85To89[5])
    <3>1. Z!Steps85To89[5] = Z!Column(89, "books", "dnb_id") BY DEF Z!Steps85To89
    <3>2. QED BY <3>1, ColumnPlain DEF OldColumns, Rebuild, Z!Tables
  <2>5. QED BY <2>1, <2>2, <2>3, <2>4
<1>5. QED BY <1>1, <1>2, <1>3, <1>4

(* The four that do more, line by line. *)
LEMMA JobsStep ==
  /\ Z!Steps[3].lacks = {<<"jobs", "Start">>} /\ Z!Steps[3].has = {} /\ Len(Z!Steps[3].do) = 4
  /\ Z!Steps[3].do[1] = <<"drop", "temp">> /\ Z!Steps[3].do[2] = <<"rename", "jobs", "temp">>
  /\ Z!Steps[3].do[3] = <<"create", "jobs", "Start">> /\ Z!Steps[3].do[4] = <<"drop", "temp">>
BY StepTable DEF Z!Steps61To70, Z!Run, Z!Create

LEMMA UsersStep ==
  /\ Z!Steps[24].lacks = {} /\ Z!Steps[24].has = {<<"users", "HaveRead">>} /\ Len(Z!Steps[24].do) = 11
  /\ \A j \in 1..4 : \E l \in Z!ListNames : Z!Steps[24].do[j] = <<"create", l, "BookID">>
  /\ Z!Steps[24].do[5] = <<"spread">> /\ Z!Steps[24].do[6] = <<"drop", "temp">>
  /\ Z!Steps[24].do[7] = <<"temp", "users">> /\ Z!Steps[24].do[8] = <<"foreign", "OFF">>
  /\ Z!Steps[24].do[9] = <<"drop", "users">> /\ Z!Steps[24].do[10] = <<"rename", "temp", "users">>
  /\ Z!Steps[24].do[11] = <<"foreign", "ON">>
<1>1. Z!Steps[24] = Z!Steps82To84[1] BY StepTable
<1>2. {"haveread", "toread", "reading", "abandoned"} \subseteq Z!ListNames BY DEF Z!ListNames, Z!Lists
<1>3. /\ Z!Steps82To84[1].do[1] = <<"create", "haveread", "BookID">>
      /\ Z!Steps82To84[1].do[2] = <<"create", "toread", "BookID">>
      /\ Z!Steps82To84[1].do[3] = <<"create", "reading", "BookID">>
      /\ Z!Steps82To84[1].do[4] = <<"create", "abandoned", "BookID">>
  BY DEF Z!Steps82To84, Z!Run, Z!Create
<1>4. \A j \in 1..4 : \E l \in Z!ListNames : Z!Steps[24].do[j] = <<"create", l, "BookID">>
  BY <1>1, <1>2, <1>3
<1>5. /\ Z!Steps[24].lacks = {} /\ Z!Steps[24].has = {<<"users", "HaveRead">>}
  BY <1>1 DEF Z!Steps82To84, Z!Run
<1>6. Len(Z!Steps[24].do) = 11 BY <1>1 DEF Z!Steps82To84, Z!Run
<1>7. /\ Z!Steps[24].do[5] = <<"spread">> /\ Z!Steps[24].do[6] = <<"drop", "temp">>
      /\ Z!Steps[24].do[7] = <<"temp", "users">>
  BY <1>1 DEF Z!Steps82To84, Z!Run
<1>8. Z!Steps[24].do[8] = <<"foreign", "OFF">> /\ Z!Steps[24].do[11] = <<"foreign", "ON">>
  BY <1>1 DEF Z!Steps82To84, Z!Run
<1>9. Z!Steps[24].do[9] = <<"drop", "users">> /\ Z!Steps[24].do[10] = <<"rename", "temp", "users">>
  BY <1>1 DEF Z!Steps82To84, Z!Run
<1>10. QED BY <1>4, <1>5, <1>6, <1>7, <1>8, <1>9

LEMMA ListsStep ==
  /\ Len(Z!Steps[26].do) = 9 /\ Z!Steps[26].do[1] = <<"create", "readinglists", "Status">>
  /\ Z!Steps[26].do[2] = <<"merge", Z!Lists[1]>> /\ Z!Steps[26].do[3] = <<"drop", Z!Lists[1]>>
  /\ Z!Steps[26].do[4] = <<"merge", Z!Lists[2]>> /\ Z!Steps[26].do[5] = <<"drop", Z!Lists[2]>>
  /\ Z!Steps[26].do[6] = <<"merge", Z!Lists[3]>> /\ Z!Steps[26].do[7] = <<"drop", Z!Lists[3]>>
  /\ Z!Steps[26].do[8] = <<"merge", Z!Lists[4]>> /\ Z!Steps[26].do[9] = <<"drop", Z!Lists[4]>>
<1>1. Z!Steps[26] = Z!Steps82To84[3] BY StepTable
<1>2. QED BY <1>1 DEF Z!Steps82To84, Z!Run, Z!Create, Z!Lists

LEMMA SeriesStep ==
  /\ Z!Steps[27].lacks = {} /\ Z!Steps[27].has = {Z!OldSeries} /\ Len(Z!Steps[27].do) = 14
  /\ Z!Steps[27].do[1] = <<"foreign", "OFF">> /\ Z!Steps[27].do[2] = <<"drop", "temp">>
  /\ Z!Steps[27].do[3] = <<"temp", "series">> /\ Z!Steps[27].do[4] = <<"drop", "series">>
  /\ Z!Steps[27].do[5] = <<"rename", "temp", "series">>
  /\ Z!Steps[27].do[6] = <<"temp", "member">> /\ Z!Steps[27].do[7] = <<"drop", "member">>
  /\ Z!Steps[27].do[8] = <<"rename", "temp", "member">>
  /\ Z!Steps[27].do[9] = <<"temp", "seriesauthors">> /\ Z!Steps[27].do[10] = <<"drop", "seriesauthors">>
  /\ Z!Steps[27].do[11] = <<"rename", "temp", "seriesauthors">>
  /\ Z!Steps[27].do[12] = <<"select">> /\ Z!Steps[27].do[13] = <<"rekey">>
  /\ Z!Steps[27].do[14] = <<"foreign", "ON">>
<1>1. Z!Steps[27] = Z!Steps85To89[1] BY StepTable
<1> USE <1>1 DEF Z!Steps85To89, Z!Run, Z!Rebuilt
<1>2. Z!Steps[27].lacks = {} /\ Z!Steps[27].has = {Z!OldSeries}
  OBVIOUS
<1>3. Len(Z!Steps[27].do) = 14
  OBVIOUS
<1>4. Z!Steps[27].do[1] = <<"foreign", "OFF">> /\ Z!Steps[27].do[14] = <<"foreign", "ON">>
  OBVIOUS
<1>5. Z!Steps[27].do[2] = <<"drop", "temp">> /\ Z!Steps[27].do[3] = <<"temp", "series">>
  OBVIOUS
<1>6. Z!Steps[27].do[4] = <<"drop", "series">> /\ Z!Steps[27].do[5] = <<"rename", "temp", "series">>
  OBVIOUS
<1>7. Z!Steps[27].do[6] = <<"temp", "member">> /\ Z!Steps[27].do[7] = <<"drop", "member">>
  OBVIOUS
<1>8. Z!Steps[27].do[8] = <<"rename", "temp", "member">> /\ Z!Steps[27].do[9] = <<"temp", "seriesauthors">>
  OBVIOUS
<1>9. Z!Steps[27].do[10] = <<"drop", "seriesauthors">>
      /\ Z!Steps[27].do[11] = <<"rename", "temp", "seriesauthors">>
  OBVIOUS
<1>10. Z!Steps[27].do[12] = <<"select">> /\ Z!Steps[27].do[13] = <<"rekey">>
  OBVIOUS
<1>11. QED BY <1>2, <1>3, <1>4, <1>5, <1>6, <1>7, <1>8, <1>9, <1>10

Special == {3, 24, 26, 27}
LEMMA Ordinary ==
  ASSUME NEW k \in (1..31) \ Special PROVE PlainStep(Z!Steps[k])
<1>1. CASE k \in 1..12 BY <1>1, StepTable, PlainSteps DEF Special
<1>2. CASE k \in 13..23
  <2>1. k - 12 \in 1..11 BY <1>2
  <2>2. QED BY <1>2, <2>1, StepTable, PlainSteps
<1>3. CASE k = 25 BY <1>3, StepTable, PlainSteps
<1>4. CASE k \in 28..31
  <2>1. k - 26 \in 2..5 BY <1>4
  <2>2. QED BY <1>4, <2>1, StepTable, PlainSteps
<1>5. QED BY <1>1, <1>2, <1>3, <1>4 DEF Special

-----------------------------------------------------------------------------
(* Which statement runs where. *)

LEMMA ListsAre == \A i \in 1..4 : Z!Lists[i] \in Z!ListNames
  /\ Z!Lists[i] \notin Rebuild \cup {"temp", "users", "jobs"}
BY DEF Z!Lists, Z!ListNames, Rebuild, Z!Tables
LEMMA NamesAre == \A l \in Z!ListNames : l \notin Rebuild \cup {"temp", "users", "jobs"}
  /\ \E i \in 1..4 : l = Z!Lists[i]
BY DEF Z!Lists, Z!ListNames, Rebuild, Z!Tables

LEMMA Where ==
  ASSUME SchemaTypes, NEW w, Z!Now(w)
  PROVE  /\ zPC = "schema" /\ zStep \in 1..31 /\ zLine \in 1..Len(Z!Steps[zStep].do)
            /\ Len(Z!Steps[zStep].do) \in Nat
         /\ w = Z!Steps[zStep].do[zLine][1]
         /\ \/ zStep \notin Special /\ Plain(Z!Steps[zStep].do[zLine])
            \/ zStep = 3 /\ zLine \in 1..4
            \/ zStep = 24 /\ zLine \in 1..11
            \/ zStep = 26 /\ zLine \in 1..9
            \/ zStep = 27 /\ zLine \in 1..14
<1>1. zPC = "schema" /\ zStep \in 1..31 /\ zLine \in Nat /\ zLine > 0 /\ zLine <= Len(Z!Steps[zStep].do)
      /\ w = Z!Steps[zStep].do[zLine][1]
  BY DEF Z!Now, SchemaTypes, StepTypes
<1>2. CASE zStep \notin Special
  <2>1. PlainStep(Z!Steps[zStep]) BY <1>1, <1>2, Ordinary
  <2>2. QED BY <1>1, <1>2, <2>1 DEF PlainStep
<1>3. CASE zStep = 3 BY <1>1, <1>3, JobsStep
<1>4. CASE zStep = 24 BY <1>1, <1>4, UsersStep
<1>5. CASE zStep = 26 BY <1>1, <1>5, ListsStep
<1>6. CASE zStep = 27 BY <1>1, <1>6, SeriesStep
<1>7. QED BY <1>2, <1>3, <1>4, <1>5, <1>6 DEF Special

(* The statements of each kind, with the tables they are about. *)
At(k, j) == zStep = k /\ zLine = j
Adds(w) == w = "add" => zStep \notin Special /\ Z!Onto \notin OldColumns
Creates(w) ==
  w = "create" =>
    /\ Z!Of \notin Rebuild \cup {"temp"} /\ Z!Onto \notin OldColumns
    /\ \/ zStep \notin Special
       \/ At(3, 3) /\ Z!Of = "jobs" /\ Z!Onto = "Start"
       \/ zStep = 24 /\ zLine \in 1..4
       \/ At(26, 1)
Drops(w) ==
  w = "drop" =>
    \/ (At(3, 1) \/ At(3, 4) \/ At(24, 6) \/ At(27, 2)) /\ Z!Of = "temp"
    \/ At(24, 9) /\ Z!Of = "users"
    \/ \E i \in 1..4 : At(26, 2*i + 1) /\ Z!Of = Z!Lists[i]
    \/ At(27, 4) /\ Z!Of = "series"
    \/ At(27, 7) /\ Z!Of = "member"
    \/ At(27, 10) /\ Z!Of = "seriesauthors"
Temps(w) ==
  w = "temp" =>
    \/ At(24, 7) /\ Z!Of = "users"
    \/ At(27, 3) /\ Z!Of = "series"
    \/ At(27, 6) /\ Z!Of = "member"
    \/ At(27, 9) /\ Z!Of = "seriesauthors"
Renames(w) ==
  w = "rename" =>
    \/ At(3, 2) /\ Z!Of = "jobs" /\ Z!Onto = "temp"
    \/ At(24, 10) /\ Z!Of = "temp" /\ Z!Onto = "users"
    \/ At(27, 5) /\ Z!Of = "temp" /\ Z!Onto = "series"
    \/ At(27, 8) /\ Z!Of = "temp" /\ Z!Onto = "member"
    \/ At(27, 11) /\ Z!Of = "temp" /\ Z!Onto = "seriesauthors"
Others(w) ==
  /\ w = "foreign" => ((At(24, 8) \/ At(27, 1)) /\ Z!Of = "OFF") \/ ((At(24, 11) \/ At(27, 14)) /\ Z!Of = "ON")
  /\ w = "spread" => At(24, 5)
  /\ w = "merge" => \E i \in 1..4 : At(26, 2*i) /\ Z!Of = Z!Lists[i]
  /\ w = "select" => At(27, 12)
  /\ w = "rekey" => At(27, 13)
Kinds(w) == Adds(w) /\ Creates(w) /\ Drops(w) /\ Temps(w) /\ Renames(w) /\ Others(w)

LEMMA Statements == ASSUME SchemaTypes, NEW w, Z!Now(w) PROVE Kinds(w)
<1> USE DEF Kinds, Adds, Creates, Drops, Temps, Renames, Others, At, Z!Of, Z!Onto
<1>1. CASE zStep \notin Special
  BY <1>1, Where DEF Plain, Special
<1>2. CASE zStep = 3
  <2>1. zLine \in 1..4 /\ w = Z!Steps[3].do[zLine][1] BY <1>2, Where DEF Special
  <2>2. CASE zLine = 1 BY <1>2, <2>1, <2>2, JobsStep
  <2>3. CASE zLine = 2 BY <1>2, <2>1, <2>3, JobsStep
  <2>4. CASE zLine = 3 BY <1>2, <2>1, <2>4, JobsStep DEF Rebuild, Z!Tables, OldColumns
  <2>5. CASE zLine = 4 BY <1>2, <2>1, <2>5, JobsStep
  <2> HIDE DEF Kinds
  <2>6. QED BY <2>1, <2>2, <2>3, <2>4, <2>5
<1>3. CASE zStep = 24
  <2>1. zLine \in 1..11 /\ w = Z!Steps[24].do[zLine][1] BY <1>3, Where DEF Special
  <2>2. CASE zLine \in 1..4
    <3>1. PICK l \in Z!ListNames : Z!Steps[24].do[zLine] = <<"create", l, "BookID">> BY <2>2, UsersStep
    <3>2. QED BY <1>3, <2>1, <2>2, <3>1, NamesAre DEF OldColumns
  <2>3. CASE zLine = 5 BY <1>3, <2>1, <2>3, UsersStep
  <2>4. CASE zLine = 6 BY <1>3, <2>1, <2>4, UsersStep
  <2>5. CASE zLine = 7 BY <1>3, <2>1, <2>5, UsersStep
  <2>6. CASE zLine = 8 BY <1>3, <2>1, <2>6, UsersStep
  <2>7. CASE zLine = 9 BY <1>3, <2>1, <2>7, UsersStep
  <2>8. CASE zLine = 10 BY <1>3, <2>1, <2>8, UsersStep
  <2>9. CASE zLine = 11 BY <1>3, <2>1, <2>9, UsersStep
  <2> HIDE DEF Kinds
  <2>10. QED BY <2>1, <2>2, <2>3, <2>4, <2>5, <2>6, <2>7, <2>8, <2>9
<1>4. CASE zStep = 26
  <2>1. zLine \in 1..9 /\ w = Z!Steps[26].do[zLine][1] BY <1>4, Where DEF Special
  <2>2. CASE zLine = 1 BY <1>4, <2>1, <2>2, ListsStep DEF Rebuild, Z!Tables, OldColumns
  <2>3. CASE zLine = 2
    <3>1. zLine = 2*1 /\ Z!Steps[26].do[zLine] = <<"merge", Z!Lists[1]>> /\ 1 \in 1..4 BY <2>3, ListsStep
    <3>2. QED BY <1>4, <2>1, <3>1
  <2>4. CASE zLine = 3
    <3>1. zLine = 2*1 + 1 /\ Z!Steps[26].do[zLine] = <<"drop", Z!Lists[1]>> /\ 1 \in 1..4 BY <2>4, ListsStep
    <3>2. QED BY <1>4, <2>1, <3>1
  <2>5. CASE zLine = 4
    <3>1. zLine = 2*2 /\ Z!Steps[26].do[zLine] = <<"merge", Z!Lists[2]>> /\ 2 \in 1..4 BY <2>5, ListsStep
    <3>2. QED BY <1>4, <2>1, <3>1
  <2>6. CASE zLine = 5
    <3>1. zLine = 2*2 + 1 /\ Z!Steps[26].do[zLine] = <<"drop", Z!Lists[2]>> /\ 2 \in 1..4 BY <2>6, ListsStep
    <3>2. QED BY <1>4, <2>1, <3>1
  <2>7. CASE zLine = 6
    <3>1. zLine = 2*3 /\ Z!Steps[26].do[zLine] = <<"merge", Z!Lists[3]>> /\ 3 \in 1..4 BY <2>7, ListsStep
    <3>2. QED BY <1>4, <2>1, <3>1
  <2>8. CASE zLine = 7
    <3>1. zLine = 2*3 + 1 /\ Z!Steps[26].do[zLine] = <<"drop", Z!Lists[3]>> /\ 3 \in 1..4 BY <2>8, ListsStep
    <3>2. QED BY <1>4, <2>1, <3>1
  <2>9. CASE zLine = 8
    <3>1. zLine = 2*4 /\ Z!Steps[26].do[zLine] = <<"merge", Z!Lists[4]>> /\ 4 \in 1..4 BY <2>9, ListsStep
    <3>2. QED BY <1>4, <2>1, <3>1
  <2>10. CASE zLine = 9
    <3>1. zLine = 2*4 + 1 /\ Z!Steps[26].do[zLine] = <<"drop", Z!Lists[4]>> /\ 4 \in 1..4 BY <2>10, ListsStep
    <3>2. QED BY <1>4, <2>1, <3>1
  <2>11. zLine \in {1, 2, 3, 4, 5, 6, 7, 8, 9} BY <2>1
  <2> HIDE DEF Kinds
  <2>12. QED BY <2>11, <2>2, <2>3, <2>4, <2>5, <2>6, <2>7, <2>8, <2>9, <2>10
<1>5. CASE zStep = 27
  <2>1. zLine \in 1..14 /\ w = Z!Steps[27].do[zLine][1] BY <1>5, Where DEF Special
  <2>2. CASE zLine = 1 BY <1>5, <2>1, <2>2, SeriesStep
  <2>3. CASE zLine = 2 BY <1>5, <2>1, <2>3, SeriesStep
  <2>4. CASE zLine = 3 BY <1>5, <2>1, <2>4, SeriesStep
  <2>5. CASE zLine = 4 BY <1>5, <2>1, <2>5, SeriesStep
  <2>6. CASE zLine = 5 BY <1>5, <2>1, <2>6, SeriesStep
  <2>7. CASE zLine = 6 BY <1>5, <2>1, <2>7, SeriesStep
  <2>8. CASE zLine = 7 BY <1>5, <2>1, <2>8, SeriesStep
  <2>9. CASE zLine = 8 BY <1>5, <2>1, <2>9, SeriesStep
  <2>10. CASE zLine = 9 BY <1>5, <2>1, <2>10, SeriesStep
  <2>11. CASE zLine = 10 BY <1>5, <2>1, <2>11, SeriesStep
  <2>12. CASE zLine = 11 BY <1>5, <2>1, <2>12, SeriesStep
  <2>13. CASE zLine = 12 BY <1>5, <2>1, <2>13, SeriesStep
  <2>14. CASE zLine = 13 BY <1>5, <2>1, <2>14, SeriesStep
  <2>15. CASE zLine = 14 BY <1>5, <2>1, <2>15, SeriesStep
  <2>16. zLine \in {1, 2, 3, 4, 5, 6, 7, 8, 9, 10, 11, 12, 13, 14} BY <2>1
  <2> HIDE DEF Kinds
  <2>17. QED BY <2>16, <2>2, <2>3, <2>4, <2>5, <2>6, <2>7, <2>8, <2>9, <2>10, <2>11, <2>12, <2>13, <2>14, <2>15
<1> HIDE DEF Kinds
<1>6. QED BY <1>1, <1>2, <1>3, <1>4, <1>5 DEF Special

LEMMA Lengths == \A k \in 1..31 : Len(Z!Steps[k].do) \in Nat /\ Len(Z!Steps[k].do) # 0
<1> TAKE k \in 1..31
<1>1. CASE k \in Special
  <2>1. Len(Z!Steps[3].do) = 4 /\ Len(Z!Steps[24].do) = 11 /\ Len(Z!Steps[26].do) = 9 /\ Len(Z!Steps[27].do) = 14
    BY JobsStep, UsersStep, ListsStep, SeriesStep
  <2>2. k = 3 \/ k = 24 \/ k = 26 \/ k = 27 BY <1>1 DEF Special
  <2> DEFINE n == Len(Z!Steps[k].do)
  <2>3. n = 4 \/ n = 11 \/ n = 9 \/ n = 14 BY <2>1, <2>2
  <2> HIDE DEF n
  <2>4. n \in Nat /\ n # 0 BY <2>3
  <2>5. QED BY <2>4 DEF n
<1>2. CASE k \notin Special
  <2>1. PlainStep(Z!Steps[k]) BY <1>2, Ordinary
  <2>2. QED BY <2>1 DEF PlainStep
<1>3. QED BY <1>1, <1>2

(* Where the next statement is. *)
Through(k, n) ==
  zStep = k => \/ zLine < n /\ zStep' = k /\ zLine' = zLine + 1
               \/ zLine = n /\ zStep' = k + 1 /\ zLine' = 0
Moves ==
  /\ zPC = "schema" /\ zPC' = "schema" /\ zVersion' = zVersion
  /\ zStep \in 1..31 /\ zLine \in Nat \ {0}
  /\ Through(3, 4) /\ Through(24, 11) /\ Through(26, 9) /\ Through(27, 14)
  /\ zStep \notin Special => zStep' = zStep \/ zLine' = 0
  /\ zStep' = zStep \/ (zStep' = zStep + 1 /\ zLine' = 0)

LEMMA Onward == ASSUME SchemaTypes, NEW w, Z!Now(w), Z!Advance PROVE Moves /\ StepTypes'
<1>1. /\ zPC = "schema" /\ zPC' = "schema" /\ zVersion' = zVersion /\ zStep \in 1..31
      /\ zLine \in Nat \ {0} /\ zLine <= Len(Z!Steps[zStep].do) /\ Len(Z!Steps[zStep].do) \in Nat
  BY Where DEF Z!Advance, Z!Now, SchemaTypes, StepTypes
<1> DEFINE n == Len(Z!Steps[zStep].do)
<1>2. /\ zStep = 3 => n = 4
      /\ zStep = 24 => n = 11
      /\ zStep = 26 => n = 9
      /\ zStep = 27 => n = 14
  BY JobsStep, UsersStep, ListsStep, SeriesStep
<1>3. IF zLine = n THEN zStep' = zStep + 1 /\ zLine' = 0 ELSE zLine' = zLine + 1 /\ zStep' = zStep
  BY DEF Z!Advance
<1>4. StepTypes'
  <2>1. CASE zLine = n BY <1>1, <1>3, <2>1 DEF StepTypes
  <2>2. CASE zLine # n BY <1>1, <1>3, <2>2 DEF StepTypes
  <2>3. QED BY <2>1, <2>2
<1> HIDE DEF n
<1>5. n \in Nat /\ zLine <= n BY <1>1 DEF n
<1>6. Through(3, 4) /\ Through(24, 11) /\ Through(26, 9) /\ Through(27, 14)
  BY <1>1, <1>2, <1>3, <1>5 DEF Through
<1>7. QED BY <1>1, <1>3, <1>4, <1>5, <1>6 DEF Moves

(* While a table is away nothing touches temp but what brings the table back. *)
LEMMA NoneAway ==
  ASSUME OldInv, zPC = "schema", zLine > 0, zStep \in {3, 24, 27},
         <<zStep, zLine>> \notin {<<27, 5>>, <<27, 8>>, <<27, 11>>}
  PROVE  AllThere
BY DEF OldInv, AwayInTemp, AllThere, Away

(* Keys. *)
LEMMA KeysFinite ==
  ASSUME NEW S, IsFiniteSet(S) PROVE IsFiniteSet({Z!Key(i) : i \in S})
<1> DEFINE T == {Z!Key(i) : i \in S}
<1> DEFINE f == [i \in S |-> Z!Key(i)]
<1>1. f \in Surjection(S, T) BY DEF Surjection
<1>2. QED BY <1>1, FS_Surjection
LEMMA KeysCount ==
  ASSUME Z!SchemaAssumption, NEW S, IsFiniteSet(S), S \subseteq SeriesIds
  PROVE  Cardinality({Z!Key(i) : i \in S}) = Cardinality(S)
<1> DEFINE T == {Z!Key(i) : i \in S}
<1> DEFINE f == [i \in S |-> Z!Key(i)]
<1>1. f \in Surjection(S, T) BY DEF Surjection
<1>2. \A i, j \in S : Z!Key(i) = Z!Key(j) => i = j
  BY DEF Z!Key, Z!SchemaAssumption
<1>3. f \in Injection(S, T) BY <1>1, <1>2 DEF Injection, IsInjective, Surjection
<1>4. QED BY <1>1, <1>3, FS_Surjection
LEMMA RekeyedFinite ==
  ASSUME NEW t, NEW k, IsFiniteSet(zMember[t]) PROVE IsFiniteSet(Z!Rekeyed(t, k))
<1> DEFINE f == [m \in zMember[t] |-> IF m[1] = Z!Numbered(k) THEN <<k, m[2]>> ELSE m]
<1>1. Z!Rekeyed(t, k) = {f[m] : m \in zMember[t]} BY DEF Z!Rekeyed
<1>2. f \in Surjection(zMember[t], Z!Rekeyed(t, k)) BY <1>1 DEF Surjection
<1>3. QED BY <1>2, FS_Surjection

(* The statements that others have to be told from. *)
LEMMA Lines ==
  ASSUME SchemaTypes, NEW w, Z!Now(w)
  PROVE  /\ At(3, 3) => w = "create"
         /\ At(24, 5) => w = "spread"
         /\ At(24, 8) \/ At(27, 1) => w = "foreign"
         /\ At(24, 9) \/ At(27, 4) => w = "drop"
         /\ At(27, 3) \/ At(27, 6) \/ At(27, 9) => w = "temp"
         /\ At(27, 5) \/ At(27, 8) \/ At(27, 11) => w = "rename"
         /\ \A i \in 1..4 : At(26, 2*i) => w = "merge"
<1>1. w = Z!Steps[zStep].do[zLine][1] BY Where
<1>2. At(3, 3) => w = "create" BY <1>1, JobsStep DEF At
<1>3. /\ At(24, 5) => w = "spread"
      /\ At(24, 8) => w = "foreign"
      /\ At(24, 9) => w = "drop"
  BY <1>1, UsersStep DEF At
<1>4. /\ At(27, 1) => w = "foreign"
      /\ At(27, 4) => w = "drop"
  BY <1>1, SeriesStep DEF At
<1>5. At(27, 3) \/ At(27, 6) \/ At(27, 9) => w = "temp"
  BY <1>1, SeriesStep DEF At
<1>6. At(27, 5) \/ At(27, 8) \/ At(27, 11) => w = "rename"
  BY <1>1, SeriesStep DEF At
<1>7. \A i \in 1..4 : At(26, 2*i) => w = "merge"
  <2> SUFFICES ASSUME NEW i \in 1..4, At(26, 2*i) PROVE w = "merge" OBVIOUS
  <2>1. zLine \in {2, 4, 6, 8} /\ zStep = 26 BY DEF At
  <2>2. QED BY <1>1, <2>1, ListsStep
<1>8. QED BY <1>2, <1>3, <1>4, <1>5, <1>6, <1>7

(* What a statement has to do for the invariant to go on to the next one. *)
LEMMA AwayElsewhere ==
  ASSUME SchemaTypes, OldInv, NEW w, Z!Now(w), w # "rename", NEW t \in Rebuild, Away(t)
  PROVE  zStep \notin {3, 24, 27}
<1>1. zPC = "schema" /\ zLine > 0 /\ zLine \in Nat BY DEF Z!Now, SchemaTypes, StepTypes
<1>2. <<t, zStep, zLine>> \notin {<<"series", 27, 5>>, <<"member", 27, 8>>, <<"seriesauthors", 27, 11>>}
  BY Lines DEF At
<1>3. QED BY <1>1, <1>2 DEF OldInv, AwayInTemp

LEMMA AwayOnward ==
  ASSUME Moves, AwayInTemp, zStep \notin {3, 24, 27},
         \A t \in Rebuild : Z!Exists(t) => Z!Exists(t)',
         \A c \in zHas' : c \in {Z!OldSeries, <<"users", "HaveRead">>} => c \in zHas,
         <<"jobs", "Start">> \in zHas => <<"jobs", "Start">> \in zHas',
         <<"temp", "key">> \in zHas => <<"temp", "key">> \in zHas'
  PROVE  AwayInTemp'
<1>1. zLine' = 0 \/ zStep' \notin {3, 24, 27}
  <2>1. CASE zStep = 26 BY <2>1 DEF Moves, Through
  <2>2. CASE zStep \notin Special BY <2>2 DEF Moves
  <2>3. QED BY <2>1, <2>2 DEF Special
<1>2. QED BY <1>1 DEF AwayInTemp, Away

LEMMA DoneOnward ==
  ASSUME Moves, StepsDone,
         \A c \in zHas' : c \in {Z!OldSeries, <<"users", "HaveRead">>} => c \in zHas,
         <<"jobs", "Start">> \in zHas /\ ~At(3, 2) => <<"jobs", "Start">> \in zHas',
         At(3, 3) => <<"jobs", "Start">> \in zHas',
         At(24, 9) => <<"users", "HaveRead">> \notin zHas',
         At(27, 4) => Z!OldSeries \notin zHas'
  PROVE  StepsDone'
<1>1. zStep' > 3 \/ (zStep' = 3 /\ zLine' = 4) => <<"jobs", "Start">> \in zHas'
  BY DEF Moves, Through, StepsDone, At
<1>2. zStep' > 24 \/ (zStep' = 24 /\ zLine' >= 10) => <<"users", "HaveRead">> \notin zHas'
  BY DEF Moves, Through, StepsDone, At
<1>3. zStep' = 27 /\ zLine' >= 5 => Z!OldSeries \notin zHas'
  BY DEF Moves, Through, StepsDone, At
<1>4. QED BY <1>1, <1>2, <1>3 DEF StepsDone

LEMMA ForeignOnward ==
  ASSUME Moves, ForeignOff, zForeign' = zForeign, ~At(24, 8), ~At(27, 1)
  PROVE  ForeignOff'
BY DEF Moves, Through, ForeignOff, At

LEMMA CopiedOnward ==
  ASSUME Moves, Copied,
         zStep = 24 /\ zLine \in 6..8 => zUsers' = zUsers /\ zLists' = zLists,
         zStep = 27 /\ zLine \in 1..3 /\ Z!OldSeries \in zHas => Z!OldSeries \in zHas',
         At(24, 5) => (zUsers \subseteq zLists)',
         \A i \in 1..4 : At(26, 2*i) => (Titled(Z!Lists[i]) \subseteq Z!InReadingLists)',
         At(27, 3) \/ At(27, 6) \/ At(27, 9) => <<"temp", "key">> \in zHas',
         At(27, 3) => (zTemp = {Z!Key(i) : i \in zSeries})',
         At(27, 6) => (zTemp = zMember["member"])',
         At(27, 9) => (zTemp = zMember["seriesauthors"])'
  PROVE  Copied'
<1>1. zStep' = 24 /\ zLine' \in 6..9 => (zUsers \subseteq zLists)'
  BY DEF Moves, Through, Copied, At
<1>2. \A i \in 1..4 : zStep' = 26 /\ zLine' = 2*i + 1 => (Titled(Z!Lists[i]) \subseteq Z!InReadingLists)'
  <2> SUFFICES ASSUME NEW i \in 1..4, zStep' = 26, zLine' = 2*i + 1 PROVE At(26, 2*i)
    OBVIOUS
  <2>1. QED BY DEF Moves, Through, At
<1>3. zStep' = 27 /\ zLine' \in 1..4 => Z!OldSeries \in zHas'
  BY DEF Moves, Through, Copied, At
<1>4. /\ zStep' = 27 /\ zLine' = 4 => At(27, 3)
      /\ zStep' = 27 /\ zLine' = 7 => At(27, 6)
      /\ zStep' = 27 /\ zLine' = 10 => At(27, 9)
  BY DEF Moves, Through, At
<1>5. zStep' = 27 /\ zLine' \in {4, 7, 10} => <<"temp", "key">> \in zHas'
  BY <1>4
<1>6. QED BY <1>1, <1>2, <1>3, <1>4, <1>5 DEF Copied

LEMMA QuietOn ==
  ASSUME SchemaTypes, OldInv, NEW w, Z!Now(w), w \notin {"rename", "create", "drop", "temp"}, Moves, zHas' = zHas,
         zSeries' = zSeries
  PROVE  ColumnsApart' /\ KeysThere' /\ AwayInTemp' /\ StepsDone' /\ NumberedYet'
<1>1. \A t : Z!Exists(t)' = Z!Exists(t) BY DEF Z!Exists
<1>2. AwayInTemp'
  <2>1. CASE \A t \in Rebuild : Z!Exists(t) BY <1>1, <2>1 DEF AwayInTemp, Away
  <2>2. CASE \E t \in Rebuild : Away(t)
    <3>1. zStep \notin {3, 24, 27} BY <2>2, AwayElsewhere
    <3>2. QED BY <1>1, <3>1, AwayOnward DEF OldInv
  <2>3. QED BY <2>1, <2>2 DEF Away
<1>3. ~At(3, 3) /\ ~At(24, 9) /\ ~At(27, 4) BY Lines
<1>4. StepsDone' BY <1>3, DoneOnward DEF OldInv
<1>5. QED BY <1>1, <1>2, <1>4 DEF OldInv, ColumnsApart, KeysThere, NumberedYet

LEMMA ForeignKeysInv == ASSUME SchemaTypes, OldInv, Z!ForeignKeys PROVE OldInv'
<1>1. /\ Z!Now("foreign") /\ Z!Advance /\ zForeign' = (Z!Of = "ON") /\ zHas' = zHas /\ zUsers' = zUsers
         /\ zLists' = zLists
      /\ zSeries' = zSeries
  BY DEF Z!ForeignKeys, Z!dataVars, Z!listVars, Z!seriesVars
<1>2. Moves BY <1>1, Onward
<1>3. ForeignOff'
  <2>1. ((At(24, 8) \/ At(27, 1)) /\ Z!Of = "OFF") \/ ((At(24, 11) \/ At(27, 14)) /\ Z!Of = "ON")
    BY <1>1, Statements DEF Kinds, Others
  <2>2. CASE Z!Of = "OFF" BY <1>1, <2>2 DEF ForeignOff
  <2>3. CASE At(24, 11) \/ At(27, 14) BY <1>2, <2>3 DEF ForeignOff, Moves, Through, At
  <2>4. QED BY <2>1, <2>2, <2>3
<1>4. Copied'
  <2>1. ~At(24, 5) /\ ~At(27, 3) /\ ~At(27, 6) /\ ~At(27, 9) /\ \A i \in 1..4 : ~At(26, 2*i) BY <1>1, Lines
  <2>2. QED BY <1>1, <1>2, <2>1, CopiedOnward DEF OldInv
<1>5. QED BY <1>1, <1>2, <1>3, <1>4, QuietOn DEF OldInv

LEMMA SpreadInv == ASSUME SchemaTypes, OldInv, Z!Spread PROVE OldInv'
<1>1. /\ Z!Now("spread") /\ Z!Advance /\ zForeign' = zForeign /\ zHas' = zHas /\ zUsers' = zUsers
         /\ zLists' = zLists
      /\ zSeries' = zSeries /\ zUsers \subseteq zLists
  BY DEF Z!Spread, Z!dataVars, Z!listVars, Z!seriesVars
<1>2. Moves BY <1>1, Onward
<1>3. /\ ~At(24, 8) /\ ~At(27, 1) /\ ~At(27, 3) /\ ~At(27, 6) /\ ~At(27, 9) /\ \A i \in 1..4 : ~At(26, 2*i)
  BY <1>1, Lines
<1>4. ForeignOff' BY <1>1, <1>2, <1>3, ForeignOnward DEF OldInv
<1>5. Copied' BY <1>1, <1>2, <1>3, CopiedOnward DEF OldInv
<1>6. QED BY <1>1, <1>2, <1>4, <1>5, QuietOn DEF OldInv

LEMMA MergeInv == ASSUME SchemaTypes, OldInv, Z!Merge PROVE OldInv'
<1>1. /\ Z!Now("merge") /\ Z!Advance /\ zForeign' = zForeign /\ zHas' = zHas /\ zUsers' = zUsers
         /\ zLists' = zLists
      /\ zMerged' = zMerged /\ zSeries' = zSeries /\ Titled(Z!Of) \subseteq Z!InReadingLists
  BY DEF Z!Merge, Z!dataVars, Z!listVars, Z!seriesVars, Titled
<1>2. Moves BY <1>1, Onward
<1>3. /\ ~At(24, 5) /\ ~At(24, 8) /\ ~At(27, 1) /\ ~At(27, 3) /\ ~At(27, 6) /\ ~At(27, 9)
  BY <1>1, Lines
<1>4. ForeignOff' BY <1>1, <1>2, <1>3, ForeignOnward DEF OldInv
<1>5. \A i \in 1..4 : At(26, 2*i) => (Titled(Z!Lists[i]) \subseteq Z!InReadingLists)'
  <2>1. PICK j \in 1..4 : At(26, 2*j) /\ Z!Of = Z!Lists[j] BY <1>1, Statements DEF Kinds, Others
  <2>2. \A i \in 1..4 : At(26, 2*i) => i = j BY <2>1 DEF At
  <2>3. QED BY <1>1, <2>1, <2>2 DEF Titled, Z!InReadingLists
<1>6. Copied' BY <1>1, <1>2, <1>3, <1>5, CopiedOnward DEF OldInv
<1>7. QED BY <1>1, <1>2, <1>4, <1>6, QuietOn DEF OldInv

LEMMA SelectInv ==
  ASSUME SchemaTypes, OldInv, NEW w, w \in {"select", "rekey"}, Z!Now(w), Z!Advance,
         UNCHANGED <<zHas, zForeign, Z!listVars, zSeries>>
  PROVE  OldInv'
<1>1. zForeign' = zForeign /\ zHas' = zHas /\ zUsers' = zUsers /\ zLists' = zLists /\ zSeries' = zSeries
  BY DEF Z!listVars
<1>2. Moves BY Onward
<1>3. /\ ~At(24, 5) /\ ~At(24, 8) /\ ~At(27, 1) /\ ~At(27, 3) /\ ~At(27, 6) /\ ~At(27, 9)
      /\ \A i \in 1..4 : ~At(26, 2*i)
  BY Lines
<1>4. ForeignOff' BY <1>1, <1>2, <1>3, ForeignOnward DEF OldInv
<1>5. Copied' BY <1>1, <1>2, <1>3, CopiedOnward DEF OldInv
<1>6. w \notin {"rename", "create", "drop", "temp"} OBVIOUS
<1>7. QED BY <1>1, <1>2, <1>4, <1>5, <1>6, QuietOn DEF OldInv

(* A row of the three loops. *)
LEMMA RowInv ==
  ASSUME SchemaTypes, OldInv, NEW w, w \in {"spread", "merge", "rekey"}, Z!Now(w),
         UNCHANGED <<zHas, zForeign, zSeries, zPC, zStep, zLine>>
  PROVE  OldInv'
<1>1. At(24, 5) \/ (\E i \in 1..4 : At(26, 2*i)) \/ At(27, 13)
  BY Statements DEF Kinds, Others
<1>2. Copied' BY <1>1 DEF Copied, At
<1>3. ForeignOff' /\ StepsDone' BY DEF OldInv, ForeignOff, StepsDone
<1>4. \A t : Z!Exists(t)' = Z!Exists(t) BY DEF Z!Exists
<1>5. AwayInTemp' BY <1>4 DEF OldInv, AwayInTemp, Away
<1>6. QED BY <1>2, <1>3, <1>4, <1>5 DEF OldInv, ColumnsApart, KeysThere, NumberedYet

(* Outside update_schema nothing is on its way. *)
LEMMA OutsideUpgrade ==
  ASSUME OldInv, zHas' = zHas, zSeries' \subseteq zSeries, zPC' # "schema" \/ (zLine' = 0 /\ zStep' = 1)
  PROVE  OldInv'
<1>1. \A t : Z!Exists(t)' = Z!Exists(t) BY DEF Z!Exists
<1>2. AwayInTemp' BY <1>1 DEF OldInv, AwayInTemp, Away
<1>3. Copied' /\ ForeignOff' /\ StepsDone'
  BY DEF Copied, ForeignOff, StepsDone
<1>4. QED BY <1>1, <1>2, <1>3 DEF OldInv, ColumnsApart, KeysThere, NumberedYet

LEMMA EnterInv == ASSUME SchemaTypes, OldInv, Z!Enter PROVE OldInv'
<1>1. /\ zPC = "schema" /\ zPC' = "schema" /\ zStep \in 1..31 /\ zLine = 0 /\ zHas' = zHas /\ zForeign' = zForeign
      /\ zSeries' = zSeries
  BY StepTable DEF Z!Enter, Z!dataVars, Z!seriesVars, SchemaTypes, StepTypes
<1>2. \/ Z!Needed(Z!Steps[zStep]) /\ zLine' = 1 /\ zStep' = zStep
      \/ ~Z!Needed(Z!Steps[zStep]) /\ zLine' = 0 /\ zStep' = zStep + 1
  BY <1>1 DEF Z!Enter
<1>3. \A t : Z!Exists(t)' = Z!Exists(t) BY <1>1 DEF Z!Exists
<1>4. /\ zStep = 3 => (Z!Needed(Z!Steps[zStep]) <=> <<"jobs", "Start">> \notin zHas)
      /\ zStep = 24 => (Z!Needed(Z!Steps[zStep]) <=> <<"users", "HaveRead">> \in zHas)
      /\ zStep = 27 => (Z!Needed(Z!Steps[zStep]) <=> Z!OldSeries \in zHas)
  <2>1. CASE zStep = 3 BY <2>1, JobsStep DEF Z!Needed
  <2>2. CASE zStep = 24 BY <2>2, UsersStep DEF Z!Needed
  <2>3. CASE zStep = 27 BY <2>3, SeriesStep DEF Z!Needed
  <2>4. QED BY <2>1, <2>2, <2>3
<1>5. ASSUME NEW t \in Rebuild, Away(t) PROVE zLine' = 0 \/ zStep' \notin {3, 24, 27}
  BY <1>2, <1>4, <1>5 DEF OldInv, AwayInTemp
<1>6. AwayInTemp' BY <1>1, <1>3, <1>5 DEF OldInv, AwayInTemp, Away
<1>7. StepsDone' BY <1>1, <1>2, <1>4 DEF OldInv, StepsDone
<1>8. ForeignOff' BY <1>1, <1>2 DEF OldInv, ForeignOff
<1>9. Copied' BY <1>1, <1>2, <1>4 DEF Copied
<1>10. QED BY <1>1, <1>3, <1>6, <1>7, <1>8, <1>9 DEF OldInv, ColumnsApart, KeysThere, NumberedYet

LEMMA NotOld ==
  ASSUME NEW t, NEW c, c \notin OldColumns
  PROVE  /\ <<t, c>> \notin {Z!OldSeries, <<"users", "HaveRead">>} /\ <<t, c>>[1] = t /\ <<t, c>>[2] = c
         /\ c # "SeriesID INTEGER" /\ c # "HaveRead"
BY DEF Z!OldSeries, OldColumns

LEMMA AddColumnInv == ASSUME SchemaTypes, OldInv, Z!AddColumn PROVE OldInv'
<1>1. /\ Z!Now("add") /\ Z!Advance /\ Z!Exists(Z!Of) /\ zHas' = zHas \cup {<<Z!Of, Z!Onto>>}
         /\ zForeign' = zForeign
      /\ zSeries' = zSeries
  BY DEF Z!AddColumn, Z!dataVars, Z!seriesVars
<1>2. Moves BY <1>1, Onward
<1>3. zStep \notin Special /\ Z!Onto \notin OldColumns BY <1>1, Statements DEF Kinds, Adds
<1>4. \A t : Z!Exists(t)' <=> Z!Exists(t) BY <1>1 DEF Z!Exists
<1>5. \A c \in zHas' : c \in {Z!OldSeries, <<"users", "HaveRead">>} => c \in zHas
  BY <1>1, <1>3, NotOld
<1>6. AwayInTemp' BY <1>1, <1>2, <1>3, <1>4, <1>5, AwayOnward DEF OldInv, Special
<1>7. \A k \in Special : \A j : ~At(k, j) BY <1>3 DEF At
<1>8. StepsDone' BY <1>1, <1>2, <1>5, <1>7, DoneOnward DEF OldInv, Special
<1>9. ForeignOff' BY <1>1, <1>2, <1>7, ForeignOnward DEF OldInv, Special
<1>10. Copied' BY <1>2, <1>3, <1>7, CopiedOnward DEF OldInv, Special
<1>11. ColumnsApart' /\ KeysThere'
  <2>1. ColumnsApart'
    <3> SUFFICES ASSUME NEW c \in zHas'
                 PROVE  /\ c = <<c[1], c[2]>> /\ (c[2] = "SeriesID INTEGER" => c[1] = "series")
                        /\ (c[2] = "HaveRead" => c[1] = "users")
      BY DEF ColumnsApart
    <3>1. CASE c \in zHas BY <3>1 DEF OldInv, ColumnsApart
    <3>2. CASE c = <<Z!Of, Z!Onto>>
      <4>1. c[1] = Z!Of /\ c[2] = Z!Onto BY <3>2
      <4>2. QED BY <1>3, <3>2, <4>1, NotOld
    <3>3. QED BY <1>1, <3>1, <3>2
  <2>2. KeysThere' BY <1>1, <1>4 DEF OldInv, KeysThere
  <2>3. QED BY <2>1, <2>2
<1>12. NumberedYet' BY <1>1, <1>5 DEF OldInv, NumberedYet
<1>13. QED BY <1>6, <1>8, <1>9, <1>10, <1>11, <1>12 DEF OldInv

LEMMA CreateTableInv == ASSUME SchemaTypes, OldInv, Z!CreateTable PROVE OldInv'
<1>1. /\ Z!Now("create") /\ Z!Advance /\ zHas' = zHas \cup {<<Z!Of, Z!Onto>>} /\ zForeign' = zForeign
      /\ zSeries' = zSeries /\ zUsers' = zUsers /\ zLists' = zLists
  BY DEF Z!CreateTable, Z!dataVars, Z!seriesVars, Z!listVars
<1>2. Moves BY <1>1, Onward
<1>3. /\ Z!Of \notin Rebuild \cup {"temp"} /\ Z!Onto \notin OldColumns
      /\ \/ zStep \notin Special
         \/ At(3, 3) /\ Z!Of = "jobs" /\ Z!Onto = "Start"
         \/ zStep = 24 /\ zLine \in 1..4
         \/ At(26, 1)
  BY <1>1, Statements DEF Kinds, Creates
<1>4. \A t \in Rebuild : Z!Exists(t)' <=> Z!Exists(t) BY <1>1, <1>3 DEF Z!Exists
<1>5. \A c \in zHas' : c \in {Z!OldSeries, <<"users", "HaveRead">>} => c \in zHas
  BY <1>1, <1>3, NotOld
<1>6. AwayInTemp'
  <2>1. CASE \A t \in Rebuild : Z!Exists(t) BY <1>4, <2>1 DEF AwayInTemp, Away
  <2>2. CASE \E t \in Rebuild : Away(t)
    <3>1. zStep \notin {3, 24, 27} BY <1>1, <2>2, AwayElsewhere
    <3>2. QED BY <1>1, <1>2, <1>4, <1>5, <3>1, AwayOnward DEF OldInv
  <2>3. QED BY <2>1, <2>2 DEF Away
<1>7. /\ ~At(24, 5) /\ ~At(24, 8) /\ ~At(24, 9) /\ ~At(27, 1) /\ ~At(27, 3) /\ ~At(27, 4) /\ ~At(27, 6)
         /\ ~At(27, 9)
      /\ \A i \in 1..4 : ~At(26, 2*i)
  BY <1>1, Lines
<1>8. At(3, 3) => <<"jobs", "Start">> \in zHas' BY <1>1, <1>3 DEF At, Special
<1>9. StepsDone' BY <1>1, <1>2, <1>5, <1>7, <1>8, DoneOnward DEF OldInv
<1>10. ForeignOff' BY <1>1, <1>2, <1>7, ForeignOnward DEF OldInv
<1>11. Copied' BY <1>1, <1>2, <1>7, CopiedOnward DEF OldInv
<1>12. ColumnsApart' /\ KeysThere'
  <2>1. ColumnsApart'
    <3> SUFFICES ASSUME NEW c \in zHas'
                 PROVE  /\ c = <<c[1], c[2]>> /\ (c[2] = "SeriesID INTEGER" => c[1] = "series")
                        /\ (c[2] = "HaveRead" => c[1] = "users")
      BY DEF ColumnsApart
    <3>1. CASE c \in zHas BY <3>1 DEF OldInv, ColumnsApart
    <3>2. CASE c = <<Z!Of, Z!Onto>>
      <4>1. c[1] = Z!Of /\ c[2] = Z!Onto BY <3>2
      <4>2. QED BY <1>3, <3>2, <4>1, NotOld
    <3>3. QED BY <1>1, <3>1, <3>2
  <2>2. KeysThere' BY <1>1, <1>4 DEF OldInv, KeysThere
  <2>3. QED BY <2>1, <2>2
<1>13. NumberedYet' BY <1>1, <1>5 DEF OldInv, NumberedYet
<1>14. QED BY <1>6, <1>9, <1>10, <1>11, <1>12, <1>13 DEF OldInv

(* A statement that drops a table finds all tables there, or drops one of the lists. *)
LEMMA DropWhere ==
  ASSUME SchemaTypes, OldInv, Z!Now("drop")
  PROVE  \/ AllThere /\ Drops("drop")
         \/ \E i \in 1..4 : At(26, 2*i + 1) /\ Z!Of = Z!Lists[i]
<1>1. Drops("drop") BY Statements DEF Kinds
<1>2. CASE AllThere BY <1>1, <1>2
<1>3. CASE ~AllThere
  <2>1. PICK t \in Rebuild : Away(t) BY <1>3 DEF AllThere, Away
  <2>2. zStep \notin {3, 24, 27} BY <2>1, AwayElsewhere
  <2>3. QED BY <1>1, <2>2 DEF Drops, At
<1>4. QED BY <1>2, <1>3

LEMMA DropInv == ASSUME SchemaTypes, OldInv, Z!Drop PROVE OldInv'
<1>1. /\ Z!Now("drop") /\ Z!Advance /\ zHas' = Z!Without(Z!Of) /\ zForeign' = zForeign
      /\ zMerged' = zMerged
      /\ zUsers' = IF Z!Of = "users" THEN {} ELSE zUsers
      /\ zLists' = IF Z!Of = "users" /\ zForeign THEN {} ELSE {e \in zLists : e[1] # Z!Of}
      /\ zSeries' = IF Z!Of = "series" THEN {} ELSE zSeries
  BY DEF Z!Drop
<1>2. Moves BY <1>1, Onward
<1>3. \A t : Z!Exists(t)' <=> Z!Exists(t) /\ t # Z!Of BY <1>1 DEF Z!Exists, Z!Without
<1>4. zHas' \subseteq zHas /\ \A c \in zHas' : c[1] # Z!Of BY <1>1 DEF Z!Without
<1>5. Z!Of \in Rebuild \cup {"temp", "users"} \cup Z!ListNames /\ Z!Of # "jobs"
  BY <1>1, DropWhere, ListsAre DEF Drops, Rebuild, Z!Tables
<1>6. /\ ~At(3, 3) /\ ~At(24, 5) /\ ~At(24, 8) /\ ~At(27, 1) /\ ~At(27, 3) /\ ~At(27, 6) /\ ~At(27, 9)
      /\ \A i \in 1..4 : ~At(26, 2*i)
  BY <1>1, Lines
<1>7. /\ At(24, 9) => Z!Of = "users"
      /\ At(27, 4) => Z!Of = "series"
  <2>1. Drops("drop") BY <1>1, Statements DEF Kinds
  <2>2. QED BY <2>1 DEF Drops, At
<1>8. <<"jobs", "Start">> \in zHas => <<"jobs", "Start">> \in zHas'
  BY <1>1, <1>5 DEF Z!Without
<1>9. StepsDone'
  <2>1. At(24, 9) => <<"users", "HaveRead">> \notin zHas' BY <1>1, <1>7 DEF Z!Without
  <2>2. At(27, 4) => Z!OldSeries \notin zHas' BY <1>1, <1>7 DEF Z!Without, Z!OldSeries
  <2>3. QED BY <1>2, <1>4, <1>6, <1>8, <2>1, <2>2, DoneOnward DEF OldInv
<1>10. ForeignOff' BY <1>1, <1>2, <1>6, ForeignOnward DEF OldInv
<1>11. Copied'
  <2>1. zStep = 24 /\ zLine \in 6..8 => zUsers' = zUsers /\ zLists' = zLists
    <3>1. SUFFICES ASSUME zStep = 24, zLine \in 6..8 PROVE zUsers' = zUsers /\ zLists' = zLists OBVIOUS
    <3>2. Z!Of = "temp" BY <1>1, <3>1, DropWhere DEF Drops, At
    <3>3. \A e \in zLists : e[1] \in Z!ListNames BY DEF SchemaTypes, RowTypes
    <3>4. QED BY <1>1, <3>2, <3>3, NamesAre
  <2>2. zStep = 27 /\ zLine \in 1..3 /\ Z!OldSeries \in zHas => Z!OldSeries \in zHas'
    <3>1. SUFFICES ASSUME zStep = 27, zLine \in 1..3, Z!OldSeries \in zHas PROVE Z!OldSeries \in zHas' OBVIOUS
    <3>2. Z!Of = "temp" BY <1>1, <3>1, DropWhere DEF Drops, At
    <3>3. QED BY <1>1, <3>1, <3>2 DEF Z!Without, Z!OldSeries
  <2>3. QED BY <1>2, <1>6, <2>1, <2>2, CopiedOnward DEF OldInv
<1>12. ColumnsApart' /\ KeysThere' BY <1>1, <1>3, <1>4 DEF OldInv, ColumnsApart, KeysThere, Z!Without
<1>13. NumberedYet' BY <1>1, <1>4 DEF OldInv, NumberedYet
<1>14. AwayInTemp'
  <2>1. CASE AllThere /\ Z!Of \notin Rebuild BY <1>3, <2>1 DEF AllThere, AwayInTemp, Away
  <2>2. CASE AllThere /\ Z!Of \in Rebuild
    <3>1. /\ zStep = 27
          /\ \/ zLine = 4 /\ Z!Of = "series"
             \/ zLine = 7 /\ Z!Of = "member"
             \/ zLine = 10 /\ Z!Of = "seriesauthors"
      BY <1>1, <2>2, DropWhere, ListsAre DEF Drops, At, Rebuild, Z!Tables
    <3>2. <<"temp", "key">> \in zHas BY <1>2, <3>1 DEF OldInv, Copied, Moves
    <3>3. <<"temp", "key">> \in zHas' BY <1>1, <3>1, <3>2 DEF Z!Without
    <3>4. <<"users", "HaveRead">> \notin zHas /\ <<"jobs", "Start">> \in zHas
      BY <1>2, <3>1 DEF OldInv, StepsDone, Moves
    <3>5. zStep' = 27 /\ zLine' = zLine + 1 BY <1>2, <3>1 DEF Moves, Through
    <3>6. Z!OldSeries \notin zHas' BY <1>9, <3>1, <3>5, <1>2 DEF StepsDone, Moves
    <3>7. \A t \in Rebuild : Away(t)' => t = Z!Of BY <1>3, <2>2 DEF AllThere, Away
    <3>8. <<Z!Of, zStep', zLine'>> \in {<<"series", 27, 5>>, <<"member", 27, 8>>, <<"seriesauthors", 27, 11>>}
      BY <3>1, <3>5
    <3>9. \A s \in Rebuild \ {Z!Of} : Z!Exists(s)' BY <1>3, <2>2 DEF AllThere
    <3>10. QED BY <1>4, <1>8, <3>3, <3>4, <3>6, <3>7, <3>8, <3>9 DEF AwayInTemp
  <2>3. CASE \E i \in 1..4 : At(26, 2*i + 1) /\ Z!Of = Z!Lists[i]
    <3>1. zStep = 26 /\ Z!Of \notin Rebuild \cup {"temp"} BY <2>3, ListsAre DEF At
    <3>2. \A t \in Rebuild : Z!Exists(t) => Z!Exists(t)' BY <1>3, <3>1
    <3>3. <<"temp", "key">> \in zHas => <<"temp", "key">> \in zHas' BY <1>1, <3>1 DEF Z!Without
    <3>4. QED BY <1>2, <1>4, <1>8, <3>1, <3>2, <3>3, AwayOnward DEF OldInv
  <2>4. QED BY <1>1, <2>1, <2>2, <2>3, DropWhere
<1>15. QED BY <1>9, <1>10, <1>11, <1>12, <1>13, <1>14 DEF OldInv

LEMMA TempWhere == ASSUME SchemaTypes, OldInv, Z!Now("temp") PROVE AllThere /\ Temps("temp")
<1>1. Temps("temp") BY Statements DEF Kinds
<1>2. zStep \in {3, 24, 27} BY <1>1 DEF Temps, At
<1>3. QED BY <1>1, <1>2, AwayElsewhere DEF AllThere, Away

LEMMA MakeTempInv == ASSUME SchemaTypes, OldInv, Z!MakeTemp PROVE OldInv'
<1> DEFINE Dropped == {Z!OldSeries, <<"users", "HaveRead">>, <<"users", "Reading">>, <<"users", "Abandoned">>,
                       <<"series", "Source">>, <<"series", "gr_id">>}
<1> DEFINE Copy == {<<"temp", c[2]>> : c \in {d \in zHas : d[1] = Z!Of} \ Dropped}
<1>1. /\ Z!Now("temp") /\ Z!Exists(Z!Of) /\ ~Z!Exists("temp") /\ Z!Advance /\ zHas' = zHas \cup Copy
      /\ zForeign' = zForeign /\ zUsers' = zUsers /\ zLists' = zLists /\ zSeries' = zSeries /\ zMember' = zMember
      /\ zTemp' = CASE Z!Of = "users" -> {}
                    [] Z!Of = "series" -> {Z!Key(i) : i \in zSeries}
                    [] OTHER -> zMember[Z!Of]
  BY DEF Z!MakeTemp, Z!listVars, Z!seriesVars
<1>2. Moves BY <1>1, Onward
<1>3. AllThere /\ Temps("temp") BY <1>1, TempWhere
<1>4. \A c \in Copy : c = <<c[1], c[2]>> /\ c[1] = "temp" /\ c[2] \notin {"SeriesID INTEGER", "HaveRead"}
  <2> SUFFICES ASSUME NEW c \in Copy
               PROVE  c = <<c[1], c[2]>> /\ c[1] = "temp" /\ c[2] \notin {"SeriesID INTEGER", "HaveRead"}
    OBVIOUS
  <2>1. PICK d \in zHas : d \notin Dropped /\ c = <<"temp", d[2]>> OBVIOUS
  <2>2. d[2] \notin {"SeriesID INTEGER", "HaveRead"} BY <2>1 DEF OldInv, ColumnsApart, Z!OldSeries
  <2>3. QED BY <2>1, <2>2
<1>5. Z!Of \in Rebuild => <<"temp", "key">> \in Copy
  <2> SUFFICES ASSUME Z!Of \in Rebuild PROVE <<"temp", "key">> \in Copy OBVIOUS
  <2>1. <<Z!Of, "key">> \in zHas BY <1>3 DEF OldInv, KeysThere, AllThere
  <2>2. <<Z!Of, "key">> \notin Dropped BY DEF Z!OldSeries
  <2>3. QED BY <2>1, <2>2
<1> HIDE DEF Copy, Dropped
<1>6. \A t \in Rebuild : Z!Exists(t)' BY <1>1, <1>3 DEF Z!Exists, AllThere
<1>7. AwayInTemp' BY <1>6 DEF AwayInTemp, Away
<1>8. /\ ~At(3, 3) /\ ~At(24, 5) /\ ~At(24, 8) /\ ~At(24, 9) /\ ~At(27, 1) /\ ~At(27, 4)
      /\ \A i \in 1..4 : ~At(26, 2*i)
  BY <1>1, Lines
<1>9. \A c \in zHas' : c \in {Z!OldSeries, <<"users", "HaveRead">>} => c \in zHas
  BY <1>1, <1>4 DEF Z!OldSeries
<1>10. StepsDone' BY <1>1, <1>2, <1>8, <1>9, DoneOnward DEF OldInv
<1>11. ForeignOff' BY <1>1, <1>2, <1>8, ForeignOnward DEF OldInv
<1>12. /\ At(27, 3) => Z!Of = "series"
       /\ At(27, 6) => Z!Of = "member"
       /\ At(27, 9) => Z!Of = "seriesauthors"
  BY <1>3 DEF Temps, At
<1>13. /\ At(27, 3) => (zTemp = {Z!Key(i) : i \in zSeries})'
       /\ At(27, 6) => (zTemp = zMember["member"])'
       /\ At(27, 9) => (zTemp = zMember["seriesauthors"])'
  <2>1. CASE At(27, 3) BY <1>1, <1>12, <2>1 DEF At, Z!Key
  <2>2. CASE At(27, 6) BY <1>1, <1>12, <2>2 DEF At
  <2>3. CASE At(27, 9) BY <1>1, <1>12, <2>3 DEF At
  <2>4. QED BY <2>1, <2>2, <2>3
<1>14. At(27, 3) \/ At(27, 6) \/ At(27, 9) => <<"temp", "key">> \in zHas'
  BY <1>1, <1>5, <1>12 DEF Rebuild, Z!Tables
<1>15. Copied' BY <1>1, <1>2, <1>8, <1>13, <1>14, CopiedOnward DEF OldInv
<1>16. ColumnsApart' BY <1>1, <1>4 DEF OldInv, ColumnsApart
<1>17. KeysThere' BY <1>1, <1>3 DEF OldInv, KeysThere, AllThere
<1>18. NumberedYet' BY <1>1, <1>9 DEF OldInv, NumberedYet
<1>19. QED BY <1>7, <1>10, <1>11, <1>15, <1>16, <1>17, <1>18 DEF OldInv

LEMMA RenameInv == ASSUME SchemaTypes, OldInv, Z!Rename PROVE OldInv'
<1> DEFINE Moved == {<<Z!Onto, c[2]>> : c \in {d \in zHas : d[1] = Z!Of}}
<1>1. /\ Z!Now("rename") /\ Z!Exists(Z!Of) /\ ~Z!Exists(Z!Onto) /\ Z!Advance /\ zHas' = Z!Without(Z!Of) \cup Moved
      /\ zForeign' = zForeign /\ zUsers' = zUsers /\ zLists' = zLists
      /\ zSeries' = IF Z!Onto = "series" THEN zTemp ELSE zSeries
  BY DEF Z!Rename, Z!listVars
<1>2. Moves BY <1>1, Onward
<1>3. \/ At(3, 2) /\ Z!Of = "jobs" /\ Z!Onto = "temp"
      \/ At(24, 10) /\ Z!Of = "temp" /\ Z!Onto = "users"
      \/ At(27, 5) /\ Z!Of = "temp" /\ Z!Onto = "series"
      \/ At(27, 8) /\ Z!Of = "temp" /\ Z!Onto = "member"
      \/ At(27, 11) /\ Z!Of = "temp" /\ Z!Onto = "seriesauthors"
  BY <1>1, Statements DEF Kinds, Renames
<1>4. Z!Of \in {"jobs", "temp"} /\ Z!Onto \notin {"jobs"} BY <1>3
<1>5. \A c \in Moved : c = <<c[1], c[2]>> /\ c[1] = Z!Onto /\ c[2] \notin {"SeriesID INTEGER", "HaveRead"}
  <2> SUFFICES ASSUME NEW c \in Moved
               PROVE  c = <<c[1], c[2]>> /\ c[1] = Z!Onto /\ c[2] \notin {"SeriesID INTEGER", "HaveRead"}
    OBVIOUS
  <2>1. PICK d \in zHas : d[1] = Z!Of /\ c = <<Z!Onto, d[2]>> OBVIOUS
  <2>2. d[2] \notin {"SeriesID INTEGER", "HaveRead"} BY <1>4, <2>1 DEF OldInv, ColumnsApart
  <2>3. QED BY <2>1, <2>2
<1>6. \E c \in Moved : c[1] = Z!Onto
  <2>1. PICK d \in zHas : d[1] = Z!Of BY <1>1 DEF Z!Exists
  <2>2. <<Z!Onto, d[2]>> \in Moved /\ <<Z!Onto, d[2]>>[1] = Z!Onto BY <2>1
  <2>3. QED BY <2>2
<1>7. <<"temp", "key">> \in zHas /\ Z!Of = "temp" => <<Z!Onto, "key">> \in Moved
  <2> SUFFICES ASSUME <<"temp", "key">> \in zHas, Z!Of = "temp" PROVE <<Z!Onto, "key">> \in Moved OBVIOUS
  <2>1. <<"temp", "key">>[1] = Z!Of /\ <<"temp", "key">>[2] = "key" OBVIOUS
  <2>2. QED BY <2>1
<1> HIDE DEF Moved
<1>8. \A t \in Rebuild \ {Z!Onto} : Z!Exists(t)
  <2>1. CASE Z!Onto \in Rebuild
    <3>1. Away(Z!Onto) BY <1>1 DEF Away
    <3>2. QED BY <2>1, <3>1 DEF OldInv, AwayInTemp
  <2>2. CASE Z!Onto \notin Rebuild
    <3>1. zStep \in {3, 24} BY <1>3, <2>2 DEF At, Rebuild, Z!Tables
    <3>2. zPC = "schema" /\ zLine > 0 /\ zLine \in Nat BY <1>2 DEF Moves
    <3>3. AllThere BY <3>1, <3>2, NoneAway
    <3>4. QED BY <3>3 DEF AllThere
  <2>3. QED BY <2>1, <2>2
<1>9. \A t \in Rebuild : Z!Exists(t)'
  <2> SUFFICES ASSUME NEW t \in Rebuild PROVE Z!Exists(t)' OBVIOUS
  <2>1. CASE t = Z!Onto BY <1>1, <1>6, <2>1 DEF Z!Exists
  <2>2. CASE t # Z!Onto BY <1>1, <1>4, <1>8, <2>2 DEF Z!Exists, Z!Without, Rebuild, Z!Tables
  <2>3. QED BY <2>1, <2>2
<1>10. AwayInTemp' BY <1>9 DEF AwayInTemp, Away
<1>11. \A c \in zHas' : c \in {Z!OldSeries, <<"users", "HaveRead">>} => c \in zHas
  BY <1>1, <1>5 DEF Z!Without, Z!OldSeries
<1>12. /\ ~At(3, 3) /\ ~At(24, 5) /\ ~At(24, 8) /\ ~At(24, 9) /\ ~At(27, 1) /\ ~At(27, 3) /\ ~At(27, 4)
          /\ ~At(27, 6)
       /\ ~At(27, 9) /\ \A i \in 1..4 : ~At(26, 2*i)
  BY <1>1, Lines
<1>13. <<"jobs", "Start">> \in zHas /\ ~At(3, 2) => <<"jobs", "Start">> \in zHas'
  <2>1. ~At(3, 2) => Z!Of = "temp" BY <1>3
  <2>2. QED BY <1>1, <2>1 DEF Z!Without
<1>14. StepsDone' BY <1>2, <1>11, <1>12, <1>13, DoneOnward DEF OldInv
<1>15. ForeignOff' BY <1>1, <1>2, <1>12, ForeignOnward DEF OldInv
<1>16. ~(zStep = 27 /\ zLine \in 1..3) BY <1>3 DEF At
<1>17. Copied' BY <1>1, <1>2, <1>12, <1>16, CopiedOnward DEF OldInv
<1>18. ColumnsApart'
  <2>1. \A c \in Z!Without(Z!Of) : c \in zHas BY DEF Z!Without
  <2>2. QED BY <1>1, <1>5, <2>1 DEF OldInv, ColumnsApart
<1>19. KeysThere'
  <2> SUFFICES ASSUME NEW t \in Rebuild PROVE <<t, "key">> \in zHas' BY DEF KeysThere
  <2>1. CASE t = Z!Onto
    <3>1. Z!Of = "temp" BY <1>3, <2>1 DEF Rebuild, Z!Tables
    <3>2. Away(Z!Onto) BY <1>1 DEF Away
    <3>3. <<"temp", "key">> \in zHas BY <2>1, <3>2 DEF OldInv, AwayInTemp
    <3>4. QED BY <1>1, <1>7, <2>1, <3>1, <3>3
  <2>2. CASE t # Z!Onto
    <3>1. <<t, "key">> \in zHas BY <1>8, <2>2 DEF OldInv, KeysThere
    <3>2. t # Z!Of BY <1>4 DEF Rebuild, Z!Tables
    <3>3. QED BY <1>1, <3>1, <3>2 DEF Z!Without
  <2>3. QED BY <2>1, <2>2
<1>20. NumberedYet'
  <2> SUFFICES ASSUME Z!OldSeries \in zHas' PROVE zSeries' \subseteq SeriesIds BY DEF NumberedYet
  <2>1. Z!OldSeries \in zHas BY <1>11
  <2>2. Z!Exists("series") BY <2>1 DEF Z!Exists, Z!OldSeries
  <2>3. QED BY <1>1, <2>1, <2>2 DEF OldInv, NumberedYet
<1>21. QED BY <1>10, <1>14, <1>15, <1>17, <1>18, <1>19, <1>20 DEF OldInv

LEMMA OldInvHolds ==
  ASSUME SchemaTypes, OldInv, zVersion # 0, Z!Next
  PROVE  OldInv'
<1>1. CASE Z!Start BY <1>1, OutsideUpgrade DEF Z!Start, Z!dataVars, Z!seriesVars
<1>2. CASE Z!Enter BY <1>2, EnterInv
<1>3. CASE Z!AddColumn BY <1>3, AddColumnInv
<1>4. CASE Z!CreateTable BY <1>4, CreateTableInv
<1>5. CASE Z!ForeignKeys BY <1>5, ForeignKeysInv
<1>6. CASE Z!Drop BY <1>6, DropInv
<1>7. CASE Z!MakeTemp BY <1>7, MakeTempInv
<1>8. CASE Z!Rename BY <1>8, RenameInv
<1>9. CASE Z!Spread BY <1>9, SpreadInv
<1>10. CASE Z!Merge BY <1>10, MergeInv
<1>11. CASE Z!Select BY <1>11, SelectInv DEF Z!Select, Z!listVars, Z!seriesVars
<1>12. CASE Z!Rekey BY <1>12, SelectInv DEF Z!Rekey, Z!dataVars, Z!listVars, Z!seriesVars
<1>13. CASE \E e \in Z!ListNames \X ReadBooks : Z!SpreadRow(e) \/ Z!MergeRow(e)
  BY <1>13, RowInv DEF Z!SpreadRow, Z!MergeRow, Z!seriesVars
<1>14. CASE \E t \in Z!Tables, k \in zSeries : Z!RekeyRow(t, k)
  BY <1>14, RowInv DEF Z!RekeyRow
<1>15. CASE Z!Fail BY <1>15, OutsideUpgrade DEF Z!Fail, Z!seriesVars
<1>16. CASE Z!Check BY <1>16, OutsideUpgrade DEF Z!Check, Z!seriesVars
<1>17. CASE Z!Finish BY <1>17, OutsideUpgrade DEF Z!Finish, Z!dataVars, Z!seriesVars
<1>18. CASE Z!Crash BY <1>18, OutsideUpgrade DEF Z!Crash, Z!seriesVars
<1>19. QED BY <1>1, <1>2, <1>3, <1>4, <1>5, <1>6, <1>7, <1>8, <1>9, <1>10, <1>11, <1>12, <1>13, <1>14, <1>15,
              <1>16, <1>17, <1>18 DEF Z!Next

-----------------------------------------------------------------------------
(* The rows. *)

LEMMA RowTypesHold ==
  ASSUME Z!SchemaAssumption, SchemaTypes, Z!Next
  PROVE  RowTypes'
<1> USE DEF Z!dataVars, Z!listVars, Z!seriesVars
<1>1. RowTypes BY DEF SchemaTypes
<1>2. \A t \in Z!Tables : IsFiniteSet(zMember[t]) BY <1>1 DEF RowTypes
<1>3. CASE UNCHANGED <<zLists, Z!seriesVars, zTemp>> BY <1>1, <1>3 DEF RowTypes
<1>4. CASE Z!Start \/ Z!Enter \/ Z!AddColumn \/ Z!CreateTable \/ Z!ForeignKeys \/ Z!Spread \/ Z!Merge
           \/ Z!Select \/ Z!Rekey
           \/ Z!Fail \/ Z!Finish \/ Z!Crash
  BY <1>3, <1>4 DEF Z!Start, Z!Enter, Z!AddColumn, Z!CreateTable, Z!ForeignKeys, Z!Spread, Z!Merge, Z!Select,
     Z!Rekey, Z!Fail, Z!Finish, Z!Crash
<1>5. CASE Z!Drop
  <2>1. /\ zTemp' \in {{}, zTemp} /\ zLists' \subseteq zLists /\ zSeries' \in {{}, zSeries}
        /\ zMember' = [t \in Z!Tables |->
                         IF Z!Of = t \/ (Z!Of = "series" /\ zForeign /\ t = "member") THEN {} ELSE zMember[t]]
    BY <1>5 DEF Z!Drop
  <2>2. zMember' = [t \in Z!Tables |-> zMember'[t]] BY <2>1
  <2>3. \A t \in Z!Tables : zMember'[t] \in {{}, zMember[t]} BY <2>1
  <2>4. \A t \in Z!Tables : IsFiniteSet(zMember'[t]) BY <1>2, <2>3, FS_EmptySet
  <2>5. IsFiniteSet(zTemp') /\ IsFiniteSet(zSeries') BY <1>1, <2>1, FS_EmptySet DEF RowTypes
  <2>6. QED BY <1>1, <2>1, <2>2, <2>4, <2>5 DEF RowTypes
<1>6. CASE Z!MakeTemp
  <2>1. /\ zLists' = zLists /\ zSeries' = zSeries /\ zMember' = zMember
        /\ zTemp' = CASE Z!Of = "users" -> {}
                      [] Z!Of = "series" -> {Z!Key(i) : i \in zSeries}
                      [] OTHER -> zMember[Z!Of]
    BY <1>6 DEF Z!MakeTemp
  <2>2. Z!Of \in {"users", "series"} \cup Z!Tables
    BY <1>6, Statements DEF Z!MakeTemp, Kinds, Temps, Z!Tables
  <2>3. zTemp' \in {{}, {Z!Key(i) : i \in zSeries}} \/ \E t \in Z!Tables : zTemp' = zMember[t]
    BY <2>1, <2>2
  <2>4. IsFiniteSet({Z!Key(i) : i \in zSeries}) BY <1>1, KeysFinite DEF RowTypes
  <2>5. IsFiniteSet(zTemp') BY <1>2, <2>3, <2>4, FS_EmptySet
  <2>6. QED BY <1>1, <2>1, <2>5 DEF RowTypes
<1>7. CASE Z!Rename
  <2>1. /\ zTemp' = {} /\ zLists' = zLists /\ zSeries' \in {zTemp, zSeries}
        /\ zMember' = [t \in Z!Tables |-> IF Z!Onto = t THEN zTemp ELSE zMember[t]]
    BY <1>7 DEF Z!Rename
  <2>2. zMember' = [t \in Z!Tables |-> zMember'[t]] BY <2>1
  <2>3. \A t \in Z!Tables : zMember'[t] \in {zTemp, zMember[t]} BY <2>1
  <2>4. \A t \in Z!Tables : IsFiniteSet(zMember'[t]) BY <1>1, <1>2, <2>3 DEF RowTypes
  <2>5. IsFiniteSet(zTemp') /\ IsFiniteSet(zSeries') BY <1>1, <2>1, FS_EmptySet DEF RowTypes
  <2>6. QED BY <1>1, <2>1, <2>2, <2>4, <2>5 DEF RowTypes
<1>8. CASE \E e \in Z!ListNames \X ReadBooks : Z!SpreadRow(e) \/ Z!MergeRow(e)
  <2>1. zLists' \subseteq Z!ListNames \X ReadBooks /\ UNCHANGED <<Z!seriesVars, zTemp>>
    BY <1>1, <1>8 DEF Z!SpreadRow, Z!MergeRow, RowTypes
  <2>2. QED BY <1>1, <2>1 DEF RowTypes
<1>9. CASE \E t \in Z!Tables, k \in zSeries : Z!RekeyRow(t, k)
  <2>1. PICK t \in Z!Tables, k \in zSeries :
          zMember' = [zMember EXCEPT ![t] = Z!Rekeyed(t, k)] /\ UNCHANGED <<zLists, zSeries, zTemp>>
    BY <1>9 DEF Z!RekeyRow
  <2>2. IsFiniteSet(Z!Rekeyed(t, k)) BY <1>2, RekeyedFinite
  <2>3. zMember' = [s \in Z!Tables |-> IF s = t THEN Z!Rekeyed(t, k) ELSE zMember[s]]
    <3>1. DOMAIN zMember = Z!Tables BY <1>1 DEF RowTypes
    <3>2. QED BY <2>1, <3>1
  <2>4. zMember' = [s \in Z!Tables |-> zMember'[s]] BY <2>3
  <2>5. \A s \in Z!Tables : zMember'[s] \in {Z!Rekeyed(t, k), zMember[s]} BY <2>3
  <2>6. \A s \in Z!Tables : IsFiniteSet(zMember'[s]) BY <1>2, <2>2, <2>5
  <2>7. QED BY <1>1, <2>1, <2>4, <2>6 DEF RowTypes
<1>10. CASE Z!Check
  <2>1. CASE \A t \in Z!Tables \cup {"series"} : Z!Exists(t)
    <3>1. /\ zMember' = [t \in Z!Tables |-> {m \in Z!Kept(t) : m[1] \in Z!Authored}]
          /\ zSeries' = zSeries \cap Z!Authored /\ zLists' = zLists /\ zTemp' = zTemp
      BY <1>10, <2>1 DEF Z!Check
    <3>2. \A t \in Z!Tables : zMember'[t] \subseteq zMember[t] BY <3>1 DEF Z!Kept
    <3>3. \A t \in Z!Tables : IsFiniteSet(zMember'[t]) BY <1>2, <3>2, FS_Subset
    <3>4. IsFiniteSet(zSeries') BY <1>1, <3>1, FS_Subset DEF RowTypes
    <3>5. zMember' = [t \in Z!Tables |-> zMember'[t]] BY <3>1
    <3>6. QED BY <1>1, <3>1, <3>3, <3>4, <3>5 DEF RowTypes
  <2>2. CASE ~\A t \in Z!Tables \cup {"series"} : Z!Exists(t) BY <1>3, <1>10, <2>2 DEF Z!Check
  <2>3. QED BY <2>1, <2>2
<1>11. QED BY <1>4, <1>5, <1>6, <1>7, <1>8, <1>9, <1>10 DEF Z!Next

LEMMA StepTypesHold == ASSUME SchemaTypes, Z!Next PROVE StepTypes'
<1>1. StepTypes BY DEF SchemaTypes
<1>2. CASE zStep' = zStep /\ zLine' = zLine BY <1>1, <1>2 DEF StepTypes
<1>3. CASE Z!Start BY <1>3 DEF Z!Start, StepTypes
<1>4. CASE Z!Enter
  <2>1. zStep \in 1..31 /\ zLine = 0 BY <1>1, <1>4, StepTable DEF Z!Enter, StepTypes
  <2>2. CASE zLine' = 1 /\ zStep' = zStep
    <3> DEFINE n == Len(Z!Steps[zStep].do)
    <3>1. n \in Nat /\ n # 0 BY <2>1, Lengths
    <3> HIDE DEF n
    <3>2. 1 <= n BY <3>1
    <3>3. QED BY <2>1, <2>2, <3>2 DEF StepTypes, n
  <2>3. CASE zStep' = zStep + 1 /\ zLine' = 0 BY <2>1, <2>3 DEF StepTypes
  <2>4. QED BY <1>4, <2>1, <2>2, <2>3 DEF Z!Enter
<1>5. CASE Z!AddColumn \/ Z!CreateTable \/ Z!ForeignKeys \/ Z!Drop \/ Z!MakeTemp \/ Z!Rename \/ Z!Spread
           \/ Z!Merge \/ Z!Select \/ Z!Rekey
  <2>1. Z!Advance /\ \E w : Z!Now(w)
    BY <1>5 DEF Z!AddColumn, Z!CreateTable, Z!ForeignKeys, Z!Drop, Z!MakeTemp, Z!Rename, Z!Spread, Z!Merge,
       Z!Select, Z!Rekey
  <2>2. QED BY <2>1, Onward
<1>6. CASE (\E e \in Z!ListNames \X ReadBooks : Z!SpreadRow(e) \/ Z!MergeRow(e))
           \/ (\E t \in Z!Tables, k \in zSeries : Z!RekeyRow(t, k))
           \/ Z!Fail \/ Z!Check \/ Z!Finish \/ Z!Crash
  BY <1>2, <1>6 DEF Z!SpreadRow, Z!MergeRow, Z!RekeyRow, Z!Fail, Z!Check, Z!Finish, Z!Crash
<1>7. QED BY <1>3, <1>4, <1>5, <1>6 DEF Z!Next

LEMMA BlankHolds == ASSUME SchemaTypes, Blank, Z!Next PROVE Blank'
<1> USE DEF Z!dataVars, Z!listVars, Z!seriesVars
<1>1. CASE UNCHANGED <<Z!listVars, Z!seriesVars, zTemp>> BY <1>1 DEF Blank
<1>2. CASE Z!Start \/ Z!Enter \/ Z!AddColumn \/ Z!CreateTable \/ Z!ForeignKeys \/ Z!Spread \/ Z!Merge
           \/ Z!Select \/ Z!Rekey
           \/ Z!Fail \/ Z!Finish \/ Z!Crash
  BY <1>1, <1>2 DEF Z!Start, Z!Enter, Z!AddColumn, Z!CreateTable, Z!ForeignKeys, Z!Spread, Z!Merge, Z!Select,
     Z!Rekey, Z!Fail, Z!Finish, Z!Crash
<1>3. CASE Z!Drop BY <1>3 DEF Z!Drop, Blank
<1>4. CASE Z!MakeTemp
  <2>1. Z!Of \in {"users", "series"} \cup Z!Tables
    BY <1>4, Statements DEF Z!MakeTemp, Kinds, Temps, Z!Tables
  <2>2. /\ UNCHANGED <<Z!listVars, Z!seriesVars>>
        /\ zTemp' = CASE Z!Of = "users" -> {}
                      [] Z!Of = "series" -> {Z!Key(i) : i \in zSeries}
                      [] OTHER -> zMember[Z!Of]
    BY <1>4 DEF Z!MakeTemp
  <2>3. zTemp' = {}
    <3>1. CASE Z!Of = "users" BY <2>2, <3>1
    <3>2. CASE Z!Of = "series" BY <2>2, <3>2 DEF Blank
    <3>3. CASE Z!Of \in Z!Tables BY <2>2, <3>3 DEF Blank, Z!Tables
    <3>4. QED BY <2>1, <3>1, <3>2, <3>3
  <2>4. QED BY <2>2, <2>3 DEF Blank
<1>5. CASE Z!Rename BY <1>5 DEF Z!Rename, Blank
<1>6. CASE \E e \in Z!ListNames \X ReadBooks : Z!SpreadRow(e) \/ Z!MergeRow(e) BY <1>6 DEF Z!SpreadRow,
           Z!MergeRow, Blank
<1>7. CASE \E t \in Z!Tables, k \in zSeries : Z!RekeyRow(t, k) BY <1>7 DEF Blank
<1>8. CASE Z!Check BY <1>8 DEF Z!Check, Blank, Z!Kept, Z!KnownOnly
<1>9. QED BY <1>2, <1>3, <1>4, <1>5, <1>6, <1>7, <1>8 DEF Z!Next

LEMMA SchemaInvHolds == ASSUME Z!SchemaAssumption, SchemaInv, Z!Next PROVE SchemaInv'
<1>1. SchemaTypes' BY RowTypesHold, StepTypesHold DEF SchemaInv, SchemaTypes
<1>2. Blank => Blank' BY BlankHolds DEF SchemaInv
<1>3. zVersion' = 0 => zVersion = 0
  BY DEF Z!Next, Z!Start, Z!Enter, Z!AddColumn, Z!CreateTable, Z!ForeignKeys, Z!Drop, Z!MakeTemp, Z!Rename,
     Z!Spread, Z!Merge, Z!Select, Z!Rekey,
         Z!SpreadRow, Z!MergeRow, Z!RekeyRow, Z!Fail, Z!Check, Z!Finish, Z!Crash, Z!Advance, Z!Current
<1>4. zVersion # 0 /\ OldInv => OldInv' BY OldInvHolds DEF SchemaInv
<1>5. QED BY <1>1, <1>2, <1>3, <1>4 DEF SchemaInv

-----------------------------------------------------------------------------
(* The first state: an old database has the columns of its version. *)

LEMMA MarksNotAdded ==
  ASSUME NEW k \in 1..31, NEW j \in 1..Len(Z!Steps[k].do), Z!Steps[k].do[j][1] \in {"add", "create"}
  PROVE  Z!Steps[k].do[j][3] \notin OldColumns
<1>1. CASE k \notin Special
  <2>1. PlainStep(Z!Steps[k]) BY <1>1, Ordinary
  <2>2. QED BY <2>1 DEF PlainStep, Plain
<1>2. CASE k = 3
  <2>1. j \in 1..4 BY <1>2, JobsStep
  <2>2. j = 3
    <3>1. "drop" \notin {"add", "create"} /\ "rename" \notin {"add", "create"} OBVIOUS
    <3>2. j \notin {1, 2, 4} BY <1>2, <3>1, JobsStep
    <3>3. QED BY <2>1, <3>2
  <2>3. Z!Steps[3].do[3][3] = "Start" BY JobsStep
  <2>4. QED BY <1>2, <2>2, <2>3 DEF OldColumns
<1>3. CASE k = 24
  <2>1. j \in 1..11 BY <1>3, UsersStep
  <2>2. CASE j \in 1..4
    <3>1. PICK l \in Z!ListNames : Z!Steps[24].do[j] = <<"create", l, "BookID">> BY <2>2, UsersStep
    <3>2. Z!Steps[24].do[j][3] = "BookID" BY <3>1
    <3>3. QED BY <1>3, <3>2 DEF OldColumns
  <2>3. CASE j \in 5..11 BY <1>3, <2>3, UsersStep
  <2>4. QED BY <2>1, <2>2, <2>3
<1>4. CASE k = 26
  <2>1. j \in 1..9 BY <1>4, ListsStep
  <2>2. j = 1
    <3>1. "drop" \notin {"add", "create"} /\ "merge" \notin {"add", "create"} OBVIOUS
    <3>2. j \notin {2, 4, 6, 8} BY <1>4, <3>1, ListsStep
    <3>3. j \notin {3, 5, 7, 9} BY <1>4, <3>1, ListsStep
    <3>4. QED BY <2>1, <3>2, <3>3
  <2>3. Z!Steps[26].do[1][3] = "Status" BY ListsStep
  <2>4. QED BY <1>4, <2>2, <2>3 DEF OldColumns
<1>5. CASE k = 27
  <2>1. j \in 1..14 BY <1>5, SeriesStep
  <2>2. QED BY <1>5, <2>1, SeriesStep
<1>6. QED BY <1>1, <1>2, <1>3, <1>4, <1>5 DEF Special

LEMMA BeforeIs ==
  ASSUME NEW v
  PROVE  /\ Z!Base \subseteq Z!Before(v)
         /\ \A c \in Z!Before(v) \ Z!Base : c = <<c[1], c[2]>> /\ c[2] \notin OldColumns
<1> DEFINE Done == {i \in 1..Len(Z!Steps) : Z!Steps[i].of <= v}
<1> DEFINE Added(i) == {<<s[2], s[3]>> : s \in {Z!Steps[i].do[j] : j \in {k \in 1..Len(Z!Steps[i].do) :
                                                 Z!Steps[i].do[k][1] \in {"add", "create"}}}}
<1>1. Z!Before(v) = Z!Base \cup UNION {Added(i) : i \in Done} BY DEF Z!Before
<1>2. ASSUME NEW i \in Done, NEW c \in Added(i) PROVE c = <<c[1], c[2]>> /\ c[2] \notin OldColumns
  <2>1. PICK j \in 1..Len(Z!Steps[i].do) : /\ Z!Steps[i].do[j][1] \in {"add", "create"}
                                         /\ c = <<Z!Steps[i].do[j][2], Z!Steps[i].do[j][3]>>
    OBVIOUS
  <2>2. i \in 1..31 BY StepTable
  <2>3. Z!Steps[i].do[j][3] \notin OldColumns BY <2>1, <2>2, MarksNotAdded
  <2>4. QED BY <2>1, <2>3
<1> HIDE DEF Added, Done
<1>3. QED BY <1>1, <1>2

LEMMA BaseIs ==
  /\ \A c \in Z!Base : /\ c = <<c[1], c[2]>> /\ (c[2] = "SeriesID INTEGER" => c[1] = "series")
                     /\ (c[2] = "HaveRead" => c[1] = "users")
  /\ \A t \in Rebuild : <<t, "key">> \in Z!Base
<1>1. ASSUME NEW c \in Z!Base
      PROVE  /\ c = <<c[1], c[2]>> /\ (c[2] = "SeriesID INTEGER" => c[1] = "series")
             /\ (c[2] = "HaveRead" => c[1] = "users")
  <2>1. CASE c = Z!OldSeries BY <2>1 DEF Z!OldSeries
  <2>2. CASE c = <<"users", "HaveRead">> BY <2>2
  <2>3. CASE c \notin {Z!OldSeries, <<"users", "HaveRead">>}
    <3>1. PICK t : c = <<t, "key">> BY <2>3 DEF Z!Base
    <3>2. QED BY <3>1
  <2>4. QED BY <2>1, <2>2, <2>3
<1>2. <<"series", "key">> \in Z!Base /\ <<"member", "key">> \in Z!Base /\ <<"seriesauthors", "key">> \in Z!Base
  BY DEF Z!Base
<1>3. QED BY <1>1, <1>2 DEF Rebuild, Z!Tables

LEMMA SchemaInit == ASSUME Z!SchemaAssumption, Z!Init PROVE SchemaInv
<1>1. SchemaTypes
  <2>1. IsFiniteSet(zSeries) /\ IsFiniteSet(zTemp) BY FS_EmptySet, SameFinite DEF Z!Init, Z!SchemaAssumption
  <2>2. \A t \in Z!Tables : zMember[t] \in {{}, Members} BY DEF Z!Init, Z!Rows
  <2>3. \A t \in Z!Tables : IsFiniteSet(zMember[t]) BY <2>2, FS_EmptySet, SameFinite DEF Z!SchemaAssumption
  <2>4. zMember = [t \in Z!Tables |-> zMember[t]] BY DEF Z!Init
  <2>5. RowTypes BY <2>1, <2>3, <2>4 DEF Z!Init, RowTypes
  <2>6. StepTypes BY DEF Z!Init, StepTypes
  <2>7. QED BY <2>5, <2>6 DEF SchemaTypes
<1>2. zVersion = 0 => Blank BY DEF Z!Init, Blank, Z!Rows
<1>3. ASSUME zVersion # 0 PROVE OldInv
  <2>1. zHas = Z!Before(zVersion) /\ zPC = "down" /\ zSeries = SeriesIds BY <1>3 DEF Z!Init
  <2>2. ColumnsApart BY <2>1, BeforeIs, BaseIs DEF ColumnsApart, OldColumns
  <2>3. \A t \in Rebuild : <<t, "key">> \in zHas BY <2>1, BeforeIs, BaseIs
  <2>4. \A t \in Rebuild : Z!Exists(t)
    <3>1. \A t : <<t, "key">>[1] = t OBVIOUS
    <3>2. QED BY <2>3, <3>1 DEF Z!Exists
  <2>5. KeysThere BY <2>3 DEF KeysThere
  <2>6. AwayInTemp BY <2>4 DEF AwayInTemp, Away
  <2>7. StepsDone /\ ForeignOff /\ Copied /\ NumberedYet BY <2>1 DEF StepsDone, ForeignOff, Copied, NumberedYet
  <2>8. QED BY <2>2, <2>5, <2>6, <2>7 DEF OldInv
<1>4. QED BY <1>1, <1>2, <1>3 DEF SchemaInv

-----------------------------------------------------------------------------
(* What a statement spares. *)
Spared ==
  /\ Z!Reading \subseteq Z!Reading' /\ Z!Named <= Z!Named'
  /\ \A t \in Z!Tables : Z!Written(t) <= Z!Written(t)'

LEMMA Counts ==
  ASSUME RowTypes
  PROVE  /\ Cardinality(zSeries) \in Nat /\ Cardinality(zTemp) \in Nat
         /\ \A t \in Z!Tables : Cardinality(zMember[t]) \in Nat
BY FS_CardinalityType DEF RowTypes

LEMMA SparedSame ==
  ASSUME RowTypes, Z!Reading \subseteq Z!Reading', zSeries' = zSeries,
         \A t \in Z!Tables : zMember'[t] = zMember[t],
         \A t \in Rebuild : Z!Exists(t)' <=> Z!Exists(t), zTemp' = zTemp \/ AllThere
  PROVE  Spared
<1>1. "series" \in Rebuild /\ \A t \in Z!Tables : t \in Rebuild BY DEF Rebuild
<1>2. Z!Named <= Z!Named' BY <1>1, Counts, SameCount DEF Z!Named, AllThere
<1>3. \A t \in Z!Tables : Z!Written(t) <= Z!Written(t)' BY <1>1, Counts, SameCount DEF Z!Written, AllThere
<1>4. QED BY <1>2, <1>3 DEF Spared

LEMMA SparedBlank == ASSUME Blank, Blank' PROVE Spared
<1>1. Cardinality({}) = 0 BY FS_EmptySet
<1>2. Z!Reading \subseteq Z!Reading' BY DEF Blank, Z!Reading
<1>3. Z!Named = 0 /\ Z!Named' = 0 BY <1>1, SameCount DEF Blank, Z!Named
<1>4. \A t \in Z!Tables : Z!Written(t) = 0 /\ Z!Written(t)' = 0 BY <1>1, SameCount DEF Blank, Z!Written
<1>5. QED BY <1>2, <1>3, <1>4 DEF Spared

LEMMA DropSpares == ASSUME Z!SchemaAssumption, SchemaTypes, OldInv, Z!Drop PROVE Spared
<1> USE DEF SchemaTypes
<1>1. /\ Z!Now("drop") /\ zHas' = Z!Without(Z!Of) /\ zMerged' = zMerged
      /\ zTemp' = IF Z!Of = "temp" THEN {} ELSE zTemp
      /\ zUsers' = IF Z!Of = "users" THEN {} ELSE zUsers
      /\ zLists' = IF Z!Of = "users" /\ zForeign THEN {} ELSE {e \in zLists : e[1] # Z!Of}
      /\ zSeries' = IF Z!Of = "series" THEN {} ELSE zSeries
      /\ zMember' = [t \in Z!Tables |->
                       IF Z!Of = t \/ (Z!Of = "series" /\ zForeign /\ t = "member") THEN {} ELSE zMember[t]]
  BY DEF Z!Drop
<1>2. \A t : Z!Exists(t)' <=> Z!Exists(t) /\ t # Z!Of BY <1>1 DEF Z!Exists, Z!Without
<1>3. zPC = "schema" BY <1>1 DEF Z!Now
<1>4. Z!Of \notin Z!ListNames /\ Z!Of # "users" => zLists' = zLists
  <2>1. \A e \in zLists : e[1] \in Z!ListNames BY DEF RowTypes
  <2>2. QED BY <1>1, <2>1
<1>5. \A i \in 1..4 : At(26, 2*i + 1) => Titled(Z!Lists[i]) \subseteq Z!InReadingLists
  BY <1>3 DEF At, OldInv, Copied
<1>6. ASSUME NEW i \in 1..4, At(26, 2*i + 1), Z!Of = Z!Lists[i] PROVE Spared
  <2>1. Z!Of \notin Rebuild \cup {"temp", "users"} BY <1>6, ListsAre
  <2>2. /\ zTemp' = zTemp /\ zUsers' = zUsers /\ zSeries' = zSeries /\ zLists' = {e \in zLists : e[1] # Z!Of}
    BY <1>1, <2>1 DEF Rebuild
  <2>3. \A t \in Z!Tables : zMember'[t] = zMember[t] BY <1>1, <2>1 DEF Rebuild
  <2>4. \A t \in Rebuild : Z!Exists(t)' <=> Z!Exists(t) BY <1>2, <2>1
  <2>5. Z!Reading \subseteq Z!Reading'
    <3>1. Titled(Z!Of) \subseteq Z!InReadingLists BY <1>5, <1>6
    <3>2. \A e \in zLists : e \in zLists' \/ e[2] \in Titled(Z!Of) BY <2>2 DEF Titled
    <3>3. Z!InReadingLists' = Z!InReadingLists BY <1>1 DEF Z!InReadingLists
    <3>4. Z!InReadingLists \subseteq Z!Reading' BY <3>3 DEF Z!InReadingLists, Z!Reading
    <3>5. \A e \in zUsers \cup zLists \cup zMerged : e[2] \in Z!Reading'
      BY <1>1, <2>2, <3>1, <3>2, <3>4 DEF Z!Reading
    <3>6. QED BY <3>5 DEF Z!Reading
  <2>6. QED BY <2>2, <2>3, <2>4, <2>5, SparedSame
<1>7. ASSUME AllThere, Z!Of \in {"temp", "users"}, Z!Of = "users" => At(24, 9) PROVE Spared
  <2>1. Z!Of \notin Rebuild /\ Z!Of \notin Z!ListNames BY <1>7, NamesAre DEF Rebuild, Z!Tables
  <2>2. zSeries' = zSeries /\ \A t \in Z!Tables : zMember'[t] = zMember[t] BY <1>1, <2>1 DEF Rebuild
  <2>3. \A t \in Rebuild : Z!Exists(t)' <=> Z!Exists(t) BY <1>2, <2>1
  <2>4. Z!Reading \subseteq Z!Reading'
    <3>1. CASE Z!Of = "users"
      <4>1. zUsers \subseteq zLists /\ ~zForeign BY <1>3, <1>7, <3>1 DEF At, OldInv, Copied, ForeignOff
      <4>2. \A e \in zLists : e[1] # Z!Of BY <2>1 DEF RowTypes
      <4>3. zLists' = zLists BY <1>1, <4>1, <4>2
      <4>4. QED BY <1>1, <4>1, <4>3 DEF Z!Reading
    <3>2. CASE Z!Of = "temp" BY <1>1, <1>4, <2>1, <3>2 DEF Z!Reading
    <3>3. QED BY <1>7, <3>1, <3>2
  <2>5. QED BY <1>7, <2>2, <2>3, <2>4, SparedSame
<1>8. ASSUME AllThere,
             \/ At(27, 4) /\ Z!Of = "series"
             \/ At(27, 7) /\ Z!Of = "member"
             \/ At(27, 10) /\ Z!Of = "seriesauthors"
      PROVE  Spared
  <2>1. ~zForeign BY <1>3, <1>8 DEF At, OldInv, ForeignOff
  <2>2. Z!Of \notin Z!ListNames /\ Z!Of # "users" /\ Z!Of # "temp" BY <1>8, NamesAre DEF Rebuild, Z!Tables
  <2>3. Z!Reading \subseteq Z!Reading' BY <1>1, <1>4, <2>2 DEF Z!Reading
  <2>4. zTemp' = zTemp BY <1>1, <2>2
  <2>5. Z!Named <= Z!Named'
    <3>1. Z!Exists("series") BY <1>8 DEF AllThere, Rebuild
    <3>2. CASE Z!Of = "series"
      <4>1. At(27, 4) BY <1>8, <3>2
      <4>2. zTemp = {Z!Key(i) : i \in zSeries} /\ zSeries \subseteq SeriesIds
        BY <1>3, <4>1 DEF At, OldInv, Copied, NumberedYet
      <4>3. Cardinality(zTemp) = Cardinality(zSeries) BY <4>2, KeysCount DEF RowTypes
      <4>4. Z!Named = Cardinality(zSeries) /\ Z!Named' = Cardinality(zTemp)
        BY <1>2, <2>4, <3>1, <3>2, SameCount DEF Z!Named
      <4>5. QED BY <4>3, <4>4, Counts
    <3>3. CASE Z!Of # "series" BY <1>1, <1>2, <3>1, <3>3, Counts, SameCount DEF Z!Named
    <3>4. QED BY <3>2, <3>3
  <2>6. ASSUME NEW t \in Z!Tables PROVE Z!Written(t) <= Z!Written(t)'
    <3>1. Z!Exists(t) BY <1>8 DEF AllThere, Rebuild
    <3>2. Cardinality(zMember[t]) \in Nat /\ Z!Written(t) = Cardinality(zMember[t]) BY <3>1, Counts, SameCount
          DEF Z!Written
    <3>3. CASE Z!Of = t
      <4>1. zTemp = zMember[t]
        <5>1. CASE t = "member" BY <1>3, <1>8, <3>3, <5>1 DEF At, OldInv, Copied
        <5>2. CASE t = "seriesauthors" BY <1>3, <1>8, <3>3, <5>2 DEF At, OldInv, Copied
        <5>3. QED BY <5>1, <5>2 DEF Z!Tables
      <4>2. Z!Written(t)' = Cardinality(zTemp) BY <1>2, <2>4, <3>3, SameCount DEF Z!Written
      <4>3. QED BY <3>2, <4>1, <4>2
    <3>4. CASE Z!Of # t
      <4>1. zMember'[t] = zMember[t] BY <1>1, <2>1, <3>4
      <4>2. Z!Exists(t)' BY <1>2, <3>1, <3>4
      <4>3. Z!Written(t)' = Cardinality(zMember[t]) BY <4>1, <4>2, SameCount DEF Z!Written
      <4>4. QED BY <3>2, <4>3
    <3>5. QED BY <3>3, <3>4
  <2>7. QED BY <2>3, <2>5, <2>6 DEF Spared
<1>9. CASE AllThere /\ Drops("drop")
  <2>1. \/ Z!Of = "temp"
        \/ At(24, 9) /\ Z!Of = "users"
        \/ \E i \in 1..4 : At(26, 2*i + 1) /\ Z!Of = Z!Lists[i]
        \/ At(27, 4) /\ Z!Of = "series"
        \/ At(27, 7) /\ Z!Of = "member"
        \/ At(27, 10) /\ Z!Of = "seriesauthors"
    BY <1>9 DEF Drops
  <2>2. QED BY <1>6, <1>7, <1>8, <1>9, <2>1
<1>10. QED BY <1>1, <1>6, <1>9, DropWhere

LEMMA RenameSpares == ASSUME SchemaTypes, OldInv, Z!Rename PROVE Spared
<1> USE DEF SchemaTypes
<1>1. /\ Z!Now("rename") /\ Z!Exists(Z!Of) /\ ~Z!Exists(Z!Onto)
      /\ zHas' = Z!Without(Z!Of) \cup {<<Z!Onto, c[2]>> : c \in {d \in zHas : d[1] = Z!Of}}
      /\ UNCHANGED Z!listVars /\ zTemp' = {}
      /\ zSeries' = IF Z!Onto = "series" THEN zTemp ELSE zSeries
      /\ zMember' = [t \in Z!Tables |-> IF Z!Onto = t THEN zTemp ELSE zMember[t]]
  BY DEF Z!Rename
<1>2. /\ Z!Of \in {"jobs", "temp"}
      /\ Z!Onto \in Rebuild \/ zStep \in {3, 24}
      /\ zPC = "schema" /\ zLine > 0 /\ zLine \in Nat
  BY <1>1, Statements DEF Kinds, Renames, Rebuild, Z!Tables, At, Z!Now, StepTypes
<1>3. \A t \in Rebuild \ {Z!Onto} : Z!Exists(t)
  <2>1. CASE Z!Onto \in Rebuild
    <3>1. Away(Z!Onto) BY <1>1 DEF Away
    <3>2. QED BY <2>1, <3>1 DEF OldInv, AwayInTemp
  <2>2. CASE Z!Onto \notin Rebuild
    <3>1. AllThere BY <1>2, <2>2, NoneAway
    <3>2. QED BY <3>1 DEF AllThere
  <2>3. QED BY <2>1, <2>2
<1>4. \A t \in Rebuild : Z!Exists(t)' 
  <2> SUFFICES ASSUME NEW t \in Rebuild PROVE Z!Exists(t)' OBVIOUS
  <2>1. CASE t = Z!Onto
    <3>1. PICK d \in zHas : d[1] = Z!Of BY <1>1 DEF Z!Exists
    <3>2. <<Z!Onto, d[2]>> \in zHas' /\ <<Z!Onto, d[2]>>[1] = t BY <1>1, <2>1, <3>1
    <3>3. QED BY <3>2 DEF Z!Exists
  <2>2. CASE t # Z!Onto BY <1>1, <1>2, <1>3, <2>2 DEF Z!Exists, Z!Without, Rebuild, Z!Tables
  <2>3. QED BY <2>1, <2>2
<1>5. Z!Reading \subseteq Z!Reading' BY <1>1 DEF Z!listVars, Z!Reading
<1>6. Z!Named <= Z!Named'
  <2>1. CASE Z!Onto = "series" BY <1>1, <1>4, <2>1, Counts, SameCount DEF Z!Named, Rebuild
  <2>2. CASE Z!Onto # "series" BY <1>1, <1>3, <1>4, <2>2, Counts, SameCount DEF Z!Named, Rebuild
  <2>3. QED BY <2>1, <2>2
<1>7. ASSUME NEW t \in Z!Tables PROVE Z!Written(t) <= Z!Written(t)'
  <2>1. Z!Exists(t)' BY <1>4 DEF Rebuild
  <2>2. Z!Written(t)' = Cardinality(zMember'[t]) BY <2>1, SameCount DEF Z!Written
  <2>3. CASE Z!Onto = t
    <3>1. Z!Written(t) = Cardinality(zTemp) /\ zMember'[t] = zTemp BY <1>1, <2>3, SameCount DEF Z!Written
    <3>2. QED BY <2>2, <3>1, Counts
  <2>4. CASE Z!Onto # t
    <3>1. Z!Exists(t) /\ zMember'[t] = zMember[t] BY <1>1, <1>3, <2>4 DEF Rebuild
    <3>2. QED BY <2>2, <3>1, Counts, SameCount DEF Z!Written
  <2>5. QED BY <2>3, <2>4
<1>8. QED BY <1>5, <1>6, <1>7 DEF Spared

LEMMA RekeySpares ==
  ASSUME SchemaTypes, NEW t \in Z!Tables, NEW k \in zSeries, Z!RekeyRow(t, k)
  PROVE  Spared
<1> USE DEF SchemaTypes
<1>1. /\ ~Z!Clashes(t, k) /\ zMember' = [zMember EXCEPT ![t] = Z!Rekeyed(t, k)]
      /\ UNCHANGED <<zHas, Z!listVars, zSeries, zTemp>>
  BY DEF Z!RekeyRow
<1>2. \A s : Z!Exists(s)' = Z!Exists(s) BY <1>1 DEF Z!Exists
<1>3. Z!Reading \subseteq Z!Reading' BY <1>1 DEF Z!listVars, Z!Reading
<1>4. Z!Named <= Z!Named' BY <1>1, <1>2, Counts, SameCount DEF Z!Named
<1>5. ASSUME NEW s \in Z!Tables PROVE Z!Written(s) <= Z!Written(s)'
  <2>1. Cardinality(zMember'[s]) = Cardinality(zMember[s])
    <3>1. DOMAIN zMember = Z!Tables BY DEF RowTypes
    <3>2. CASE s = t
      <4>1. zMember'[s] = Z!Rekeyed(t, k) BY <1>1, <3>1, <3>2
      <4>2. QED BY <1>1, <3>2, <4>1, SameCount DEF Z!Clashes
    <3>3. CASE s # t
      <4>1. zMember'[s] = zMember[s] BY <1>1, <3>1, <3>3
      <4>2. QED BY <4>1
    <3>4. QED BY <3>2, <3>3
  <2>2. QED BY <1>1, <1>2, <2>1, Counts, SameCount DEF Z!Written
<1>6. QED BY <1>3, <1>4, <1>5 DEF Spared

LEMMA StatementsSpare ==
  ASSUME Z!SchemaAssumption, SchemaInv, [Z!Next]_zvars, ~Z!Check
  PROVE  Spared
<1> USE DEF Z!dataVars, Z!listVars, Z!seriesVars
<1>1. SchemaTypes /\ RowTypes /\ (zVersion = 0 => Blank) /\ (Blank \/ OldInv) BY DEF SchemaInv, SchemaTypes
<1>2. ASSUME Z!Reading \subseteq Z!Reading', UNCHANGED <<zHas, Z!seriesVars, zTemp>> PROVE Spared
  <2>1. \A t : Z!Exists(t)' = Z!Exists(t) BY <1>2 DEF Z!Exists
  <2>2. QED BY <1>1, <1>2, <2>1, SparedSame
<1>3. ASSUME UNCHANGED <<zHas, Z!dataVars>> PROVE Spared
  <2>1. Z!Reading \subseteq Z!Reading' BY <1>3 DEF Z!Reading
  <2>2. QED BY <1>2, <1>3, <2>1
<1>4. CASE Blank /\ Z!Next BY <1>1, <1>4, BlankHolds, SparedBlank
<1>5. CASE OldInv /\ zVersion # 0 /\ Z!Next
  <2>1. CASE Z!Start \/ Z!Enter \/ Z!ForeignKeys \/ Z!Spread \/ Z!Merge \/ Z!Rekey \/ Z!Finish
    BY <1>3, <1>5, <2>1 DEF Z!Start, Z!Enter, Z!ForeignKeys, Z!Spread, Z!Merge, Z!Rekey, Z!Finish
  <2>2. CASE Z!Select \/ Z!Fail \/ Z!Crash
    <3>1. UNCHANGED <<Z!listVars, Z!seriesVars, zHas, zTemp>> BY <2>2 DEF Z!Select, Z!Fail, Z!Crash
    <3>2. Z!Reading \subseteq Z!Reading' BY <3>1 DEF Z!Reading
    <3>3. QED BY <1>2, <3>1, <3>2
  <2>3. CASE Z!AddColumn
    <3>1. zHas' = zHas \cup {<<Z!Of, Z!Onto>>} /\ Z!Exists(Z!Of) /\ UNCHANGED Z!dataVars BY <2>3 DEF Z!AddColumn
    <3>2. \A t : Z!Exists(t)' <=> Z!Exists(t) BY <3>1 DEF Z!Exists
    <3>3. Z!Reading \subseteq Z!Reading' BY <3>1 DEF Z!Reading
    <3>4. QED BY <1>1, <3>1, <3>2, <3>3, SparedSame
  <2>4. CASE Z!CreateTable
    <3>1. zHas' = zHas \cup {<<Z!Of, Z!Onto>>} /\ UNCHANGED Z!dataVars /\ Z!Now("create") BY <2>4
          DEF Z!CreateTable
    <3>2. Z!Of \notin Rebuild BY <1>1, <3>1, Statements DEF Kinds, Creates
    <3>3. \A t \in Rebuild : Z!Exists(t)' <=> Z!Exists(t) BY <3>1, <3>2 DEF Z!Exists
    <3>4. Z!Reading \subseteq Z!Reading' BY <3>1 DEF Z!Reading
    <3>5. QED BY <1>1, <3>1, <3>3, <3>4, SparedSame
  <2>5. CASE Z!Drop BY <1>1, <1>5, <2>5, DropSpares
  <2>6. CASE Z!MakeTemp
    <3>1. /\ Z!Now("temp") /\ UNCHANGED <<Z!listVars, Z!seriesVars>>
          /\ zHas' = zHas \cup {<<"temp", c[2]>> : c \in {d \in zHas : d[1] = Z!Of} \ {Z!OldSeries,
             <<"users", "HaveRead">>,
               <<"users", "Reading">>, <<"users", "Abandoned">>, <<"series", "Source">>, <<"series", "gr_id">>}}
      BY <2>6 DEF Z!MakeTemp
    <3>2. AllThere BY <1>1, <1>5, <3>1, TempWhere
    <3>3. zHas \subseteq zHas' BY <3>1
    <3>4. \A t \in Rebuild : Z!Exists(t) /\ Z!Exists(t)' BY <3>2, <3>3 DEF AllThere, Z!Exists
    <3>5. Z!Reading \subseteq Z!Reading' BY <3>1 DEF Z!Reading
    <3>6. QED BY <1>1, <3>1, <3>2, <3>4, <3>5, SparedSame
  <2>7. CASE Z!Rename BY <1>1, <1>5, <2>7, RenameSpares
  <2>8. CASE \E e \in Z!ListNames \X ReadBooks : Z!SpreadRow(e) \/ Z!MergeRow(e)
    <3>1. UNCHANGED <<zHas, Z!seriesVars, zTemp, zUsers>> /\ zLists \subseteq zLists'
          /\ zMerged \subseteq zMerged'
      BY <2>8 DEF Z!SpreadRow, Z!MergeRow
    <3>2. Z!Reading \subseteq Z!Reading' BY <3>1 DEF Z!Reading
    <3>3. QED BY <1>2, <3>1, <3>2
  <2>9. CASE \E t \in Z!Tables, k \in zSeries : Z!RekeyRow(t, k) BY <1>1, <2>9, RekeySpares
  <2>10. QED BY <1>5, <2>1, <2>2, <2>3, <2>4, <2>5, <2>6, <2>7, <2>8, <2>9 DEF Z!Next
<1>6. CASE UNCHANGED zvars BY <1>3, <1>6 DEF zvars
<1>7. QED BY <1>1, <1>4, <1>5, <1>6

LEMMA SchemaRests == ASSUME SchemaInv, UNCHANGED zvars PROVE SchemaInv'
<1> USE DEF zvars
<1>1. \A t : Z!Exists(t)' = Z!Exists(t) BY DEF Z!Exists
<1>2. SchemaTypes' = SchemaTypes BY DEF SchemaTypes, RowTypes, StepTypes
<1>3. Blank' = Blank BY DEF Blank
<1>4. OldInv => OldInv'
  <2>1. ColumnsApart' = ColumnsApart BY DEF ColumnsApart
  <2>2. KeysThere' = KeysThere BY <1>1 DEF KeysThere
  <2>3. AwayInTemp => AwayInTemp' BY <1>1 DEF AwayInTemp, Away
  <2>4. StepsDone' = StepsDone BY DEF StepsDone
  <2>5. ForeignOff' = ForeignOff BY DEF ForeignOff
  <2>6. Copied => Copied' BY DEF Copied, Titled, Z!InReadingLists, Z!Key
  <2>7. NumberedYet' = NumberedYet BY DEF NumberedYet
  <2>8. QED BY <2>1, <2>2, <2>3, <2>4, <2>5, <2>6, <2>7 DEF OldInv
<1>5. zVersion' = zVersion OBVIOUS
<1>6. QED BY <1>2, <1>3, <1>4, <1>5 DEF SchemaInv

-----------------------------------------------------------------------------
(* The three together. *)

(* A scan that runs keeps its invariant. *)
ScansRight == \A c \in Catalogues : which = c => ScanInv(c)

(* A step is one of its own part, and the others stay.                     *)
LEMMA EachSteps ==
  ASSUME [OneNext]_onevars
  PROVE  /\ [Next]_vars /\ which' = which
         /\ \A c \in Catalogues : which = c => Y(c)!Next \/ UNCHANGED yvars
         /\ [Z!Next]_zvars
<1>1. CASE UNCHANGED onevars BY <1>1 DEF onevars, dvars
<1>2. CASE Next /\ UNCHANGED <<which, yvars, zvars>> BY <1>2
<1>3. CASE (\E c \in Catalogues : which = c /\ Y(c)!Next) /\ UNCHANGED <<which, dvars, zvars>> BY <1>3 DEF dvars
<1>4. CASE Z!Next /\ UNCHANGED <<which, dvars, yvars>> BY <1>4 DEF dvars
<1>5. QED BY <1>1, <1>2, <1>3, <1>4 DEF OneNext

THEOREM InvHolds == OneSpec => [](AcqInv /\ ScansRight /\ SchemaInv)
<1> DEFINE All == AcqInv /\ ScansRight /\ SchemaInv
<1>1. OneInit => All BY InitInv, InitScan, SchemaInit, InstancesAssumption DEF OneInit, ScansRight
<1>2. All /\ [OneNext]_onevars => All'
  <2> SUFFICES ASSUME AcqInv, ScansRight, SchemaInv, [OneNext]_onevars
               PROVE  AcqInv' /\ ScansRight' /\ SchemaInv'
    OBVIOUS
  <2>1. AcqInv' BY EachSteps, NextAcq
  <2>2. ASSUME NEW c \in Catalogues, which' = c PROVE ScanInv(c)'
    <3>1. which = c /\ (Y(c)!Next \/ UNCHANGED yvars) BY <2>2, EachSteps
    <3>2. QED BY <3>1, NextScan DEF ScansRight
  <2>3. SchemaInv' BY EachSteps, SchemaInvHolds, SchemaRests, InstancesAssumption
  <2>4. QED BY <2>1, <2>2, <2>3 DEF ScansRight
<1>3. QED BY <1>1, <1>2, PTL DEF OneSpec

(* Every state of the fetching has its types.                              *)
THEOREM TypeCorrect == OneSpec => []TypeOK
<1>1. AcqInv => TypeOK BY DEF AcqInv
<1>2. QED BY <1>1, InvHolds, PTL

(* An Aborted row imports nothing, and a Snatched book is fetched by a row *)
(* or in the library, unless two searches clashed over its row.            *)
THEOREM RowsDoAgree == OneSpec => []RowsAgree
<1>1. AcqInv => RowsAgree BY DEF AcqInv, RowsAgree
<1>2. QED BY <1>1, InvHolds, PTL

(* Nothing leaves the download directory but for the library or with a     *)
(* failure.                                                                *)
THEOREM NothingIsLost == OneSpec => NothingLost
<1>1. AcqInv /\ [OneNext]_onevars => [LosesNothing]_vars BY EachSteps, StepsLoseNothing
<1>2. QED BY <1>1, InvHolds, PTL DEF OneSpec, NothingLost

(* With one search thread, or none, searches never clash: the exemptions   *)
(* for rows in dClash are void.                                            *)
THEOREM OneSearchNeverClashes ==
  ASSUME \A s, t \in Searchers : s = t
  PROVE  OneSpec => [](dClash = {})
<1>1. OneInit => NoClash
  BY DEF OneInit, Init, NoClash, SendIsFresh
<1>2. AcqInv /\ NoClash /\ [OneNext]_onevars => NoClash'
  BY EachSteps, OneSearchSearches, OneSearchRun, OneSearchOutside DEF Next
<1>3. NoClash => dClash = {}
  BY DEF NoClash
<1>4. QED BY <1>1, <1>2, <1>3, InvHolds, PTL DEF OneSpec

(* Every file the scan or an import wrote into a book's row is of that     *)
(* book's title, by whichever id, title or search the row was found, with  *)
(* rows added, rekeyed and deleted while the scan is under way.            *)
THEOREM FilesAreRight == OneSpec => []RightFile
<1>1. ScansRight => RightFile
  BY DEF ScansRight, ScanInv, FilesRight, RightFile, Y!RightFile
<1>2. QED BY <1>1, InvHolds, PTL

(* The authors a scan or a start deletes by their counts own no book.      *)
THEOREM ScansSpareOwners == OneSpec => OwnersSpared
<1> DEFINE Owned == \A c \in Catalogues : which = c => Y(c)!SparesOwners
<1>1. ScansRight => Owned BY DeletesSpare DEF ScansRight
<1>2. ScansRight /\ [OneNext]_onevars => [Owned]_yvars BY <1>1
<1>3. OneSpec => [][Owned]_yvars BY <1>2, InvHolds, PTL DEF OneSpec
<1>4. QED BY <1>3 DEF OwnersSpared

(* Whatever statement an upgrade is at when it is killed, and however      *)
(* often, no statement loses a book of a reading list, a series, or a row  *)
(* of member or of seriesauthors, for any lists and any series: only the   *)
(* checks delete.                                                          *)
THEOREM UpgradesKeep == OneSpec => UpgradeKeeps
<1>1. SchemaInv /\ [OneNext]_onevars => [~Z!Check => Spared]_zvars
  BY EachSteps, StatementsSpare, InstancesAssumption
<1>2. OneSpec => [][~Z!Check => Spared]_zvars BY <1>1, InvHolds, PTL DEF OneSpec
<1>3. QED BY <1>2 DEF UpgradeKeeps, Z!UpgradeKeeps, Spared, zvars, Z!zvars
=============================================================================
