----------------------------- MODULE LibraryScan -----------------------------
(***************************************************************************)
(* The catalogue of the patched LazyLibrarian and what keeps it true to    *)
(* the files of the library: library_scan (librarysync.py), the book that  *)
(* the API adds (gb.py) and the check at every start (dbupgrade.check_db). *)
(* Books are rows keyed by an id of an information source, several ids can *)
(* stand for one title. Every file has a directory of its own, and Tree    *)
(* is the order in which os.walk lists them. Deleting an author deletes    *)
(* the books it owns (ON DELETE CASCADE).                                  *)
(***************************************************************************)
EXTENDS Naturals, Sequences, FiniteSets

CONSTANTS Ids, Authors, Files, None,
          Title, WrittenBy,      \* [Ids \cup Files -> title], [titles -> author]
          IdOf,                  \* [Files -> Ids or None]: the id in the file's metadata
          Tree, Hidden,          \* the directories in order; those to ignore (_, ., .ll_ignore)
          Known,                 \* ids the information source answers for
          Held, HeldBy, Unlinked, \* rows at the start, their owners, those without a bookauthors row
          Unknown, Partial,      \* authors whose name holds "unknown", "unknown author " (added by id only)
          MaxAdds, MaxMoves, MaxCrashes   \* bounds

(* What is assumed of the constants. *)
ScanAssumption ==
  /\ None \notin Ids \cup Files /\ Tree \in Seq(Files) /\ Hidden \subseteq Files /\ Known \subseteq Ids
  /\ Held \subseteq Ids /\ Unlinked \subseteq Held /\ HeldBy \in [Held -> Authors] /\ Partial \subseteq Unknown /\ Unknown \subseteq Authors
  /\ \A f \in Files : IdOf[f] # None => Title[IdOf[f]] = Title[f]
  /\ {MaxAdds, MaxMoves, MaxCrashes} \subseteq Nat

VARIABLES
  yAuthor,    \* the authors' Status, "none" when there is no row
  yCounted,   \* authors with TotalBooks > 0
  yBook,      \* books.Status, "none" when there is no row
  yOwner,     \* books.AuthorID
  yLinks,     \* bookauthors: pairs <<author, book>>
  yFile,      \* books.BookFile
  yWanted,    \* books with a Snatched row in the wanted table
  yDisk,      \* files on disk
  yPC, yRemove, ySnap, yAt, yHit, yFrom, yNew, yLast,   \* the scan
  yAdd, yAdding,                                 \* the request that adds a book
  yLoading, yTodo,                               \* the author whose books are loaded, those to come
  yAdds, yMoves, yCrashes

vars == <<yAuthor, yCounted, yBook, yOwner, yLinks, yFile, yWanted, yDisk, yPC, yRemove, ySnap, yAt, yHit,
          yFrom, yNew, yLast, yAdd, yAdding, yLoading, yTodo, yAdds, yMoves, yCrashes>>
authorVars == <<yAuthor, yCounted, yLinks>>
bookVars == <<yBook, yOwner, yFile, yWanted>>
scanVars == <<yPC, yRemove, ySnap, yAt, yHit, yFrom, yNew, yLast>>
addVars == <<yAdd, yAdding, yLoading, yTodo>>
boundVars == <<yAdds, yMoves, yCrashes>>

Init ==
  /\ yBook = [b \in Ids |-> IF b \in Held THEN "Wanted" ELSE "none"]
  /\ yOwner = [b \in Ids |-> IF b \in Held THEN HeldBy[b] ELSE WrittenBy[Title[b]]]
  /\ yLinks = {<<HeldBy[b], b>> : b \in Held \ Unlinked}
  /\ yAuthor = [a \in Authors |-> IF \E b \in Held : HeldBy[b] = a THEN "Paused" ELSE "none"]
  /\ yCounted = {HeldBy[b] : b \in Held \ Unlinked}
  /\ yFile = [b \in Ids |-> None] /\ yWanted = {} /\ yDisk = Files
  /\ yPC = "idle" /\ yRemove = FALSE /\ ySnap = {} /\ yAt = 0 /\ yHit = None /\ yFrom = None
  /\ yNew = FALSE /\ yLast = None
  /\ yAdd = "idle" /\ yAdding = None /\ yLoading = None /\ yTodo = {}
  /\ yAdds = 0 /\ yMoves = 0 /\ yCrashes = 0

Rows == {b \in Ids : yBook[b] # "none"}
OwnedBy(a) == {b \in Rows : yOwner[b] = a}
(* update_totals counts through bookauthors. *)
Counted(a) == \E b \in Rows : <<a, b>> \in yLinks
Recounted(A) == (yCounted \ A) \cup {a \in A : yAuthor[a] # "none" /\ Counted(a)}

(* DELETE from authors, with its cascades. *)
DeleteAuthors(A) ==
  LET gone == UNION {OwnedBy(a) : a \in A} IN
  /\ yAuthor' = [a \in Authors |-> IF a \in A THEN "none" ELSE yAuthor[a]]
  /\ yBook' = [b \in Ids |-> IF b \in gone THEN "none" ELSE yBook[b]]
  /\ yFile' = [b \in Ids |-> IF b \in gone THEN None ELSE yFile[b]]
  /\ yLinks' = {l \in yLinks : l[1] \notin A /\ l[2] \notin gone}

-----------------------------------------------------------------------------
(* The scan. *)

StartScan(remove) ==
  /\ yPC = "idle" /\ yPC' = "blank" /\ yRemove' = remove
  /\ ySnap' = IF remove THEN {<<b, yFile[b]>> : b \in {c \in Rows : yFile[c] # None}} ELSE {}
  /\ yAt' = 0 /\ yHit' = None /\ yFrom' = None /\ yNew' = FALSE /\ yLast' = None
  /\ UNCHANGED <<authorVars, bookVars, yDisk, addVars, boundVars>>

(* The snapshot's file is looked for, whatever the row names by now. *)
Blank(b, f) ==
  /\ yPC = "blank" /\ <<b, f>> \in ySnap /\ ySnap' = ySnap \ {<<b, f>>}
  /\ IF f \notin yDisk /\ b \in Rows
     THEN yBook' = [yBook EXCEPT ![b] = "Skipped"] /\ yFile' = [yFile EXCEPT ![b] = None]
     ELSE UNCHANGED <<yBook, yFile>>
  /\ UNCHANGED <<authorVars, yOwner, yWanted, yDisk, yPC, yRemove, yAt, yHit, yFrom, yNew, yLast,
                 addVars, boundVars>>

(* dirnames.remove while the loop runs over dirnames: the directory after a removed one is not looked at. *)
Pruned ==
  LET removed[i \in 0..Len(Tree)] == i > 0 /\ ~removed[i-1] /\ Tree[i] \in Hidden
  IN [i \in 1..Len(Tree) |-> removed[i]]

ToNext(pc) ==
  /\ yPC' = pc /\ yAt' = yAt + 1 /\ yHit' = None /\ yFrom' = None /\ yNew' = FALSE

Walk ==
  /\ \/ yPC = "blank" /\ ySnap = {}
     \/ yPC = "walk" /\ yAt \in 1..Len(Tree) /\ (Pruned[yAt] \/ Tree[yAt] \notin yDisk)
  /\ ToNext("walk")
  /\ UNCHANGED <<authorVars, bookVars, yDisk, yRemove, ySnap, yLast, addVars, boundVars>>

Here == Tree[yAt]
(* What the metadata, the tags, a special file or the file's name say. *)
TitleHere == Title[Here]
Writer == WrittenBy[TitleHere]

(* The author is added when it is not known; the last file's author is counted again. *)
Identify ==
  /\ yPC = "walk" /\ yAt \in 1..Len(Tree) /\ ~Pruned[yAt] /\ Here \in yDisk
  /\ \E status \in {"Active", "Paused"} :
       yAuthor' = [yAuthor EXCEPT ![Writer] = IF @ = "none" THEN status ELSE @]
  /\ yNew' = (yAuthor[Writer] = "none")
  /\ yCounted' = (IF yLast \notin {None, Writer} THEN Recounted({yLast}) ELSE yCounted)
  /\ yLast' = Writer /\ yPC' = "match"
  /\ UNCHANGED <<bookVars, yLinks, yDisk, yRemove, ySnap, yAt, yHit, yFrom, addVars, boundVars>>

(* Mutant: the id of the last file that had one stays for a file without. *)
CarriedId(f) ==
  IF IdOf[f] # None THEN IdOf[f]
  ELSE LET before == {i \in 1..yAt - 1 : IdOf[Tree[i]] # None}
       IN IF before = {} THEN None ELSE IdOf[Tree[CHOOSE i \in before : \A j \in before : j <= i]]
(* The ids are reset for every file. *)
OwnId(f) == IdOf[f]

SameTitle(f) == {b \in Rows : Title[b] = Title[f]}
(* find_book_in_db: the author's rows of this title, one that is Open before the others. *)
Preferred(S) == LET open == {b \in S : yBook[b] = "Open"} IN IF open = {} THEN S ELSE open
ByTitle(f) == Preferred(SameTitle(f) \cap OwnedBy(Writer))

(* The row of a title found under another id takes the id of the file, in every table. *)
Rekey(b, id) ==
  LET as(c) == IF c = b THEN id ELSE c IN
  /\ yBook' = [yBook EXCEPT ![id] = yBook[b], ![b] = "none"]
  /\ yOwner' = [yOwner EXCEPT ![id] = yOwner[b]]
  /\ yFile' = [yFile EXCEPT ![id] = yFile[b], ![b] = None]
  /\ yLinks' = {<<l[1], as(l[2])>> : l \in yLinks} /\ yWanted' = {as(c) : c \in yWanted}
  /\ UNCHANGED <<yAuthor, yCounted>>

(* add_bookid_to_db, called by the scan: the row and its link. *)
AddRow(id) ==
  /\ yBook' = [yBook EXCEPT ![id] = "Skipped"] /\ yOwner' = [yOwner EXCEPT ![id] = WrittenBy[Title[id]]]
  /\ yLinks' = yLinks \cup {<<WrittenBy[Title[id]], id>>}
  /\ yAuthor' = [yAuthor EXCEPT ![WrittenBy[Title[id]]] = IF @ = "none" THEN "Active" ELSE @]
  /\ UNCHANGED <<yCounted, yFile, yWanted>>

Hit(b) ==
  /\ yPC' = "link" /\ yHit' = b
  /\ UNCHANGED <<yDisk, yRemove, ySnap, yAt, yFrom, yNew, yLast, addVars, boundVars>>

(* In order: the id; the title under another id; the title; the id again, added; the isbn or the author the *)
(* directory names; a search of the sources. *)
MatchId(b) ==
  yPC = "match" /\ OwnId(Here) = b /\ b \in Rows /\ Hit(b) /\ UNCHANGED <<authorVars, bookVars>>
MatchRekeyed(b) ==
  /\ yPC = "match" /\ OwnId(Here) \notin Rows \cup {None} /\ b \in SameTitle(Here) \cap OwnedBy(Writer)
  /\ Hit(OwnId(Here)) /\ Rekey(b, OwnId(Here))
MatchTitle(b) ==
  yPC = "match" /\ OwnId(Here) = None /\ b \in ByTitle(Here) /\ Hit(b) /\ UNCHANGED <<authorVars, bookVars>>
NotByTitle == OwnId(Here) \notin Rows /\ ByTitle(Here) = {}
MatchAdded(b) ==
  yPC = "match" /\ OwnId(Here) = b /\ NotByTitle /\ b \in Known /\ Hit(b) /\ AddRow(b)
MatchElsewhere(b) ==
  /\ yPC = "match" /\ NotByTitle /\ OwnId(Here) \notin Known /\ b \in SameTitle(Here) /\ Hit(b) /\ UNCHANGED <<authorVars, bookVars>>
MatchSearch(b) ==
  /\ yPC = "match" /\ NotByTitle /\ OwnId(Here) \notin Known /\ SameTitle(Here) = {}
  /\ b \in Known /\ Title[b] = TitleHere /\ Hit(b)
  /\ IF b \in Rows THEN UNCHANGED <<authorVars, bookVars>> ELSE AddRow(b)

(* An author added for this file goes again, with whatever it owns by now. *)
NoMatch ==
  /\ yPC = "match" /\ NotByTitle /\ OwnId(Here) \notin Known /\ SameTitle(Here) = {}
  /\ \A b \in Known : Title[b] # TitleHere
  /\ DeleteAuthors(IF yNew THEN {Writer} ELSE {})
  /\ yCounted' = yCounted \ (IF yNew THEN {Writer} ELSE {})
  /\ ToNext("walk")
  /\ UNCHANGED <<yOwner, yWanted, yDisk, yRemove, ySnap, yLast, addVars, boundVars>>

(* The book is Open and names the file. What its row said of the owner is kept in case that is an "unknown" one. *)
Link ==
  /\ yPC = "link"
  /\ IF yHit \in Rows
     THEN yBook' = [yBook EXCEPT ![yHit] = "Open"] /\ yFile' = [yFile EXCEPT ![yHit] = Here]
     ELSE UNCHANGED <<yBook, yFile>>
  /\ IF yHit \in Rows /\ yOwner[yHit] \in Unknown
     THEN yPC' = "move" /\ yFrom' = yOwner[yHit] /\ UNCHANGED <<yAt, yHit, yNew>>
     ELSE ToNext("walk")
  /\ UNCHANGED <<authorVars, yOwner, yWanted, yDisk, yRemove, ySnap, yLast, addVars, boundVars>>

(* The book goes to the author of that name, who may be the unknown one again ... *)
Move ==
  /\ yPC = "move"
  /\ IF yAuthor[Writer] \in {"none", "Nameless"} THEN ToNext("walk") /\ UNCHANGED yOwner
     ELSE /\ yPC' = "drop" /\ UNCHANGED <<yAt, yHit, yFrom, yNew>>
          /\ yOwner' = [yOwner EXCEPT ![yHit] = Writer]
  /\ UNCHANGED <<authorVars, yBook, yFile, yWanted, yDisk, yRemove, ySnap, yLast, addVars, boundVars>>

(* ... and the one that had it is deleted, with all that he owns by now. *)
Drop ==
  /\ yPC = "drop" /\ ToNext("walk") /\ DeleteAuthors({yFrom}) /\ yCounted' = yCounted \ {yFrom}
  /\ UNCHANGED <<yOwner, yWanted, yDisk, yRemove, ySnap, yLast, addVars, boundVars>>

(* Mutant: without the second half of the condition. *)
EmptyByTotal(a) == yAuthor[a] # "none" /\ a \notin yCounted
(* TotalBooks=0 and not the owner of any row. *)
Empty(a) == yAuthor[a] # "none" /\ a \notin yCounted /\ OwnedBy(a) = {}

WalkEnds ==
  /\ yPC = "walk" /\ yAt = Len(Tree) + 1 /\ yPC' = "prune"
  /\ yCounted' = IF yLast = None THEN yCounted ELSE Recounted({yLast})
  /\ UNCHANGED <<yAuthor, yLinks, bookVars, yDisk, yRemove, ySnap, yAt, yHit, yFrom, yNew, yLast,
                 addVars, boundVars>>

Prune ==
  /\ yPC = "prune" /\ yPC' = "idle" /\ yAt' = 0
  /\ IF yRemove THEN DeleteAuthors({a \in Authors : yAuthor[a] = "Paused" /\ Empty(a)})
     ELSE UNCHANGED <<yAuthor, yBook, yFile, yLinks>>
  /\ UNCHANGED <<yCounted, yOwner, yWanted, yDisk, yRemove, ySnap, yHit, yFrom, yNew, yLast, addVars, boundVars>>

-----------------------------------------------------------------------------
(* A book added by a request: the author, the row, the link, one statement each. *)

AddAuthor(b) ==
  /\ yAdds < MaxAdds /\ yAdds' = yAdds + 1
  /\ yAdd = "idle" /\ b \in Known \ Rows /\ yAdd' = "row" /\ yAdding' = b
  /\ \E status \in {"Active", "Paused"} :
       yAuthor' = [yAuthor EXCEPT ![WrittenBy[Title[b]]] = IF @ = "none" THEN status ELSE @]
  /\ UNCHANGED <<yCounted, yLinks, bookVars, yDisk, scanVars, yLoading, yTodo, yMoves, yCrashes>>

(* The foreign key refuses a row whose author is gone. An existing row gets the status of a new one. *)
AddBook ==
  /\ yAdd = "row"
  /\ IF yAuthor[WrittenBy[Title[yAdding]]] = "none"
     THEN yAdd' = "idle" /\ UNCHANGED <<yBook, yOwner>>
     ELSE /\ yAdd' = "link" /\ yBook' = [yBook EXCEPT ![yAdding] = "Wanted"]
          /\ yOwner' = [yOwner EXCEPT ![yAdding] = WrittenBy[Title[yAdding]]]
  /\ UNCHANGED <<authorVars, yFile, yWanted, yDisk, scanVars, yAdding, yLoading, yTodo, boundVars>>

AddLink ==
  /\ yAdd = "link" /\ yAdd' = "idle"
  /\ yLinks' = IF yAdding \in Rows THEN yLinks \cup {<<WrittenBy[Title[yAdding]], yAdding>>} ELSE yLinks
  /\ UNCHANGED <<yAuthor, yCounted, bookVars, yDisk, scanVars, yAdding, yLoading, yTodo, boundVars>>

(* All the books of an author, one row and one link after the other; an existing row keeps its status. *)
LoadAuthor(a) ==
  /\ yAdds < MaxAdds /\ yAdds' = yAdds + 1
  /\ yLoading = None /\ yAuthor[a] # "none" /\ yLoading' = a
  /\ yAuthor' = [yAuthor EXCEPT ![a] = "Loading"] /\ yTodo' = {b \in Known : WrittenBy[Title[b]] = a}
  /\ UNCHANGED <<yCounted, yLinks, bookVars, yDisk, scanVars, yAdd, yAdding, yMoves, yCrashes>>

(* The title is there under another id. *)
Duplicate(b) == \E c \in OwnedBy(yLoading) \ {b} : Title[c] = Title[b]
LoadBook(b) ==
  /\ b \in yTodo /\ ~Duplicate(b) /\ yAuthor[yLoading] # "none" /\ yTodo' = yTodo \ {b}
  /\ yBook' = [yBook EXCEPT ![b] = IF @ = "none" THEN "Skipped" ELSE @]
  /\ yOwner' = [yOwner EXCEPT ![b] = yLoading] /\ yLinks' = yLinks \cup {<<yLoading, b>>}
  /\ UNCHANGED <<yAuthor, yCounted, yFile, yWanted, yDisk, scanVars, yAdd, yAdding, yLoading, boundVars>>
RejectBook(b) ==
  /\ b \in yTodo /\ yTodo' = yTodo \ {b} /\ Duplicate(b)
  /\ UNCHANGED <<authorVars, bookVars, yDisk, scanVars, yAdd, yAdding, yLoading, boundVars>>

(* The totals, and the author's row written whether or not it is still there: a new one has no name. *)
Loaded ==
  /\ yLoading # None /\ yTodo = {} /\ yLoading' = None
  /\ yCounted' = Recounted({yLoading})
  /\ yAuthor' = [yAuthor EXCEPT ![yLoading] = IF @ \in {"none", "Nameless"} THEN "Nameless" ELSE "Active"]
  /\ UNCHANGED <<yLinks, bookVars, yDisk, scanVars, yAdd, yAdding, yTodo, boundVars>>
(* A row the foreign key refuses ends it, with the author still Loading if it is there at all. *)
LoadFails ==
  /\ yTodo # {} /\ yAuthor[yLoading] = "none" /\ yLoading' = None /\ yTodo' = {}
  /\ UNCHANGED <<authorVars, bookVars, yDisk, scanVars, yAdd, yAdding, boundVars>>

-----------------------------------------------------------------------------
(* Downloads, the user, the restart. *)

Snatch(b) ==
  /\ yBook[b] = "Wanted" /\ yMoves < MaxMoves /\ yMoves' = yMoves + 1
  /\ yBook' = [yBook EXCEPT ![b] = "Snatched"] /\ yWanted' = yWanted \cup {b}
  /\ UNCHANGED <<authorVars, yOwner, yFile, yDisk, scanVars, addVars, yAdds, yCrashes>>

(* The file of a Snatched book arrives; the row is Processed, and the book Open unless the process ends between. *)
Import(b, f) ==
  /\ b \in yWanted \cap Rows /\ Title[f] = Title[b] /\ f \notin yDisk
  /\ yWanted' = yWanted \ {b} /\ yDisk' = yDisk \cup {f}
  /\ \/ yBook' = [yBook EXCEPT ![b] = "Open"] /\ yFile' = [yFile EXCEPT ![b] = f]
     \/ UNCHANGED <<yBook, yFile>>
  /\ UNCHANGED <<authorVars, yOwner, scanVars, addVars, boundVars>>

Lose(f) ==
  /\ f \in yDisk /\ yMoves < MaxMoves /\ yMoves' = yMoves + 1 /\ yDisk' = yDisk \ {f}
  /\ UNCHANGED <<authorVars, bookVars, scanVars, addVars, yAdds, yCrashes>>

(* A Snatched book without a Snatched row is Skipped. *)
Synced(b) == IF yBook[b] = "Snatched" /\ b \notin yWanted THEN "Skipped" ELSE yBook[b]
(* The check at the start: authors without a name or with a provisional one deleted, with what they own; then *)
(* those that count nothing counted again, and the empty ones deleted. *)
Unfinished(a) == yAuthor[a] = "Nameless" \/ (yAuthor[a] # "none" /\ a \in Partial)
CheckDb ==
  LET unfinished == {a \in Authors : Unfinished(a)}
      gone == UNION {OwnedBy(a) : a \in unfinished}
      counted == yCounted \cup {a \in Authors : yAuthor[a] # "none" /\ \E b \in Rows \ gone : <<a, b>> \in yLinks}
      lost == unfinished \cup {a \in Authors : a \notin counted /\ Empty(a)} IN
  /\ yCounted' = counted \ lost
  /\ yAuthor' = [a \in Authors |-> IF a \in lost THEN "none" ELSE yAuthor[a]]
  /\ yBook' = [b \in Ids |-> IF b \in gone THEN "none" ELSE Synced(b)]
  /\ yFile' = [b \in Ids |-> IF b \in gone THEN None ELSE yFile[b]]
  /\ yLinks' = {l \in yLinks : l[1] \notin lost /\ l[2] \notin gone}

Restart ==
  /\ yCrashes < MaxCrashes /\ yCrashes' = yCrashes + 1 /\ CheckDb
  /\ yPC' = "idle" /\ yAt' = 0 /\ yHit' = None /\ yFrom' = None /\ yNew' = FALSE /\ yLast' = None /\ ySnap' = {}
  /\ yAdd' = "idle" /\ yAdding' = None /\ yLoading' = None /\ yTodo' = {}
  /\ UNCHANGED <<yOwner, yWanted, yDisk, yRemove, yAdds, yMoves>>

-----------------------------------------------------------------------------
Match ==
  \/ NoMatch
  \/ \E b \in Ids : \/ MatchId(b) \/ MatchRekeyed(b) \/ MatchTitle(b)
                    \/ MatchAdded(b) \/ MatchElsewhere(b) \/ MatchSearch(b)
Scan ==
  \/ Walk \/ Identify \/ Match \/ Link \/ Move \/ Drop \/ WalkEnds \/ Prune
  \/ \E remove \in BOOLEAN : StartScan(remove)
  \/ \E b \in Ids, f \in Files : Blank(b, f)
Next ==
  \/ Scan \/ AddBook \/ AddLink \/ Loaded \/ LoadFails \/ Restart
  \/ \E a \in Authors : LoadAuthor(a)
  \/ \E b \in Ids : AddAuthor(b) \/ LoadBook(b) \/ RejectBook(b) \/ Snatch(b) \/ (\E f \in Files : Import(b, f))
  \/ \E f \in Files : Lose(f)

(* The CronJob's scans come again and again. *)
Spec == Init /\ [][Next]_vars /\ WF_vars(Scan)

-----------------------------------------------------------------------------
TypeOK ==
  /\ yAuthor \in [Authors -> {"none", "Active", "Paused", "Loading", "Nameless"}] /\ yCounted \subseteq Authors
  /\ yBook \in [Ids -> {"none", "Skipped", "Wanted", "Snatched", "Open"}] /\ yOwner \in [Ids -> Authors]
  /\ yLinks \subseteq Authors \X Ids /\ yFile \in [Ids -> Files \cup {None}]
  /\ yWanted \subseteq Ids /\ yDisk \subseteq Files /\ yAt \in 0..Len(Tree) + 1
  /\ \A b \in Rows : yAuthor[yOwner[b]] # "none"

(* No book names the file of another title: library_scan resets the ids for every file (the fix of #631). *)
RightFile == \A b \in Ids : yFile[b] # None => Title[yFile[b]] = Title[b]

(* The deletes that go by TotalBooks, at the start and at the end of a scan with remove, take no title with *)
(* them (the fix of #665), though a book may count for nobody. The start takes the titles of authors whose row *)
(* has no name, or a provisional one, and no others. *)
TitlesOf(S) == {Title[b] : b \in S}
Named(S) == {b \in S : ~Unfinished(yOwner[b])}
SparesOwners == (Prune \/ Restart) => TitlesOf(Named(Rows)) \subseteq TitlesOf(Rows')
OwnersSpared == [][SparesOwners]_vars

(* A file that stays on disk, outside the directories to ignore and of a title that can be found, is again and *)
(* again the file of an Open book of its title or has a sibling that is, whatever else writes to the catalogue. *)
Shelved(f) == \E b \in Rows : Title[b] = Title[f] /\ yBook[b] = "Open" /\ yFile[b] # None
Findable(f) == f \notin Hidden /\ \E b \in Known : Title[b] = Title[f]
FileIsFound == \A f \in Files : Findable(f) /\ <>[](f \in yDisk) => []<>Shelved(f)

(* "a remove scan keeps authors that own books": no step of such a scan takes a title out of the catalogue. *)
ScanKeepsOwners == [][Scan /\ yRemove => TitlesOf(Rows) \subseteq TitlesOf(Rows')]_vars
=============================================================================
