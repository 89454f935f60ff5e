---------------------------- MODULE SchemaUpgrade ----------------------------
(***************************************************************************)
(* The database upgrade of the patched LazyLibrarian (dbupgrade.py):       *)
(* db_upgrade at every start, update_schema, the checks that delete what   *)
(* looks orphaned. Every statement is committed by itself, and the process *)
(* may end between two; user_version is written at the very end. A         *)
(* database below version 60 goes through functions that are not modelled. *)
(* Columns filled with what another column holds are only added.           *)
(***************************************************************************)
EXTENDS Naturals, Sequences, FiniteSets

CONSTANTS Versions,                  \* of the databases at the start; 0 is a new one
          Books, Known,              \* books named by reading lists, those with a row in books
          Listed,                    \* <<list, book>>: the lists of the user
          SeriesIds, Source,         \* ids as sequences of digits, [SeriesIds -> sequence of letters]
          Members,                   \* <<id, book>>, rows of member and of seriesauthors alike
          MaxCrashes                 \* bound

Lists == <<"toread", "reading", "haveread", "abandoned">>
ListNames == {Lists[i] : i \in 1..Len(Lists)}
Tables == {"member", "seriesauthors"}     \* that refer to series

(* What is assumed of the constants. *)
SchemaAssumption ==
  /\ Versions \subseteq {0} \cup 60..81 /\ Known \subseteq Books /\ Listed \subseteq ListNames \X Books
  /\ SeriesIds \subseteq Seq(0..9) /\ \A i \in SeriesIds : Len(Source[i]) \in {0, 2}
  /\ \A i, j \in SeriesIds : Source[i] \o i = Source[j] \o j => i = j     \* a source has letters, an id has digits
  /\ Members \subseteq SeriesIds \X Books /\ IsFiniteSet(SeriesIds) /\ IsFiniteSet(Members) /\ MaxCrashes \in Nat

VARIABLES
  zVersion,             \* PRAGMA user_version
  zHas,                 \* <<table, column>>
  zForeign,             \* PRAGMA foreign_keys
  zUsers,               \* <<list, book>> in the columns of users
  zLists, zMerged,      \* in the four tables; <<list, book>> in readinglists
  zSeries, zMember,     \* keys in series; [Tables -> <<key, book>>]
  zTemp,                \* rows of the table temp
  zTodo,                \* <<table, key>>: the rows of series it has read and still has to write into the others
  zPC, zStep, zLine, zChanged, zCrashes

zvars == <<zVersion, zHas, zForeign, zUsers, zLists, zMerged, zSeries, zMember, zTemp, zTodo, zPC, zStep,
           zLine, zChanged, zCrashes>>
listVars == <<zUsers, zLists, zMerged>>
seriesVars == <<zSeries, zMember>>
dataVars == <<listVars, seriesVars, zTemp, zTodo>>

-----------------------------------------------------------------------------
(* A step of update_schema: run when a column is missing (or, of two of them, there), statement by statement. *)

Run(v, lacks, has, do) == [of |-> v, lacks |-> lacks, has |-> has, do |-> do]
Add(t, c) == <<"add", t, c>>
Create(t, c) == <<"create", t, c>>
Column(v, t, c) == Run(v, {<<t, c>>}, {}, <<Add(t, c)>>)
Table(v, t, c) == Run(v, {<<t, c>>}, {}, <<Create(t, c)>>)
OldSeries == <<"series", "SeriesID INTEGER">>
Rebuilt(t) == <<<<"temp", t>>, <<"drop", t>>, <<"rename", "temp", t>>>>

Current == 89
Steps61To70 == <<
  Column(61, "series", "Reason"), Column(62, "authors", "About"),
  Run(63, {<<"jobs", "Start">>}, {},
      <<<<"drop", "temp">>, <<"rename", "jobs", "temp">>, Create("jobs", "Start"), <<"drop", "temp">>>>),
  Column(64, "pastissues", "Added"),
  Run(65, {<<"users", "Abandoned">>}, {}, <<Add("users", "Reading"), Add("users", "Abandoned")>>),
  Table(66, "subscribers", "UserID"), Column(67, "users", "Prefs"), Column(68, "wanted", "Completed"),
  Column(69, "authors", "AKA"), Column(69, "books", "LT_WorkID"),
  Column(70, "authors", "gr_id"), Column(70, "books", "gr_id") >>
Steps71To81 == <<
  Column(71, "books", "Narrator"),
  Run(72, {<<"authors", "HaveAudioBooks">>}, {}, <<Add("authors", "HaveEBooks"), Add("authors", "HaveAudioBooks")>>),
  Column(73, "series", "gr_id"), Column(74, "users", "Theme"), Column(75, "authors", "ol_id"),
  Column(76, "wanted", "Label"),
  Run(77, {<<"magazines", "Genre">>}, {}, <<Add("magazines", "Genre"), Add("comics", "Genre")>>),
  Run(78, {<<"users", "Login_Count">>}, {},
      <<Add("users", "Last_Login"), Add("users", "Login_Count"), Create("sent_file", "UserID")>>),
  Run(79, {<<"series", "Source">>}, {OldSeries}, <<Add("series", "Source")>>),
  Table(80, "unauthorised", "UserID"),
  Run(81, {<<"books", "ol_id">>}, {}, <<Add("books", "ol_id"), Add("books", "gb_id")>>) >>
Steps82To84 == <<
  Run(82, {}, {<<"users", "HaveRead">>},
      <<Create("haveread", "BookID"), Create("toread", "BookID"), Create("reading", "BookID"),
        Create("abandoned", "BookID"), <<"spread">>, <<"drop", "temp">>, <<"temp", "users">>, <<"foreign", "OFF">>,
        <<"drop", "users">>, <<"rename", "temp", "users">>, <<"foreign", "ON">>>>),
  Run(83, {<<"books", "hc_id">>}, {}, <<Add("books", "hc_id"), Add("authors", "hc_id"), Add("users", "hc_id")>>),
  Run(84, {<<"readinglists", "Status">>}, {},
      <<Create("readinglists", "Status"), <<"merge", "toread">>, <<"drop", "toread">>, <<"merge", "reading">>,
        <<"drop", "reading">>, <<"merge", "haveread">>, <<"drop", "haveread">>, <<"merge", "abandoned">>,
        <<"drop", "abandoned">>>>) >>
Steps85To89 == <<
  Run(85, {}, {OldSeries},
      <<<<"foreign", "OFF">>, <<"drop", "temp">>>> \o Rebuilt("series") \o Rebuilt("member")
        \o Rebuilt("seriesauthors") \o <<<<"select">>, <<"rekey">>, <<"foreign", "ON">>>>),
  Column(86, "magazines", "Language"), Column(87, "users", "hc_token"), Table(88, "bookauthors", "Role"),
  Column(89, "books", "dnb_id") >>
Steps == Steps61To70 \o Steps71To81 \o Steps82To84 \o Steps85To89

(* A table of a database of version 60 is there by its key; a new one has some later columns already. *)
Base == {"series", "authors", "jobs", "pastissues", "users", "wanted", "books", "magazines", "comics", "member",
         "seriesauthors"} \X {"key"} \cup {OldSeries, <<"users", "HaveRead">>}
New == Base \cup {<<"series", "Reason">>, <<"authors", "About">>, <<"authors", "AKA">>, <<"jobs", "Start">>,
                  <<"pastissues", "Added">>, <<"books", "LT_WorkID">>, <<"books", "Narrator">>,
                  <<"users", "Last_Login">>, <<"users", "Login_Count">>, <<"sent_file", "UserID">>}
Before(v) ==
  LET done == {i \in 1..Len(Steps) : Steps[i].of <= v}
  IN Base \cup UNION {{<<s[2], s[3]>> : s \in {Steps[i].do[j] : j \in {k \in 1..Len(Steps[i].do) :
                                                 Steps[i].do[k][1] \in {"add", "create"}}}} : i \in done}

(* Before version 85 a series is known by its number. *)
Rows(v) == IF v = 0 THEN {} ELSE Members
Init ==
  /\ zVersion \in Versions /\ zHas = (IF zVersion = 0 THEN {} ELSE Before(zVersion)) /\ zForeign = TRUE
  /\ zUsers = (IF zVersion = 0 THEN {} ELSE Listed) /\ zLists = {} /\ zMerged = {}
  /\ zSeries = (IF zVersion = 0 THEN {} ELSE SeriesIds)
  /\ zMember = [t \in Tables |-> Rows(zVersion)] /\ zTemp = {} /\ zTodo = {}
  /\ zPC = "down" /\ zStep = 1 /\ zLine = 0 /\ zChanged = FALSE /\ zCrashes = 0

Exists(t) == \E c \in zHas : c[1] = t

(* A database of version 0 is created, whatever tables it has. *)
Start ==
  /\ zPC = "down" /\ zPC' = "schema" /\ zStep' = 1 /\ zLine' = 0 /\ zChanged' = (zVersion # Current)
  /\ zHas' = IF zVersion = 0 THEN New ELSE zHas
  /\ UNCHANGED <<zVersion, zForeign, dataVars, zCrashes>>

Needed(s) == s.lacks \cap zHas = {} /\ s.has \subseteq zHas
Enter ==
  /\ zPC = "schema" /\ zStep <= Len(Steps) /\ zLine = 0
  /\ IF Needed(Steps[zStep]) THEN zLine' = 1 /\ zChanged' = TRUE /\ UNCHANGED zStep
                             ELSE zStep' = zStep + 1 /\ UNCHANGED <<zLine, zChanged>>
  /\ UNCHANGED <<zVersion, zHas, zForeign, dataVars, zPC, zCrashes>>

Now(what) == zPC = "schema" /\ zStep <= Len(Steps) /\ zLine > 0 /\ Steps[zStep].do[zLine][1] = what
Of == Steps[zStep].do[zLine][2]
Onto == Steps[zStep].do[zLine][3]
Advance ==
  /\ IF zLine = Len(Steps[zStep].do) THEN zStep' = zStep + 1 /\ zLine' = 0 ELSE zLine' = zLine + 1 /\ UNCHANGED zStep
  /\ UNCHANGED <<zVersion, zPC, zChanged, zCrashes>>

AddColumn ==
  /\ Now("add") /\ Exists(Of) /\ <<Of, Onto>> \notin zHas
  /\ zHas' = zHas \cup {<<Of, Onto>>} /\ Advance /\ UNCHANGED <<zForeign, dataVars>>
(* sent_file has a check of its own. *)
CreateTable ==
  /\ Now("create") /\ (Exists(Of) => Of = "sent_file")
  /\ zHas' = zHas \cup {<<Of, Onto>>} /\ Advance /\ UNCHANGED <<zForeign, dataVars>>

(* Mutant: the foreign keys stay on. *)
StayOn == Now("foreign") /\ zForeign' = TRUE /\ Advance /\ UNCHANGED <<zHas, dataVars>>
ForeignKeys == Now("foreign") /\ zForeign' = (Of = "ON") /\ Advance /\ UNCHANGED <<zHas, dataVars>>

(* DROP TABLE deletes the rows first; with foreign keys on that goes on to the tables that refer to it. *)
Without(t) == {c \in zHas : c[1] # t}
Drop ==
  /\ Now("drop") /\ (Of # "temp" => Exists(Of)) /\ zHas' = Without(Of) /\ Advance
  /\ UNCHANGED <<zForeign, zMerged, zTodo>>
  /\ zTemp' = IF Of = "temp" THEN {} ELSE zTemp
  /\ zUsers' = IF Of = "users" THEN {} ELSE zUsers
  /\ zLists' = IF Of = "users" /\ zForeign THEN {} ELSE {e \in zLists : e[1] # Of}
  /\ zSeries' = IF Of = "series" THEN {} ELSE zSeries
  /\ zMember' = [t \in Tables |->
                   IF Of = t \/ (Of = "series" /\ zForeign /\ t = "member") THEN {} ELSE zMember[t]]

(* The rows of users are copied without the lists; a series' key is its source and its number. *)
Key(i) == Source[i] \o i
MakeTemp ==
  /\ Now("temp") /\ Exists(Of) /\ ~Exists("temp") /\ Advance /\ UNCHANGED <<zForeign, listVars, seriesVars, zTodo>>
  /\ zHas' = zHas \cup {<<"temp", c[2]>> : c \in {d \in zHas : d[1] = Of} \ {OldSeries, <<"users", "HaveRead">>,
               <<"users", "Reading">>, <<"users", "Abandoned">>, <<"series", "Source">>, <<"series", "gr_id">>}}
  /\ zTemp' = CASE Of = "users" -> {}
                [] Of = "series" -> {Key(i) : i \in zSeries}
                [] OTHER -> zMember[Of]

Rename ==
  /\ Now("rename") /\ Exists(Of) /\ ~Exists(Onto) /\ Advance /\ UNCHANGED <<zForeign, listVars, zTodo>>
  /\ zHas' = Without(Of) \cup {<<Onto, c[2]>> : c \in {d \in zHas : d[1] = Of}}
  /\ zTemp' = {}
  /\ zSeries' = IF Onto = "series" THEN zTemp ELSE zSeries
  /\ zMember' = [t \in Tables |-> IF Onto = t THEN zTemp ELSE zMember[t]]

(* One row after the other, into the table of its list. *)
SpreadRow(e) ==
  /\ Now("spread") /\ e \in zUsers \ zLists /\ zLists' = zLists \cup {e}
  /\ UNCHANGED <<zVersion, zHas, zForeign, zUsers, zMerged, seriesVars, zTemp, zTodo, zPC, zStep, zLine,
                 zChanged, zCrashes>>
Spread == Now("spread") /\ zUsers \subseteq zLists /\ Advance /\ UNCHANGED <<zHas, zForeign, dataVars>>

(* A book of two lists keeps the first one's status. *)
InReadingLists == {e[2] : e \in zMerged}
MergeRow(e) ==
  /\ Now("merge") /\ e \in zLists /\ e[1] = Of /\ e[2] \notin InReadingLists /\ zMerged' = zMerged \cup {e}
  /\ UNCHANGED <<zVersion, zHas, zForeign, zUsers, zLists, seriesVars, zTemp, zTodo, zPC, zStep, zLine,
                 zChanged, zCrashes>>
Merge ==
  /\ Now("merge") /\ Exists(Of) /\ {e[2] : e \in {d \in zLists : d[1] = Of}} \subseteq InReadingLists
  /\ Advance /\ UNCHANGED <<zHas, zForeign, dataVars>>

(* UPDATE ... WHERE SeriesID=seriesid[2:], one series after the other in some order, member before seriesauthors. *)
Select ==
  /\ Now("select") /\ zTodo' = Tables \X zSeries /\ Advance
  /\ UNCHANGED <<zHas, zForeign, listVars, seriesVars, zTemp>>
Turn(t, k) ==
  /\ <<t, k>> \in zTodo
  /\ IF t = "seriesauthors" THEN <<"member", k>> \notin zTodo
                            ELSE \A e \in zTodo : <<"member", e[2]>> \in zTodo
Numbered(k) == SubSeq(k, 3, Len(k))
Rekeyed(t, k) == {IF m[1] = Numbered(k) THEN <<k, m[2]>> ELSE m : m \in zMember[t]}
(* Two rows made one break the UNIQUE of the table and end the upgrade. *)
Clashes(t, k) == Cardinality(Rekeyed(t, k)) # Cardinality(zMember[t])
RekeyRow(t, k) ==
  /\ Now("rekey") /\ Turn(t, k) /\ ~Clashes(t, k)
  /\ zMember' = [zMember EXCEPT ![t] = Rekeyed(t, k)] /\ zTodo' = zTodo \ {<<t, k>>}
  /\ UNCHANGED <<zVersion, zHas, zForeign, listVars, zSeries, zTemp, zPC, zStep, zLine, zChanged, zCrashes>>
Rekey == Now("rekey") /\ zTodo = {} /\ Advance /\ UNCHANGED <<zHas, zForeign, dataVars>>

(* An exception: check_db returns 0, and the version is not written. *)
Fails ==
  \/ Now("add") /\ (~Exists(Of) \/ <<Of, Onto>> \in zHas)
  \/ Now("create") /\ Exists(Of) /\ Of # "sent_file"
  \/ Now("drop") /\ Of # "temp" /\ ~Exists(Of)
  \/ Now("rename") /\ (~Exists(Of) \/ Exists(Onto))
  \/ Now("temp") /\ (~Exists(Of) \/ Exists("temp"))
  \/ Now("merge") /\ ~Exists(Of)
  \/ Now("rekey") /\ \E e \in zTodo : Turn(e[1], e[2]) /\ Clashes(e[1], e[2])
Fail ==
  /\ Fails /\ zPC' = "up" /\ zForeign' = TRUE /\ zTodo' = {}
  /\ UNCHANGED <<zVersion, zHas, listVars, seriesVars, zTemp, zStep, zLine, zChanged, zCrashes>>

(* Orphans of member and of seriesauthors go first, then the series nobody wrote. *)
Kept(t) == {m \in zMember[t] : m[1] \in zSeries}
Authored == {m[1] : m \in Kept("seriesauthors")}
(* An entry whose book is unknown under every id is deleted. *)
KnownOnly == {e \in zMerged : e[2] \in Known}
(* A query of a table that is not there ends the checks. *)
Check ==
  /\ zPC = "schema" /\ zStep > Len(Steps) /\ zPC' = "checked"
  /\ IF \A t \in Tables \cup {"series"} : Exists(t)
     THEN /\ zMember' = [t \in Tables |-> {m \in Kept(t) : m[1] \in Authored}]
          /\ zSeries' = zSeries \cap Authored /\ zMerged' = KnownOnly
     ELSE UNCHANGED <<seriesVars, zMerged>>
  /\ UNCHANGED <<zVersion, zHas, zForeign, zUsers, zLists, zTemp, zTodo, zStep, zLine, zChanged, zCrashes>>

Finish ==
  /\ zPC = "checked" /\ zPC' = "up" /\ zVersion' = IF zChanged THEN Current ELSE zVersion
  /\ UNCHANGED <<zHas, zForeign, dataVars, zStep, zLine, zChanged, zCrashes>>

(* The end of the process, while it upgrades or later. *)
Crash ==
  /\ zPC # "down" /\ zCrashes < MaxCrashes /\ zCrashes' = zCrashes + 1 /\ zPC' = "down" /\ zForeign' = TRUE
  /\ zTodo' = {} /\ UNCHANGED <<zVersion, zHas, listVars, seriesVars, zTemp, zStep, zLine, zChanged>>

Next ==
  \/ Start \/ Enter \/ AddColumn \/ CreateTable \/ ForeignKeys \/ Drop \/ MakeTemp \/ Rename \/ Spread \/ Merge
  \/ Select \/ Rekey \/ (\E e \in ListNames \X Books : SpreadRow(e) \/ MergeRow(e))
  \/ (\E t \in Tables, k \in zSeries : RekeyRow(t, k))
  \/ Fail \/ Check \/ Finish \/ Crash

Spec == Init /\ [][Next]_zvars

-----------------------------------------------------------------------------
TypeOK ==
  /\ zVersion \in {0, Current} \cup Versions /\ zForeign \in BOOLEAN /\ zUsers \subseteq Listed
  /\ zLists \subseteq Listed /\ zMerged \subseteq Listed /\ zPC \in {"down", "schema", "checked", "up"}
  /\ zTodo \subseteq Tables \X zSeries /\ zStep \in 1..Len(Steps) + 1 /\ zLine \in 0..20
  /\ zChanged \in BOOLEAN /\ zCrashes \in 0..MaxCrashes

(* No statement of an upgrade loses a book of a reading list, a series, or a row of member or seriesauthors, *)
(* wherever the process ended before; only the checks delete. *)
Reading == {e[2] : e \in zUsers \cup zLists \cup zMerged}
Written(t) == IF Exists(t) THEN Cardinality(zMember[t]) ELSE Cardinality(zTemp)
Named == IF Exists("series") THEN Cardinality(zSeries) ELSE Cardinality(zTemp)
UpgradeKeeps ==
  [][~Check => /\ Reading \subseteq Reading' /\ Named <= Named'
               /\ \A t \in Tables : Written(t) <= Written(t)']_zvars

(* "85 change seriesid to include source, to avoid collisions": the members of two series stay apart. *)
Belongs(id, b) == <<id, b>> \in Members
SeriesApart ==
  zPC = "up" /\ zCrashes = 0 => \A m, n \in Members : m[1] # n[1] =>
    ~\E k \in zSeries : <<k, m[2]>> \in zMember["member"] /\ <<k, n[2]>> \in zMember["member"]
=============================================================================
