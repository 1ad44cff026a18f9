-------------------------- MODULE MigrationProofs ---------------------------
(***************************************************************************)
(* Proofs about Migration for any databases, runs, links and troubles: what*)
(* a run leaves and what it says of it, what its rows refer to, the types, *)
(* and that a run is whole or nothing.                                     *)
(***************************************************************************)
EXTENDS Migration, FiniteSetTheorems, FunctionTheorems, WellFoundedInduction,
        SequenceTheorems, TLAPS

IsRows(s) == \E S : s \in Seq(S)

RunTables == Tables \ {"joins", "seasons", "links"}   \* whose rows tell their run
Owned     == RunTables \ {"naming"}                     \* and keep it

(* The history: a sequence of records. *)
LogShape ==
    /\ IsRows(log)
    /\ \A k \in DOMAIN log :
          log[k] = [outcome |-> log[k].outcome, src |-> log[k].src, report |-> log[k].report]

Shapes ==
    /\ DOMAIN db = Tables /\ DOMAIN tx = Tables /\ DOMAIN next = Tables
    /\ LogShape
    /\ DOMAIN src = Applications
    /\ \A app \in {"sonarr", "radarr"} : "files" \in DOMAIN src[app] /\ IsRows(src[app].files)
    /\ at \notin {"idle", "read"} => IsRows(data.files)

(* The sequence of the files gives each an id of its own. *)
FilesNumbered ==
    /\ next.files \in Nat
    /\ \A f \in db.files \cup tx.files : f.id \in 1..next.files
    /\ \A f, g \in db.files \cup tx.files : f.id = g.id => f = g

(* The links of a transaction are cleared before it can commit; those that   *)
(* are committed were made by an import or a scan, one for an item.          *)
LinksScanned ==
    /\ \A l \in db.links : \E f \in db.files : f.id = l.file /\ f.run = 0
    /\ \A l, m \in db.links : l.item = m.item => l = m
    /\ cleared \subseteq db.links
    /\ at \in {"blocklist", "commit"} => tx.links = {} /\ ~aborted

(* Only the last run is under way, only it has rows in the transaction, and  *)
(* none of its rows are committed; nor are those of a dry run.               *)
Kept(r) ==
    /\ r.run \in 0..Len(log)
    /\ at # "idle" => r.run < Len(log)
    /\ r.run > 0 => log[r.run].outcome # "dry"

RunsNumbered ==
    /\ \A k \in DOMAIN log : log[k].outcome = "running" <=> (at # "idle" /\ k = Len(log))
    /\ at \in {"idle", "read", "begin"} => tx = Empty
    /\ at # "idle" => Len(log) > 0
    /\ \A t \in RunTables :
          /\ \A r \in tx[t] : r.run = Len(log)
          /\ \A r \in db[t] : Kept(r)

(* Profiles of this run are written before what names them. *)
ProfileOf(r, profiles) == r.row.profile = 0 \/ \E p \in profiles : p.id = r.row.profile

ProfilesThere ==
    \A t \in {"series", "movies"} :
        /\ \A r \in db[t] : ProfileOf(r, db.profiles)
        /\ \A r \in tx[t] : ProfileOf(r, db.profiles \cup tx.profiles)
        /\ at \in {"tags", "formats", "profiles"} => tx[t] = {}

MInv == Shapes /\ FilesNumbered /\ LinksScanned /\ RunsNumbered /\ ProfilesThere

LEMMA SourcesRead == Databases
BY MigrationAssumption DEF MigrationAssumption

LEMMA TableNames ==
    /\ {"tags", "formats", "profiles", "scores", "folders", "naming", "indexers", "clients",
        "series", "files", "episodes", "joins", "seasons", "movies", "links", "blocklist"} = Tables
    /\ "sonarr" \in Applications /\ "radarr" \in Applications
BY DEF Tables, Applications

LEMMA RowsType ==
    ASSUME NEW s, IsRows(s)
    PROVE  Len(s) \in Nat /\ DOMAIN s = 1..Len(s)
BY LenProperties DEF IsRows

LEMMA AreRows ==
    ASSUME NEW n \in Nat, NEW s, DOMAIN s = 1..n, s = [i \in 1..n |-> s[i]]
    PROVE  IsRows(s) /\ Len(s) = n
<1> DEFINE S == {s[i] : i \in 1..n}
<1>1. s \in [1..n -> S]
  OBVIOUS
<1>2. s \in Seq(S)
  BY <1>1, SeqDef
<1>3. Len(s) \in Nat /\ DOMAIN s = 1..Len(s)
  BY <1>2, LenProperties
<1>4. Len(s) = n
  BY <1>3
<1> QED
  BY <1>2, <1>4 DEF IsRows

LEMMA JoinedRows ==
    ASSUME NEW s, NEW q, IsRows(s), IsRows(q)
    PROVE  IsRows(s \o q) /\ Len(s \o q) = Len(s) + Len(q)
<1>1. PICK S : s \in Seq(S)
  BY DEF IsRows
<1>2. PICK T : q \in Seq(T)
  BY DEF IsRows
<1>3. s \in Seq(S \cup T) /\ q \in Seq(S \cup T)
  BY <1>1, <1>2, SeqMonotonic
<1> QED
  BY <1>3, ConcatProperties DEF IsRows

LEMMA RowRemoved ==
    ASSUME NEW s, IsRows(s), NEW i \in DOMAIN s
    PROVE  IsRows(RemoveAt(s, i))
<1>1. PICK S : s \in Seq(S)
  BY DEF IsRows
<1>2. Len(s) \in Nat /\ i \in 1..Len(s) /\ \A j \in 1..Len(s) : s[j] \in S
  BY <1>1, LenProperties
<1>3. SubSeq(s, 1, i - 1) \in Seq(S) /\ SubSeq(s, i + 1, Len(s)) \in Seq(S)
  BY <1>2, SubSeqProperties
<1> QED
  BY <1>3, ConcatProperties DEF IsRows, RemoveAt

(* What is read of media_files is merged into one sequence. *)
LEMMA FilesMerged ==
    ASSUME NEW given, NEW mappings, IsRows(given.sonarr.files), IsRows(given.radarr.files)
    PROVE  IsRows(build_migration_data(given, mappings).files)
<1>1. build_migration_data(given, mappings).files = MediaFiles(given)
  BY DEF build_migration_data
<1> DEFINE a == given.sonarr.files
           b == given.radarr.files
           s == Apply(a, LAMBDA f : [old |-> f.id, from |-> <<"sonarr", f.id>>, media |-> "series",
                                       quality |-> QualityId(f.quality)])
           q == Apply(b, LAMBDA f : [old |-> f.id, from |-> <<"radarr", f.id>>, media |-> "movie",
                                       quality |-> QualityId(f.quality)])
<1>2. IsRows(s)
  <2>1. Len(a) \in Nat /\ DOMAIN a = 1..Len(a)
    BY RowsType
  <2>2. DOMAIN s = 1..Len(a) /\ s = [i \in 1..Len(a) |-> s[i]]
    BY <2>1 DEF Apply
  <2> HIDE DEF s
  <2> QED
    BY <2>1, <2>2, AreRows
<1>3. IsRows(q)
  <2>1. Len(b) \in Nat /\ DOMAIN b = 1..Len(b)
    BY RowsType
  <2>2. DOMAIN q = 1..Len(b) /\ q = [i \in 1..Len(b) |-> q[i]]
    BY <2>1 DEF Apply
  <2> HIDE DEF q
  <2> QED
    BY <2>1, <2>2, AreRows
<1>4. MediaFiles(given) = s \o q
  BY DEF MediaFiles
<1> HIDE DEF s, q
<1> QED
  BY <1>1, <1>2, <1>3, <1>4, JoinedRows
-----------------------------------------------------------------------------
(* The steps, by what they do to the tables and to the transaction. *)

Starts ==
    /\ at = "idle" /\ at' = "read"
    /\ DOMAIN src' = Applications
    /\ \A app \in Applications : src'[app] \in {Sources[app], NoTables[app]}
    /\ \E p : log' = Append(log, [outcome |-> "running", src |-> src', report |-> p])
    /\ UNCHANGED <<db, next, tx, cleared, aborted>>

Reads ==
    /\ at = "read" /\ at' = "begin"
    /\ \/ src' = src
       \/ \E app \in Applications : \E t \in SeqTables(app) : \E i \in DOMAIN src[app][t] :
             src' = Skipping(app, t, i)
    /\ data' = build_migration_data(src', maps)
    /\ log' = [log EXCEPT ![Len(log)].src = src']
    /\ UNCHANGED <<db, next, maps, tx, cleared, aborted>>

Ends(outcome) ==
    /\ at # "idle" /\ at' = "idle"
    /\ tx' = Empty /\ cleared' = {} /\ src' = NoTables
    /\ \E p : log' = [log EXCEPT ![Len(log)].outcome = outcome, ![Len(log)].report = p]

Leaves ==
    /\ \/ at = "begin" /\ Ends("dry")
       \/ Ends("error")
    /\ UNCHANGED <<db, next>>

(* A statement: what it inserts is numbered with the run. *)
Writes ==
    /\ at \notin {"idle", "read"} /\ at' \notin {"idle", "read", "begin"}
    /\ DOMAIN tx' = Tables /\ DOMAIN next' = Tables
    /\ \A t \in RunTables : tx'[t] = tx[t] \/ \A r \in tx'[t] : r.run = Len(log)
    /\ \/ tx'.files = tx.files /\ next'.files = next.files
       \/ /\ tx'.files = Numbered("files", data.files)
          /\ next'.files = next.files + Len(data.files)
    /\ at' \in {"blocklist", "commit"} => tx'.links = {} /\ ~aborted'
    /\ cleared' = cleared \/ cleared' = db.links
    /\ tx'.profiles = tx.profiles \/ at = "profiles"
    /\ \A t \in {"series", "movies"} :
          \/ tx'[t] = tx[t]
          \/ /\ at = t /\ at' \notin {"tags", "formats", "profiles"}
             /\ \A r \in tx'[t] : ProfileOf(r, db.profiles \cup tx.profiles)
    /\ at' = "tags" => at = "begin"
    /\ at' = "formats" => at = "tags"
    /\ at' = "profiles" => at = "formats"
    /\ UNCHANGED <<db, src, data, log>>

Commits ==
    /\ at = "commit"
    /\ db' = IF aborted THEN db ELSE [t \in Tables |-> Merged(t)]
    /\ Ends("ok") \/ Ends("error")
    /\ next' = next

LEMMA InsertWrites ==
    ASSUME Shapes, RunsNumbered, LinksScanned, NEW t \in Owned \cup {"naming"},
           t \notin {"files", "series", "movies", "profiles"},
           NEW rows, NEW step,
           Insert(t, rows), Goto(step), at \notin {"idle", "read"},
           step \notin {"idle", "read", "begin", "tags"},
           step = "formats" => at = "tags", step = "profiles" => at = "formats",
           step = "commit" => at = "blocklist",
           step # "blocklist"
    PROVE  Writes
<1>1. tx' = [tx EXCEPT ![t] = Numbered(t, rows)] /\ DOMAIN tx' = Tables
  BY DEF Insert, Shapes
<1>2. next' = [next EXCEPT ![t] = @ + Len(rows)] /\ DOMAIN next' = Tables /\ aborted' = aborted
  BY DEF Insert, Shapes
<1>3. \A u \in RunTables : tx'[u] = tx[u] \/ \A r \in tx'[u] : r.run = Len(log)
  BY <1>1 DEF RunTables, Numbered, Shapes
<1>4. t \in Tables /\ t \notin {"joins", "seasons", "links"}
  BY DEF Owned, RunTables, Tables
<1>5. \A u \in {"files", "links", "profiles", "series", "movies"} :
         tx'[u] = tx[u] /\ next'[u] = next[u]
  BY <1>1, <1>2, <1>4, TableNames DEF Shapes
<1> QED
  BY <1>1, <1>2, <1>3, <1>5 DEF Writes, Goto, LinksScanned

LEMMA PlainWrites ==
    ASSUME Shapes, RunsNumbered, LinksScanned,
           WriteTags \/ WriteCustomFormats \/ WriteFormatScores \/ WriteMediaLibraryFolders
             \/ WriteNamingConfig \/ WriteIndexers \/ WriteDownloadClients \/ WriteBlocklist
    PROVE  Writes
<1> DEFINE Inserts(t, step) == /\ \E rows : Insert(t, rows)
                               /\ Goto(step)
<1>1. \/ at = "tags" /\ Inserts("tags", "formats")
      \/ at = "formats" /\ Inserts("formats", "profiles")
      \/ at = "scores" /\ Inserts("scores", "folders")
      \/ at = "folders" /\ Inserts("folders", "naming")
      \/ at = "naming" /\ Inserts("naming", "indexers")
      \/ at = "indexers" /\ Inserts("indexers", "clients")
      \/ at = "clients" /\ Inserts("clients", "series")
      \/ at = "blocklist" /\ Inserts("blocklist", "commit")
  BY DEF WriteTags, WriteCustomFormats, WriteFormatScores, WriteMediaLibraryFolders,
         WriteNamingConfig, WriteIndexers, WriteDownloadClients, WriteBlocklist
<1>2. {"tags", "formats", "scores", "folders", "naming", "indexers", "clients", "blocklist"}
         \subseteq (Owned \cup {"naming"}) \ {"files", "series", "movies", "profiles"}
  BY DEF Owned, RunTables, Tables
<1>3. ASSUME NEW t, NEW step, Inserts(t, step),
             t \in {"tags", "formats", "scores", "folders", "naming", "indexers", "clients", "blocklist"},
             at = t,
             step \in {"formats", "profiles", "folders", "naming", "indexers", "clients", "series", "commit"},
             step = "formats" => at = "tags", step = "profiles" => at = "formats",
             step = "commit" => at = "blocklist"
      PROVE  Writes
  <2>1. PICK rows : Insert(t, rows)
    BY <1>3
  <2> QED
    BY <1>2, <1>3, <2>1, InsertWrites
<1> HIDE DEF Inserts
<1> QED
  BY <1>1, <1>3

LEMMA ProfilesWrite ==
    ASSUME Shapes, RunsNumbered, LinksScanned, WriteQualityProfiles
    PROVE  Writes
<1>1. tx' = [tx EXCEPT !["profiles"] = Numbered("profiles", data.profiles)] /\ DOMAIN tx' = Tables
  BY DEF WriteQualityProfiles, Insert, Shapes
<1>2. next' = [next EXCEPT !["profiles"] = @ + Len(data.profiles)] /\ DOMAIN next' = Tables
  BY DEF WriteQualityProfiles, Insert, Shapes
<1>3. \A u \in RunTables : tx'[u] = tx[u] \/ \A r \in tx'[u] : r.run = Len(log)
  BY <1>1 DEF RunTables, Numbered, Shapes
<1>4. \A u \in {"files", "links", "series", "movies"} : tx'[u] = tx[u] /\ next'[u] = next[u]
  BY <1>1, <1>2, TableNames DEF Shapes
<1> QED
  BY <1>1, <1>2, <1>3, <1>4 DEF Writes, WriteQualityProfiles, Goto

LEMMA FilesWrite ==
    ASSUME Shapes, RunsNumbered, LinksScanned, WriteMediaFiles
    PROVE  Writes
<1>1. tx' = [tx EXCEPT !["files"] = Numbered("files", data.files)] /\ DOMAIN tx' = Tables
  BY DEF WriteMediaFiles, Insert, Shapes
<1>2. next' = [next EXCEPT !["files"] = @ + Len(data.files)] /\ DOMAIN next' = Tables
  BY DEF WriteMediaFiles, Insert, Shapes
<1>3. \A u \in RunTables : tx'[u] = tx[u] \/ \A r \in tx'[u] : r.run = Len(log)
  BY <1>1 DEF RunTables, Numbered, Shapes
<1>4. \A u \in {"profiles", "links", "series", "movies"} : tx'[u] = tx[u]
  BY <1>1, TableNames DEF Shapes
<1>5. /\ tx'.files = Numbered("files", data.files)
      /\ next'.files = next.files + Len(data.files)
  BY <1>1, <1>2, TableNames DEF Shapes
<1> QED
  BY <1>1, <1>2, <1>3, <1>4, <1>5 DEF Writes, WriteMediaFiles, Goto

(* A series and a movie name a profile that is there to be seen. *)
LEMMA SeriesWrite ==
    ASSUME Shapes, RunsNumbered, LinksScanned, WriteSeries
    PROVE  Writes
<1>1. PICK rows : /\ Insert("series", rows)
                  /\ \A i \in DOMAIN rows : ProfileExists(rows[i].profile)
  BY DEF WriteSeries, ToSet
<1>2. tx' = [tx EXCEPT !["series"] = Numbered("series", rows)] /\ DOMAIN tx' = Tables
  BY <1>1 DEF Insert, Shapes
<1>3. next' = [next EXCEPT !["series"] = @ + Len(rows)] /\ DOMAIN next' = Tables
  BY <1>1 DEF Insert, Shapes
<1>4. \A u \in RunTables : tx'[u] = tx[u] \/ \A r \in tx'[u] : r.run = Len(log)
  BY <1>2 DEF RunTables, Numbered, Shapes
<1>5. \A u \in {"profiles", "links", "files", "movies"} : tx'[u] = tx[u] /\ next'[u] = next[u]
  BY <1>2, <1>3, TableNames DEF Shapes
<1>6. \A r \in tx'.series : ProfileOf(r, db.profiles \cup tx.profiles)
  BY <1>1, <1>2, TableNames, SMTT(40) DEF Shapes, ProfileOf, ProfileExists, Visible, Numbered
<1> QED
  BY <1>2, <1>3, <1>4, <1>5, <1>6 DEF Writes, WriteSeries, Goto

LEMMA MoviesWrite ==
    ASSUME Shapes, RunsNumbered, LinksScanned, WriteMovies
    PROVE  Writes
<1>1. \E rows, written :
         /\ tx' = [tx EXCEPT !["movies"] = Numbered("movies", rows), !["links"] = written]
         /\ \A i \in DOMAIN rows : ProfileExists(rows[i].profile)
  <2>1. PICK profile \in [DOMAIN data.movies -> 1..next.profiles],
             folder \in [DOMAIN data.movies -> 0..next.folders] :
           /\ \A i \in DOMAIN data.movies : ProfileExists(profile[i])
           /\ tx' = [tx EXCEPT
                 !["movies"] = Numbered("movies",
                     [i \in DOMAIN data.movies |->
                        [old |-> data.movies[i].old, from |-> data.movies[i].from,
                         path |-> data.movies[i].path, folder |-> folder[i], profile |-> profile[i],
                         tags |-> TagIds(MappedTags(src, data.movies[i].tags))]]),
                 !["links"] = @ \cup
                     {[item |-> <<"movie", next.movies + i>>, file |-> MovieFile(data.movies[i])] :
                         i \in {j \in DOMAIN data.movies : MovieFile(data.movies[j]) # 0}}]
    BY DEF WriteMovies
  <2> DEFINE rows == [i \in DOMAIN data.movies |->
                        [old |-> data.movies[i].old, from |-> data.movies[i].from,
                         path |-> data.movies[i].path, folder |-> folder[i], profile |-> profile[i],
                         tags |-> TagIds(MappedTags(src, data.movies[i].tags))]]
             written == tx.links \cup
                     {[item |-> <<"movie", next.movies + i>>, file |-> MovieFile(data.movies[i])] :
                         i \in {j \in DOMAIN data.movies : MovieFile(data.movies[j]) # 0}}
  <2>2. \A i \in DOMAIN rows : ProfileExists(rows[i].profile)
    BY <2>1
  <2>3. tx' = [tx EXCEPT !["movies"] = Numbered("movies", rows), !["links"] = written]
    BY <2>1, TableNames DEF Shapes
  <2> HIDE DEF rows, written
  <2> QED
    BY <2>2, <2>3
<1>2. PICK rows, written :
         /\ tx' = [tx EXCEPT !["movies"] = Numbered("movies", rows), !["links"] = written]
         /\ \A i \in DOMAIN rows : ProfileExists(rows[i].profile)
  BY <1>1
<1>3. next' = [next EXCEPT !["movies"] = @ + Len(data.movies)] /\ DOMAIN next' = Tables
  BY DEF WriteMovies, Shapes
<1>4. DOMAIN tx' = Tables
  BY <1>2 DEF Shapes
<1>5. \A u \in RunTables : tx'[u] = tx[u] \/ \A r \in tx'[u] : r.run = Len(log)
  BY <1>2 DEF RunTables, Numbered, Shapes
<1>6. \A u \in {"profiles", "files", "series"} : tx'[u] = tx[u] /\ next'[u] = next[u]
  BY <1>2, <1>3, TableNames DEF Shapes
<1>7. \A r \in tx'.movies : ProfileOf(r, db.profiles \cup tx.profiles)
  BY <1>2, TableNames, SMTT(40) DEF Shapes, ProfileOf, ProfileExists, Visible, Numbered
<1> QED
  BY <1>3, <1>4, <1>5, <1>6, <1>7, ZenonT(40) DEF Writes, WriteMovies, Goto

LEMMA EpisodesWrite ==
    ASSUME Shapes, RunsNumbered, LinksScanned, WriteEpisodes
    PROVE  Writes
<1>1. PICK rows, written, joins :
         tx' = [tx EXCEPT !["episodes"] = Numbered("episodes", rows), !["links"] = written,
                          !["joins"] = joins]
  BY DEF WriteEpisodes
<1>2. PICK n : next' = [next EXCEPT !["episodes"] = @ + n]
  BY DEF WriteEpisodes
<1>3. DOMAIN tx' = Tables /\ DOMAIN next' = Tables
  BY <1>1, <1>2 DEF Shapes
<1>4. \A u \in RunTables : tx'[u] = tx[u] \/ \A r \in tx'[u] : r.run = Len(log)
  BY <1>1 DEF RunTables, Numbered, Shapes
<1>5. \A u \in {"profiles", "files", "series", "movies"} : tx'[u] = tx[u] /\ next'[u] = next[u]
  BY <1>1, <1>2, TableNames DEF Shapes
<1> QED
  BY <1>3, <1>4, <1>5, ZenonT(40) DEF Writes, WriteEpisodes

LEMMA OtherWrites ==
    ASSUME Shapes, RunsNumbered, LinksScanned, Begin \/ WriteSeasons \/ ClearLinks
    PROVE  Writes
<1>1. CASE Begin
  BY <1>1 DEF Begin, Writes, Shapes, txVars
<1>2. CASE WriteSeasons
  <2>1. tx' = [tx EXCEPT !["seasons"] = SeasonRows] /\ next' = next
    BY <1>2 DEF WriteSeasons
  <2>2. \A u \in RunTables \cup {"files", "profiles", "series", "movies"} : tx'[u] = tx[u]
    BY <2>1, TableNames DEF Shapes, RunTables
  <2> QED
    BY <1>2, <2>1, <2>2 DEF WriteSeasons, Writes, Shapes
<1>3. CASE ClearLinks
  <2>1. tx' = [tx EXCEPT !["links"] = {}] /\ next' = next
    BY <1>3 DEF ClearLinks
  <2>2. \A u \in RunTables \cup {"files", "profiles", "series", "movies"} : tx'[u] = tx[u]
    BY <2>1, TableNames DEF Shapes, RunTables
  <2>3. tx'.links = {} /\ ~aborted'
    BY <1>3, <2>1, TableNames DEF ClearLinks, Shapes
  <2> QED
    BY <1>3, <2>1, <2>2, <2>3 DEF ClearLinks, Writes, Shapes
<1> QED
  BY <1>1, <1>2, <1>3

(* What any step is. *)
LEMMA Kinds ==
    ASSUME Shapes, RunsNumbered, LinksScanned, MigrationNext
    PROVE  Starts \/ Reads \/ Leaves \/ Writes \/ Commits
           \/ (\E item \in Linkable : AppLinks(item))
           \/ (\E p \in db.profiles : UserDeletesProfile(p))
<1>1. CASE Start
  BY <1>1, SourcesRead DEF Start, Starts, txVars, Databases
<1>2. CASE Read
  BY <1>2 DEF Read, Reads, txVars
<1>3. CASE DryRun \/ StatementFails \/ Interrupted
  <2>1. CASE DryRun
    BY <2>1 DEF DryRun, Leaves, Ends, Ended
  <2>2. CASE StatementFails
    <3>1. at # "idle"
      BY <2>2 DEF StatementFails, Writing, NoProfile, LinksScanned, RunsNumbered
    <3> QED
      BY <2>2, <3>1 DEF StatementFails, Leaves, Ends, Ended
  <2>3. CASE Interrupted
    BY <2>3 DEF Interrupted, Leaves, Ends, Ended
  <2> QED
    BY <1>3, <2>1, <2>2, <2>3
<1>4. CASE Commit
  BY <1>4 DEF Commit, Commits, Ends, Ended
<1>5. CASE \/ WriteTags \/ WriteCustomFormats \/ WriteFormatScores
           \/ WriteMediaLibraryFolders \/ WriteNamingConfig \/ WriteIndexers
           \/ WriteDownloadClients \/ WriteBlocklist
  BY <1>5, PlainWrites
<1>6. CASE WriteQualityProfiles \/ WriteMediaFiles \/ WriteSeries \/ WriteMovies
  BY <1>6, ProfilesWrite, FilesWrite, SeriesWrite, MoviesWrite
<1>7. CASE WriteEpisodes \/ Begin \/ WriteSeasons \/ ClearLinks
  BY <1>7, EpisodesWrite, OtherWrites
<1>8. CASE \E item \in Linkable : AppLinks(item)
  BY <1>8
<1>9. CASE \E p \in db.profiles : UserDeletesProfile(p)
  BY <1>9
<1> QED
  BY <1>1, <1>2, <1>3, <1>4, <1>5, <1>6, <1>7, <1>8, <1>9, Zenon DEF MigrationNext
-----------------------------------------------------------------------------
LEMMA LogStarts ==
    ASSUME LogShape, Starts
    PROVE  /\ LogShape' /\ Len(log') = Len(log) + 1 /\ Len(log) \in Nat
           /\ log'[Len(log) + 1].outcome = "running" /\ log'[Len(log) + 1].src = src'
           /\ \A k \in 1..Len(log) : log'[k] = log[k]
<1>1. PICK S : log \in Seq(S)
  BY DEF LogShape, IsRows
<1>2. PICK p : log' = Append(log, [outcome |-> "running", src |-> src', report |-> p])
  BY DEF Starts
<1> DEFINE R == [outcome |-> "running", src |-> src', report |-> p]
           T == S \cup {R}
<1>3. log \in Seq(T) /\ R \in T
  BY <1>1, SeqMonotonic
<1>4. /\ log' \in Seq(T)
      /\ Len(log') = Len(log) + 1
      /\ \A k \in 1..Len(log) : log'[k] = log[k]
      /\ log'[Len(log) + 1] = R
  <2> HIDE DEF R, T
  <2> QED
    BY <1>2, <1>3, AppendProperties DEF R
<1>5. /\ Len(log) \in Nat /\ DOMAIN log = 1..Len(log)
      /\ DOMAIN log' = 1..(Len(log) + 1)
  BY <1>1, <1>4, LenProperties
<1>6. R = [outcome |-> R.outcome, src |-> R.src, report |-> R.report]
  OBVIOUS
<1> HIDE DEF R
<1>7. \A k \in DOMAIN log' :
         log'[k] = [outcome |-> log'[k].outcome, src |-> log'[k].src, report |-> log'[k].report]
  <2> TAKE k \in DOMAIN log'
  <2>1. k \in 1..Len(log) \/ k = Len(log) + 1
    BY <1>5
  <2> QED
    BY <2>1, <1>4, <1>5, <1>6 DEF LogShape
<1>8. R.outcome = "running" /\ R.src = src'
  BY DEF R
<1> QED
  BY <1>4, <1>5, <1>7, <1>8 DEF LogShape, IsRows

LEMMA LogEnds ==
    ASSUME LogShape, Len(log) > 0, NEW o, NEW p,
           log' = [log EXCEPT ![Len(log)].outcome = o, ![Len(log)].report = p]
    PROVE  /\ LogShape' /\ Len(log') = Len(log) /\ DOMAIN log' = DOMAIN log
           /\ log'[Len(log)].outcome = o /\ log'[Len(log)].src = log[Len(log)].src
           /\ log'[Len(log)].report = p
           /\ \A k \in DOMAIN log : k # Len(log) => log'[k] = log[k]
<1>1. Len(log) \in Nat /\ DOMAIN log = 1..Len(log)
  BY RowsType DEF LogShape
<1> DEFINE n == Len(log)
<1>2. n \in DOMAIN log
  BY <1>1
<1>3. /\ DOMAIN log' = 1..n /\ log' = [k \in 1..n |-> log'[k]]
      /\ \A k \in 1..n : k # n => log'[k] = log[k]
      /\ log'[n] = [[log[n] EXCEPT !.outcome = o] EXCEPT !.report = p]
  <2> DEFINE first == [log EXCEPT ![n] = [@ EXCEPT !.outcome = o]]
  <2>1. log' = [first EXCEPT ![n] = [@ EXCEPT !.report = p]]
    OBVIOUS
  <2>2. /\ DOMAIN first = 1..n /\ first[n] = [log[n] EXCEPT !.outcome = o]
        /\ \A k \in 1..n : k # n => first[k] = log[k]
    BY <1>1, <1>2
  <2> HIDE DEF first, n
  <2> QED
    BY <2>1, <2>2, <1>1, <1>2 DEF n
<1>4. log[n] = [outcome |-> log[n].outcome, src |-> log[n].src, report |-> log[n].report]
  BY <1>2 DEF LogShape
<1>5. log'[n] = [outcome |-> o, src |-> log[n].src, report |-> p]
  <2>1. PICK a, b, c : log[n] = [outcome |-> a, src |-> b, report |-> c]
    BY <1>4
  <2>2. PICK r : r = [log[n] EXCEPT !.outcome = o]
    OBVIOUS
  <2>3. r = [outcome |-> o, src |-> b, report |-> c]
    BY <2>1, <2>2
  <2>4. log'[n] = [r EXCEPT !.report = p]
    BY <1>3, <2>2
  <2> QED
    BY <2>1, <2>3, <2>4
<1>6. \A k \in 1..n :
         log'[k] = [outcome |-> log'[k].outcome, src |-> log'[k].src, report |-> log'[k].report]
  BY <1>1, <1>3, <1>5 DEF LogShape
<1>7. IsRows(log') /\ Len(log') = n
  BY <1>1, <1>3, AreRows
<1> QED
  BY <1>1, <1>3, <1>5, <1>6, <1>7 DEF LogShape

LEMMA LogReads ==
    ASSUME LogShape, Len(log) > 0, NEW o, log' = [log EXCEPT ![Len(log)].src = o]
    PROVE  /\ LogShape' /\ Len(log') = Len(log) /\ DOMAIN log' = DOMAIN log
           /\ log'[Len(log)].src = o
           /\ \A k \in DOMAIN log : log'[k].outcome = log[k].outcome
           /\ \A k \in DOMAIN log : k # Len(log) => log'[k] = log[k]
<1>1. Len(log) \in Nat /\ DOMAIN log = 1..Len(log)
  BY RowsType DEF LogShape
<1> DEFINE n == Len(log)
<1>2. n \in DOMAIN log
  BY <1>1
<1>3. /\ DOMAIN log' = 1..n /\ log' = [k \in 1..n |-> log'[k]]
      /\ \A k \in 1..n : k # n => log'[k] = log[k]
      /\ log'[n] = [log[n] EXCEPT !.src = o]
  BY <1>1, <1>2
<1>4. log[n] = [outcome |-> log[n].outcome, src |-> log[n].src, report |-> log[n].report]
  BY <1>2 DEF LogShape
<1>5. log'[n] = [outcome |-> log[n].outcome, src |-> o, report |-> log[n].report]
  BY <1>3, <1>4
<1>6. \A k \in 1..n :
         log'[k] = [outcome |-> log'[k].outcome, src |-> log'[k].src, report |-> log'[k].report]
  BY <1>1, <1>3, <1>5 DEF LogShape
<1>7. IsRows(log') /\ Len(log') = n
  BY <1>1, <1>3, AreRows
<1> QED
  BY <1>1, <1>3, <1>5, <1>6, <1>7 DEF LogShape

(* Ends(outcome): the history of the last run tells it. *)
LEMMA Ending ==
    ASSUME LogShape, Len(log) > 0, NEW outcome, Ends(outcome)
    PROVE  /\ LogShape' /\ Len(log') = Len(log) /\ DOMAIN log' = DOMAIN log
           /\ log'[Len(log)].outcome = outcome /\ log'[Len(log)].src = log[Len(log)].src
           /\ \A k \in DOMAIN log : k # Len(log) => log'[k] = log[k]
<1>1. PICK p : log' = [log EXCEPT ![Len(log)].outcome = outcome, ![Len(log)].report = p]
  BY DEF Ends
<1> QED
  BY <1>1, LogEnds

(* AppLinks(item): a file that no run brought, and the one link of the item. *)
LEMMA AppLinked ==
    ASSUME Shapes, NEW item, AppLinks(item)
    PROVE  \E f, l :
              /\ f.id = next.files + 1 /\ f.run = 0
              /\ l.item = item /\ l.file = next.files + 1
              /\ db' = [db EXCEPT !["files"] = db.files \cup {f},
                                 !["links"] = {m \in db.links : m.item # item} \cup {l}]
              /\ db'.files = db.files \cup {f}
              /\ db'.links = {m \in db.links : m.item # item} \cup {l}
              /\ \A t \in Tables \ {"files", "links"} : db'[t] = db[t]
              /\ next'.files = next.files + 1 /\ DOMAIN next' = Tables
              /\ tx' = tx
<1> DEFINE f == [id |-> next.files + 1, run |-> 0, row |-> [media |-> item[1], old |-> 0]]
           l == [item |-> item, file |-> next.files + 1]
<1>1. f.id = next.files + 1 /\ f.run = 0 /\ l.item = item /\ l.file = next.files + 1
  OBVIOUS
<1>2. db' = [db EXCEPT !["files"] = db.files \cup {f},
                       !["links"] = {m \in db.links : m.item # item} \cup {l}]
  BY DEF AppLinks
<1>3. next' = [next EXCEPT !["files"] = next.files + 1] /\ tx' = tx
  BY DEF AppLinks, txVars
<1> HIDE DEF f, l
<1>4. /\ db'.files = db.files \cup {f}
      /\ db'.links = {m \in db.links : m.item # item} \cup {l}
      /\ \A t \in Tables \ {"files", "links"} : db'[t] = db[t]
  BY <1>2, TableNames DEF Shapes
<1>5. next'.files = next.files + 1 /\ DOMAIN next' = Tables
  BY <1>3, TableNames DEF Shapes
<1> QED
  BY <1>1, <1>2, <1>3, <1>4, <1>5

LEMMA SourceShapes ==
    \A app \in {"sonarr", "radarr"} : \A tables \in {Sources[app], NoTables[app]} :
              "files" \in DOMAIN tables /\ IsRows(tables.files)
<1>1. {"sonarr", "radarr"} \subseteq Applications
  BY DEF Applications
<1>2. ASSUME NEW app \in {"sonarr", "radarr"}
      PROVE  /\ "files" \in DOMAIN Sources[app] /\ IsRows(Sources[app].files)
             /\ "files" \in DOMAIN NoTables[app] /\ IsRows(NoTables[app].files)
  <2>1. "files" \in DOMAIN Sources[app] /\ "files" # "naming"
    BY SourcesRead DEF Databases, Common
  <2>2. Readable(Sources[app]) /\ DOMAIN NoTables[app] = DOMAIN Sources[app]
        /\ NoTables[app].files = <<>>
    BY <1>1, <2>1, SourcesRead DEF Databases
  <2>3. NoTables[app].files \in Seq({})
    BY <2>2
  <2> QED
    BY <2>1, <2>2, <2>3 DEF Readable, IsRows
<1> QED
  BY <1>2

LEMMA EmptyTables == DOMAIN Empty = Tables /\ \A t \in Tables : Empty[t] = {}
BY DEF Empty

LEMMA ShapesStep ==
    ASSUME MInv, MigrationNext
    PROVE  Shapes'
<1> USE DEF MInv
<1>1. CASE Starts
  <2>1. LogShape'
    BY <1>1, LogStarts DEF Shapes
  <2>2. \A app \in {"sonarr", "radarr"} : src'[app] \in {Sources[app], NoTables[app]}
    BY <1>1, TableNames DEF Starts
  <2> QED
    BY <1>1, <2>1, <2>2, SourceShapes DEF Starts, Shapes
<1>2. CASE Reads
  <2>1. Len(log) > 0
    BY <1>2 DEF Reads, RunsNumbered
  <2>2. LogShape'
    BY <1>2, <2>1, LogReads DEF Reads, Shapes
  <2>3. /\ DOMAIN src' = Applications
        /\ \A app \in {"sonarr", "radarr"} : "files" \in DOMAIN src'[app] /\ IsRows(src'[app].files)
    <3>1. CASE src' = src
      BY <3>1 DEF Shapes
    <3>2. ASSUME NEW given \in Applications, NEW t \in SeqTables(given),
                 NEW i \in DOMAIN src[given][t], src' = Skipping(given, t, i)
          PROVE  <2>3!1 /\ <2>3!2
      <4>1. src' = [src EXCEPT ![given][t] = RemoveAt(src[given][t], i)]
        BY <3>2 DEF Skipping
      <4>2. \A app \in {"sonarr", "radarr"} :
               /\ "files" \in DOMAIN src'[app]
               /\ \/ src'[app].files = src[app].files
                  \/ i \in DOMAIN src[app].files /\ src'[app].files = RemoveAt(src[app].files, i)
        BY <4>1, TableNames DEF Shapes
      <4> QED
        BY <4>1, <4>2, RowRemoved DEF Shapes
    <3> QED
      BY <1>2, <3>1, <3>2 DEF Reads
  <2>4. IsRows(data'.files)
    BY <1>2, <2>3, FilesMerged DEF Reads
  <2> QED
    BY <1>2, <2>2, <2>3, <2>4 DEF Reads, Shapes
<1>3. CASE Leaves
  <2>1. PICK outcome : Ends(outcome)
    BY <1>3 DEF Leaves
  <2>2. Len(log) > 0
    BY <2>1 DEF Ends, RunsNumbered
  <2>3. LogShape'
    BY <2>1, <2>2, Ending DEF Shapes
  <2>4. DOMAIN src' = Applications
    BY <2>1, SourcesRead DEF Ends, Databases
  <2> QED
    BY <1>3, <2>1, <2>3, <2>4, SourceShapes, EmptyTables, TableNames DEF Ends, Leaves, Shapes
<1>4. CASE Writes
  BY <1>4 DEF Writes, Shapes, LogShape
<1>5. CASE Commits
  <2>1. PICK outcome : Ends(outcome)
    BY <1>5 DEF Commits
  <2>2. Len(log) > 0
    BY <2>1 DEF Ends, RunsNumbered
  <2>3. LogShape'
    BY <2>1, <2>2, Ending DEF Shapes
  <2>4. DOMAIN src' = Applications
    BY <2>1, SourcesRead DEF Ends, Databases
  <2>5. DOMAIN db' = Tables
    BY <1>5 DEF Commits, Shapes
  <2> QED
    BY <1>5, <2>1, <2>3, <2>4, <2>5, SourceShapes, EmptyTables, TableNames DEF Ends, Commits, Shapes
<1>6. ASSUME NEW item, AppLinks(item)
      PROVE  Shapes'
  BY <1>6 DEF AppLinks, txVars, Shapes, LogShape
<1>7. ASSUME NEW p, UserDeletesProfile(p)
      PROVE  Shapes'
  BY <1>7 DEF UserDeletesProfile, txVars, Shapes, LogShape
<1> QED
  BY <1>1, <1>2, <1>3, <1>4, <1>5, <1>6, <1>7, Kinds

LEMMA FilesStep ==
    ASSUME MInv, MigrationNext
    PROVE  FilesNumbered'
<1> USE DEF MInv
<1>1. CASE Starts \/ Reads
  BY <1>1 DEF Starts, Reads, FilesNumbered
<1>2. CASE Leaves
  BY <1>2, EmptyTables, TableNames DEF Leaves, Ends, FilesNumbered
<1>3. CASE Writes
  <2>1. CASE tx'.files = tx.files /\ next'.files = next.files
    BY <1>3, <2>1 DEF Writes, FilesNumbered
  <2>2. CASE /\ tx'.files = Numbered("files", data.files)
             /\ next'.files = next.files + Len(data.files)
    <3>1. Len(data.files) \in Nat /\ DOMAIN data.files = 1..Len(data.files)
      BY <1>3, RowsType DEF Writes, Shapes
    <3>2. tx'.files = {[id |-> next.files + i, run |-> Len(log), row |-> data.files[i]] :
                          i \in 1..Len(data.files)}
      BY <2>2, <3>1 DEF Numbered
    <3>3. \A f \in tx'.files : \E i \in 1..Len(data.files) :
             f = [id |-> next.files + i, run |-> Len(log), row |-> data.files[i]]
      BY <3>2
    <3>4. next.files \in Nat /\ next'.files \in Nat
      BY <2>2, <3>1 DEF FilesNumbered
    <3>5. \A f \in tx'.files : f.id \in (next.files + 1)..next'.files
      BY <2>2, <3>1, <3>3, <3>4
    <3>6. \A f, g \in tx'.files : f.id = g.id => f = g
      BY <3>1, <3>3, <3>4
    <3>7. db'.files = db.files /\ \A f \in db.files : f.id \in 1..next.files
      BY <1>3 DEF Writes, FilesNumbered
    <3>8. \A f \in db'.files \cup tx'.files : f.id \in 1..next'.files
      BY <2>2, <3>1, <3>4, <3>5, <3>7
    <3>9. \A f \in db'.files, g \in tx'.files : f.id # g.id
      BY <3>4, <3>5, <3>7
    <3> QED
      BY <3>4, <3>6, <3>7, <3>8, <3>9 DEF FilesNumbered
  <2> QED
    BY <1>3, <2>1, <2>2 DEF Writes
<1>4. CASE Commits
  <2>1. db'.files \subseteq db.files \cup tx.files
    BY <1>4, TableNames DEF Commits, Merged
  <2> QED
    BY <1>4, <2>1, EmptyTables, TableNames DEF Commits, Ends, FilesNumbered
<1>5. ASSUME NEW item, AppLinks(item)
      PROVE  FilesNumbered'
  <2>1. PICK f : /\ f.id = next.files + 1
                 /\ db'.files = db.files \cup {f} /\ tx' = tx /\ next'.files = next.files + 1
    BY <1>5, AppLinked
  <2> QED
    BY <2>1 DEF FilesNumbered
<1>6. ASSUME NEW p, UserDeletesProfile(p)
      PROVE  FilesNumbered'
  <2>1. db'.files = db.files /\ tx' = tx /\ next' = next
    BY <1>6, TableNames DEF UserDeletesProfile, txVars, Shapes
  <2> QED
    BY <2>1 DEF FilesNumbered
<1> QED
  BY <1>1, <1>2, <1>3, <1>4, <1>5, <1>6, Kinds

LEMMA LinksStep ==
    ASSUME MInv, MigrationNext
    PROVE  LinksScanned'
<1> USE DEF MInv
<1>1. CASE Starts \/ Reads
  BY <1>1 DEF Starts, Reads, LinksScanned
<1>2. CASE Leaves
  BY <1>2 DEF Leaves, Ends, LinksScanned
<1>3. CASE Writes
  BY <1>3 DEF Writes, LinksScanned
<1>4. CASE Commits
  <2>1. db.files \subseteq db'.files /\ db'.links \subseteq db.links
    BY <1>4, TableNames DEF Commits, Merged, LinksScanned
  <2> QED
    BY <1>4, <2>1 DEF Commits, Ends, LinksScanned
<1>5. ASSUME NEW item, AppLinks(item)
      PROVE  LinksScanned'
  <2>1. PICK f, l : /\ f.id = next.files + 1 /\ f.run = 0
                    /\ l.item = item /\ l.file = next.files + 1
                    /\ db'.files = db.files \cup {f}
                    /\ db'.links = {m \in db.links : m.item # item} \cup {l}
    BY <1>5, AppLinked
  <2>2. UNCHANGED <<at, tx, cleared, aborted>> /\ \A m \in cleared : m.item # item
    BY <1>5 DEF AppLinks, txVars
  <2>3. \A m \in db'.links : \E g \in db'.files : g.id = m.file /\ g.run = 0
    BY <2>1 DEF LinksScanned
  <2>4. \A m, n \in db'.links : m.item = n.item => m = n
    BY <2>1 DEF LinksScanned
  <2> QED
    BY <2>1, <2>2, <2>3, <2>4 DEF LinksScanned
<1>6. ASSUME NEW p, UserDeletesProfile(p)
      PROVE  LinksScanned'
  <2>1. db'.files = db.files /\ db'.links = db.links /\ UNCHANGED <<at, tx, cleared, aborted>>
    BY <1>6, TableNames DEF UserDeletesProfile, txVars, Shapes
  <2> QED
    BY <2>1 DEF LinksScanned
<1> QED
  BY <1>1, <1>2, <1>3, <1>4, <1>5, <1>6, Kinds

LEMMA RunsStep ==
    ASSUME MInv, MigrationNext
    PROVE  RunsNumbered'
<1> USE DEF MInv
<1> DEFINE n == Len(log)
<1>0. n \in Nat /\ DOMAIN log = 1..n /\ RunTables \subseteq Tables
  BY RowsType DEF Shapes, LogShape, RunTables
<1>a. ASSUME Shapes' PROVE Len(log') \in Nat /\ DOMAIN log' = 1..Len(log')
  BY <1>a, RowsType DEF Shapes, LogShape
<1>b. Len(log') \in Nat /\ DOMAIN log' = 1..Len(log')
  BY <1>a, ShapesStep
<1>c. \A t \in RunTables : \A r \in db[t] : Kept(r)
  BY DEF RunsNumbered
<1>1. CASE Starts
  <2>1. /\ Len(log') = n + 1 /\ log'[n + 1].outcome = "running"
        /\ \A k \in 1..n : log'[k] = log[k]
    BY <1>1, LogStarts DEF Shapes
  <2>2. \A k \in DOMAIN log' : log'[k].outcome = "running" <=> k = n + 1
    BY <1>0, <1>b, <1>1, <2>1 DEF Starts, RunsNumbered
  <2>3. at = "idle" /\ at' = "read" /\ db' = db /\ tx' = tx /\ tx = Empty
    BY <1>1 DEF Starts, RunsNumbered
  <2>4. \A t \in RunTables : tx'[t] = {}
    BY <1>0, <2>3, EmptyTables
  <2>5. ASSUME NEW t \in RunTables, NEW r \in db'[t]
        PROVE  Kept(r)'
    <3>1. Kept(r)
      BY <1>c, <2>3, <2>5
    <3> QED
      BY <1>0, <2>1, <3>1 DEF Kept
  <2> QED
    BY <1>0, <2>1, <2>2, <2>3, <2>4, <2>5 DEF RunsNumbered
<1>2. CASE Reads
  <2>1. n > 0
    BY <1>2 DEF Reads, RunsNumbered
  <2>2. /\ Len(log') = n /\ DOMAIN log' = DOMAIN log
        /\ \A k \in DOMAIN log : log'[k].outcome = log[k].outcome
    BY <1>2, <2>1, LogReads DEF Reads, Shapes
  <2>3. at = "read" /\ at' = "begin" /\ db' = db /\ tx' = tx
    BY <1>2 DEF Reads
  <2>4. ASSUME NEW t \in RunTables, NEW r \in db'[t]
        PROVE  Kept(r)'
    <3>1. Kept(r)
      BY <1>c, <2>3, <2>4
    <3> QED
      BY <1>0, <2>1, <2>2, <2>3, <3>1 DEF Kept
  <2> QED
    BY <2>1, <2>2, <2>3, <2>4 DEF RunsNumbered
<1>3. ASSUME NEW outcome \in {"dry", "error", "ok"}, Ends(outcome), 
             \A t \in RunTables : db'[t] \subseteq db[t] \cup tx[t],
             outcome = "dry" => db' = db
      PROVE  RunsNumbered'
  <2>1. at # "idle" /\ at' = "idle" /\ tx' = Empty /\ n > 0
    BY <1>3 DEF Ends, RunsNumbered
  <2>2. /\ Len(log') = n /\ log'[n].outcome = outcome
        /\ \A k \in DOMAIN log : k # n => log'[k] = log[k]
    BY <1>3, <2>1, Ending DEF Shapes
  <2>3. \A k \in DOMAIN log' : log'[k].outcome # "running"
    BY <1>0, <1>b, <2>1, <2>2 DEF RunsNumbered
  <2>4. \A t \in RunTables : tx'[t] = {}
    BY <1>0, <2>1, EmptyTables
  <2>5. ASSUME NEW t \in RunTables, NEW r \in db'[t]
        PROVE  Kept(r)'
    <3>1. CASE r \in db[t]
      <4>1. Kept(r)
        BY <1>c, <3>1
      <4> QED
        BY <1>0, <2>1, <2>2, <4>1 DEF Kept
    <3>2. CASE r \notin db[t]
      <4>1. r.run = n /\ outcome # "dry"
        BY <1>3, <2>5, <3>2 DEF RunsNumbered
      <4> QED
        BY <1>0, <2>1, <2>2, <4>1 DEF Kept
    <3> QED
      BY <3>1, <3>2
  <2> QED
    BY <2>1, <2>3, <2>4, <2>5 DEF RunsNumbered
<1>4. CASE Leaves
  BY <1>3, <1>4 DEF Leaves
<1>5. CASE Commits
  <2>1. \A t \in RunTables : db'[t] \subseteq db[t] \cup tx[t]
    BY <1>5 DEF Commits, Merged, RunTables, Shapes
  <2> QED
    BY <1>3, <1>5, <2>1 DEF Commits
<1>6. CASE Writes
  <2>1. UNCHANGED <<db, log>> /\ at # "idle" /\ at' \notin {"idle", "read", "begin"}
    BY <1>6 DEF Writes
  <2>2. \A t \in RunTables : \A r \in tx'[t] : r.run = Len(log)
    BY <1>6 DEF Writes, RunsNumbered
  <2>3. \A t \in RunTables : \A r \in db'[t] : Kept(r)'
    BY <1>c, <2>1 DEF Kept
  <2> QED
    BY <2>1, <2>2, <2>3 DEF RunsNumbered
<1>7. ASSUME NEW item, AppLinks(item)
      PROVE  RunsNumbered'
  <2>1. PICK f : /\ f.run = 0 /\ db'.files = db.files \cup {f}
                 /\ \A t \in Tables \ {"files", "links"} : db'[t] = db[t]
    BY <1>7, AppLinked
  <2>2. UNCHANGED <<at, tx, log>>
    BY <1>7 DEF AppLinks, txVars
  <2>3. \A t \in RunTables : \A r \in db'[t] : r \in db[t] \/ r.run = 0
    BY <1>0, <2>1 DEF RunTables
  <2>4. at # "idle" => Len(log) > 0
    BY DEF RunsNumbered
  <2>5. \A t \in RunTables : \A r \in db'[t] : Kept(r)'
    BY <1>0, <1>c, <2>2, <2>3, <2>4 DEF Kept
  <2> QED
    BY <2>2, <2>5 DEF RunsNumbered
<1>8. ASSUME NEW p, UserDeletesProfile(p)
      PROVE  RunsNumbered'
  <2>1. UNCHANGED <<at, tx, log>> /\ db' = [db EXCEPT !["profiles"] = db.profiles \ {p}]
    BY <1>8 DEF UserDeletesProfile, txVars
  <2>2. \A t \in RunTables : db'[t] \subseteq db[t]
    BY <1>0, <2>1, TableNames DEF Shapes
  <2>3. \A t \in RunTables : \A r \in db'[t] : Kept(r)'
    BY <1>c, <2>1, <2>2 DEF Kept
  <2> QED
    BY <2>1, <2>3 DEF RunsNumbered
<1> QED
  BY <1>1, <1>2, <1>4, <1>5, <1>6, <1>7, <1>8, Kinds

LEMMA ProfilesStep ==
    ASSUME MInv, MigrationNext
    PROVE  ProfilesThere'
<1> USE DEF MInv
<1>1. CASE Starts \/ Reads
  BY <1>1 DEF Starts, Reads, ProfilesThere
<1>2. CASE Leaves
  BY <1>2, EmptyTables, TableNames DEF Leaves, Ends, ProfilesThere
<1>3. CASE Writes
  <2>1. ASSUME NEW t \in {"series", "movies"}
        PROVE  /\ \A r \in tx'[t] : ProfileOf(r, db.profiles \cup tx'.profiles)
               /\ at' \in {"tags", "formats", "profiles"} => tx'[t] = {}
    <3>1. CASE tx'[t] = tx[t]
      <4>1. at' \in {"tags", "formats", "profiles"} => tx[t] = {}
        <5>1. at = "begin" => tx[t] = {}
          BY EmptyTables, TableNames DEF RunsNumbered
        <5> QED
          BY <1>3, <5>1 DEF Writes, ProfilesThere
      <4>2. at = "profiles" => tx[t] = {}
        BY DEF ProfilesThere
      <4> QED
        BY <1>3, <3>1, <4>1, <4>2 DEF Writes, ProfilesThere
    <3>2. CASE /\ at = t /\ at' \notin {"tags", "formats", "profiles"}
               /\ \A r \in tx'[t] : ProfileOf(r, db.profiles \cup tx.profiles)
      BY <1>3, <2>1, <3>2 DEF Writes
    <3> QED
      BY <1>3, <3>1, <3>2 DEF Writes
  <2> QED
    BY <1>3, <2>1 DEF Writes, ProfilesThere
<1>4. CASE Commits
  <2>1. tx' = Empty /\ at' = "idle"
    BY <1>4 DEF Commits, Ends
  <2>2. CASE db' = db
    BY <2>1, <2>2, EmptyTables, TableNames DEF ProfilesThere
  <2>3. CASE /\ db'.series = db.series \cup tx.series /\ db'.movies = db.movies \cup tx.movies
             /\ db'.profiles = db.profiles \cup tx.profiles
    BY <2>1, <2>3, EmptyTables, TableNames DEF ProfilesThere, ProfileOf
  <2> QED
    BY <1>4, <2>2, <2>3, TableNames DEF Commits, Merged
<1>5. ASSUME NEW item, AppLinks(item)
      PROVE  ProfilesThere'
  <2>1. UNCHANGED <<at, tx>> /\ \A t \in {"series", "movies", "profiles"} : db'[t] = db[t]
    BY <1>5, AppLinked, TableNames DEF AppLinks
  <2> QED
    BY <2>1 DEF ProfilesThere
<1>6. ASSUME NEW p \in db.profiles, UserDeletesProfile(p)
      PROVE  ProfilesThere'
  <2>1. UNCHANGED <<at, tx>> /\ db' = [db EXCEPT !["profiles"] = db.profiles \ {p}]
    BY <1>6 DEF UserDeletesProfile, txVars
  <2>2. /\ db'.series = db.series /\ db'.movies = db.movies /\ db'.profiles = db.profiles \ {p}
    BY <2>1, TableNames DEF Shapes
  <2>3. \A t \in {"series", "movies"} : \A r \in db[t] \cup tx[t] : r.row.profile # p.id
    BY <1>6 DEF UserDeletesProfile, Visible
  <2> QED
    BY <2>1, <2>2, <2>3 DEF ProfilesThere, ProfileOf
<1> QED
  BY <1>1, <1>2, <1>3, <1>4, <1>5, <1>6, Kinds

LEMMA MigrationStarts ==
    ASSUME MigrationInit
    PROVE  MInv
<1>1. Shapes
  <2>1. log = <<>> /\ IsRows(log) /\ Len(log) = 0 /\ DOMAIN log = 1..0
    <3>1. log = <<>> /\ log \in Seq({}) /\ Len(log) = 0
      BY DEF MigrationInit
    <3> QED
      BY <3>1, LenProperties DEF IsRows
  <2> QED
    BY <2>1, SourcesRead, SourceShapes, EmptyTables DEF MigrationInit, Shapes, LogShape, Databases
<1>2. db.files = {} /\ db.links = {} /\ tx = Empty /\ next.files = 0 /\ at = "idle" /\ log = <<>>
      /\ cleared = {} /\ db.series = {}
  BY EmptyTables, TableNames DEF MigrationInit
<1>3. FilesNumbered /\ LinksScanned
  BY <1>2, EmptyTables, TableNames DEF FilesNumbered, LinksScanned
<1>4. \A t \in RunTables : \A r \in db[t] : r.run = 0
  <2>1. \A t \in Tables \ {"profiles", "naming", "movies", "tags", "folders"} : db[t] = {}
    BY EmptyTables, TableNames DEF MigrationInit
  <2>2. /\ db.profiles = {Row(1, [old |-> 0, from |-> <<"seed", 1>>])}
        /\ db.naming = {Row(0, "series"), Row(0, "movie")}
        /\ db.movies = {Row(1, [from |-> <<"user", 1>>, profile |-> 0])}
        /\ db.tags = Seeds(SeedTags) /\ db.folders = Seeds(SeedFolders)
    BY EmptyTables, TableNames DEF MigrationInit
  <2>3. \A t \in {"profiles", "naming", "movies", "tags", "folders"} : \A r \in db[t] : r.run = 0
    BY <2>2 DEF Seeds, Row
  <2> QED
    BY <2>1, <2>3 DEF RunTables
<1>5. RunsNumbered
  <2>1. Len(log) = 0 /\ DOMAIN log = {}
    BY <1>2
  <2> QED
    BY <1>2, <1>4, <2>1, EmptyTables DEF RunsNumbered, RunTables, Kept
<1>6. \A r \in db.movies : r.row.profile = 0
  BY EmptyTables, TableNames DEF MigrationInit, Row
<1>7. ProfilesThere
  BY <1>2, <1>6, EmptyTables, TableNames DEF ProfilesThere, ProfileOf
<1> QED
  BY <1>1, <1>3, <1>5, <1>7 DEF MInv

LEMMA MigrationStep ==
    ASSUME MInv, [MigrationNext]_migrationVars
    PROVE  MInv'
<1>1. CASE MigrationNext
  BY <1>1, ShapesStep, FilesStep, LinksStep, RunsStep, ProfilesStep DEF MInv
<1>2. CASE UNCHANGED migrationVars
  BY <1>2 DEF migrationVars, txVars, MInv, Shapes, LogShape, FilesNumbered, LinksScanned, RunsNumbered,
     Kept, ProfilesThere
<1> QED
  BY <1>1, <1>2

LEMMA MigrationInvariant ==
    MigrationSpec => []MInv
<1>1. MigrationInit => MInv
  BY MigrationStarts
<1>2. MInv /\ [MigrationNext]_migrationVars => MInv'
  BY MigrationStep
<1> QED
  BY <1>1, <1>2, PTL DEF MigrationSpec
-----------------------------------------------------------------------------
(* "we can't trust that the actual files exist" (writer.rs:1554): whatever   *)
(* migrations write and imports and scans link meanwhile, an item's file is  *)
(* one that an import or a scan found.                                       *)
THEOREM LinksScannedOnly ==
    MigrationSpec => []OnlyScannedLinks
<1>1. MInv => OnlyScannedLinks
  <2> SUFFICES ASSUME MInv, NEW l \in db.links
               PROVE  The("files", l.file).run = 0
    BY DEF OnlyScannedLinks
  <2>1. PICK f \in db.files : f.id = l.file /\ f.run = 0
    BY DEF MInv, LinksScanned
  <2>2. The("files", l.file) \in db.files /\ The("files", l.file).id = l.file
    BY <2>1 DEF The
  <2>3. The("files", l.file) = f
    BY <2>1, <2>2 DEF MInv, FilesNumbered
  <2> QED
    BY <2>1, <2>3
<1> QED
  BY <1>1, MigrationInvariant, PTL

(* The unique and the foreign keys that concurrent statements could break:   *)
(* two files with one id, two links of an item, an item whose profile a user *)
(* deleted while the transaction that names it was open.                     *)
THEOREM MigrationKeys ==
    MigrationSpec => []KeysHold
<1>1. MInv => KeysHold
  BY DEF MInv, FilesNumbered, LinksScanned, ProfilesThere, ProfileOf, KeysHold, Unique,
         Visible, ProfileExists
<1> QED
  BY <1>1, MigrationInvariant, PTL

(* "All writes happen in one transaction for atomicity" (writer.rs:1436): a  *)
(* run that is under way, and a dry run, leave nothing,                      *)
NothingYet ==
    \A k \in Runs : log[k].outcome \in {"running", "dry"} =>
        \A t \in RunTables : Of(k, t) = {}

(* and the rows of a run come all at once, at its COMMIT, the ones that its  *)
(* transaction holds, and stay; a run that reports success has them all      *)
(* committed, although two writers drop errors.                              *)
AllAtOnce ==
    [][\A k \in Runs :
          /\ (\E t \in Owned : Of(k, t)' # Of(k, t)) =>
                 /\ at = "commit" /\ k = Len(log)
                 /\ \A u \in Owned : Of(k, u) = {} /\ Of(k, u)' = tx[u]
          /\ log'[k].outcome = "ok" /\ log[k].outcome # "ok" =>
                 k = Len(log) /\ \A u \in Owned : Of(k, u)' = tx[u]]_migrationVars

THEOREM UnfinishedLeavesNothing ==
    MigrationSpec => []NothingYet
<1>1. MInv => NothingYet
  <2> SUFFICES ASSUME MInv, NEW k \in DOMAIN log, log[k].outcome \in {"running", "dry"},
                      NEW t \in RunTables, NEW r \in db[t], r.run = k
               PROVE  FALSE
    BY DEF NothingYet, Runs, Of
  <2>1. Kept(r) /\ k \in 1..Len(log) /\ Len(log) \in Nat
    BY RowsType DEF MInv, RunsNumbered, Shapes, LogShape
  <2>2. CASE log[k].outcome = "running"
    BY <2>1, <2>2 DEF MInv, RunsNumbered, Kept
  <2>3. CASE log[k].outcome = "dry"
    BY <2>1, <2>3 DEF Kept
  <2> QED
    BY <2>2, <2>3
<1> QED
  BY <1>1, MigrationInvariant, PTL

THEOREM RowsComeAtOnce ==
    MigrationSpec => AllAtOnce
<1> DEFINE At(k) ==
       /\ (\E t \in Owned : Of(k, t)' # Of(k, t)) =>
             /\ at = "commit" /\ k = Len(log)
             /\ \A u \in Owned : Of(k, u) = {} /\ Of(k, u)' = tx[u]
       /\ log'[k].outcome = "ok" /\ log[k].outcome # "ok" =>
             k = Len(log) /\ \A u \in Owned : Of(k, u)' = tx[u]
<1>1. ASSUME MInv, MigrationNext, NEW k \in DOMAIN log
      PROVE  At(k)
  <2> DEFINE Same     == \A t \in Owned : Of(k, t)' = Of(k, t)
             SameEnds == log'[k].outcome = "ok" => log[k].outcome = "ok"
  <2>0. k \in 1..Len(log) /\ Len(log) \in Nat /\ Owned \subseteq RunTables
        /\ Owned \subseteq Tables
    BY <1>1, RowsType DEF MInv, Shapes, LogShape, Owned, RunTables
  <2>1. CASE Starts
    BY <1>1, <2>0, <2>1, LogStarts DEF Starts, MInv, Shapes, Of
  <2>2. CASE Reads
    <3>1. Len(log) > 0
      BY <2>0
    <3>2. log'[k].outcome = log[k].outcome
      BY <1>1, <2>2, <3>1, LogReads DEF Reads, MInv, Shapes
    <3> QED
      BY <2>2, <3>2 DEF Reads, Of
  <2>3. CASE Leaves
    <3>1. Len(log) > 0
      BY <2>0
    <3>2. PICK outcome \in {"dry", "error"} : Ends(outcome)
      BY <2>3 DEF Leaves
    <3>3. log'[k].outcome \in {outcome, log[k].outcome}
      BY <1>1, <3>1, <3>2, Ending DEF MInv, Shapes
    <3> QED
      BY <2>3, <3>3 DEF Leaves, Of
  <2>4. CASE Writes
    BY <2>4 DEF Writes, Of
  <2>5. CASE Commits
    <3>1. /\ Len(log) > 0 /\ at # "idle" /\ ~aborted
          /\ db' = [t \in Tables |-> Merged(t)]
      BY <1>1, <2>0, <2>5 DEF Commits, MInv, LinksScanned
    <3>2. \A t \in Owned : db'[t] = db[t] \cup tx[t]
      BY <2>0, <3>1 DEF Merged, Owned, RunTables
    <3>3. \A t \in Owned : /\ \A r \in tx[t] : r.run = Len(log)
                           /\ \A r \in db[t] : r.run # Len(log)
      <4>1. \A t \in Owned : \A r \in db[t] : Kept(r)
        BY <1>1, <2>0 DEF MInv, RunsNumbered
      <4>2. \A r : Kept(r) => r.run # Len(log)
        BY <2>0, <3>1 DEF Kept
      <4> QED
        BY <1>1, <2>0, <4>1, <4>2 DEF MInv, RunsNumbered
    <3>4. CASE k = Len(log)
      <4>1. \A t \in Owned : Of(k, t) = {} /\ Of(k, t)' = tx[t]
        BY <3>2, <3>3, <3>4 DEF Of
      <4> QED
        BY <2>5, <3>4, <4>1 DEF Commits
    <3>5. CASE k # Len(log)
      <4>1. Same
        BY <3>2, <3>3, <3>5 DEF Of
      <4>2. PICK outcome : Ends(outcome)
        BY <2>5 DEF Commits
      <4>3. log'[k] = log[k]
        BY <1>1, <3>1, <3>5, <4>2, Ending DEF MInv, Shapes
      <4> QED
        BY <4>1, <4>3
    <3> QED
      BY <3>4, <3>5
  <2>6. ASSUME NEW item, AppLinks(item)
        PROVE  At(k)
    <3>1. PICK f : /\ f.run = 0 /\ db'.files = db.files \cup {f}
                   /\ \A t \in Tables \ {"files", "links"} : db'[t] = db[t]
      BY <1>1, <2>6, AppLinked DEF MInv
    <3>2. log' = log
      BY <2>6 DEF AppLinks
    <3>3. Same
      BY <2>0, <3>1 DEF Of, Owned, RunTables
    <3> QED
      BY <3>2, <3>3
  <2>7. ASSUME NEW p, UserDeletesProfile(p)
        PROVE  At(k)
    <3>1. p.run = 0 /\ log' = log /\ db' = [db EXCEPT !["profiles"] = db.profiles \ {p}]
      BY <2>7 DEF UserDeletesProfile
    <3>2. db'.profiles = db.profiles \ {p} /\ \A t \in Tables \ {"profiles"} : db'[t] = db[t]
      BY <1>1, <3>1, TableNames DEF MInv, Shapes
    <3>3. Same
      BY <2>0, <3>1, <3>2 DEF Of
    <3> QED
      BY <3>1, <3>3
  <2> QED
    BY <1>1, <2>1, <2>2, <2>3, <2>4, <2>5, <2>6, <2>7, Kinds DEF MInv
<1>2. MInv /\ [MigrationNext]_migrationVars
         => [\A k \in Runs : At(k)]_migrationVars
  BY <1>1 DEF Runs
<1>3. [][\A k \in Runs : At(k)]_migrationVars => AllAtOnce
  BY PTL DEF AllAtOnce
<1> QED
  BY <1>2, <1>3, MigrationInvariant, PTL DEF MigrationSpec

-----------------------------------------------------------------------------
(*************************************************************************)
(* The second part: what a run writes refers only to what the same run    *)
(* writes, and keeps doing so (ReferencesKept). It rests on what         *)
(* ArrMerge computes, which comes first: the operators on sequences,     *)
(* the merged rows, and the ids a table hands out.                       *)
(*************************************************************************)

(* The n-th index of a finite set of indices. *)
UpTo(I, i) == {j \in I : j <= i}

LEMMA UpToCount ==
    ASSUME NEW I \in SUBSET Nat, IsFiniteSet(I)
    PROVE  /\ \A i \in I : Cardinality(UpTo(I, i)) \in 1..Cardinality(I)
           /\ \A i, j \in I : i < j => Cardinality(UpTo(I, i)) < Cardinality(UpTo(I, j))
<1>1. Cardinality(I) \in Nat
  BY FS_CardinalityType
<1>2. ASSUME NEW i \in I
      PROVE  /\ IsFiniteSet(UpTo(I, i))
             /\ Cardinality(UpTo(I, i)) \in 1..Cardinality(I)
  <2>1. UpTo(I, i) \in SUBSET I /\ i \in UpTo(I, i)
    BY DEF UpTo
  <2>2. IsFiniteSet(UpTo(I, i)) /\ Cardinality(UpTo(I, i)) <= Cardinality(I)
    BY <2>1, FS_Subset
  <2>3. Cardinality(UpTo(I, i)) \in Nat /\ Cardinality(UpTo(I, i)) # 0
    BY <2>1, <2>2, FS_CardinalityType, FS_EmptySet
  <2> QED
    BY <1>1, <2>2, <2>3
<1>3. ASSUME NEW i \in I, NEW j \in I, i < j
      PROVE  Cardinality(UpTo(I, i)) < Cardinality(UpTo(I, j))
  <2>0. i \in Nat /\ j \in Nat /\ \A k \in I : k \in Nat
    OBVIOUS
  <2>a. \A k \in I : k <= i => k <= j
    BY <1>3, <2>0
  <2>b. j \in UpTo(I, j) /\ j \notin UpTo(I, i)
    BY <1>3, <2>0 DEF UpTo
  <2>1. UpTo(I, i) \subseteq UpTo(I, j) /\ UpTo(I, i) # UpTo(I, j)
    BY <2>a, <2>b DEF UpTo
  <2>2. /\ Cardinality(UpTo(I, i)) <= Cardinality(UpTo(I, j))
        /\ Cardinality(UpTo(I, j)) = Cardinality(UpTo(I, i)) => UpTo(I, j) = UpTo(I, i)
    BY <1>2, <2>1, FS_Subset
  <2>3. Cardinality(UpTo(I, i)) \in Nat /\ Cardinality(UpTo(I, j)) \in Nat
    BY <1>1, <1>2
  <2> QED
    BY <2>1, <2>2, <2>3
<1> QED
  BY <1>2, <1>3

LEMMA NthIndex ==
    ASSUME NEW I \in SUBSET Nat, IsFiniteSet(I)
    PROVE  /\ Cardinality(I) \in Nat
           /\ \A n \in 1..Cardinality(I) : Nth(I, n) \in I
           /\ \A i \in I : \E n \in 1..Cardinality(I) : Nth(I, n) = i
           /\ \A m, n \in 1..Cardinality(I) : m < n => Nth(I, m) < Nth(I, n)
<1> DEFINE g == [i \in I |-> Cardinality(UpTo(I, i))]
<1>1. PICK C : C = Cardinality(I)
  OBVIOUS
<1>2. C \in Nat
  BY <1>1, FS_CardinalityType
<1>3. g \in [I -> 1..C]
  BY <1>1, UpToCount
<1>4. \A i, j \in I : i < j => g[i] < g[j]
  BY UpToCount
<1>5. DOMAIN g = I /\ \A i \in I : g[i] = Cardinality(UpTo(I, i))
  OBVIOUS
<1> HIDE DEF g
<1>6. \A i, j \in I : g[i] = g[j] => i = j
  <2> SUFFICES ASSUME NEW i \in I, NEW j \in I, g[i] = g[j], i # j
               PROVE  FALSE
    OBVIOUS
  <2>1. g[i] \in Int /\ i \in Nat /\ j \in Nat
    BY <1>2, <1>3
  <2> QED
    BY <1>4, <2>1
<1>7. g \in Injection(I, 1..C)
  BY <1>3, <1>6 DEF Injection, IsInjective
<1>8. IsFiniteSet(1..C) /\ Cardinality(1..C) = C
  BY <1>2, FS_Interval
<1>9. g \in Surjection(I, 1..C)
  BY <1>1, <1>7, <1>8, FS_Injection
<1>10. \A n \in 1..C : \E i \in I : g[i] = n
  BY <1>9 DEF Surjection
<1>11. \A n \in 1..C : Nth(I, n) \in I /\ g[Nth(I, n)] = n
  BY <1>5, <1>10, ZenonT(40) DEF Nth, UpTo
<1>12. \A i \in I : \E n \in 1..C : Nth(I, n) = i
  BY <1>3, <1>6, <1>11
<1>13. ASSUME NEW m \in 1..C, NEW n \in 1..C, m < n
       PROVE  Nth(I, m) < Nth(I, n)
  <2>1. g[Nth(I, m)] = m /\ g[Nth(I, n)] = n /\ Nth(I, m) \in I /\ Nth(I, n) \in I
    BY <1>11
  <2>2. Nth(I, n) < Nth(I, m) => n < m
    BY <1>4, <2>1
  <2>3. Nth(I, m) # Nth(I, n) /\ Nth(I, m) \in Nat /\ Nth(I, n) \in Nat
    <3>1. m # n
      BY <1>2, <1>13
    <3>2. \A i \in I : i \in Nat
      OBVIOUS
    <3> QED
      BY <2>1, <3>1, <3>2
  <2>4. ~(n < m)
    BY <1>2, <1>13
  <2> QED
    BY <2>2, <2>3, <2>4
<1> QED
  BY <1>1, <1>2, <1>11, <1>12, <1>13

(* Some of the rows of a sequence. *)
LEMMA PickedRows ==
    ASSUME NEW s, IsRows(s), NEW I \in SUBSET DOMAIN s
    PROVE  /\ IsRows(Picked(s, I))
           /\ Cardinality(I) \in Nat
           /\ DOMAIN Picked(s, I) = 1..Cardinality(I)
           /\ \A n \in DOMAIN Picked(s, I) : Nth(I, n) \in I /\ Picked(s, I)[n] = s[Nth(I, n)]
           /\ \A i \in I : \E n \in DOMAIN Picked(s, I) : Nth(I, n) = i
           /\ \A m, n \in DOMAIN Picked(s, I) : m < n => Nth(I, m) < Nth(I, n)
<1>1. Len(s) \in Nat /\ DOMAIN s = 1..Len(s)
  BY RowsType
<1>2. IsFiniteSet(I) /\ I \in SUBSET Nat
  <2>1. IsFiniteSet(1..Len(s)) /\ I \in SUBSET (1..Len(s))
    BY <1>1, FS_Interval
  <2> QED
    BY <1>1, <2>1, FS_Subset
<1>3. Cardinality(I) \in Nat
  BY <1>2, NthIndex
<1>4. /\ DOMAIN Picked(s, I) = 1..Cardinality(I)
      /\ Picked(s, I) = [n \in 1..Cardinality(I) |-> Picked(s, I)[n]]
      /\ \A n \in 1..Cardinality(I) : Picked(s, I)[n] = s[Nth(I, n)]
  BY DEF Picked
<1>5. IsRows(Picked(s, I))
  BY <1>3, <1>4, AreRows
<1> QED
  BY <1>2, <1>3, <1>4, <1>5, NthIndex

LEMMA SameRows ==
    ASSUME NEW s, IsRows(s), NEW q, DOMAIN q = DOMAIN s, q = [i \in DOMAIN s |-> q[i]]
    PROVE  IsRows(q) /\ Len(q) = Len(s)
BY RowsType, AreRows

LEMMA FirstOf ==
    ASSUME NEW S \in SUBSET Nat, S # {}
    PROVE  \E m \in S : \A n \in S : m <= n
<1>1. PICK m \in S : \A n \in S : ~ (<<n, m>> \in OpToRel(<, Nat))
  BY NatLessThanWellFounded, WFMin
<1> QED
  <2> SUFFICES ASSUME NEW n \in S PROVE m <= n
    OBVIOUS
  <2>1. m \in Nat /\ n \in Nat
    OBVIOUS
  <2>2. ~(n < m)
    BY <1>1, <2>1 DEF OpToRel
  <2> QED
    BY <2>1, <2>2

LEMMA LastOf ==
    ASSUME NEW S \in SUBSET Nat, S # {}, IsFiniteSet(S)
    PROVE  \E m \in S : \A n \in S : n <= m
<1>1. Cardinality(S) \in Nat \ {0}
  BY FS_CardinalityType, FS_EmptySet
<1>a. PICK C : C = Cardinality(S)
  OBVIOUS
<1>b. C \in Nat \ {0} /\ C \in 1..C
  BY <1>1, <1>a
<1>2. Nth(S, C) \in S
  BY <1>a, <1>b, NthIndex
<1>3. \A i \in S : i <= Nth(S, C)
  <2> TAKE i \in S
  <2>1. PICK n \in 1..C : Nth(S, n) = i
    BY <1>a, NthIndex
  <2>2. n = C \/ n < C
    BY <1>b
  <2>3. n < C => Nth(S, n) < Nth(S, C)
    BY <1>a, <1>b, NthIndex
  <2>4. i \in Nat /\ Nth(S, C) \in Nat
    BY <1>2
  <2> QED
    BY <2>1, <2>2, <2>3, <2>4
<1> QED
  BY <1>2, <1>3

LEMMA RemovedRows ==
    ASSUME NEW s, IsRows(s), NEW i \in DOMAIN s
    PROVE  /\ IsRows(RemoveAt(s, i)) /\ DOMAIN RemoveAt(s, i) = 1..(Len(s) - 1)
           /\ \A j \in DOMAIN RemoveAt(s, i) :
                 /\ j < i => j \in DOMAIN s /\ RemoveAt(s, i)[j] = s[j]
                 /\ j >= i => j + 1 \in DOMAIN s /\ RemoveAt(s, i)[j] = s[j + 1]
<1>1. PICK S : s \in Seq(S)
  BY DEF IsRows
<1>2. PICK n : n = Len(s)
  OBVIOUS
<1>3. n \in Nat /\ DOMAIN s = 1..n /\ i \in 1..n
  BY <1>1, <1>2, LenProperties
<1>4. PICK a : a = SubSeq(s, 1, i - 1)
  OBVIOUS
<1>5. PICK b : b = SubSeq(s, i + 1, n)
  OBVIOUS
<1>6. a \in Seq(S) /\ Len(a) = i - 1 /\ \A j \in 1..(i - 1) : a[j] = s[j]
  BY <1>1, <1>2, <1>3, <1>4, SubSeqProperties
<1>7. b \in Seq(S) /\ Len(b) = n - i /\ \A j \in 1..(n - i) : b[j] = s[i + j]
  <2>1. \A j \in i + 1..n : s[j] \in S
    BY <1>1, <1>2, <1>3, ElementOfSeq
  <2>2. /\ b \in Seq(S) /\ Len(b) = (IF i + 1 <= n THEN n - (i + 1) + 1 ELSE 0)
        /\ \A j \in 1..n - (i + 1) + 1 : b[j] = s[i + 1 + j - 1]
    BY <1>1, <1>2, <1>3, <1>5, SubSeqProperties
  <2>3. n - (i + 1) + 1 = n - i /\ (~(i + 1 <= n) => n - i = 0)
    BY <1>3
  <2>4. \A j \in 1..(n - i) : i + 1 + j - 1 = i + j
    BY <1>3
  <2> QED
    BY <2>2, <2>3, <2>4
<1>8. RemoveAt(s, i) = a \o b
  BY <1>2, <1>4, <1>5 DEF RemoveAt
<1>9. PICK r : r = a \o b
  OBVIOUS
<1>10. /\ r \in Seq(S) /\ Len(r) = (i - 1) + (n - i)
       /\ \A j \in 1..(i - 1) + (n - i) : j <= i - 1 => r[j] = a[j]
       /\ \A j \in 1..(i - 1) + (n - i) : ~(j <= i - 1) => r[j] = b[j - (i - 1)]
  <2>1. i - 1 = Len(a) /\ n - i = Len(b) /\ a \in Seq(S) /\ b \in Seq(S)
    BY <1>6, <1>7
  <2>2. \A j \in 1..Len(a) + Len(b) : (a \o b)[j] = IF j <= Len(a) THEN a[j] ELSE b[j - Len(a)]
    BY <2>1, ConcatProperties, Zenon
  <2>3. a \o b \in Seq(S) /\ Len(a \o b) = Len(a) + Len(b)
    BY <2>1, ConcatProperties, Zenon
  <2> QED
    BY <1>9, <2>1, <2>2, <2>3
<1>11. Len(r) = n - 1 /\ DOMAIN r = 1..(n - 1)
  BY <1>3, <1>10, LenProperties
<1>12. ASSUME NEW j \in 1..(n - 1), j < i
       PROVE  j \in 1..n /\ r[j] = s[j]
  <2>1. j \in 1..(i - 1) /\ j \in 1..n /\ j <= i - 1
    BY <1>3, <1>12
  <2> QED
    BY <1>6, <1>10, <1>11, <2>1
<1>13. ASSUME NEW j \in 1..(n - 1), j >= i
       PROVE  j + 1 \in 1..n /\ r[j] = s[j + 1]
  <2>1. j + 1 \in 1..n /\ ~(j <= i - 1) /\ j - (i - 1) \in 1..(n - i) /\ i + (j - (i - 1)) = j + 1
    BY <1>3, <1>13
  <2> QED
    BY <1>6, <1>7, <1>10, <1>11, <2>1
<1> QED
  BY <1>2, <1>3, <1>8, <1>9, <1>10, <1>11, <1>12, <1>13 DEF IsRows

(* The rows of two sequences, one after the other. *)
Joined(p, q, c) ==
    /\ IsRows(c) /\ Len(p) \in Nat
    /\ \A i \in DOMAIN p : i \in DOMAIN c /\ c[i] = p[i]
    /\ \A i \in DOMAIN q : Len(p) + i \in DOMAIN c /\ c[Len(p) + i] = q[i]
    /\ \A n \in DOMAIN c : n \in DOMAIN p \/ \E i \in DOMAIN q : n = Len(p) + i

LEMMA JoinedMaps ==
    ASSUME NEW p, NEW q, IsRows(p), IsRows(q), NEW c, c = p \o q
    PROVE  Joined(p, q, c)
<1>2. PICK S : p \in Seq(S)
  BY DEF IsRows
<1>3. PICK T : q \in Seq(T)
  BY DEF IsRows
<1>4. PICK U : U = S \cup T
  OBVIOUS
<1>5. p \in Seq(U) /\ q \in Seq(U)
  BY <1>2, <1>3, <1>4, SeqMonotonic
<1>6. PICK l, m : l = Len(p) /\ m = Len(q)
  OBVIOUS
<1>7. l \in Nat /\ m \in Nat /\ DOMAIN p = 1..l /\ DOMAIN q = 1..m
  BY <1>6, RowsType
<1>8. /\ c \in Seq(U) /\ Len(c) = l + m
      /\ \A n \in 1..(l + m) : n <= l => c[n] = p[n]
      /\ \A n \in 1..(l + m) : ~(n <= l) => c[n] = q[n - l]
  <2>1. l = Len(p) /\ m = Len(q) /\ c = p \o q
    BY <1>6
  <2>2. \A i \in 1..Len(p) + Len(q) : (p \o q)[i] = IF i <= Len(p) THEN p[i] ELSE q[i - Len(p)]
    BY <1>5, ConcatProperties, Zenon
  <2>3. p \o q \in Seq(U) /\ Len(p \o q) = Len(p) + Len(q)
    BY <1>5, ConcatProperties, Zenon
  <2> QED
    BY <2>1, <2>2, <2>3
<1>9. DOMAIN c = 1..(l + m)
  BY <1>8, LenProperties
<1>10. \A i \in 1..l : i \in 1..(l + m) /\ c[i] = p[i]
  BY <1>7, <1>8
<1>11. \A i \in 1..m : l + i \in 1..(l + m) /\ ~(l + i <= l) /\ (l + i) - l = i
  BY <1>7
<1>12. \A i \in 1..m : c[l + i] = q[i]
  BY <1>8, <1>11
<1>13. \A n \in 1..(l + m) : n \in 1..l \/ (n - l \in 1..m /\ n = l + (n - l))
  BY <1>7
<1>14. IsRows(c)
  BY <1>8 DEF IsRows
<1>15. \A i \in DOMAIN q : l + i \in DOMAIN c /\ c[l + i] = q[i]
  BY <1>7, <1>9, <1>11, <1>12
<1>16. \A n \in DOMAIN c : n \in DOMAIN p \/ \E i \in DOMAIN q : n = l + i
  BY <1>7, <1>9, <1>13
<1> QED
  BY <1>6, <1>7, <1>9, <1>10, <1>14, <1>15, <1>16 DEF Joined

(* What can be read of the databases: some of their rows, in their order. *)
WellRead(s) ==
    /\ DOMAIN s = Applications
    /\ \A app \in Applications :
          /\ DOMAIN s[app] = DOMAIN Sources[app]
          /\ \A t \in DOMAIN s[app] \ {"naming"} :
                /\ IsRows(s[app][t]) /\ ToSet(s[app][t]) \subseteq ToSet(Sources[app][t])
                /\ t # "roots" => Keyed(s[app][t])

LEMMA TablesRead ==
    ASSUME NEW s, WellRead(s)
    PROVE  /\ \A app \in {"sonarr", "radarr"} :
                 \A t \in {"tags", "formats", "profiles", "files", "indexers", "clients", "blocklist"} :
                    IsRows(s[app][t]) /\ Keyed(s[app][t]) /\ ToSet(s[app][t]) \subseteq ToSet(Sources[app][t])
           /\ \A t \in {"series", "episodes"} : IsRows(s.sonarr[t]) /\ Keyed(s.sonarr[t])
           /\ IsRows(s.radarr.movies) /\ Keyed(s.radarr.movies)
           /\ \A t \in {"tags", "indexers"} : IsRows(s.prowlarr[t]) /\ Keyed(s.prowlarr[t])
           /\ IsRows(s.sonarr.roots) /\ IsRows(s.radarr.roots)
<1>1. {"sonarr", "radarr", "prowlarr"} = Applications
  BY DEF Applications
<1>2. \A app \in {"sonarr", "radarr"} :
         \A t \in {"tags", "formats", "profiles", "files", "indexers", "clients", "blocklist", "roots"} :
            t \in DOMAIN Sources[app] \ {"naming"}
  BY SourcesRead DEF Databases, Common
<1>3. /\ \A t \in {"series", "episodes"} : t \in DOMAIN Sources.sonarr \ {"naming"}
      /\ "movies" \in DOMAIN Sources.radarr \ {"naming"}
      /\ \A t \in {"tags", "indexers"} : t \in DOMAIN Sources.prowlarr \ {"naming"}
  BY SourcesRead DEF Databases
<1>4. \A app \in {"sonarr", "radarr", "prowlarr"} : \A t \in DOMAIN Sources[app] \ {"naming"} :
         /\ IsRows(s[app][t]) /\ ToSet(s[app][t]) \subseteq ToSet(Sources[app][t])
         /\ t # "roots" => Keyed(s[app][t])
  BY <1>1 DEF WellRead
<1> QED
  BY <1>2, <1>3, <1>4

LEMMA EmptySequence ==
    ASSUME NEW e, e = <<>>
    PROVE  IsRows(e) /\ DOMAIN e = {} /\ ToSet(e) = {} /\ Keyed(e)
<1>2. e \in Seq({}) /\ Len(e) = 0
  OBVIOUS
<1>3. DOMAIN e = {}
  BY <1>2, LenProperties
<1>4. IsRows(e) /\ ToSet(e) = {} /\ Keyed(e)
  BY <1>2, <1>3 DEF IsRows, ToSet, Keyed
<1> QED
  BY <1>3, <1>4

LEMMA GivenWellRead ==
    ASSUME NEW s, DOMAIN s = Applications,
           \A app \in Applications : s[app] \in {Sources[app], NoTables[app]}
    PROVE  WellRead(s)
<1>1. ASSUME NEW app \in Applications
      PROVE  /\ DOMAIN s[app] = DOMAIN Sources[app]
             /\ \A t \in DOMAIN s[app] \ {"naming"} :
                   /\ IsRows(s[app][t]) /\ ToSet(s[app][t]) \subseteq ToSet(Sources[app][t])
                   /\ t # "roots" => Keyed(s[app][t])
  <2>1. CASE s[app] = Sources[app]
    <3>1. \A t \in DOMAIN s[app] \ {"naming"} : t # "roots" => Keyed(Sources[app][t])
      BY <2>1, MigrationAssumption DEF MigrationAssumption, PrimaryKeys
    <3>2. \A t \in DOMAIN s[app] \ {"naming"} : IsRows(Sources[app][t])
      BY <2>1, SourcesRead DEF Databases, Readable, IsRows
    <3> QED
      BY <2>1, <3>1, <3>2
  <2>2. CASE s[app] = NoTables[app]
    <3>1. /\ DOMAIN s[app] = DOMAIN Sources[app]
          /\ \A t \in DOMAIN s[app] \ {"naming"} : s[app][t] = <<>>
      BY <2>2, SourcesRead DEF Databases
    <3> QED
      BY <3>1, EmptySequence
  <2> QED
    BY <2>1, <2>2
<1> QED
  BY <1>1 DEF WellRead

LEMMA SkippedWellRead ==
    ASSUME WellRead(src), NEW app \in Applications, NEW t \in SeqTables(app), NEW i \in DOMAIN src[app][t]
    PROVE  WellRead(Skipping(app, t, i))
<1>1. PICK s : s = Skipping(app, t, i)
  OBVIOUS
<1>2. PICK r : r = RemoveAt(src[app][t], i)
  OBVIOUS
<1>3. /\ t \in DOMAIN src[app] /\ t # "naming" /\ DOMAIN src = Applications
      /\ IsRows(src[app][t]) /\ ToSet(src[app][t]) \subseteq ToSet(Sources[app][t])
      /\ t # "roots" => Keyed(src[app][t])
  BY DEF WellRead, SeqTables
<1>4. /\ DOMAIN s = Applications
      /\ \A a \in Applications :
            /\ DOMAIN s[a] = DOMAIN src[a]
            /\ \A u \in DOMAIN src[a] : s[a][u] = IF a = app /\ u = t THEN r ELSE src[a][u]
  BY <1>1, <1>2, <1>3 DEF Skipping
<1>5. /\ IsRows(r) /\ Len(src[app][t]) \in Nat
      /\ DOMAIN r = 1..(Len(src[app][t]) - 1)
      /\ \A j \in DOMAIN r : /\ j < i => j \in DOMAIN src[app][t] /\ r[j] = src[app][t][j]
                             /\ j >= i => j + 1 \in DOMAIN src[app][t] /\ r[j] = src[app][t][j + 1]
  BY <1>2, <1>3, RemovedRows, RowsType
<1>6. i \in Nat /\ \A j \in DOMAIN r : j \in Nat /\ (j < i \/ j >= i)
  BY <1>3, <1>5, RowsType
<1>7. ToSet(r) \subseteq ToSet(src[app][t])
  BY <1>5, <1>6 DEF ToSet
<1>8. ASSUME t # "roots"
      PROVE  Keyed(r)
  <2> SUFFICES ASSUME NEW j \in DOMAIN r, NEW k \in DOMAIN r
               PROVE  r[j].id \in Nat \ {0} /\ (r[j].id = r[k].id => j = k)
    BY DEF Keyed
  <2>1. PICK m \in DOMAIN src[app][t] : r[j] = src[app][t][m] /\ m = IF j < i THEN j ELSE j + 1
    BY <1>5, <1>6
  <2>2. PICK n \in DOMAIN src[app][t] : r[k] = src[app][t][n] /\ n = IF k < i THEN k ELSE k + 1
    BY <1>5, <1>6
  <2>3. src[app][t][m].id \in Nat \ {0} /\ (src[app][t][m].id = src[app][t][n].id => m = n)
    BY <1>3, <1>8 DEF Keyed
  <2>4. m = n => j = k
    BY <1>6, <2>1, <2>2
  <2> QED
    BY <2>1, <2>2, <2>3, <2>4
<1>9. ASSUME NEW a \in Applications, NEW u \in DOMAIN s[a] \ {"naming"}
      PROVE  /\ IsRows(s[a][u]) /\ ToSet(s[a][u]) \subseteq ToSet(Sources[a][u])
             /\ u # "roots" => Keyed(s[a][u])
  <2>1. CASE a = app /\ u = t
    BY <1>3, <1>4, <1>5, <1>7, <1>8, <2>1
  <2>2. CASE ~(a = app /\ u = t)
    BY <1>4, <1>9, <2>2 DEF WellRead
  <2> QED
    BY <2>1, <2>2
<1>10. \A a \in Applications : DOMAIN s[a] = DOMAIN Sources[a]
  BY <1>4 DEF WellRead
<1> QED
  BY <1>1, <1>4, <1>9, <1>10 DEF WellRead

(* What is merged, row by row. *)
Media(app) == IF app = "sonarr" THEN "series" ELSE "movie"

LEMMA RowOfSet ==
    ASSUME NEW s
    PROVE  /\ \A i \in DOMAIN s : s[i] \in ToSet(s)
           /\ \A x \in ToSet(s) : \E i \in DOMAIN s : s[i] = x
BY DEF ToSet

LEMMA KeysTellRows ==
    ASSUME NEW s, Keyed(s)
    PROVE  \A x, y \in ToSet(s) : x.id = y.id => x = y
BY DEF Keyed, ToSet

ProfileOfApp(s, app, x) == IF app = "sonarr" THEN SeriesProfile(s, x) ELSE MovieProfile(s, x)

LEMMA ProfileColumns ==
    ASSUME NEW s, NEW app \in {"sonarr", "radarr"}, NEW x
    PROVE  /\ ProfileOfApp(s, app, x).from = <<app, x.id>>
           /\ ProfileOfApp(s, app, x).cutoff = QualityId(x.cutoff)
           /\ ProfileOfApp(s, app, x).items = {QualityId(q) : q \in x.items}
           /\ ProfileOfApp(s, app, x).scores = FormatScores(s, app, x.scores)
BY DEF ProfileOfApp, SeriesProfile, MovieProfile

LEMMA ProfileOlds ==
    ASSUME NEW s, NEW x
    PROVE  /\ ProfileOfApp(s, "sonarr", x).old = x.id
           /\ ProfileOfApp(s, "radarr", x).old = x.id + 100000
BY DEF ProfileOfApp, SeriesProfile, MovieProfile, RADARR_PROFILE_OFFSET

LEMMA ProfilesJoined ==
    ASSUME NEW s, WellRead(s)
    PROVE  LET a == s.sonarr.profiles
               b == s.radarr.profiles
               c == Profiles(s)
           IN  /\ IsRows(c) /\ Len(a) \in Nat
               /\ \A i \in DOMAIN a : i \in DOMAIN c /\ c[i] = ProfileOfApp(s, "sonarr", a[i])
               /\ \A i \in DOMAIN b : Len(a) + i \in DOMAIN c
                                      /\ c[Len(a) + i] = ProfileOfApp(s, "radarr", b[i])
               /\ \A n \in DOMAIN c : n \in DOMAIN a \/ \E i \in DOMAIN b : n = Len(a) + i
<1> DEFINE a == s.sonarr.profiles
           b == s.radarr.profiles
           p == [i \in DOMAIN a |-> SeriesProfile(s, a[i])]
           q == [i \in DOMAIN b |-> MovieProfile(s, b[i])]
<1>1. IsRows(a) /\ IsRows(b)
  BY TablesRead
<1>2. Profiles(s) = p \o q
  BY DEF Profiles, Apply
<1>3. /\ DOMAIN p = DOMAIN a /\ p = [i \in DOMAIN a |-> p[i]]
      /\ DOMAIN q = DOMAIN b /\ q = [i \in DOMAIN b |-> q[i]]
  OBVIOUS
<1>a. IsRows(p) /\ Len(p) = Len(a) /\ IsRows(q)
  <2> HIDE DEF p, q
  <2> QED
    BY <1>1, <1>3, SameRows
<1>4. /\ \A i \in DOMAIN a : p[i] = ProfileOfApp(s, "sonarr", a[i])
      /\ \A i \in DOMAIN b : q[i] = ProfileOfApp(s, "radarr", b[i])
  BY DEF ProfileOfApp
<1> HIDE DEF p, q
<1>5. PICK c : c = Profiles(s)
  OBVIOUS
<1>6. /\ IsRows(c) /\ Len(a) \in Nat
      /\ \A i \in DOMAIN a : i \in DOMAIN c /\ c[i] = p[i]
      /\ \A i \in DOMAIN b : Len(a) + i \in DOMAIN c /\ c[Len(a) + i] = q[i]
      /\ \A n \in DOMAIN c : n \in DOMAIN a \/ \E i \in DOMAIN b : n = Len(a) + i
  <2>1. c = p \o q
    BY <1>2, <1>5
  <2>2. Joined(p, q, c)
    BY <1>a, <2>1, JoinedMaps
  <2> QED
    BY <1>3, <1>a, <2>2, ZenonT(40) DEF Joined
<1> QED
  BY <1>4, <1>5, <1>6

LEMMA ProfilesRead ==
    ASSUME NEW s, WellRead(s)
    PROVE  /\ IsRows(Profiles(s))
           /\ \A n \in DOMAIN Profiles(s) : \E app \in {"sonarr", "radarr"} :
                 \E x \in ToSet(s[app].profiles) : Profiles(s)[n] = ProfileOfApp(s, app, x)
           /\ \A app \in {"sonarr", "radarr"} : \A x \in ToSet(s[app].profiles) :
                 \E n \in DOMAIN Profiles(s) : Profiles(s)[n] = ProfileOfApp(s, app, x)
           /\ \A m, n \in DOMAIN Profiles(s) : Profiles(s)[m].old = Profiles(s)[n].old => m = n
<1> DEFINE a == s.sonarr.profiles
           b == s.radarr.profiles
<1>1. PICK c : c = Profiles(s)
  OBVIOUS
<1>2. PICK l : l = Len(a)
  OBVIOUS
<1>3. /\ IsRows(c) /\ l \in Nat
      /\ \A i \in DOMAIN a : i \in DOMAIN c /\ c[i] = ProfileOfApp(s, "sonarr", a[i])
      /\ \A i \in DOMAIN b : l + i \in DOMAIN c /\ c[l + i] = ProfileOfApp(s, "radarr", b[i])
      /\ \A n \in DOMAIN c : n \in DOMAIN a \/ \E i \in DOMAIN b : n = l + i
  BY <1>1, <1>2, ProfilesJoined
<1>4. /\ IsRows(a) /\ Keyed(a) /\ ToSet(a) \subseteq ToSet(Sources.sonarr.profiles)
      /\ IsRows(b) /\ Keyed(b)
  BY TablesRead
<1>5. \A i \in DOMAIN a : a[i].id \in Nat /\ a[i].id <= 100000
  BY <1>4, RowOfSet, MigrationAssumption DEF MigrationAssumption, PrimaryKeys, Keyed
<1>6. \A i \in DOMAIN b : b[i].id \in Nat \ {0}
  BY <1>4 DEF Keyed
<1>7. /\ \A i \in DOMAIN a : c[i].old = a[i].id
      /\ \A i \in DOMAIN b : c[l + i].old = b[i].id + 100000
  BY <1>3, ProfileOlds
<1>8. ASSUME NEW m \in DOMAIN c, NEW n \in DOMAIN c, c[m].old = c[n].old
      PROVE  m = n
  <2>1. CASE m \in DOMAIN a /\ n \in DOMAIN a
    BY <1>4, <1>7, <1>8, <2>1 DEF Keyed
  <2>2. CASE m \in DOMAIN a /\ n \notin DOMAIN a
    <3>1. PICK j \in DOMAIN b : n = l + j
      BY <1>3, <2>2
    <3>2. a[m].id = b[j].id + 100000
      BY <1>7, <1>8, <2>2, <3>1
    <3> QED
      BY <1>5, <1>6, <2>2, <3>2
  <2>3. CASE m \notin DOMAIN a /\ n \in DOMAIN a
    <3>1. PICK j \in DOMAIN b : m = l + j
      BY <1>3, <2>3
    <3>2. a[n].id = b[j].id + 100000
      BY <1>7, <1>8, <2>3, <3>1
    <3> QED
      BY <1>5, <1>6, <2>3, <3>2
  <2>4. CASE m \notin DOMAIN a /\ n \notin DOMAIN a
    <3>1. PICK i \in DOMAIN b : m = l + i
      BY <1>3, <2>4
    <3>2. PICK j \in DOMAIN b : n = l + j
      BY <1>3, <2>4
    <3>3. b[i].id + 100000 = b[j].id + 100000
      BY <1>7, <1>8, <3>1, <3>2
    <3>4. b[i].id = b[j].id
      BY <1>6, <3>3
    <3> QED
      BY <1>4, <3>1, <3>2, <3>4 DEF Keyed
  <2> QED
    BY <2>1, <2>2, <2>3, <2>4
<1>9. ASSUME NEW n \in DOMAIN c
      PROVE  \E app \in {"sonarr", "radarr"} : \E x \in ToSet(s[app].profiles) :
                c[n] = ProfileOfApp(s, app, x)
  <2>1. CASE n \in DOMAIN a
    BY <1>3, <2>1, RowOfSet
  <2>2. CASE n \notin DOMAIN a
    <3>1. PICK i \in DOMAIN b : n = l + i
      BY <1>3, <2>2
    <3> QED
      BY <1>3, <3>1, RowOfSet
  <2> QED
    BY <2>1, <2>2
<1>10. ASSUME NEW x \in ToSet(a)
       PROVE  \E n \in DOMAIN c : c[n] = ProfileOfApp(s, "sonarr", x)
  BY <1>3, RowOfSet
<1>11. ASSUME NEW x \in ToSet(b)
       PROVE  \E n \in DOMAIN c : c[n] = ProfileOfApp(s, "radarr", x)
  BY <1>3, RowOfSet
<1> QED
  BY <1>1, <1>3, <1>8, <1>9, <1>10, <1>11

LEMMA FilesRead ==
    ASSUME NEW s, WellRead(s)
    PROVE  /\ IsRows(MediaFiles(s))
           /\ \A n \in DOMAIN MediaFiles(s) : \E app \in {"sonarr", "radarr"} :
                 \E x \in ToSet(s[app].files) :
                    /\ MediaFiles(s)[n].old = x.id /\ MediaFiles(s)[n].from = <<app, x.id>>
                    /\ MediaFiles(s)[n].media = Media(app)
<1> DEFINE a == s.sonarr.files
           b == s.radarr.files
           p == [i \in DOMAIN a |-> [old |-> a[i].id, from |-> <<"sonarr", a[i].id>>,
                                     media |-> "series", quality |-> QualityId(a[i].quality)]]
           q == [i \in DOMAIN b |-> [old |-> b[i].id, from |-> <<"radarr", b[i].id>>,
                                     media |-> "movie", quality |-> QualityId(b[i].quality)]]
<1>1. IsRows(a) /\ IsRows(b)
  BY TablesRead
<1>2. MediaFiles(s) = p \o q
  BY DEF MediaFiles, Apply
<1>3. /\ DOMAIN p = DOMAIN a /\ p = [i \in DOMAIN a |-> p[i]]
      /\ DOMAIN q = DOMAIN b /\ q = [i \in DOMAIN b |-> q[i]]
  OBVIOUS
<1>a. IsRows(p) /\ Len(p) = Len(a) /\ IsRows(q)
  <2> HIDE DEF p, q
  <2> QED
    BY <1>1, <1>3, SameRows, SMTT(40)
<1>4. /\ \A i \in DOMAIN a : /\ p[i].old = a[i].id /\ p[i].from = <<"sonarr", a[i].id>>
                             /\ p[i].media = Media("sonarr")
      /\ \A i \in DOMAIN b : /\ q[i].old = b[i].id /\ q[i].from = <<"radarr", b[i].id>>
                             /\ q[i].media = Media("radarr")
  BY DEF Media
<1> HIDE DEF p, q
<1>5. PICK c : c = MediaFiles(s)
  OBVIOUS
<1>6. /\ IsRows(c)
      /\ \A i \in DOMAIN a : c[i] = p[i]
      /\ \A i \in DOMAIN b : c[Len(a) + i] = q[i]
      /\ \A n \in DOMAIN c : n \in DOMAIN a \/ \E i \in DOMAIN b : n = Len(a) + i
  <2>1. c = p \o q
    BY <1>2, <1>5
  <2>2. Joined(p, q, c)
    BY <1>a, <2>1, JoinedMaps
  <2> QED
    BY <1>3, <1>a, <2>2, ZenonT(40) DEF Joined
<1>7. ASSUME NEW n \in DOMAIN c
      PROVE  \E app \in {"sonarr", "radarr"} : \E x \in ToSet(s[app].files) :
                c[n].old = x.id /\ c[n].from = <<app, x.id>> /\ c[n].media = Media(app)
  <2>1. CASE n \in DOMAIN a
    BY <1>4, <1>6, <2>1, RowOfSet
  <2>2. CASE n \notin DOMAIN a
    <3>1. PICK i \in DOMAIN b : n = Len(a) + i
      BY <1>6, <2>2
    <3> QED
      BY <1>4, <1>6, <3>1, RowOfSet
  <2> QED
    BY <2>1, <2>2
<1> QED
  BY <1>5, <1>6, <1>7

LEMMA BlocklistRead ==
    ASSUME NEW s, WellRead(s)
    PROVE  /\ IsRows(Blocklist(s))
           /\ \A n \in DOMAIN Blocklist(s) : \E app \in {"sonarr", "radarr"} :
                 \E x \in ToSet(s[app].blocklist) :
                    /\ Blocklist(s)[n].item = x.item /\ Blocklist(s)[n].from = <<app, x.id>>
                    /\ Blocklist(s)[n].media = Media(app)
<1> DEFINE a == s.sonarr.blocklist
           b == s.radarr.blocklist
           p == [i \in DOMAIN a |-> [media |-> "series", item |-> a[i].item,
                                     from |-> <<"sonarr", a[i].id>>]]
           q == [i \in DOMAIN b |-> [media |-> "movie", item |-> b[i].item,
                                     from |-> <<"radarr", b[i].id>>]]
<1>1. IsRows(a) /\ IsRows(b)
  BY TablesRead
<1>2. Blocklist(s) = p \o q
  BY DEF Blocklist, Apply
<1>3. /\ DOMAIN p = DOMAIN a /\ p = [i \in DOMAIN a |-> p[i]]
      /\ DOMAIN q = DOMAIN b /\ q = [i \in DOMAIN b |-> q[i]]
  OBVIOUS
<1>a. IsRows(p) /\ Len(p) = Len(a) /\ IsRows(q)
  <2> HIDE DEF p, q
  <2> QED
    BY <1>1, <1>3, SameRows
<1>4. /\ \A i \in DOMAIN a : /\ p[i].item = a[i].item /\ p[i].from = <<"sonarr", a[i].id>>
                             /\ p[i].media = Media("sonarr")
      /\ \A i \in DOMAIN b : /\ q[i].item = b[i].item /\ q[i].from = <<"radarr", b[i].id>>
                             /\ q[i].media = Media("radarr")
  BY DEF Media
<1> HIDE DEF p, q
<1>5. PICK c : c = Blocklist(s)
  OBVIOUS
<1>6. /\ IsRows(c)
      /\ \A i \in DOMAIN a : c[i] = p[i]
      /\ \A i \in DOMAIN b : c[Len(a) + i] = q[i]
      /\ \A n \in DOMAIN c : n \in DOMAIN a \/ \E i \in DOMAIN b : n = Len(a) + i
  <2>1. c = p \o q
    BY <1>2, <1>5
  <2>2. Joined(p, q, c)
    BY <1>a, <2>1, JoinedMaps
  <2> QED
    BY <1>3, <1>a, <2>2, ZenonT(40) DEF Joined
<1>7. ASSUME NEW n \in DOMAIN c
      PROVE  \E app \in {"sonarr", "radarr"} : \E x \in ToSet(s[app].blocklist) :
                c[n].item = x.item /\ c[n].from = <<app, x.id>> /\ c[n].media = Media(app)
  <2>1. CASE n \in DOMAIN a
    BY <1>4, <1>6, <2>1, RowOfSet
  <2>2. CASE n \notin DOMAIN a
    <3>1. PICK i \in DOMAIN b : n = Len(a) + i
      BY <1>6, <2>2
    <3> QED
      BY <1>4, <1>6, <3>1, RowOfSet
  <2> QED
    BY <2>1, <2>2
<1> QED
  BY <1>5, <1>6, <1>7

LEMMA FiniteImage ==
    ASSUME NEW f, NEW D, IsFiniteSet(D), f = [x \in D |-> f[x]]
    PROVE  IsFiniteSet({f[x] : x \in D})
<1> DEFINE S == {f[x] : x \in D}
<1>1. f \in [D -> S]
  OBVIOUS
<1>2. f \in Surjection(D, S)
  BY <1>1 DEF Surjection
<1> QED
  BY <1>2, FS_Surjection

(* The rows of a finite set, in some order. *)
LEMMA SetListed ==
    ASSUME NEW S, IsFiniteSet(S)
    PROVE  /\ IsRows(SetToSeq(S)) /\ ToSet(SetToSeq(S)) = S
           /\ \A m, n \in DOMAIN SetToSeq(S) : SetToSeq(S)[m] = SetToSeq(S)[n] => m = n
<1> DEFINE C == Cardinality(S)
           Good(f) == f \in [1..C -> S] /\ IsInjective(f)
<1>1. PICK g : g \in Bijection(1..C, S)
  BY FS_CardinalityType DEF ExistsBijection
<1>2. g \in [1..C -> S] /\ IsInjective(g)
  BY <1>1 DEF Bijection, Injection
<1>3. PICK f : f = SetToSeq(S)
  OBVIOUS
<1>4. f \in [1..C -> S] /\ IsInjective(f)
  BY <1>2, <1>3 DEF SetToSeq
<1>5. f \in Injection(1..C, S)
  BY <1>4 DEF Injection
<1>6. C \in Nat /\ Cardinality(1..C) = C
  BY FS_CardinalityType, FS_Interval
<1>7. f \in Surjection(1..C, S)
  BY <1>5, <1>6, FS_Injection
<1>8. DOMAIN f = 1..C /\ f = [i \in 1..C |-> f[i]]
  BY <1>4
<1>9. IsRows(f)
  BY <1>6, <1>8, AreRows
<1>10. ToSet(f) = S
  BY <1>4, <1>7, <1>8 DEF Surjection, ToSet
<1>11. \A m, n \in DOMAIN f : f[m] = f[n] => m = n
  BY <1>4, <1>8 DEF IsInjective
<1> QED
  BY <1>3, <1>9, <1>10, <1>11

(* The map from old to new ids finds one of the rows. *)
LEMMA NewIdFound ==
    ASSUME NEW rows, NEW n \in Nat, \A r \in rows : r.id \in 1..n
    PROVE  /\ rows = {} => NewId(rows) = 0
           /\ rows # {} => \E r \in rows : NewId(rows) = r.id
           /\ NewId(rows) # 0 <=> rows # {}
<1>1. ASSUME rows # {}
      PROVE  \E r \in rows : NewId(rows) = r.id
  <2> DEFINE S == {r.id : r \in rows}
  <2>1. S \in SUBSET (1..n) /\ S # {}
    BY <1>1
  <2>2. IsFiniteSet(S) /\ S \in SUBSET Nat
    <3>1. IsFiniteSet(1..n) /\ 1..n \subseteq Nat
      BY FS_Interval
    <3> QED
      BY <2>1, <3>1, FS_Subset
  <2>3. PICK m \in S : \A k \in S : k <= m
    BY <2>1, <2>2, LastOf
  <2>4. PICK r \in rows : \A q \in rows : q.id <= r.id
    BY <2>3
  <2>5. (CHOOSE x \in rows : \A q \in rows : q.id <= x.id) \in rows
    BY <2>4
  <2> QED
    BY <1>1, <2>5 DEF NewId
<1>2. rows = {} => NewId(rows) = 0
  BY DEF NewId
<1>3. \A r \in rows : r.id # 0
  OBVIOUS
<1> QED
  BY <1>1, <1>2, <1>3

(* The first row that passes a test. *)
FirstIn(T, m) ==
    /\ m = 0 <=> T = {}
    /\ T # {} => m \in T /\ \A j \in T : m <= j

LEMMA FirstIndex ==
    ASSUME NEW s, IsRows(s), NEW T \in SUBSET DOMAIN s, NEW m, 
           m = IF T # {} THEN CHOOSE i \in T : \A j \in T : i <= j ELSE 0
    PROVE  FirstIn(T, m)
<1>1. T \in SUBSET Nat /\ \A i \in T : i # 0
  BY RowsType
<1>2. CASE T # {}
  <2>1. PICK i \in T : \A j \in T : i <= j
    BY <1>1, <1>2, FirstOf
  <2>2. m \in T /\ \A j \in T : m <= j
    BY <1>2, <2>1
  <2> QED
    BY <1>1, <1>2, <2>2 DEF FirstIn
<1>3. CASE T = {}
  BY <1>3 DEF FirstIn
<1> QED
  BY <1>2, <1>3

-----------------------------------------------------------------------------
(*************************************************************************)
(* The custom formats of both applications, the profiles that score      *)
(* them, and the rows that build_migration_data makes of the sources.    *)
(*************************************************************************)

(* The custom formats of both applications, and the ones that are written. *)
LEMMA FormatsRead ==
    ASSUME NEW s, WellRead(s)
    PROVE  /\ IsRows(FormatsOf(s))
           /\ \A n \in DOMAIN FormatsOf(s) :
                 /\ FormatsOf(s)[n].app \in {"sonarr", "radarr"}
                 /\ FormatsOf(s)[n].row \in ToSet(s[FormatsOf(s)[n].app].formats)
           /\ \A app \in {"sonarr", "radarr"} : \A x \in ToSet(s[app].formats) :
                 \E n \in DOMAIN FormatsOf(s) : FormatsOf(s)[n].app = app /\ FormatsOf(s)[n].row = x
<1> DEFINE a == s.sonarr.formats
           b == s.radarr.formats
           p == [i \in DOMAIN a |-> [app |-> "sonarr", row |-> a[i]]]
           q == [i \in DOMAIN b |-> [app |-> "radarr", row |-> b[i]]]
<1>1. IsRows(a) /\ IsRows(b)
  BY TablesRead
<1>2. FormatsOf(s) = p \o q
  BY DEF FormatsOf, By, Apply
<1>3. /\ DOMAIN p = DOMAIN a /\ p = [i \in DOMAIN a |-> p[i]]
      /\ DOMAIN q = DOMAIN b /\ q = [i \in DOMAIN b |-> q[i]]
  OBVIOUS
<1>4. /\ \A i \in DOMAIN a : p[i].app = "sonarr" /\ p[i].row = a[i]
      /\ \A i \in DOMAIN b : q[i].app = "radarr" /\ q[i].row = b[i]
  OBVIOUS
<1> HIDE DEF p, q
<1>5. IsRows(p) /\ IsRows(q)
  BY <1>1, <1>3, SameRows
<1>6. PICK c : c = FormatsOf(s)
  OBVIOUS
<1>7. Joined(p, q, c)
  <2>1. c = p \o q
    BY <1>2, <1>6
  <2> QED
    BY <1>5, <2>1, JoinedMaps
<1>8. ASSUME NEW n \in DOMAIN c
      PROVE  c[n].app \in {"sonarr", "radarr"} /\ c[n].row \in ToSet(s[c[n].app].formats)
  <2>1. CASE n \in DOMAIN p
    <3>1. c[n] = p[n] /\ n \in DOMAIN a
      BY <1>3, <1>7, <2>1 DEF Joined
    <3>2. c[n].app = "sonarr" /\ c[n].row = a[n]
      BY <1>4, <3>1
    <3>3. a[n] \in ToSet(a)
      BY <3>1, RowOfSet
    <3> QED
      BY <3>2, <3>3
  <2>2. CASE n \notin DOMAIN p
    <3>1. PICK i \in DOMAIN q : n = Len(p) + i
      BY <1>7, <2>2 DEF Joined
    <3>2. c[n] = q[i] /\ i \in DOMAIN b
      BY <1>3, <1>7, <3>1 DEF Joined
    <3>3. c[n].app = "radarr" /\ c[n].row = b[i]
      BY <1>4, <3>2
    <3>4. b[i] \in ToSet(b)
      BY <3>2, RowOfSet
    <3> QED
      BY <3>3, <3>4
  <2> QED
    BY <2>1, <2>2
<1>9. ASSUME NEW x \in ToSet(a)
      PROVE  \E n \in DOMAIN c : c[n].app = "sonarr" /\ c[n].row = x
  <2>1. PICK i \in DOMAIN a : a[i] = x
    BY RowOfSet
  <2>2. i \in DOMAIN c /\ c[i] = p[i]
    BY <1>3, <1>7 DEF Joined
  <2> QED
    BY <1>4, <2>1, <2>2
<1>10. ASSUME NEW x \in ToSet(b)
       PROVE  \E n \in DOMAIN c : c[n].app = "radarr" /\ c[n].row = x
  <2>1. PICK i \in DOMAIN b : b[i] = x
    BY RowOfSet
  <2>2. Len(p) + i \in DOMAIN c /\ c[Len(p) + i] = q[i]
    BY <1>3, <1>7 DEF Joined
  <2> QED
    BY <1>4, <2>1, <2>2
<1>11. IsRows(c)
  BY <1>7 DEF Joined
<1> QED
  BY <1>6, <1>8, <1>9, <1>10, <1>11

LEMMA FormatsMerged ==
    ASSUME NEW s, WellRead(s)
    PROVE  /\ IsRows(MergedFormats(s))
           /\ \A n \in DOMAIN FormatsOf(s) : \E m \in DOMAIN MergedFormats(s) :
                 MergedFormats(s)[m].row.name.key = FormatsOf(s)[n].row.name.key
           /\ \A m, n \in DOMAIN MergedFormats(s) :
                 MergedFormats(s)[m].row.name.key = MergedFormats(s)[n].row.name.key => m = n
<1>1. PICK F : F = FormatsOf(s)
  OBVIOUS
<1> DEFINE I == {i \in DOMAIN F : \A j \in DOMAIN F : F[j].row.name.key = F[i].row.name.key => i <= j}
<1>2. PICK G : G = MergedFormats(s)
  OBVIOUS
<1>3. G = Picked(F, I)
  BY <1>1, <1>2 DEF MergedFormats, Firsts
<1>4. IsRows(F) /\ I \in SUBSET DOMAIN F /\ DOMAIN F \in SUBSET Nat
  BY <1>1, FormatsRead, RowsType
<1>5. /\ IsRows(G)
      /\ \A m \in DOMAIN G : Nth(I, m) \in I /\ G[m] = F[Nth(I, m)]
      /\ \A i \in I : \E m \in DOMAIN G : Nth(I, m) = i
      /\ \A m, n \in DOMAIN G : m < n => Nth(I, m) < Nth(I, n)
  <2> HIDE DEF I
  <2> QED
    BY <1>3, <1>4, PickedRows
<1>6. \A m \in DOMAIN G : m \in Nat
  BY <1>5, RowsType
<1>7. ASSUME NEW n \in DOMAIN F
      PROVE  \E m \in DOMAIN G : G[m].row.name.key = F[n].row.name.key
  <2> DEFINE S == {j \in DOMAIN F : F[j].row.name.key = F[n].row.name.key}
  <2>1. S \in SUBSET Nat /\ S # {}
    BY <1>4
  <2>2. PICK i \in S : \A j \in S : i <= j
    BY <2>1, FirstOf
  <2>3. i \in I
    BY <2>2
  <2>4. PICK m \in DOMAIN G : Nth(I, m) = i
    BY <1>5, <2>3
  <2> QED
    BY <1>5, <2>2, <2>4
<1>8. ASSUME NEW m \in DOMAIN G, NEW n \in DOMAIN G, G[m].row.name.key = G[n].row.name.key
      PROVE  m = n
  <2>1. PICK i, j : i = Nth(I, m) /\ j = Nth(I, n)
    BY ZenonT(40)
  <2>2. i \in I /\ j \in I /\ G[m] = F[i] /\ G[n] = F[j]
    BY <1>5, <2>1, ZenonT(40)
  <2>3. i <= j /\ j <= i /\ i \in Nat /\ j \in Nat
    BY <1>4, <1>8, <2>2
  <2>4. i = j
    BY <2>3
  <2>5. ~(i < j) /\ ~(j < i)
    BY <2>3, <2>4, SMTT(40)
  <2>6. ~(m < n) /\ ~(n < m)
    BY <1>5, <2>1, <2>5
  <2> QED
    BY <1>6, <2>6
<1> QED
  BY <1>1, <1>2, <1>5, <1>7, <1>8

(* The names of the formats of an application that have an id: one or none. *)
Keys(s, app, id) == {f.name.key : f \in {x \in ToSet(s[app].formats) : x.id = id}}

LEMMA FormatFound ==
    ASSUME NEW s, WellRead(s), NEW app \in {"sonarr", "radarr"}, NEW id
    PROVE  /\ FormatIndex(s, app, id) = 0 <=> Keys(s, app, id) = {}
           /\ Keys(s, app, id) # {} =>
                 /\ FormatIndex(s, app, id) \in DOMAIN MergedFormats(s)
                 /\ Keys(s, app, id) = {MergedFormats(s)[FormatIndex(s, app, id)].row.name.key}
<1>1. PICK F : F = FormatsOf(s)
  OBVIOUS
<1>2. PICK G : G = MergedFormats(s)
  OBVIOUS
<1> DEFINE T == {i \in DOMAIN F : F[i].app = app /\ F[i].row.id = id}
<1>3. PICK named : named = SelectInSeq(F, LAMBDA f : f.app = app /\ f.row.id = id)
  OBVIOUS
<1>4. IsRows(F) /\ DOMAIN F = 1..Len(F) /\ IsRows(G) /\ DOMAIN G = 1..Len(G)
  BY <1>1, <1>2, FormatsRead, FormatsMerged, RowsType
<1>5. /\ named = 0 <=> T = {}
      /\ T # {} => named \in T
  <2>1. named = IF T # {} THEN CHOOSE i \in T : \A j \in T : i <= j ELSE 0
    BY <1>3, <1>4 DEF SelectInSeq, Min
  <2>2. T \in SUBSET DOMAIN F
    OBVIOUS
  <2>3. FirstIn(T, named)
    <3> HIDE DEF T
    <3> QED
      BY <1>4, <2>1, <2>2, FirstIndex
  <2> QED
    BY <2>3 DEF FirstIn
<1>6. T = {} <=> Keys(s, app, id) = {}
  <2>1. \A i \in T : F[i].row \in ToSet(s[app].formats) /\ F[i].row.id = id
    BY <1>1, FormatsRead
  <2>2. \A x \in ToSet(s[app].formats) : x.id = id => \E i \in T : F[i].row = x
    BY <1>1, FormatsRead
  <2>3. T = {} <=> {x \in ToSet(s[app].formats) : x.id = id} = {}
    <3> HIDE DEF T
    <3>1. \A i \in T : F[i].row \in {x \in ToSet(s[app].formats) : x.id = id}
      BY <2>1
    <3>2. \A x \in {y \in ToSet(s[app].formats) : y.id = id} : \E i \in T : F[i].row = x
      BY <2>2
    <3> QED
      BY <3>1, <3>2, Zenon
  <2> QED
    BY <2>3 DEF Keys
<1>7. PICK m : m = FormatIndex(s, app, id)
  OBVIOUS
<1>8. CASE T = {}
  <2>1. m = 0
    BY <1>1, <1>3, <1>5, <1>7, <1>8 DEF FormatIndex
  <2> QED
    BY <1>6, <1>7, <1>8, <2>1
<1>9. CASE T # {}
  <2>1. named \in T /\ named # 0
    BY <1>4, <1>5, <1>9
  <2>2. Keys(s, app, id) = {F[named].row.name.key}
    <3>1. F[named].row \in ToSet(s[app].formats) /\ F[named].row.id = id
      BY <1>1, <2>1, FormatsRead
    <3>2. Keyed(s[app].formats)
      BY TablesRead
    <3>3. \A x \in ToSet(s[app].formats) : x.id = id => x = F[named].row
      BY <3>1, <3>2, KeysTellRows
    <3> QED
      BY <3>1, <3>3 DEF Keys
  <2> DEFINE U == {i \in DOMAIN G : G[i].row.name.key = F[named].row.name.key}
  <2>3. U # {}
    BY <1>1, <1>2, <2>1, FormatsMerged
  <2> DEFINE key == F[named].row.name.key
  <2>a. m = SelectInSeq(G, LAMBDA f : f.row.name.key = key)
    BY <1>1, <1>2, <1>3, <1>7, <2>1 DEF FormatIndex
  <2>4. m = IF U # {} THEN CHOOSE i \in U : \A j \in U : i <= j ELSE 0
    BY <1>4, <2>a DEF SelectInSeq, Min
  <2>5. m \in U /\ m # 0
    <3>1. U \in SUBSET DOMAIN G
      OBVIOUS
    <3>2. FirstIn(U, m)
      <4> HIDE DEF U
      <4> QED
        BY <1>4, <2>4, <3>1, FirstIndex
    <3>3. \A i \in U : i # 0
      BY <1>4
    <3> QED
      BY <2>3, <3>2, <3>3 DEF FirstIn
  <2> QED
    BY <1>2, <1>7, <2>2, <2>5
<1> QED
  BY <1>8, <1>9

(* Two scores are for one name when they are for one index. *)
LEMMA SameFormat ==
    ASSUME NEW s, WellRead(s), NEW app \in {"sonarr", "radarr"}, NEW x, NEW y,
           Keys(s, app, x) # {}, Keys(s, app, y) # {}
    PROVE  Keys(s, app, x) = Keys(s, app, y) <=> FormatIndex(s, app, x) = FormatIndex(s, app, y)
<1>1. PICK G : G = MergedFormats(s)
  OBVIOUS
<1>2. PICK m, n : m = FormatIndex(s, app, x) /\ n = FormatIndex(s, app, y)
  OBVIOUS
<1>3. /\ m \in DOMAIN G /\ Keys(s, app, x) = {G[m].row.name.key}
      /\ n \in DOMAIN G /\ Keys(s, app, y) = {G[n].row.name.key}
  BY <1>1, <1>2, FormatFound
<1>4. G[m].row.name.key = G[n].row.name.key => m = n
  BY <1>1, <1>3, FormatsMerged
<1> QED
  BY <1>2, <1>3, <1>4

(* The last score that counts of each name, among what the profile says and  *)
(* among what is written.                                                    *)
Scored(s, app, items) ==
    {i \in DOMAIN items : items[i].score # 0 /\ Keys(s, app, items[i].format) # {}}

LastScored(s, app, items) ==
    {i \in Scored(s, app, items) : \A j \in Scored(s, app, items) :
        Keys(s, app, items[j].format) = Keys(s, app, items[i].format) => j <= i}

LastWritten(scores) ==
    {n \in DOMAIN scores : \A k \in DOMAIN scores : scores[k].index = scores[n].index => k <= n}

SameScore(s, app, item, score) ==
    score.index = FormatIndex(s, app, item.format) /\ score.score = item.score

LEMMA ScoresRead ==
    ASSUME NEW s, WellRead(s), NEW app \in {"sonarr", "radarr"}, NEW items, IsRows(items)
    PROVE  LET scores == FormatScores(s, app, items)
           IN  /\ IsRows(scores)
               /\ \A n \in LastWritten(scores) : \E i \in LastScored(s, app, items) :
                     SameScore(s, app, items[i], scores[n])
               /\ \A i \in LastScored(s, app, items) : \E n \in LastWritten(scores) :
                     SameScore(s, app, items[i], scores[n])
<1> DEFINE all == [i \in DOMAIN items |->
                      [index |-> FormatIndex(s, app, items[i].format), score |-> items[i].score]]
           I == {i \in DOMAIN all : all[i].score # 0 /\ all[i].index # 0}
<1>1. PICK scores : scores = FormatScores(s, app, items)
  OBVIOUS
<1>2. scores = Picked(all, I)
  BY <1>1 DEF FormatScores, Only, Apply
<1>3. /\ DOMAIN all = DOMAIN items /\ all = [i \in DOMAIN items |-> all[i]]
      /\ \A i \in DOMAIN items : SameScore(s, app, items[i], all[i])
  BY DEF SameScore
<1>4. I = Scored(s, app, items)
  <2>1. \A i \in DOMAIN items :
           all[i].score = items[i].score /\ all[i].index = FormatIndex(s, app, items[i].format)
    OBVIOUS
  <2>2. \A i \in DOMAIN items : FormatIndex(s, app, items[i].format) # 0 <=>
                                   Keys(s, app, items[i].format) # {}
    BY FormatFound
  <2> HIDE DEF all
  <2>3. \A i \in DOMAIN items : (all[i].score # 0 /\ all[i].index # 0) <=>
                                   (items[i].score # 0 /\ Keys(s, app, items[i].format) # {})
    BY <2>1, <2>2
  <2> QED
    BY <1>3, <2>3 DEF Scored
<1> HIDE DEF all
<1>5. IsRows(all) /\ I \in SUBSET DOMAIN all
  BY <1>3, SameRows
<1> HIDE DEF I
<1>6. /\ IsRows(scores)
      /\ \A n \in DOMAIN scores : Nth(I, n) \in I /\ scores[n] = all[Nth(I, n)]
      /\ \A i \in I : \E n \in DOMAIN scores : Nth(I, n) = i
      /\ \A m, n \in DOMAIN scores : m < n => Nth(I, m) < Nth(I, n)
  BY <1>2, <1>5, PickedRows
<1>7. \A n \in DOMAIN scores : n \in Nat
  BY <1>6, RowsType
<1>8. \A i \in I : i \in Nat /\ i \in DOMAIN items /\ Keys(s, app, items[i].format) # {}
  BY <1>3, <1>4, <1>5, RowsType DEF Scored
<1>9. \A n \in DOMAIN scores : SameScore(s, app, items[Nth(I, n)], scores[n])
  BY <1>3, <1>6, <1>8
<1>10. ASSUME NEW m \in DOMAIN scores, NEW n \in DOMAIN scores
       PROVE  /\ scores[m].index = scores[n].index <=>
                    Keys(s, app, items[Nth(I, m)].format) = Keys(s, app, items[Nth(I, n)].format)
              /\ m <= n <=> Nth(I, m) <= Nth(I, n)
  <2>1. PICK i, j : i = Nth(I, m) /\ j = Nth(I, n)
    OBVIOUS
  <2>2. i \in I /\ j \in I
    BY <1>6, <2>1
  <2>3. scores[m].index = FormatIndex(s, app, items[i].format)
        /\ scores[n].index = FormatIndex(s, app, items[j].format)
    BY <1>9, <2>1 DEF SameScore
  <2>4. scores[m].index = scores[n].index <=>
           Keys(s, app, items[i].format) = Keys(s, app, items[j].format)
    BY <1>8, <2>2, <2>3, SameFormat
  <2>5. (m < n => i < j) /\ (n < m => j < i) /\ (m = n => i = j)
    BY <1>6, <2>1
  <2>6. m \in Nat /\ n \in Nat /\ i \in Nat /\ j \in Nat
    BY <1>7, <1>8, <2>2
  <2>7. m <= n <=> i <= j
    BY <2>5, <2>6
  <2> QED
    BY <2>1, <2>4, <2>7
<1>11. \A n \in DOMAIN scores :
          n \in LastWritten(scores) <=> Nth(I, n) \in LastScored(s, app, items)
  <2> TAKE n \in DOMAIN scores
  <2>1. Nth(I, n) \in I
    BY <1>6
  <2>2. ASSUME n \in LastWritten(scores), NEW j \in I,
               Keys(s, app, items[j].format) = Keys(s, app, items[Nth(I, n)].format)
        PROVE  j <= Nth(I, n)
    <3>1. PICK m \in DOMAIN scores : Nth(I, m) = j
      BY <1>6
    <3>2. m <= n
      BY <1>10, <2>2, <3>1 DEF LastWritten
    <3> QED
      BY <1>10, <3>1, <3>2
  <2>3. ASSUME Nth(I, n) \in LastScored(s, app, items), NEW m \in DOMAIN scores,
               scores[m].index = scores[n].index
        PROVE  m <= n
    <3>1. Nth(I, m) \in I
      BY <1>6
    <3>2. Nth(I, m) <= Nth(I, n)
      BY <1>4, <1>10, <2>3, <3>1 DEF LastScored
    <3> QED
      BY <1>10, <3>2
  <2> QED
    BY <1>4, <2>1, <2>2, <2>3 DEF LastWritten, LastScored
<1>12. ASSUME NEW n \in LastWritten(scores)
       PROVE  \E i \in LastScored(s, app, items) : SameScore(s, app, items[i], scores[n])
  <2>1. n \in DOMAIN scores
    BY DEF LastWritten
  <2> QED
    BY <1>9, <1>11, <2>1
<1>13. ASSUME NEW i \in LastScored(s, app, items)
       PROVE  \E n \in LastWritten(scores) : SameScore(s, app, items[i], scores[n])
  <2>1. i \in I
    BY <1>4 DEF LastScored
  <2>2. PICK n \in DOMAIN scores : Nth(I, n) = i
    BY <1>6, <2>1
  <2> QED
    BY <1>9, <1>11, <2>2
<1> QED
  BY <1>1, <1>6, <1>12, <1>13

(* All that is merged are sequences of rows. *)
LEMMA MappedRows ==
    ASSUME NEW s, IsRows(s), NEW q, q = [i \in DOMAIN s |-> q[i]]
    PROVE  IsRows(q)
<1>1. DOMAIN q = DOMAIN s
  OBVIOUS
<1> QED
  BY <1>1, SameRows

LEMMA ByRows ==
    ASSUME NEW s, IsRows(s), NEW app
    PROVE  IsRows(By(app, s))
<1>1. PICK q : q = By(app, s)
  OBVIOUS
<1>2. DOMAIN q = DOMAIN s /\ q = [i \in DOMAIN s |-> q[i]]
  BY <1>1 DEF By, Apply
<1> QED
  BY <1>1, <1>2, SameRows

LEMMA SomeRows ==
    ASSUME NEW s, IsRows(s), NEW I \in SUBSET DOMAIN s
    PROVE  IsRows(Picked(s, I))
BY PickedRows

LEMMA TagsMerged ==
    ASSUME NEW s, WellRead(s)
    PROVE  IsRows(MergedTags(s))
<1>1. IsRows(s.sonarr.tags) /\ IsRows(s.radarr.tags) /\ IsRows(s.prowlarr.tags)
  BY TablesRead
<1>2. PICK all : all = TagsOf(s)
  OBVIOUS
<1>3. IsRows(all)
  BY <1>1, <1>2, JoinedRows DEF TagsOf
<1> DEFINE I == {i \in DOMAIN all : \A j \in DOMAIN all : all[j].label.key = all[i].label.key => i <= j}
<1>4. PICK firsts : firsts = Picked(all, I)
  OBVIOUS
<1>5. I \in SUBSET DOMAIN all
  OBVIOUS
<1>6. IsRows(firsts)
  <2> HIDE DEF I
  <2> QED
    BY <1>3, <1>4, <1>5, SomeRows
<1>7. MergedTags(s) = [i \in DOMAIN firsts |-> firsts[i].label]
  BY <1>2, <1>4 DEF MergedTags, Firsts, Apply
<1>8. PICK q : q = MergedTags(s)
  OBVIOUS
<1>9. DOMAIN q = DOMAIN firsts /\ q = [i \in DOMAIN firsts |-> q[i]]
  BY <1>7, <1>8
<1> QED
  BY <1>6, <1>8, <1>9, SameRows

LEMMA FoldersMerged ==
    ASSUME NEW s, WellRead(s), NEW m
    PROVE  IsRows(Folders(s, m))
<1> DEFINE a == s.sonarr.roots
           b == s.radarr.roots
           p == [i \in DOMAIN a |-> [path |-> a[i], media |-> "series"]]
           q == [i \in DOMAIN b |-> [path |-> b[i], media |-> "movie"]]
<1>1. IsRows(a) /\ IsRows(b)
  BY TablesRead
<1>2. DOMAIN p = DOMAIN a /\ p = [i \in DOMAIN a |-> p[i]] /\ DOMAIN q = DOMAIN b /\ q = [i \in DOMAIN b |-> q[i]]
  OBVIOUS
<1>3. IsRows(p) /\ IsRows(q)
  <2> HIDE DEF p, q
  <2> QED
    BY <1>1, <1>2, SameRows
<1>4. PICK all : all = p \o q
  OBVIOUS
<1>5. IsRows(all)
  <2> HIDE DEF p, q
  <2> QED
    BY <1>3, <1>4, JoinedRows
<1> DEFINE I == {i \in DOMAIN all : \A j \in DOMAIN all : all[j].path = all[i].path => i <= j}
<1>6. PICK firsts : firsts = Picked(all, I)
  OBVIOUS
<1>7. I \in SUBSET DOMAIN all
  OBVIOUS
<1>8. IsRows(firsts)
  <2> HIDE DEF I
  <2> QED
    BY <1>5, <1>6, <1>7, SomeRows
<1>9. Folders(s, m) = [i \in DOMAIN firsts |-> [firsts[i] EXCEPT !.path = Remap(firsts[i].path, m)]]
  BY <1>4, <1>6, ZenonT(40) DEF Folders, Firsts, Apply
<1>10. PICK f : f = Folders(s, m)
  OBVIOUS
<1>11. DOMAIN f = DOMAIN firsts /\ f = [i \in DOMAIN firsts |-> f[i]]
  BY <1>9, <1>10
<1> QED
  BY <1>8, <1>10, <1>11, SameRows

LEMMA IndexersMerged ==
    ASSUME NEW s, WellRead(s)
    PROVE  IsRows(Indexers(s))
<1>1. IsRows(s.sonarr.indexers) /\ IsRows(s.radarr.indexers) /\ IsRows(s.prowlarr.indexers)
  BY TablesRead
<1>2. ASSUME NEW rows, IsRows(rows)
      PROVE  IsRows(WithUrl(rows))
  <2> DEFINE I == {i \in DOMAIN rows : rows[i].row.url # ""}
  <2>1. WithUrl(rows) = Picked(rows, I)
    BY DEF WithUrl, Only
  <2>2. I \in SUBSET DOMAIN rows
    OBVIOUS
  <2> HIDE DEF I
  <2> QED
    BY <1>2, <2>1, <2>2, SomeRows
<1>3. PICK first : first = WithUrl(By("prowlarr", s.prowlarr.indexers))
  OBVIOUS
<1>4. PICK others : others = WithUrl(By("sonarr", s.sonarr.indexers) \o By("radarr", s.radarr.indexers))
  OBVIOUS
<1>5. IsRows(first)
  BY <1>1, <1>2, <1>3, ByRows
<1>6. IsRows(others)
  <2>1. IsRows(By("sonarr", s.sonarr.indexers)) /\ IsRows(By("radarr", s.radarr.indexers))
    BY <1>1, ByRows
  <2>2. IsRows(By("sonarr", s.sonarr.indexers) \o By("radarr", s.radarr.indexers))
    BY <2>1, JoinedRows
  <2> QED
    BY <1>2, <1>4, <2>2
<1> DEFINE I == {i \in DOMAIN others : ~Seen(first, others[i].row.url)}
<1>7. PICK new : new = Picked(others, I)
  OBVIOUS
<1>8. IsRows(new)
  <2>1. I \in SUBSET DOMAIN others
    OBVIOUS
  <2> HIDE DEF I
  <2> QED
    BY <1>6, <1>7, <2>1, SomeRows
<1> DEFINE J == {i \in DOMAIN new : \A j \in DOMAIN new : new[j].row.url = new[i].row.url => i <= j}
<1>9. PICK last : last = Picked(new, J)
  OBVIOUS
<1>10. IsRows(last)
  <2>1. J \in SUBSET DOMAIN new
    OBVIOUS
  <2> HIDE DEF J
  <2> QED
    BY <1>8, <1>9, <2>1, SomeRows
<1>11. Indexers(s) = first \o last
  <2>1. new = Only(others, LAMBDA i : ~Seen(first, i.row.url))
    BY <1>7 DEF Only
  <2>2. last = Firsts(new, LAMBDA i : i.row.url)
    BY <1>9 DEF Firsts
  <2> QED
    BY <1>3, <1>4, <2>1, <2>2 DEF Indexers
<1> QED
  BY <1>5, <1>10, <1>11, JoinedRows

LEMMA ClientsMerged ==
    ASSUME NEW s, WellRead(s)
    PROVE  IsRows(DownloadClients(s))
<1>1. IsRows(s.sonarr.clients) /\ IsRows(s.radarr.clients)
  BY TablesRead
<1>2. PICK all : all = By("sonarr", s.sonarr.clients) \o By("radarr", s.radarr.clients)
  OBVIOUS
<1>3. IsRows(all)
  BY <1>1, <1>2, ByRows, JoinedRows
<1> DEFINE I == {i \in DOMAIN all : \A j \in DOMAIN all : all[j].row.key = all[i].row.key => i <= j}
<1>4. DownloadClients(s) = Picked(all, I)
  BY <1>2 DEF DownloadClients, Firsts
<1>5. I \in SUBSET DOMAIN all
  OBVIOUS
<1> HIDE DEF I
<1> QED
  BY <1>3, <1>4, <1>5, SomeRows

LEMMA ItemsRead ==
    ASSUME NEW s, WellRead(s), NEW m
    PROVE  /\ IsRows(SeriesInserts(s, m)) /\ IsRows(MovieInserts(s, m)) /\ IsRows(Episodes(s))
           /\ \A i \in DOMAIN SeriesInserts(s, m) : \E x \in ToSet(s.sonarr.series) :
                 /\ SeriesInserts(s, m)[i].old = x.id /\ SeriesInserts(s, m)[i].from = <<"sonarr", x.id>>
                 /\ SeriesInserts(s, m)[i].profile = x.profile
           /\ \A i \in DOMAIN MovieInserts(s, m) : \E x \in ToSet(s.radarr.movies) :
                 /\ MovieInserts(s, m)[i].old = x.id /\ MovieInserts(s, m)[i].from = <<"radarr", x.id>>
                 /\ MovieInserts(s, m)[i].profile = x.profile + RADARR_PROFILE_OFFSET
           /\ \A i \in DOMAIN Episodes(s) : \E x \in ToSet(s.sonarr.episodes) :
                 /\ Episodes(s)[i].from = <<"sonarr", x.id>> /\ Episodes(s)[i].series = x.series
                 /\ Episodes(s)[i].file = x.file /\ Episodes(s)[i].old = x.id
                 /\ Episodes(s)[i].number = x.number
<1>1. IsRows(s.sonarr.series) /\ IsRows(s.radarr.movies) /\ IsRows(s.sonarr.episodes)
  BY TablesRead, SMTT(40)
<1>2. PICK a : a = SeriesInserts(s, m)
  OBVIOUS
<1>3. /\ DOMAIN a = DOMAIN s.sonarr.series /\ a = [i \in DOMAIN s.sonarr.series |-> a[i]]
      /\ \A i \in DOMAIN s.sonarr.series :
            /\ a[i].old = s.sonarr.series[i].id /\ a[i].from = <<"sonarr", s.sonarr.series[i].id>>
            /\ a[i].profile = s.sonarr.series[i].profile
  BY <1>2, SMTT(40) DEF SeriesInserts, Apply
<1>4. PICK b : b = MovieInserts(s, m)
  OBVIOUS
<1>5. /\ DOMAIN b = DOMAIN s.radarr.movies /\ b = [i \in DOMAIN s.radarr.movies |-> b[i]]
      /\ \A i \in DOMAIN s.radarr.movies :
            /\ b[i].old = s.radarr.movies[i].id /\ b[i].from = <<"radarr", s.radarr.movies[i].id>>
            /\ b[i].profile = s.radarr.movies[i].profile + RADARR_PROFILE_OFFSET
  BY <1>4, SMTT(40) DEF MovieInserts, Apply
<1>6. PICK c : c = Episodes(s)
  OBVIOUS
<1>7. /\ DOMAIN c = DOMAIN s.sonarr.episodes /\ c = [i \in DOMAIN s.sonarr.episodes |-> c[i]]
      /\ \A i \in DOMAIN s.sonarr.episodes :
            /\ c[i].from = <<"sonarr", s.sonarr.episodes[i].id>>
            /\ c[i].series = s.sonarr.episodes[i].series /\ c[i].file = s.sonarr.episodes[i].file
            /\ c[i].old = s.sonarr.episodes[i].id /\ c[i].number = s.sonarr.episodes[i].number
  BY <1>6 DEF Episodes, Apply
<1>8. IsRows(a) /\ IsRows(b) /\ IsRows(c)
  BY <1>1, <1>3, <1>5, <1>7, SameRows
<1>9. \A i \in DOMAIN a : \E x \in ToSet(s.sonarr.series) :
         a[i].old = x.id /\ a[i].from = <<"sonarr", x.id>> /\ a[i].profile = x.profile
  BY <1>3, RowOfSet
<1>10. \A i \in DOMAIN b : \E x \in ToSet(s.radarr.movies) :
          b[i].old = x.id /\ b[i].from = <<"radarr", x.id>> /\ b[i].profile = x.profile + RADARR_PROFILE_OFFSET
  BY <1>5, RowOfSet, ZenonT(40)
<1>11. \A i \in DOMAIN c : \E x \in ToSet(s.sonarr.episodes) :
          /\ c[i].from = <<"sonarr", x.id>> /\ c[i].series = x.series
          /\ c[i].file = x.file /\ c[i].old = x.id /\ c[i].number = x.number
  BY <1>7, RowOfSet
<1> QED
  BY <1>2, <1>4, <1>6, <1>8, <1>9, <1>10, <1>11

LEMMA DataRows ==
    ASSUME NEW s, WellRead(s), NEW m, NEW d, d = build_migration_data(s, m)
    PROVE  /\ d.tags = MergedTags(s) /\ d.formats = MergedFormats(s) /\ d.profiles = Profiles(s)
           /\ d.folders = Folders(s, m) /\ d.indexers = Indexers(s) /\ d.clients = DownloadClients(s)
           /\ d.series = SeriesInserts(s, m) /\ d.files = MediaFiles(s) /\ d.episodes = Episodes(s)
           /\ d.movies = MovieInserts(s, m) /\ d.blocklist = Blocklist(s)
           /\ \A t \in {"tags", "formats", "profiles", "folders", "indexers", "clients", "series",
                        "files", "episodes", "movies", "blocklist"} : IsRows(d[t])
<1>1. /\ d.tags = MergedTags(s) /\ d.formats = MergedFormats(s) /\ d.profiles = Profiles(s)
      /\ d.folders = Folders(s, m) /\ d.indexers = Indexers(s) /\ d.clients = DownloadClients(s)
      /\ d.series = SeriesInserts(s, m) /\ d.files = MediaFiles(s) /\ d.episodes = Episodes(s)
      /\ d.movies = MovieInserts(s, m) /\ d.blocklist = Blocklist(s)
  BY DEF build_migration_data
<1>2. IsRows(d.tags) /\ IsRows(d.folders) /\ IsRows(d.indexers) /\ IsRows(d.clients)
  BY <1>1, TagsMerged, FoldersMerged, IndexersMerged, ClientsMerged
<1>3. IsRows(d.formats) /\ IsRows(d.profiles) /\ IsRows(d.files) /\ IsRows(d.blocklist)
  BY <1>1, FormatsMerged, ProfilesRead, FilesRead, BlocklistRead
<1>4. IsRows(d.series) /\ IsRows(d.episodes) /\ IsRows(d.movies)
  BY <1>1, ItemsRead
<1> QED
  BY <1>1, <1>2, <1>3, <1>4

-----------------------------------------------------------------------------
(*************************************************************************)
(* The order of the statements of a run, and the invariant: which        *)
(* tables a run has filled, how their rows are numbered, and what each   *)
(* of them refers to.                                                    *)
(*************************************************************************)

(* The steps of a run, in order; each but a few is named for the table it fills. *)
Rank(step) ==
    CASE step = "tags"     -> 1  [] step = "formats"   -> 2  [] step = "profiles" -> 3
      [] step = "scores"   -> 4  [] step = "folders"   -> 5  [] step = "naming"   -> 6
      [] step = "indexers" -> 7  [] step = "clients"   -> 8  [] step = "series"   -> 9
      [] step = "files"    -> 10 [] step \in {"episodes", "joins"} -> 11
      [] step = "seasons"  -> 12 [] step = "movies"    -> 13 [] step = "links"    -> 14
      [] step = "blocklist" -> 15 [] step = "commit"   -> 16 [] OTHER -> 0

Written(t) == Rank(at) > Rank(t)

(* What was read of the databases is known while it is merged and after.     *)
SourcesKnown ==
    /\ WellRead(src)
    /\ \A k \in DOMAIN log : WellRead(log[k].src)
    /\ at # "idle" => log[Len(log)].src = src
    /\ at \notin {"idle", "read"} => data = build_migration_data(src, maps)

(* Every row has an id of its own, which its sequence gave. *)
IdsNumbered ==
    \A t \in Owned :
        /\ next[t] \in Nat
        /\ \A r \in db[t] \cup tx[t] : r.id \in 1..next[t]
        /\ \A r, q \in db[t] \cup tx[t] : r.id = q.id => r = q

(* A table is empty before its step, and has what was merged after it. *)
TablesFilled ==
    /\ \A t \in Owned \cup {"joins"} : ~Written(t) => tx[t] = {}
    /\ Written("profiles") =>
          \A n \in DOMAIN data.profiles : \E p \in tx.profiles : p.row = data.profiles[n]
    /\ Written("formats") =>
          \A n \in DOMAIN data.formats : \E f \in tx.formats : f.row.index = n
    /\ \A p, q \in tx.profiles : p.row.old = q.row.old => p = q

(* What a row refers to is a row of the same run, or a folder of an earlier one. *)
ReadOf(r) == log[r.run].src

Named(t, id, r, from) ==
    \E q \in db[t] \cup tx[t] : q.run = r.run /\ q.id = id /\ q.row.from = from

InFolder(r) ==
    r.row.folder # 0 =>
        \E f \in db.folders \cup tx.folders :
            f.run <= r.run /\ f.id = r.row.folder /\ IsPrefix(f.row.path, r.row.path)

ItemRefers(app, t, r) ==
    /\ \E x \in ToSet(ReadOf(r)[app][t]) :
          /\ r.row.old = x.id /\ r.row.from = <<app, x.id>>
          /\ x.profile \in {y.id : y \in ToSet(ReadOf(r)[app].profiles)} =>
                Named("profiles", r.row.profile, r, <<app, x.profile>>)
    /\ InFolder(r)

ProfileRefers(r) ==
    \E app \in {"sonarr", "radarr"} : \E x \in ToSet(ReadOf(r)[app].profiles) :
        r.row = ProfileOfApp(ReadOf(r), app, x)

FormatRefers(r) ==
    /\ r.row.index \in DOMAIN MergedFormats(ReadOf(r))
    /\ r.row.key = MergedFormats(ReadOf(r))[r.row.index].row.name.key

FileRefers(r) ==
    \E app \in {"sonarr", "radarr"} : \E x \in ToSet(ReadOf(r)[app].files) :
        r.row.old = x.id /\ r.row.from = <<app, x.id>> /\ r.row.media = Media(app)

EpisodeRefers(r) ==
    \E x \in ToSet(ReadOf(r).sonarr.episodes) :
        r.row.from = <<"sonarr", x.id>> /\ Named("series", r.row.series, r, <<"sonarr", x.series>>)

BlockedRefers(r) ==
    \E app \in {"sonarr", "radarr"} : \E x \in ToSet(ReadOf(r)[app].blocklist) :
        /\ r.row.from = <<app, x.id>> /\ r.row.media = Media(app)
        /\ Named(IF app = "sonarr" THEN "series" ELSE "movies", r.row.item, r, <<app, x.item>>)

(* A score is the last that the profile of its row gives the name of its format. *)
Scores(y, p, f, app, x, i) ==
    /\ y.row.profile = p.id /\ f.run = y.run /\ f.id = y.row.format
    /\ {f.row.key} = Keys(ReadOf(y), app, x.scores[i].format) /\ y.row.score = x.scores[i].score

ScoreRefers(y) ==
    \E p \in db.profiles \cup tx.profiles, f \in db.formats \cup tx.formats :
       p.run = y.run /\
       \E app \in {"sonarr", "radarr"} : \E x \in ToSet(ReadOf(y)[app].profiles) :
          /\ p.row.from = <<app, x.id>>
          /\ \E i \in LastScored(ReadOf(y), app, x.scores) : Scores(y, p, f, app, x, i)

RowRefers(t, r) ==
    /\ t = "profiles" => ProfileRefers(r)
    /\ t = "formats" => FormatRefers(r)
    /\ t = "scores" => ScoreRefers(r)
    /\ t = "series" => ItemRefers("sonarr", "series", r)
    /\ t = "movies" => ItemRefers("radarr", "movies", r)
    /\ t = "files" => FileRefers(r)
    /\ t = "episodes" => EpisodeRefers(r)
    /\ t = "blocklist" => BlockedRefers(r)

RowsRefer == \A t \in Owned : \A r \in db[t] \cup tx[t] : r.run > 0 => RowRefers(t, r)

JoinRefers(j, e) ==
    /\ e.id = j.episode /\ e.run > 0
    /\ \E x \in ToSet(ReadOf(e).sonarr.episodes) :
          e.row.from = <<"sonarr", x.id>> /\ Named("files", j.file, e, <<"sonarr", x.file>>)

JoinsRefer ==
    /\ \A j \in db.joins : \E e \in db.episodes : JoinRefers(j, e)
    /\ \A j \in tx.joins : \E e \in tx.episodes : JoinRefers(j, e)

(* Every score that counts is there once the scores are written. *)
ScoresThere(p) ==
    \A app \in {"sonarr", "radarr"} : \A x \in ToSet(ReadOf(p)[app].profiles) :
        p.row.from = <<app, x.id>> =>
            \A i \in LastScored(ReadOf(p), app, x.scores) :
                \E y \in db.scores \cup tx.scores, f \in db.formats \cup tx.formats :
                    y.run = p.run /\ Scores(y, p, f, app, x, i)

AllScores ==
    /\ \A p \in db.profiles : p.run > 0 => ScoresThere(p)
    /\ Written("scores") => \A p \in tx.profiles : ScoresThere(p)

RInv == SourcesKnown /\ IdsNumbered /\ TablesFilled /\ RowsRefer /\ JoinsRefer /\ AllScores

-----------------------------------------------------------------------------
(* A statement of the transaction moves it one step on, and fills the table  *)
(* of the step, if that has a sequence, with numbered rows.                  *)
Fills(t, rows) ==
    IsRows(rows) /\ tx'[t] = Numbered(t, rows) /\ next'[t] = next[t] + Len(rows)

Advances ==
    /\ Writes /\ maps' = maps
    /\ Rank(at') = Rank(at) + 1
    /\ \A t \in Owned :
          /\ Rank(t) = Rank(at) => \E rows : Fills(t, rows)
          /\ Rank(t) # Rank(at) => tx'[t] = tx[t] /\ next'[t] = next[t]
    /\ at # "episodes" => tx'.joins = tx.joins

LEMMA OwnedTables ==
    /\ {"tags", "formats", "profiles", "scores", "folders", "indexers", "clients", "series",
        "files", "episodes", "movies", "blocklist"} = Owned
    /\ Owned \subseteq Tables /\ "joins" \in Tables \ Owned
BY DEF Owned, RunTables, Tables

LEMMA Ranks ==
    /\ Rank("idle") = 0 /\ Rank("read") = 0 /\ Rank("begin") = 0
    /\ Rank("tags") = 1 /\ Rank("formats") = 2 /\ Rank("profiles") = 3 /\ Rank("scores") = 4
    /\ Rank("folders") = 5 /\ Rank("naming") = 6 /\ Rank("indexers") = 7 /\ Rank("clients") = 8
    /\ Rank("series") = 9 /\ Rank("files") = 10 /\ Rank("episodes") = 11 /\ Rank("joins") = 11
    /\ Rank("seasons") = 12 /\ Rank("movies") = 13 /\ Rank("links") = 14
    /\ Rank("blocklist") = 15 /\ Rank("commit") = 16
BY DEF Rank

LEMMA OwnRanks == \A t, u \in Owned : Rank(t) = Rank(u) => t = u
BY OwnedTables, Ranks

LEMMA InsertAdvances ==
    ASSUME Shapes, Writes, NEW t \in Owned, at = t, NEW rows, IsRows(rows), Insert(t, rows),
           NEW step, Goto(step), Rank(step) = Rank(t) + 1
    PROVE  Advances
<1>1. /\ tx' = [tx EXCEPT ![t] = Numbered(t, rows)]
      /\ next' = [next EXCEPT ![t] = @ + Len(rows)]
  BY DEF Insert
<1>2. /\ tx'[t] = Numbered(t, rows) /\ next'[t] = next[t] + Len(rows)
      /\ \A u \in Tables : u # t => tx'[u] = tx[u] /\ next'[u] = next[u]
  BY <1>1, OwnedTables DEF Shapes
<1>3. at' = step /\ maps' = maps
  BY DEF Goto
<1>4. Fills(t, rows)
  BY <1>2 DEF Fills
<1>5. tx'.joins = tx.joins
  BY <1>2, OwnedTables
<1>6. \A u \in Owned : u # t => tx'[u] = tx[u] /\ next'[u] = next[u]
  BY <1>2, OwnedTables
<1> QED
  BY <1>3, <1>4, <1>5, <1>6, OwnRanks DEF Advances

(* The scores of a profile, and all of them, are finitely many. *)
LEMMA ProfileScores ==
    ASSUME SourcesKnown, at \notin {"idle", "read"}, NEW p \in ToSet(data.profiles)
    PROVE  \E app \in {"sonarr", "radarr"} : \E x \in ToSet(src[app].profiles) :
              /\ p = ProfileOfApp(src, app, x)
              /\ IsRows(x.scores) /\ p.scores = FormatScores(src, app, x.scores) /\ IsRows(p.scores)
<1>1. WellRead(src) /\ data.profiles = Profiles(src)
  BY DataRows DEF SourcesKnown
<1>a. PICK n \in DOMAIN data.profiles : data.profiles[n] = p
  BY RowOfSet
<1>b. PICK app \in {"sonarr", "radarr"} :
         \E x \in ToSet(src[app].profiles) : data.profiles[n] = ProfileOfApp(src, app, x)
  BY <1>1, <1>a, ProfilesRead
<1>2. PICK x \in ToSet(src[app].profiles) : p = ProfileOfApp(src, app, x)
  BY <1>a, <1>b
<1>3. x \in ToSet(Sources[app].profiles)
  BY <1>1, TablesRead
<1>4. IsRows(x.scores)
  BY <1>3, SourcesRead DEF Databases, IsRows
<1>5. p.scores = FormatScores(src, app, x.scores)
  BY <1>2, ProfileColumns
<1>6. IsRows(p.scores)
  BY <1>1, <1>4, <1>5, ScoresRead
<1> QED
  BY <1>2, <1>4, <1>5, <1>6

ScoreRow(p, n) ==
    [profile |-> ProfileId(p.old), format |-> FormatId(p.scores[n].index), score |-> p.scores[n].score]

LEMMA LastScoresOf ==
    ASSUME NEW p
    PROVE  LastScores(p) = {ScoreRow(p, n) : n \in LastWritten(p.scores)}
BY DEF LastScores, LastWritten, ScoreRow

NewScores == UNION {LastScores(p) : p \in ToSet(data.profiles)}

LEMMA FiniteScores ==
    ASSUME SourcesKnown, at \notin {"idle", "read"}
    PROVE  IsFiniteSet(NewScores)
<1>1. ASSUME NEW p \in ToSet(data.profiles)
      PROVE  IsFiniteSet(LastScores(p))
  <2> DEFINE D == LastWritten(p.scores)
             f == [n \in D |-> ScoreRow(p, n)]
  <2>1. IsRows(p.scores)
    BY ProfileScores
  <2>2. IsFiniteSet(DOMAIN p.scores)
    <3>1. PICK n \in Nat : DOMAIN p.scores = 1..n
      BY <2>1, RowsType
    <3>2. IsFiniteSet(1..n)
      BY <3>1, FS_Interval
    <3> QED
      BY <3>1, <3>2
  <2>3. IsFiniteSet(D)
    BY <2>2, FS_Subset DEF LastWritten
  <2>4. IsFiniteSet({f[n] : n \in D})
    <3>1. f = [n \in D |-> f[n]]
      OBVIOUS
    <3> HIDE DEF f, D
    <3> QED
      BY <2>3, <3>1, FiniteImage
  <2>5. {f[n] : n \in D} = LastScores(p)
    BY LastScoresOf
  <2> QED
    BY <2>4, <2>5
<1> DEFINE g == [i \in DOMAIN data.profiles |-> LastScores(data.profiles[i])]
           S == {g[i] : i \in DOMAIN data.profiles}
<1>2. IsFiniteSet(DOMAIN data.profiles)
  <2>1. IsRows(data.profiles)
    BY DataRows DEF SourcesKnown
  <2> QED
    BY <2>1, RowsType, FS_Interval
<1>3. IsFiniteSet(S)
  <2>1. g = [i \in DOMAIN data.profiles |-> g[i]]
    OBVIOUS
  <2> HIDE DEF g
  <2> QED
    BY <1>2, <2>1, FiniteImage
<1>4. S = {LastScores(p) : p \in ToSet(data.profiles)}
  BY DEF ToSet
<1>5. \A T \in S : IsFiniteSet(T)
  BY <1>1, <1>4
<1>6. IsFiniteSet(UNION S)
  <2> HIDE DEF S
  <2> QED
    BY <1>3, <1>5, FS_UNION
<1> QED
  BY <1>4, <1>6 DEF NewScores

LEMMA DataShapes ==
    ASSUME SourcesKnown, at \notin {"idle", "read"}
    PROVE  \A t \in {"tags", "formats", "profiles", "folders", "indexers", "clients", "series",
                     "files", "episodes", "movies", "blocklist"} : IsRows(data[t])
BY DataRows DEF SourcesKnown

LEMMA PlainAdvances ==
    ASSUME Shapes, RunsNumbered, LinksScanned, SourcesKnown,
           WriteTags \/ WriteCustomFormats \/ WriteFormatScores \/ WriteMediaLibraryFolders
             \/ WriteIndexers \/ WriteDownloadClients \/ WriteBlocklist
    PROVE  Advances
<1>0. Writes
  BY PlainWrites
<1>1. \A t \in {"tags", "formats", "profiles", "folders", "indexers", "clients", "series",
                 "files", "episodes", "movies", "blocklist"} : at = t => IsRows(data[t])
  BY DataShapes
<1>2. ASSUME NEW t \in Owned, at = t, NEW rows, IsRows(rows), Insert(t, rows), NEW step, Goto(step),
             Rank(step) = Rank(t) + 1
      PROVE  Advances
  BY <1>0, <1>2, InsertAdvances DEF Writes, Shapes
<1>3. CASE WriteTags
  <2> DEFINE I == {i \in DOMAIN data.tags : data.tags[i] \notin {t.row : t \in db.tags}}
  <2>1. at = "tags" /\ Insert("tags", Picked(data.tags, I)) /\ Goto("formats")
    BY <1>3 DEF WriteTags, Only
  <2>2. I \in SUBSET DOMAIN data.tags /\ IsRows(data.tags)
    BY <1>1, <2>1
  <2>3. IsRows(Picked(data.tags, I))
    <3> HIDE DEF I
    <3> QED
      BY <2>2, SomeRows
  <2> QED
    BY <1>2, <2>1, <2>3, OwnedTables, Ranks
<1>4. CASE WriteCustomFormats
  <2>1. PICK rows : /\ rows = [i \in DOMAIN data.formats |->
                                  [index |-> i, key |-> data.formats[i].row.name.key]]
                    /\ Insert("formats", rows)
    BY <1>4 DEF WriteCustomFormats
  <2>2. at = "formats" /\ Goto("profiles")
    BY <1>4 DEF WriteCustomFormats
  <2>3. DOMAIN rows = DOMAIN data.formats /\ rows = [i \in DOMAIN data.formats |-> rows[i]]
    BY <2>1
  <2>4. IsRows(rows)
    BY <1>1, <2>2, <2>3, SameRows
  <2> QED
    BY <1>2, <2>1, <2>2, <2>4, OwnedTables, Ranks
<1>5. CASE WriteFormatScores
  <2>1. at = "scores" /\ Insert("scores", SetToSeq(NewScores)) /\ Goto("folders")
    BY <1>5 DEF WriteFormatScores, NewScores
  <2>2. IsRows(SetToSeq(NewScores))
    BY <2>1, FiniteScores, SetListed
  <2> QED
    BY <1>2, <2>1, <2>2, OwnedTables, Ranks
<1>6. CASE WriteMediaLibraryFolders
  <2> DEFINE I == {i \in DOMAIN data.folders : data.folders[i].path \notin {x.row.path : x \in db.folders}}
  <2>1. PICK new : new = Picked(data.folders, I)
    OBVIOUS
  <2> DEFINE J == {i \in DOMAIN new : \A j \in DOMAIN new : new[j].path = new[i].path => i <= j}
  <2>2. PICK rows : rows = Picked(new, J)
    OBVIOUS
  <2>3. at = "folders" /\ Goto("naming")
    BY <1>6 DEF WriteMediaLibraryFolders
  <2>4. Insert("folders", rows)
    <3>1. new = Only(data.folders, LAMBDA f : f.path \notin {x.row.path : x \in db.folders})
      BY <2>1 DEF Only
    <3>2. rows = Firsts(new, LAMBDA f : f.path)
      BY <2>2 DEF Firsts
    <3> QED
      BY <1>6, <3>1, <3>2 DEF WriteMediaLibraryFolders
  <2>5. IsRows(new)
    <3>1. I \in SUBSET DOMAIN data.folders /\ IsRows(data.folders)
      BY <1>1, <2>3
    <3> HIDE DEF I
    <3> QED
      BY <2>1, <3>1, SomeRows
  <2>6. IsRows(rows)
    <3>1. J \in SUBSET DOMAIN new
      OBVIOUS
    <3> HIDE DEF J
    <3> QED
      BY <2>2, <2>5, <3>1, SomeRows
  <2> QED
    BY <1>2, <2>3, <2>4, <2>6, OwnedTables, Ranks
<1>7. CASE WriteIndexers
  <2>1. at = "indexers" /\ Insert("indexers", data.indexers) /\ Goto("clients")
    BY <1>7 DEF WriteIndexers
  <2> QED
    BY <1>1, <1>2, <2>1, OwnedTables, Ranks
<1>8. CASE WriteDownloadClients
  <2>1. at = "clients" /\ Insert("clients", data.clients) /\ Goto("series")
    BY <1>8 DEF WriteDownloadClients
  <2> QED
    BY <1>1, <1>2, <2>1, OwnedTables, Ranks
<1>9. CASE WriteBlocklist
  <2> DEFINE I == {i \in DOMAIN data.blocklist : ItemId(data.blocklist[i]) # 0}
  <2>1. PICK known : known = Picked(data.blocklist, I)
    OBVIOUS
  <2>2. at = "blocklist" /\ Goto("commit")
    BY <1>9 DEF WriteBlocklist
  <2>3. IsRows(known)
    <3>1. I \in SUBSET DOMAIN data.blocklist /\ IsRows(data.blocklist)
      BY <1>1, <2>2
    <3> HIDE DEF I
    <3> QED
      BY <2>1, <3>1, SomeRows
  <2>4. PICK rows : /\ rows = [i \in DOMAIN known |-> [media |-> known[i].media, item |-> ItemId(known[i]),
                                                        from |-> known[i].from]]
                    /\ Insert("blocklist", rows)
    BY <1>9, <2>1 DEF WriteBlocklist, Only
  <2>5. DOMAIN rows = DOMAIN known /\ rows = [i \in DOMAIN known |-> rows[i]]
    BY <2>4
  <2>6. IsRows(rows)
    BY <2>3, <2>5, SameRows
  <2> QED
    BY <1>2, <2>2, <2>4, <2>6, OwnedTables, Ranks
<1> QED
  BY <1>3, <1>4, <1>5, <1>6, <1>7, <1>8, <1>9

LEMMA ItemsAdvance ==
    ASSUME Shapes, RunsNumbered, LinksScanned, SourcesKnown,
           WriteQualityProfiles \/ WriteMediaFiles \/ WriteSeries
    PROVE  Advances
<1>0. Writes
  BY ProfilesWrite, FilesWrite, SeriesWrite
<1>1. \A t \in {"profiles", "series", "files"} : at = t => IsRows(data[t])
  BY DataShapes
<1>2. ASSUME NEW t \in Owned, at = t, NEW rows, IsRows(rows), Insert(t, rows), NEW step, Goto(step),
             Rank(step) = Rank(t) + 1
      PROVE  Advances
  BY <1>0, <1>2, InsertAdvances
<1>3. CASE WriteQualityProfiles
  <2>1. at = "profiles" /\ Insert("profiles", data.profiles) /\ Goto("scores")
    BY <1>3 DEF WriteQualityProfiles
  <2> QED
    BY <1>1, <1>2, <2>1, OwnedTables, Ranks
<1>4. CASE WriteMediaFiles
  <2>1. at = "files" /\ Insert("files", data.files) /\ Goto("episodes")
    BY <1>4 DEF WriteMediaFiles
  <2> QED
    BY <1>1, <1>2, <2>1, OwnedTables, Ranks
<1>5. CASE WriteSeries
  <2>1. PICK rows : /\ Insert("series", rows)
                    /\ DOMAIN rows = DOMAIN data.series /\ rows = [i \in DOMAIN data.series |-> rows[i]]
    BY <1>5 DEF WriteSeries
  <2>2. at = "series" /\ Goto("files")
    BY <1>5 DEF WriteSeries
  <2>3. IsRows(rows)
    BY <1>1, <2>1, <2>2, SameRows
  <2> QED
    BY <1>2, <2>1, <2>2, <2>3, OwnedTables, Ranks
<1> QED
  BY <1>3, <1>4, <1>5

LEMMA EpisodesChosen ==
    ASSUME SourcesKnown, at \notin {"idle", "read"}
    PROVE  /\ IsRows(NewEpisodes)
           /\ \A i \in DOMAIN NewEpisodes :
                 /\ SeriesId(NewEpisodes[i].series) # 0
                 /\ \E n \in DOMAIN data.episodes : NewEpisodes[i] = data.episodes[n]
<1> DEFINE I == {i \in DOMAIN data.episodes : SeriesId(data.episodes[i].series) # 0}
<1>1. PICK known : known = Picked(data.episodes, I)
  OBVIOUS
<1>2. known = KnownEpisodes
  BY <1>1 DEF KnownEpisodes, Only
<1> DEFINE J == {i \in DOMAIN known : \A j \in DOMAIN known :
                    <<known[j].series, known[j].number>> = <<known[i].series, known[i].number>> => i <= j}
<1>3. PICK new : new = Picked(known, J)
  OBVIOUS
<1>4. new = NewEpisodes
  BY <1>2, <1>3 DEF NewEpisodes, Firsts
<1>5. I \in SUBSET DOMAIN data.episodes /\ IsRows(data.episodes)
  BY DataShapes
<1>6. /\ IsRows(known)
      /\ \A n \in DOMAIN known : Nth(I, n) \in I /\ known[n] = data.episodes[Nth(I, n)]
  <2> HIDE DEF I
  <2> QED
    BY <1>1, <1>5, PickedRows
<1>7. J \in SUBSET DOMAIN known
  OBVIOUS
<1>8. /\ IsRows(new)
      /\ \A n \in DOMAIN new : Nth(J, n) \in J /\ new[n] = known[Nth(J, n)]
  <2> HIDE DEF J
  <2> QED
    BY <1>3, <1>6, <1>7, PickedRows
<1>9. ASSUME NEW n \in DOMAIN new
      PROVE  SeriesId(new[n].series) # 0 /\ \E m \in DOMAIN data.episodes : new[n] = data.episodes[m]
  <2>1. PICK k \in DOMAIN known : new[n] = known[k]
    BY <1>7, <1>8
  <2>2. PICK m \in I : known[k] = data.episodes[m]
    BY <1>6
  <2> QED
    BY <2>1, <2>2
<1> QED
  BY <1>4, <1>8, <1>9

EpisodeRow(e) ==
    [old |-> e.old, from |-> e.from, series |-> SeriesId(e.series), number |-> e.number]

(* What the writer of the episodes does to the tables. *)
LEMMA EpisodesInserted ==
    ASSUME Shapes, WriteEpisodes
    PROVE  /\ at = "episodes" /\ at' = "seasons" /\ maps' = maps
           /\ tx'.episodes = Numbered("episodes", [i \in DOMAIN NewEpisodes |-> EpisodeRow(NewEpisodes[i])])
           /\ next'.episodes = next.episodes + Len(NewEpisodes)
           /\ tx'.joins = {[episode |-> next.episodes + i, file |-> EpisodeFile(NewEpisodes[i])] :
                              i \in {j \in DOMAIN NewEpisodes : EpisodeFile(NewEpisodes[j]) # 0}}
           /\ \A t \in Owned \ {"episodes"} : tx'[t] = tx[t] /\ next'[t] = next[t]
<1>1. PICK rows : rows = [i \in DOMAIN NewEpisodes |-> EpisodeRow(NewEpisodes[i])]
  OBVIOUS
<1>2. PICK joins : joins = {[episode |-> next.episodes + i, file |-> EpisodeFile(NewEpisodes[i])] :
                               i \in {j \in DOMAIN NewEpisodes : EpisodeFile(NewEpisodes[j]) # 0}}
  OBVIOUS
<1>3. PICK written : tx' = [tx EXCEPT !["episodes"] = Numbered("episodes", rows), !["links"] = written,
                                      !["joins"] = joins]
  BY <1>1, <1>2 DEF WriteEpisodes, EpisodeRow
<1>4. next' = [next EXCEPT !["episodes"] = @ + Len(NewEpisodes)]
  BY DEF WriteEpisodes
<1>5. at = "episodes" /\ at' = "seasons" /\ maps' = maps
  BY DEF WriteEpisodes
<1>6. tx'.episodes = Numbered("episodes", rows) /\ tx'.joins = joins
  BY <1>3, TableNames DEF Shapes
<1>7. next'.episodes = next.episodes + Len(NewEpisodes)
  BY <1>4, TableNames DEF Shapes
<1>8. \A t \in Owned \ {"episodes"} : t # "links" /\ t # "joins" /\ t \in Tables
  BY OwnedTables, TableNames
<1>9. \A t \in Owned \ {"episodes"} : tx'[t] = tx[t] /\ next'[t] = next[t]
  BY <1>3, <1>4, <1>8 DEF Shapes
<1> QED
  BY <1>1, <1>2, <1>5, <1>6, <1>7, <1>9

LEMMA EpisodesAdvance ==
    ASSUME Shapes, RunsNumbered, LinksScanned, SourcesKnown, WriteEpisodes
    PROVE  Advances
<1>0. Writes
  BY EpisodesWrite
<1>1. at = "episodes" /\ at' = "seasons" /\ maps' = maps
  BY EpisodesInserted
<1>2. IsRows(NewEpisodes)
  BY <1>1, EpisodesChosen
<1>3. PICK rows : rows = [i \in DOMAIN NewEpisodes |-> EpisodeRow(NewEpisodes[i])]
  OBVIOUS
<1>4. DOMAIN rows = DOMAIN NewEpisodes /\ rows = [i \in DOMAIN NewEpisodes |-> rows[i]]
  BY <1>3
<1>5. IsRows(rows) /\ Len(rows) = Len(NewEpisodes)
  BY <1>2, <1>4, SameRows
<1>6. Fills("episodes", rows)
  BY <1>3, <1>5, EpisodesInserted DEF Fills
<1>7. \A t \in Owned : Rank(t) = Rank(at) => t = "episodes"
  BY <1>1, OwnedTables, Ranks
<1>8. \A t \in Owned : Rank(t) # Rank(at) => tx'[t] = tx[t] /\ next'[t] = next[t]
  BY <1>1, EpisodesInserted
<1> QED
  BY <1>0, <1>1, <1>6, <1>7, <1>8, Ranks DEF Advances

MovieRow(m, folder, profile) ==
    [old |-> m.old, from |-> m.from, path |-> m.path, folder |-> folder, profile |-> profile,
     tags |-> TagIds(MappedTags(src, m.tags))]

LEMMA MoviesInserted ==
    ASSUME Shapes, WriteMovies
    PROVE  /\ at = "movies" /\ at' = "links" /\ maps' = maps
           /\ \E profile \in [DOMAIN data.movies -> 1..next.profiles],
                 folder \in [DOMAIN data.movies -> 0..next.folders] :
                 /\ \A i \in DOMAIN data.movies :
                       /\ profile[i] \in MovieProfileIds(data.movies[i])
                       /\ folder[i] \in FoldersFor(data.movies[i].path)
                 /\ tx'.movies = Numbered("movies",
                       [i \in DOMAIN data.movies |-> MovieRow(data.movies[i], folder[i], profile[i])])
           /\ next'.movies = next.movies + Len(data.movies)
           /\ \A t \in (Owned \cup {"joins"}) \ {"movies"} : tx'[t] = tx[t]
           /\ \A t \in Owned \ {"movies"} : next'[t] = next[t]
<1>1. PICK profile \in [DOMAIN data.movies -> 1..next.profiles],
           folder \in [DOMAIN data.movies -> 0..next.folders] :
         /\ \A i \in DOMAIN data.movies :
               profile[i] \in MovieProfileIds(data.movies[i]) /\ folder[i] \in FoldersFor(data.movies[i].path)
         /\ tx' = [tx EXCEPT
               !["movies"] = Numbered("movies",
                  [i \in DOMAIN data.movies |-> MovieRow(data.movies[i], folder[i], profile[i])]),
               !["links"] = @ \cup
                   {[item |-> <<"movie", next.movies + i>>, file |-> MovieFile(data.movies[i])] :
                       i \in {j \in DOMAIN data.movies : MovieFile(data.movies[j]) # 0}}]
  BY DEF WriteMovies, MovieRow
<1>2. PICK rows : rows = [i \in DOMAIN data.movies |-> MovieRow(data.movies[i], folder[i], profile[i])]
  OBVIOUS
<1>3. PICK written : tx' = [tx EXCEPT !["movies"] = Numbered("movies", rows), !["links"] = written]
  BY <1>1, <1>2, TableNames DEF Shapes
<1>4. next' = [next EXCEPT !["movies"] = @ + Len(data.movies)]
  BY DEF WriteMovies
<1>5. at = "movies" /\ at' = "links" /\ maps' = maps
  BY DEF WriteMovies, Goto
<1>6. tx'.movies = Numbered("movies", rows) /\ next'.movies = next.movies + Len(data.movies)
  BY <1>3, <1>4, TableNames DEF Shapes
<1>7. \A t \in (Owned \cup {"joins"}) \ {"movies"} : t # "links" /\ t \in Tables
  BY OwnedTables, TableNames
<1>8. /\ \A t \in (Owned \cup {"joins"}) \ {"movies"} : tx'[t] = tx[t]
      /\ \A t \in Owned \ {"movies"} : next'[t] = next[t]
  BY <1>3, <1>4, <1>7 DEF Shapes
<1> QED
  BY <1>1, <1>2, <1>5, <1>6, <1>8

LEMMA MoviesAdvance ==
    ASSUME Shapes, RunsNumbered, LinksScanned, SourcesKnown, WriteMovies
    PROVE  Advances
<1>0. Writes
  BY MoviesWrite
<1>1. at = "movies" /\ at' = "links" /\ maps' = maps
  BY MoviesInserted
<1>2. IsRows(data.movies)
  BY <1>1, DataShapes
<1>3. PICK rows : /\ tx'.movies = Numbered("movies", rows)
                  /\ DOMAIN rows = DOMAIN data.movies /\ rows = [i \in DOMAIN data.movies |-> rows[i]]
  BY MoviesInserted
<1>4. IsRows(rows) /\ Len(rows) = Len(data.movies)
  BY <1>2, <1>3, SameRows
<1>5. Fills("movies", rows)
  BY <1>3, <1>4, MoviesInserted DEF Fills
<1>6. \A t \in Owned : Rank(t) = Rank(at) => t = "movies"
  BY <1>1, OwnedTables, Ranks
<1>7. /\ \A t \in Owned : Rank(t) # Rank(at) => tx'[t] = tx[t] /\ next'[t] = next[t]
      /\ tx'.joins = tx.joins
  BY <1>1, MoviesInserted, OwnedTables
<1> QED
  BY <1>0, <1>1, <1>5, <1>6, <1>7, Ranks DEF Advances

LEMMA OtherAdvances ==
    ASSUME Shapes, RunsNumbered, LinksScanned, SourcesKnown,
           Begin \/ WriteNamingConfig \/ WriteSeasons \/ ClearLinks
    PROVE  Advances
<1>0. Writes
  BY PlainWrites, OtherWrites
<1>1. \A t \in Owned : t \in Tables /\ t \notin {"naming", "seasons", "links", "joins"}
  BY OwnedTables, TableNames
<1>2. CASE Begin
  <2>1. at = "begin" /\ at' = "tags" /\ tx' = tx /\ next' = next /\ maps' = maps
    BY <1>2 DEF Begin, txVars
  <2> QED
    BY <1>0, <2>1, Ranks, OwnedTables DEF Advances
<1>3. ASSUME NEW t \in {"naming", "seasons", "links"}, at = t, Rank(at') = Rank(at) + 1, maps' = maps,
             \A u \in Tables : u # t => tx'[u] = tx[u] /\ next'[u] = next[u]
      PROVE  Advances
  <2>1. \A u \in Owned : tx'[u] = tx[u] /\ next'[u] = next[u]
    BY <1>1, <1>3
  <2>2. tx'.joins = tx.joins
    BY <1>3, TableNames
  <2>3. \A u \in Owned : Rank(u) # Rank(at)
    BY <1>3, OwnedTables, Ranks
  <2> QED
    BY <1>0, <1>3, <2>1, <2>2, <2>3 DEF Advances
<1>4. CASE WriteNamingConfig
  <2>1. PICK n, rows : tx' = [tx EXCEPT !["naming"] = rows] /\ next' = [next EXCEPT !["naming"] = n]
    BY <1>4 DEF WriteNamingConfig, Insert
  <2>2. at = "naming" /\ at' = "indexers" /\ maps' = maps
    BY <1>4 DEF WriteNamingConfig, Goto
  <2>3. \A u \in Tables : u # "naming" => tx'[u] = tx[u] /\ next'[u] = next[u]
    BY <2>1 DEF Shapes
  <2>4. Rank(at') = Rank(at) + 1
    BY <2>2, Ranks
  <2> QED
    BY <1>3, <2>2, <2>3, <2>4
<1>5. CASE WriteSeasons
  <2>1. at = "seasons" /\ at' = "movies" /\ maps' = maps /\ next' = next
        /\ tx' = [tx EXCEPT !["seasons"] = SeasonRows]
    BY <1>5 DEF WriteSeasons
  <2>2. \A u \in Tables : u # "seasons" => tx'[u] = tx[u] /\ next'[u] = next[u]
    BY <2>1 DEF Shapes
  <2>3. Rank(at') = Rank(at) + 1
    BY <2>1, Ranks
  <2> QED
    BY <1>3, <2>1, <2>2, <2>3
<1>6. CASE ClearLinks
  <2>1. at = "links" /\ at' = "blocklist" /\ maps' = maps /\ next' = next
        /\ tx' = [tx EXCEPT !["links"] = {}]
    BY <1>6 DEF ClearLinks
  <2>2. \A u \in Tables : u # "links" => tx'[u] = tx[u] /\ next'[u] = next[u]
    BY <2>1 DEF Shapes
  <2>3. Rank(at') = Rank(at) + 1
    BY <2>1, Ranks
  <2> QED
    BY <1>3, <2>1, <2>2, <2>3
<1> QED
  BY <1>2, <1>4, <1>5, <1>6

-----------------------------------------------------------------------------
(*************************************************************************)
(* Every step of a run and of the user keeps the numbering, the filled   *)
(* tables, and every row that another one refers to.                     *)
(*************************************************************************)

(* The steps of the transaction. *)
Statement ==
    \/ Begin
    \/ WriteTags \/ WriteCustomFormats \/ WriteQualityProfiles \/ WriteFormatScores
    \/ WriteMediaLibraryFolders \/ WriteNamingConfig \/ WriteIndexers \/ WriteDownloadClients
    \/ WriteSeries \/ WriteMediaFiles \/ WriteEpisodes \/ WriteSeasons \/ WriteMovies
    \/ ClearLinks \/ WriteBlocklist

LEMMA StatementAt ==
    ASSUME Statement
    PROVE  /\ at = "tags" => WriteTags
           /\ at = "folders" => WriteMediaLibraryFolders
           /\ at = "profiles" => WriteQualityProfiles
           /\ at = "formats" => WriteCustomFormats
           /\ at = "scores" => WriteFormatScores
           /\ at = "series" => WriteSeries
           /\ at = "files" => WriteMediaFiles
           /\ at = "episodes" => WriteEpisodes
           /\ at = "movies" => WriteMovies
           /\ at = "blocklist" => WriteBlocklist
<1>1. /\ Begin => at = "begin"
      /\ WriteTags => at = "tags"
      /\ WriteCustomFormats => at = "formats"
      /\ WriteQualityProfiles => at = "profiles"
      /\ WriteFormatScores => at = "scores"
      /\ WriteMediaLibraryFolders => at = "folders"
      /\ WriteNamingConfig => at = "naming"
      /\ WriteIndexers => at = "indexers"
      /\ WriteDownloadClients => at = "clients"
      /\ WriteSeries => at = "series"
      /\ WriteMediaFiles => at = "files"
      /\ WriteEpisodes => at = "episodes"
      /\ WriteSeasons => at = "seasons"
      /\ WriteMovies => at = "movies"
      /\ ClearLinks => at = "links"
      /\ WriteBlocklist => at = "blocklist"
  BY DEF Begin, WriteTags, WriteCustomFormats, WriteQualityProfiles, WriteFormatScores,
         WriteMediaLibraryFolders, WriteNamingConfig, WriteIndexers, WriteDownloadClients, WriteSeries,
         WriteMediaFiles, WriteEpisodes, WriteSeasons, WriteMovies, ClearLinks, WriteBlocklist
<1> QED
  BY <1>1, SMTT(40) DEF Statement

LEMMA RunSteps ==
    ASSUME MInv, SourcesKnown, MigrationNext
    PROVE  \/ Starts \/ Reads \/ Leaves \/ Commits
           \/ Advances /\ Statement
           \/ \E item \in Linkable : AppLinks(item)
           \/ \E p \in db.profiles : UserDeletesProfile(p)
<1> USE DEF MInv
<1>1. CASE Statement
  <2>1. Advances
    BY <1>1, PlainAdvances, ItemsAdvance, EpisodesAdvance, MoviesAdvance, OtherAdvances DEF Statement
  <2> QED
    BY <1>1, <2>1
<1>2. CASE Start
  BY <1>2, SourcesRead DEF Start, Starts, txVars, Databases
<1>3. CASE Read
  BY <1>3 DEF Read, Reads, txVars
<1>4. CASE DryRun \/ StatementFails \/ Interrupted
  <2>1. CASE DryRun
    BY <2>1 DEF DryRun, Leaves, Ends, Ended
  <2>2. CASE StatementFails
    <3>1. at # "idle"
      BY <2>2 DEF StatementFails, Writing, NoProfile, LinksScanned, RunsNumbered
    <3> QED
      BY <2>2, <3>1 DEF StatementFails, Leaves, Ends, Ended
  <2>3. CASE Interrupted
    BY <2>3 DEF Interrupted, Leaves, Ends, Ended
  <2> QED
    BY <1>4, <2>1, <2>2, <2>3
<1>5. CASE Commit
  BY <1>5 DEF Commit, Commits, Ends, Ended
<1>6. CASE \E item \in Linkable : AppLinks(item)
  BY <1>6
<1>7. CASE \E p \in db.profiles : UserDeletesProfile(p)
  BY <1>7
<1>8. \/ Statement \/ Start \/ Read \/ DryRun \/ StatementFails \/ Interrupted \/ Commit
      \/ (\E item \in Linkable : AppLinks(item)) \/ (\E p \in db.profiles : UserDeletesProfile(p))
  BY DEF MigrationNext, Statement
<1> QED
  BY <1>1, <1>2, <1>3, <1>4, <1>5, <1>6, <1>7, <1>8

LEMMA SourcesStep ==
    ASSUME MInv, SourcesKnown, MigrationNext
    PROVE  SourcesKnown'
<1> USE DEF MInv
<1>0. LogShape' /\ LogShape
  BY ShapesStep DEF Shapes
<1>a. /\ Len(log) \in Nat /\ DOMAIN log = 1..Len(log)
      /\ Len(log') \in Nat /\ DOMAIN log' = 1..Len(log')
  BY <1>0, RowsType DEF LogShape
<1>1. CASE Starts
  <2>1. WellRead(src')
    BY <1>1, GivenWellRead DEF Starts
  <2>2. /\ Len(log') = Len(log) + 1 /\ log'[Len(log) + 1].src = src'
        /\ \A k \in 1..Len(log) : log'[k] = log[k]
    BY <1>0, <1>1, LogStarts
  <2>3. \A k \in DOMAIN log' : WellRead(log'[k].src)
    BY <1>a, <2>1, <2>2 DEF SourcesKnown
  <2> QED
    BY <1>1, <2>1, <2>2, <2>3 DEF Starts, SourcesKnown
<1>2. CASE Reads
  <2>1. WellRead(src')
    BY <1>2, SkippedWellRead DEF Reads, SourcesKnown
  <2>2. Len(log) > 0
    BY <1>2 DEF Reads, RunsNumbered
  <2>3. /\ Len(log') = Len(log) /\ log'[Len(log)].src = src'
        /\ \A k \in DOMAIN log : k # Len(log) => log'[k] = log[k]
    BY <1>0, <1>2, <2>2, LogReads DEF Reads
  <2>4. \A k \in DOMAIN log' : WellRead(log'[k].src)
    BY <1>a, <2>1, <2>3 DEF SourcesKnown
  <2> QED
    BY <1>2, <2>1, <2>3, <2>4 DEF Reads, SourcesKnown
<1>3. ASSUME NEW outcome, Ends(outcome)
      PROVE  SourcesKnown'
  <2>1. WellRead(src')
    <3>1. DOMAIN NoTables = Applications
      BY SourcesRead DEF Databases
    <3>2. WellRead(NoTables)
      BY <3>1, GivenWellRead
    <3> QED
      BY <1>3, <3>2 DEF Ends
  <2>2. Len(log) > 0
    BY <1>3 DEF Ends, RunsNumbered
  <2>3. /\ Len(log') = Len(log) /\ log'[Len(log)].src = log[Len(log)].src
        /\ \A k \in DOMAIN log : k # Len(log) => log'[k] = log[k]
    BY <1>0, <1>3, <2>2, Ending
  <2>4. \A k \in DOMAIN log' : WellRead(log'[k].src)
    BY <1>a, <2>2, <2>3 DEF SourcesKnown
  <2> QED
    BY <1>3, <2>1, <2>4 DEF Ends, SourcesKnown
<1>4. CASE Leaves \/ Commits
  BY <1>3, <1>4 DEF Leaves, Commits
<1>5. CASE Advances
  BY <1>5 DEF Advances, Writes, SourcesKnown
<1>6. ASSUME NEW item, AppLinks(item)
      PROVE  SourcesKnown'
  BY <1>6 DEF AppLinks, SourcesKnown
<1>7. ASSUME NEW p, UserDeletesProfile(p)
      PROVE  SourcesKnown'
  BY <1>7 DEF UserDeletesProfile, SourcesKnown
<1> QED
  BY <1>1, <1>2, <1>4, <1>5, <1>6, <1>7, RunSteps

(* The rows of a statement are numbered by the sequence of their table. *)
NumberedIn(t, d, x, n) ==
    /\ n \in Nat
    /\ \A r \in d \cup x : r.id \in 1..n
    /\ \A r, q \in d \cup x : r.id = q.id => r = q

LEMMA FillsNumbered ==
    ASSUME NEW t \in Owned, IdsNumbered, tx[t] = {}, NEW rows, Fills(t, rows)
    PROVE  NumberedIn(t, db[t], tx'[t], next'[t])
<1> DEFINE n == next[t]
<1>1. Len(rows) \in Nat /\ DOMAIN rows = 1..Len(rows)
  BY RowsType DEF Fills
<1>2. n \in Nat /\ (\A r \in db[t] : r.id \in 1..n) /\ (\A r, q \in db[t] : r.id = q.id => r = q)
  BY DEF IdsNumbered
<1>3. tx'[t] = {[id |-> n + i, run |-> Len(log), row |-> rows[i]] : i \in 1..Len(rows)}
      /\ next'[t] = n + Len(rows)
  BY <1>1 DEF Fills, Numbered
<1> HIDE DEF n
<1>4. \A r \in tx'[t] : \E i \in 1..Len(rows) : r = [id |-> n + i, run |-> Len(log), row |-> rows[i]]
  BY <1>3
<1>5. n + Len(rows) \in Nat
  BY <1>1, <1>2
<1>6. \A r \in tx'[t] : r.id \in (n + 1)..(n + Len(rows))
  BY <1>1, <1>2, <1>4
<1>7. \A r, q \in tx'[t] : r.id = q.id => r = q
  BY <1>1, <1>2, <1>4
<1>8. \A r \in db[t] \cup tx'[t] : r.id \in 1..(n + Len(rows))
  BY <1>1, <1>2, <1>6
<1>9. \A r \in db[t], q \in tx'[t] : r.id # q.id
  BY <1>1, <1>2, <1>6
<1> QED
  BY <1>2, <1>3, <1>5, <1>7, <1>8, <1>9 DEF NumberedIn

LEMMA IdsStep ==
    ASSUME MInv, RInv, MigrationNext
    PROVE  IdsNumbered'
<1> USE DEF MInv, RInv
<1>0. Owned \subseteq Tables /\ Owned \subseteq RunTables
  BY OwnedTables DEF Owned
<1>a. ASSUME \A t \in Owned : NumberedIn(t, db'[t], tx'[t], next'[t])
      PROVE  IdsNumbered'
  BY <1>a DEF IdsNumbered, NumberedIn
<1>b. \A t \in Owned : NumberedIn(t, db[t], tx[t], next[t])
  BY DEF IdsNumbered, NumberedIn
<1>1. CASE Starts \/ Reads
  BY <1>1, <1>a, <1>b DEF Starts, Reads
<1>2. ASSUME next' = next, tx' = Empty, \A t \in Owned : db'[t] \subseteq db[t] \cup tx[t]
      PROVE  IdsNumbered'
  <2>1. \A t \in Owned : tx'[t] = {}
    BY <1>0, <1>2, EmptyTables
  <2>2. \A t \in Owned : NumberedIn(t, db'[t], tx'[t], next'[t])
    BY <1>2, <1>b, <2>1 DEF NumberedIn
  <2> QED
    BY <1>a, <2>2
<1>3. CASE Leaves
  BY <1>2, <1>3 DEF Leaves, Ends
<1>4. CASE Commits
  <2>1. \A t \in Owned : db'[t] \subseteq db[t] \cup tx[t]
    BY <1>0, <1>4, OwnedTables DEF Commits, Merged
  <2> QED
    BY <1>2, <1>4, <2>1 DEF Commits, Ends
<1>5. CASE Advances
  <2>1. ASSUME NEW t \in Owned
        PROVE  NumberedIn(t, db'[t], tx'[t], next'[t])
    <3>1. db'[t] = db[t]
      BY <1>5 DEF Advances, Writes
    <3>2. CASE Rank(t) # Rank(at)
      BY <1>5, <1>b, <3>1, <3>2 DEF Advances
    <3>3. CASE Rank(t) = Rank(at)
      <4>1. PICK rows : Fills(t, rows)
        BY <1>5, <3>3 DEF Advances
      <4>2. Rank(t) \in Nat
        BY OwnedTables, Ranks
      <4>3. tx[t] = {}
        BY <3>3, <4>2 DEF TablesFilled, Written
      <4> QED
        BY <3>1, <4>1, <4>3, FillsNumbered
    <3> QED
      BY <3>2, <3>3
  <2> QED
    BY <1>a, <2>1
<1>6. ASSUME NEW item, AppLinks(item)
      PROVE  IdsNumbered'
  <2>1. NumberedIn("files", db'.files, tx'.files, next'.files)
    BY FilesStep DEF FilesNumbered, NumberedIn
  <2>2. next' = [next EXCEPT !["files"] = next.files + 1]
    BY <1>6 DEF AppLinks
  <2>3. \A t \in Owned : t # "files" => t # "links" /\ t # "files" /\ db'[t] = db[t] /\ tx'[t] = tx[t] /\ next'[t] = next[t]
    BY <1>0, <1>6, <2>2, AppLinked, OwnedTables, TableNames DEF Shapes
  <2>4. \A t \in Owned : NumberedIn(t, db'[t], tx'[t], next'[t])
    BY <1>b, <2>1, <2>3
  <2> QED
    BY <1>a, <2>4
<1>7. ASSUME NEW p, UserDeletesProfile(p)
      PROVE  IdsNumbered'
  <2>1. \A t \in Owned : db'[t] \subseteq db[t] /\ tx'[t] = tx[t] /\ next'[t] = next[t]
    BY <1>0, <1>7 DEF UserDeletesProfile, txVars, Shapes
  <2>2. \A t \in Owned : NumberedIn(t, db'[t], tx'[t], next'[t])
    BY <1>b, <2>1 DEF NumberedIn
  <2> QED
    BY <1>a, <2>2
<1> QED
  BY <1>1, <1>3, <1>4, <1>5, <1>6, <1>7, RunSteps

LEMMA FilledStep ==
    ASSUME MInv, RInv, MigrationNext
    PROVE  TablesFilled'
<1> USE DEF MInv, RInv
<1>0. Owned \subseteq Tables /\ "joins" \in Tables
  BY OwnedTables
<1>a. \A t \in Owned \cup {"joins"} : Rank(t) \in 1..15
  BY OwnedTables, Ranks
<1>1. ASSUME at' \in {"idle", "read", "begin"}, tx' = Empty
      PROVE  TablesFilled'
  <2>1. Rank(at') = 0
    BY <1>1, Ranks
  <2>2. ~Written("profiles")' /\ ~Written("formats")'
    BY <2>1, Ranks DEF Written
  <2>3. tx'.profiles = {}
    BY <1>1, EmptyTables, TableNames
  <2> QED
    BY <1>0, <1>1, <2>2, <2>3, EmptyTables DEF TablesFilled
<1>2. CASE Starts \/ Reads
  BY <1>1, <1>2 DEF Starts, Reads, RunsNumbered
<1>3. CASE Leaves \/ Commits
  BY <1>1, <1>3 DEF Leaves, Commits, Ends
<1>4. CASE Advances /\ Statement
  <2>0. data' = data /\ Rank(at') = Rank(at) + 1 /\ Rank(at) \in Nat
    <3>1. Rank(at) \in Nat
      BY DEF Rank
    <3> QED
      BY <1>4, <3>1 DEF Advances, Writes
  <2>1. ASSUME NEW t \in Owned \cup {"joins"}, ~Written(t)'
        PROVE  tx'[t] = {}
    <3>1. Rank(t) > Rank(at) /\ ~Written(t)
      BY <1>a, <2>0, <2>1 DEF Written
    <3>2. tx[t] = {}
      BY <3>1 DEF TablesFilled
    <3>3. CASE t = "joins"
      <4>1. at # "episodes"
        BY <3>1, <3>3, Ranks
      <4> QED
        BY <1>4, <3>2, <3>3, <4>1 DEF Advances
    <3>4. CASE t \in Owned
      <4>1. Rank(t) # Rank(at)
        BY <1>a, <2>0, <3>1
      <4> QED
        BY <1>4, <3>2, <3>4, <4>1 DEF Advances
    <3> QED
      BY <3>3, <3>4
  <2>2. ASSUME Written("profiles")', NEW n \in DOMAIN data'.profiles
        PROVE  \E p \in tx'.profiles : p.row = data'.profiles[n]
    <3>1. CASE at = "profiles"
      <4>1. tx' = [tx EXCEPT !["profiles"] = Numbered("profiles", data.profiles)]
        BY <1>4, <3>1, StatementAt DEF WriteQualityProfiles, Insert
      <4>2. tx'.profiles = Numbered("profiles", data.profiles)
        BY <4>1, TableNames DEF Shapes
      <4>3. [id |-> next.profiles + n, run |-> Len(log), row |-> data.profiles[n]] \in tx'.profiles
        BY <2>0, <2>2, <4>2 DEF Numbered
      <4> QED
        BY <2>0, <4>3
    <3>2. CASE at # "profiles"
      <4>1. Rank(at) # Rank("profiles")
        BY <3>2, Ranks DEF Rank
      <4>2. Written("profiles") /\ tx'.profiles = tx.profiles
        BY <1>4, <2>0, <2>2, <4>1, OwnedTables, Ranks DEF Written, Advances
      <4> QED
        BY <2>0, <2>2, <4>2 DEF TablesFilled
    <3> QED
      BY <3>1, <3>2
  <2>3. ASSUME Written("formats")', NEW n \in DOMAIN data'.formats
        PROVE  \E f \in tx'.formats : f.row.index = n
    <3>1. CASE at = "formats"
      <4> DEFINE rows == [i \in DOMAIN data.formats |-> [index |-> i, key |-> data.formats[i].row.name.key]]
      <4>1. tx' = [tx EXCEPT !["formats"] = Numbered("formats", rows)]
        BY <1>4, <3>1, StatementAt DEF WriteCustomFormats, Insert
      <4>2. tx'.formats = Numbered("formats", rows)
        BY <4>1, TableNames DEF Shapes
      <4>3. [id |-> next.formats + n, run |-> Len(log), row |-> rows[n]] \in tx'.formats
        BY <2>0, <2>3, <4>2 DEF Numbered
      <4>4. rows[n].index = n
        BY <2>0, <2>3
      <4> QED
        BY <4>3, <4>4
    <3>2. CASE at # "formats"
      <4>1. Rank(at) # Rank("formats")
        BY <3>2, Ranks DEF Rank
      <4>2. Written("formats") /\ tx'.formats = tx.formats
        BY <1>4, <2>0, <2>3, <4>1, OwnedTables, Ranks DEF Written, Advances
      <4> QED
        BY <2>0, <2>3, <4>2 DEF TablesFilled
    <3> QED
      BY <3>1, <3>2
  <2>4. ASSUME NEW p \in tx'.profiles, NEW q \in tx'.profiles, p.row.old = q.row.old
        PROVE  p = q
    <3>1. CASE at = "profiles"
      <4>1. tx' = [tx EXCEPT !["profiles"] = Numbered("profiles", data.profiles)]
        BY <1>4, <3>1, StatementAt DEF WriteQualityProfiles, Insert
      <4>2. tx'.profiles = Numbered("profiles", data.profiles)
        BY <4>1, TableNames DEF Shapes
      <4>3. PICK m \in DOMAIN data.profiles :
                p = [id |-> next.profiles + m, run |-> Len(log), row |-> data.profiles[m]]
        BY <2>4, <4>2 DEF Numbered
      <4>4. PICK n \in DOMAIN data.profiles :
                q = [id |-> next.profiles + n, run |-> Len(log), row |-> data.profiles[n]]
        BY <2>4, <4>2 DEF Numbered
      <4>5. data.profiles = Profiles(src) /\ WellRead(src)
        BY <3>1, DataRows DEF SourcesKnown
      <4>6. m = n
        BY <2>4, <4>3, <4>4, <4>5, ProfilesRead
      <4> QED
        BY <4>3, <4>4, <4>6
    <3>2. CASE at # "profiles"
      <4>1. Rank(at) # Rank("profiles")
        BY <3>2, Ranks DEF Rank
      <4>2. tx'.profiles = tx.profiles
        BY <1>4, <4>1, OwnedTables DEF Advances
      <4> QED
        BY <2>4, <4>2 DEF TablesFilled
    <3> QED
      BY <3>1, <3>2
  <2> QED
    BY <2>1, <2>2, <2>3, <2>4 DEF TablesFilled
<1>5. ASSUME at' = at, data' = data, tx' = tx
      PROVE  TablesFilled'
  BY <1>5 DEF TablesFilled, Written
<1>6. ASSUME NEW item, AppLinks(item)
      PROVE  TablesFilled'
  BY <1>5, <1>6 DEF AppLinks, txVars
<1>7. ASSUME NEW p, UserDeletesProfile(p)
      PROVE  TablesFilled'
  BY <1>5, <1>7 DEF UserDeletesProfile, txVars
<1> QED
  BY <1>2, <1>3, <1>4, <1>6, <1>7, RunSteps

-----------------------------------------------------------------------------
(* What a row refers to stays there as long as the row does. *)
Stays(r) ==
    /\ log'[r.run].src = log[r.run].src
    /\ \A t \in Owned : \A q \in db[t] \cup tx[t] :
          q.run = r.run \/ (t = "folders" /\ q.run <= r.run) => q \in db'[t] \cup tx'[t]

LEMMA StatementKeeps ==
    ASSUME MInv, RInv, Advances
    PROVE  /\ db' = db /\ log' = log
           /\ \A t \in Owned \cup {"joins"} : tx[t] \subseteq tx'[t]
           /\ \A r : Stays(r)
<1>1. db' = db /\ log' = log
  BY DEF Advances, Writes
<1>2. \A t \in Owned : Rank(t) = Rank(at) => tx[t] = {}
  <2>1. \A t \in Owned : Rank(t) \in Nat
    BY OwnedTables, Ranks
  <2> QED
    BY <2>1 DEF RInv, TablesFilled, Written
<1>3. \A t \in Owned : tx[t] \subseteq tx'[t]
  BY <1>2 DEF Advances
<1>4. tx.joins \subseteq tx'.joins
  <2>1. at = "episodes" => tx.joins = {}
    BY Ranks DEF RInv, TablesFilled, Written
  <2> QED
    BY <2>1 DEF Advances
<1> QED
  BY <1>1, <1>3, <1>4 DEF Stays

LEMMA RowsStay ==
    ASSUME MInv, RInv, MigrationNext, NEW t \in Owned, NEW r \in db[t] \cup tx[t], r.run > 0,
           r \in db'[t] \cup tx'[t]
    PROVE  Stays(r)
<1> USE DEF MInv, RInv
<1>0. Owned \subseteq Tables /\ Owned \subseteq RunTables
  BY OwnedTables DEF Owned
<1>a. Len(log) \in Nat /\ DOMAIN log = 1..Len(log)
  BY RowsType DEF Shapes, LogShape
<1>b. \A u \in Owned : /\ \A q \in tx[u] : q.run = Len(log)
                       /\ \A q \in db[u] : Kept(q)
  BY <1>0 DEF RunsNumbered
<1>c. at # "idle" => Len(log) > 0
  BY DEF RunsNumbered
<1>d. \A u \in Owned : \A q \in db[u] : q.run \in 0..Len(log) /\ (at # "idle" => q.run < Len(log))
  BY <1>b DEF Kept
<1>e. at = "idle" => \A u \in Owned : tx[u] = {}
  BY <1>0, EmptyTables DEF RunsNumbered
<1>1. CASE Starts
  <2>1. r.run \in 1..Len(log)
    BY <1>a, <1>1, <1>d, <1>e DEF Starts
  <2>2. log'[r.run] = log[r.run]
    BY <1>1, <2>1, LogStarts DEF Shapes
  <2> QED
    BY <1>1, <2>2 DEF Starts, Stays
<1>2. CASE Reads
  <2>1. r \in db[t]
    BY <1>0, <1>2, EmptyTables DEF Reads, RunsNumbered
  <2>2. r.run \in 1..Len(log) /\ r.run < Len(log) /\ Len(log) > 0
    BY <1>a, <1>2, <1>d, <2>1 DEF Reads
  <2>3. log'[r.run] = log[r.run]
    BY <1>a, <1>2, <2>2, LogReads DEF Shapes, Reads
  <2> QED
    BY <1>2, <2>3 DEF Reads, Stays
<1>3. CASE Leaves
  <2>1. PICK outcome : Ends(outcome)
    BY <1>3 DEF Leaves
  <2>2. db' = db /\ at # "idle" /\ tx' = Empty
    BY <1>3, <2>1 DEF Leaves, Ends
  <2>3. r \in db[t]
    BY <1>0, <2>2, EmptyTables
  <2>4. r.run \in 1..Len(log) /\ r.run < Len(log)
    BY <1>a, <1>d, <2>2, <2>3
  <2>5. log'[r.run] = log[r.run]
    BY <1>a, <1>c, <2>1, <2>2, <2>4, Ending DEF Shapes
  <2>6. \A u \in Owned : \A q \in tx[u] : q.run > r.run
    BY <1>a, <1>b, <2>4
  <2>7. \A u \in Owned : \A q \in db[u] \cup tx[u] : q.run <= r.run => q \in db[u]
    BY <1>a, <2>4, <1>b
  <2> QED
    BY <2>2, <2>4, <2>5, <2>7, <1>a DEF Stays
<1>4. CASE Commits
  <2>1. PICK outcome : Ends(outcome)
    BY <1>4 DEF Commits
  <2>2. at = "commit" /\ ~aborted /\ Len(log) > 0
    BY <1>4, <1>c DEF Commits, LinksScanned
  <2>3. \A u \in Owned : db'[u] = db[u] \cup tx[u]
    BY <1>0, <1>4, <2>2, OwnedTables DEF Commits, Merged
  <2>4. r.run \in 1..Len(log)
    BY <1>a, <1>b, <1>d, <2>2
  <2>5. log'[r.run].src = log[r.run].src
    BY <1>a, <2>1, <2>2, <2>4, Ending DEF Shapes
  <2> QED
    BY <2>3, <2>5 DEF Stays
<1>5. CASE Advances
  BY <1>5, StatementKeeps
<1>6. ASSUME NEW item, AppLinks(item)
      PROVE  Stays(r)
  <2>1. log' = log /\ tx' = tx
    BY <1>6 DEF AppLinks, txVars
  <2>2. \A u \in Owned : db[u] \subseteq db'[u]
    BY <1>0, <1>6, AppLinked, OwnedTables, TableNames
  <2> QED
    BY <2>1, <2>2 DEF Stays
<1>7. ASSUME NEW p, UserDeletesProfile(p)
      PROVE  Stays(r)
  <2>1. p.run = 0 /\ log' = log /\ tx' = tx /\ db' = [db EXCEPT !["profiles"] = db.profiles \ {p}]
    BY <1>7 DEF UserDeletesProfile, txVars
  <2>2. db'.profiles = db.profiles \ {p} /\ \A u \in Tables \ {"profiles"} : db'[u] = db[u]
    BY <2>1, TableNames DEF Shapes
  <2>3. \A u \in Owned : \A q \in db[u] : q.run > 0 \/ u = "folders" => q \in db'[u]
    BY <1>0, <2>1, <2>2
  <2> QED
    BY <2>1, <2>3 DEF Stays
<1> QED
  BY <1>1, <1>2, <1>3, <1>4, <1>5, <1>6, <1>7, RunSteps

LEMMA NamedStays ==
    ASSUME NEW r, Stays(r), NEW t \in Owned, NEW id, NEW from, Named(t, id, r, from)
    PROVE  Named(t, id, r, from)'
BY DEF Stays, Named

LEMMA FolderStays ==
    ASSUME NEW r, Stays(r), InFolder(r)
    PROVE  InFolder(r)'
BY OwnedTables DEF Stays, InFolder

LEMMA ItemStays ==
    ASSUME NEW r, Stays(r), NEW app, NEW t, ItemRefers(app, t, r)
    PROVE  ItemRefers(app, t, r)'
<1>1. ReadOf(r)' = ReadOf(r)
  BY DEF Stays, ReadOf
<1>2. InFolder(r)'
  BY FolderStays DEF ItemRefers
<1>3. PICK x \in ToSet(ReadOf(r)[app][t]) :
          /\ r.row.old = x.id /\ r.row.from = <<app, x.id>>
          /\ x.profile \in {y.id : y \in ToSet(ReadOf(r)[app].profiles)} =>
                Named("profiles", r.row.profile, r, <<app, x.profile>>)
  BY DEF ItemRefers
<1>4. x.profile \in {y.id : y \in ToSet(ReadOf(r)[app].profiles)} =>
                Named("profiles", r.row.profile, r, <<app, x.profile>>)'
  BY <1>3, NamedStays, OwnedTables
<1> QED
  BY <1>1, <1>2, <1>3, <1>4 DEF ItemRefers

LEMMA ScoreStays ==
    ASSUME NEW y, Stays(y), ScoreRefers(y)
    PROVE  ScoreRefers(y)'
<1>1. ReadOf(y)' = ReadOf(y)
  BY DEF Stays, ReadOf
<1>2. PICK p \in db.profiles \cup tx.profiles, f \in db.formats \cup tx.formats :
       p.run = y.run /\
       \E app \in {"sonarr", "radarr"} : \E x \in ToSet(ReadOf(y)[app].profiles) :
          /\ p.row.from = <<app, x.id>>
          /\ \E i \in LastScored(ReadOf(y), app, x.scores) : Scores(y, p, f, app, x, i)
  BY DEF ScoreRefers
<1>3. PICK app \in {"sonarr", "radarr"} : \E x \in ToSet(ReadOf(y)[app].profiles) :
          /\ p.row.from = <<app, x.id>>
          /\ \E i \in LastScored(ReadOf(y), app, x.scores) : Scores(y, p, f, app, x, i)
  BY <1>2
<1>4. PICK x \in ToSet(ReadOf(y)[app].profiles) :
          /\ p.row.from = <<app, x.id>>
          /\ \E i \in LastScored(ReadOf(y), app, x.scores) : Scores(y, p, f, app, x, i)
  BY <1>3
<1>5. PICK i \in LastScored(ReadOf(y), app, x.scores) : Scores(y, p, f, app, x, i)
  BY <1>4
<1>6. f.run = y.run
  BY <1>5 DEF Scores
<1>7. p \in db'.profiles \cup tx'.profiles /\ f \in db'.formats \cup tx'.formats
  BY <1>2, <1>6, OwnedTables DEF Stays
<1>8. Scores(y, p, f, app, x, i)'
  BY <1>1, <1>5 DEF Scores
<1>9. \E j \in LastScored(ReadOf(y)', app, x.scores) : Scores(y, p, f, app, x, j)'
  BY <1>1, <1>5, <1>8
<1>10. x \in ToSet(ReadOf(y)'[app].profiles)
  BY <1>1
<1> QED
  BY <1>2, <1>4, <1>7, <1>9, <1>10 DEF ScoreRefers

LEMMA ReferencesStay ==
    ASSUME NEW t, NEW r, Stays(r), RowRefers(t, r)
    PROVE  RowRefers(t, r)'
<1>1. ReadOf(r)' = ReadOf(r)
  BY DEF Stays, ReadOf
<1>2. CASE t = "profiles"
  BY <1>1, <1>2 DEF RowRefers, ProfileRefers
<1>3. CASE t = "formats"
  BY <1>1, <1>3 DEF RowRefers, FormatRefers
<1>4. CASE t = "scores"
  BY <1>4, ScoreStays DEF RowRefers
<1>5. CASE t \in {"series", "movies"}
  BY <1>5, ItemStays DEF RowRefers
<1>6. CASE t = "files"
  BY <1>1, <1>6 DEF RowRefers, FileRefers
<1>7. CASE t = "episodes"
  <2>1. PICK x \in ToSet(ReadOf(r).sonarr.episodes) :
           r.row.from = <<"sonarr", x.id>> /\ Named("series", r.row.series, r, <<"sonarr", x.series>>)
    BY <1>7 DEF RowRefers, EpisodeRefers
  <2>2. Named("series", r.row.series, r, <<"sonarr", x.series>>)'
    BY <2>1, NamedStays, OwnedTables
  <2> QED
    BY <1>1, <1>7, <2>1, <2>2 DEF RowRefers, EpisodeRefers
<1>8. CASE t = "blocklist"
  <2>1. PICK app \in {"sonarr", "radarr"} : \E x \in ToSet(ReadOf(r)[app].blocklist) :
        /\ r.row.from = <<app, x.id>> /\ r.row.media = Media(app)
        /\ Named(IF app = "sonarr" THEN "series" ELSE "movies", r.row.item, r, <<app, x.item>>)
    BY <1>8 DEF RowRefers, BlockedRefers
  <2>2. PICK x \in ToSet(ReadOf(r)[app].blocklist) :
        /\ r.row.from = <<app, x.id>> /\ r.row.media = Media(app)
        /\ Named(IF app = "sonarr" THEN "series" ELSE "movies", r.row.item, r, <<app, x.item>>)
    BY <2>1
  <2>3. Named(IF app = "sonarr" THEN "series" ELSE "movies", r.row.item, r, <<app, x.item>>)'
    BY <2>2, NamedStays, OwnedTables
  <2> QED
    BY <1>1, <1>8, <2>2, <2>3 DEF RowRefers, BlockedRefers
<1> QED
  BY <1>2, <1>3, <1>4, <1>5, <1>6, <1>7, <1>8 DEF RowRefers

LEMMA JoinStays ==
    ASSUME NEW j, NEW e, Stays(e), JoinRefers(j, e)
    PROVE  JoinRefers(j, e)'
<1>1. ReadOf(e)' = ReadOf(e)
  BY DEF Stays, ReadOf
<1>2. PICK x \in ToSet(ReadOf(e).sonarr.episodes) :
          e.row.from = <<"sonarr", x.id>> /\ Named("files", j.file, e, <<"sonarr", x.file>>)
  BY DEF JoinRefers
<1>3. Named("files", j.file, e, <<"sonarr", x.file>>)'
  BY <1>2, NamedStays, OwnedTables
<1> QED
  BY <1>1, <1>2, <1>3 DEF JoinRefers

LEMMA ScoresStay ==
    ASSUME NEW p, Stays(p), ScoresThere(p)
    PROVE  ScoresThere(p)'
<1>1. ReadOf(p)' = ReadOf(p)
  BY DEF Stays, ReadOf
<1>2. ASSUME NEW app \in {"sonarr", "radarr"}, NEW x \in ToSet(ReadOf(p)[app].profiles),
             p.row.from = <<app, x.id>>, NEW i \in LastScored(ReadOf(p), app, x.scores)
      PROVE  \E y \in db'.scores \cup tx'.scores, f \in db'.formats \cup tx'.formats :
                    y.run = p.run /\ Scores(y, p, f, app, x, i)'
  <2>1. PICK y \in db.scores \cup tx.scores, f \in db.formats \cup tx.formats :
                    y.run = p.run /\ Scores(y, p, f, app, x, i)
    BY <1>2 DEF ScoresThere
  <2>2. f.run = p.run
    BY <2>1 DEF Scores
  <2>3. y \in db'.scores \cup tx'.scores /\ f \in db'.formats \cup tx'.formats
    BY <2>1, <2>2, OwnedTables DEF Stays
  <2>4. ReadOf(y)' = ReadOf(y)
    BY <2>1 DEF Stays, ReadOf
  <2>5. Scores(y, p, f, app, x, i)'
    BY <2>1, <2>4 DEF Scores
  <2> QED
    BY <2>1, <2>3, <2>5
<1> QED
  BY <1>1, <1>2 DEF ScoresThere

-----------------------------------------------------------------------------
(*************************************************************************)
(* What each statement writes refers to what the statements before it    *)
(* wrote.                                                                *)
(*************************************************************************)

LEMMA UnderWay ==
    ASSUME MInv, RInv, at \notin {"idle", "read"}
    PROVE  /\ Len(log) \in Nat \ {0} /\ DOMAIN log = 1..Len(log)
           /\ WellRead(src) /\ log[Len(log)].src = src /\ data = build_migration_data(src, maps)
           /\ \A t \in Owned : \A r \in tx[t] : r.run = Len(log) /\ RowRefers(t, r) /\ ReadOf(r) = src
           /\ \A t \in Owned : \A r \in db[t] : r.run \in Nat /\ r.run <= Len(log)
<1>1. Len(log) \in Nat /\ DOMAIN log = 1..Len(log) /\ Len(log) > 0
  BY RowsType DEF MInv, Shapes, LogShape, RunsNumbered
<1>2. WellRead(src) /\ log[Len(log)].src = src /\ data = build_migration_data(src, maps)
  BY DEF RInv, SourcesKnown
<1>3. \A t \in Owned : t \in RunTables
  BY DEF Owned
<1>4. \A t \in Owned : \A r \in tx[t] : r.run = Len(log)
  BY <1>3 DEF MInv, RunsNumbered
<1>5. \A t \in Owned : \A r \in tx[t] : RowRefers(t, r)
  BY <1>1, <1>4 DEF RInv, RowsRefer
<1>6. \A t \in Owned : \A r \in db[t] : Kept(r)
  BY <1>3 DEF MInv, RunsNumbered
<1>7. \A t \in Owned : \A r \in db[t] : r.run \in Nat /\ r.run <= Len(log)
  BY <1>1, <1>6 DEF Kept
<1> QED
  BY <1>1, <1>2, <1>4, <1>5, <1>7 DEF ReadOf

LEMMA ProfileFrom ==
    ASSUME NEW s, NEW app \in {"sonarr", "radarr"}, NEW x, NEW p, p = ProfileOfApp(s, app, x)
    PROVE  p.from = <<app, x.id>> /\ p.scores = FormatScores(s, app, x.scores)
<1>1. /\ ProfileOfApp(s, app, x).from = <<app, x.id>>
      /\ ProfileOfApp(s, app, x).scores = FormatScores(s, app, x.scores)
  BY DEF ProfileOfApp, SeriesProfile, MovieProfile
<1> QED
  BY <1>1, SMTT(30)

(* The maps from old to new ids lead to the rows of what was read. *)
LEMMA ProfileFound ==
    ASSUME MInv, RInv, at \notin {"idle", "read"}, Written("profiles"),
           NEW app \in {"sonarr", "radarr"}, NEW x \in ToSet(src[app].profiles)
    PROVE  LET row == ProfileOfApp(src, app, x)
           IN  \E p \in tx.profiles : ProfileId(row.old) = p.id /\ p.row = row /\ p.run = Len(log)
<1> DEFINE row == ProfileOfApp(src, app, x)
           rows == {p \in tx.profiles : p.row.old = row.old}
<1>1. WellRead(src) /\ data.profiles = Profiles(src)
  BY UnderWay, DataRows
<1>2. PICK n \in DOMAIN data.profiles : data.profiles[n] = row
  BY <1>1, ProfilesRead
<1>3. PICK p \in tx.profiles : p.row = row
  BY <1>2 DEF RInv, TablesFilled
<1>4. next.profiles \in Nat /\ \A q \in rows : q.id \in 1..next.profiles
  BY OwnedTables DEF RInv, IdsNumbered
<1>5. p \in rows
  BY <1>3
<1>6. \E q \in rows : NewId(rows) = q.id
  <2> HIDE DEF rows
  <2> QED
    BY <1>4, <1>5, NewIdFound
<1>7. \A q \in rows : q = p
  BY <1>3 DEF RInv, TablesFilled
<1>8. NewId(rows) = p.id
  BY <1>6, <1>7
<1>9. ProfileId(row.old) = p.id
  BY <1>8 DEF ProfileId
<1>10. p.run = Len(log)
  BY UnderWay, OwnedTables
<1> QED
  BY <1>3, <1>9, <1>10

LEMMA FormatThere ==
    ASSUME MInv, RInv, at \notin {"idle", "read"}, Written("formats"),
           NEW index \in DOMAIN MergedFormats(src)
    PROVE  \E f \in tx.formats : /\ FormatId(index) = f.id /\ f.run = Len(log) /\ f.row.index = index
                                 /\ f.row.key = MergedFormats(src)[index].row.name.key
<1> DEFINE rows == {f \in tx.formats : f.row.index = index}
<1>1. WellRead(src) /\ data.formats = MergedFormats(src)
  BY UnderWay, DataRows
<1>2. PICK f \in tx.formats : f.row.index = index
  BY <1>1 DEF RInv, TablesFilled
<1>3. next.formats \in Nat /\ \A q \in rows : q.id \in 1..next.formats
  BY OwnedTables DEF RInv, IdsNumbered
<1>4. f \in rows
  BY <1>2
<1>5. PICK q \in rows : NewId(rows) = q.id
  <2> HIDE DEF rows
  <2> QED
    BY <1>3, <1>4, NewIdFound
<1>6. q \in tx.formats /\ q.row.index = index
  OBVIOUS
<1>7. q.run = Len(log) /\ RowRefers("formats", q) /\ ReadOf(q) = src
  BY <1>6, UnderWay, OwnedTables
<1>8. FormatRefers(q)
  BY <1>7 DEF RowRefers
<1>9. q.row.key = MergedFormats(src)[index].row.name.key
  BY <1>6, <1>7, <1>8 DEF FormatRefers
<1>10. FormatId(index) = q.id
  BY <1>5 DEF FormatId
<1> QED
  BY <1>6, <1>7, <1>9, <1>10

LEMMA ItemFound ==
    ASSUME MInv, RInv, at \notin {"idle", "read"}, NEW had
    PROVE  /\ SeriesId(had) # 0 =>
                 \E q \in tx.series : /\ q.id = SeriesId(had) /\ q.run = Len(log)
                                      /\ q.row.from = <<"sonarr", had>>
           /\ MovieId(had) # 0 =>
                 \E q \in tx.movies : /\ q.id = MovieId(had) /\ q.run = Len(log)
                                      /\ q.row.from = <<"radarr", had>>
           /\ FileId("series", had) # 0 =>
                 \E q \in tx.files : /\ q.id = FileId("series", had) /\ q.run = Len(log)
                                     /\ q.row.from = <<"sonarr", had>>
<1>1. ASSUME NEW t \in Owned, NEW rows \in SUBSET tx[t], NewId(rows) # 0
      PROVE  \E q \in rows : q.id = NewId(rows)
  <2>1. next[t] \in Nat /\ \A q \in rows : q.id \in 1..next[t]
    BY DEF RInv, IdsNumbered
  <2> QED
    BY <1>1, <2>1, NewIdFound
<1>2. ASSUME SeriesId(had) # 0
      PROVE  \E q \in tx.series : q.id = SeriesId(had) /\ q.run = Len(log) /\ q.row.from = <<"sonarr", had>>
  <2> DEFINE rows == {s \in tx.series : s.row.old = had}
  <2>1. SeriesId(had) = NewId(rows)
    BY DEF SeriesId
  <2>2. PICK q \in rows : q.id = NewId(rows)
    <3>1. rows \in SUBSET tx["series"]
      OBVIOUS
    <3> HIDE DEF rows
    <3> QED
      BY <1>1, <1>2, <2>1, <3>1, OwnedTables
  <2>3. q \in tx.series /\ q.row.old = had
    OBVIOUS
  <2>4. q.run = Len(log) /\ RowRefers("series", q)
    BY <2>3, UnderWay, OwnedTables
  <2>5. ItemRefers("sonarr", "series", q)
    BY <2>4 DEF RowRefers
  <2>6. q.row.from = <<"sonarr", had>>
    BY <2>3, <2>5 DEF ItemRefers
  <2> QED
    BY <2>1, <2>2, <2>3, <2>4, <2>6
<1>3. ASSUME MovieId(had) # 0
      PROVE  \E q \in tx.movies : q.id = MovieId(had) /\ q.run = Len(log) /\ q.row.from = <<"radarr", had>>
  <2> DEFINE rows == {m \in tx.movies : m.row.old = had}
  <2>1. MovieId(had) = NewId(rows)
    BY DEF MovieId
  <2>2. PICK q \in rows : q.id = NewId(rows)
    <3>1. rows \in SUBSET tx["movies"]
      OBVIOUS
    <3> HIDE DEF rows
    <3> QED
      BY <1>1, <1>3, <2>1, <3>1, OwnedTables
  <2>3. q \in tx.movies /\ q.row.old = had
    OBVIOUS
  <2>4. q.run = Len(log) /\ RowRefers("movies", q)
    BY <2>3, UnderWay, OwnedTables
  <2>5. ItemRefers("radarr", "movies", q)
    BY <2>4 DEF RowRefers
  <2>6. q.row.from = <<"radarr", had>>
    BY <2>3, <2>5 DEF ItemRefers
  <2> QED
    BY <2>1, <2>2, <2>3, <2>4, <2>6
<1>4. ASSUME FileId("series", had) # 0
      PROVE  \E q \in tx.files : /\ q.id = FileId("series", had) /\ q.run = Len(log)
                                 /\ q.row.from = <<"sonarr", had>>
  <2> DEFINE rows == {f \in tx.files : f.row.media = "series" /\ f.row.old = had}
  <2>1. FileId("series", had) = NewId(rows)
    BY DEF FileId
  <2>2. PICK q \in rows : q.id = NewId(rows)
    <3>1. rows \in SUBSET tx["files"]
      OBVIOUS
    <3> HIDE DEF rows
    <3> QED
      BY <1>1, <1>4, <2>1, <3>1, OwnedTables
  <2>3. q \in tx.files /\ q.row.media = "series" /\ q.row.old = had
    OBVIOUS
  <2>4. q.run = Len(log) /\ RowRefers("files", q)
    BY <2>3, UnderWay, OwnedTables
  <2>5. FileRefers(q)
    BY <2>4 DEF RowRefers
  <2>6. q.row.from = <<"sonarr", had>>
    BY <2>3, <2>5 DEF FileRefers, Media
  <2> QED
    BY <2>1, <2>2, <2>3, <2>4, <2>6
<1> QED
  BY <1>2, <1>3, <1>4

(* The rows that a statement inserts. *)
Brought(t, rows, r) ==
    /\ r.run = Len(log) /\ ReadOf(r) = src
    /\ \E i \in DOMAIN rows : r.row = rows[i] /\ r.id = next[t] + i

LEMMA NewRows ==
    ASSUME MInv, RInv, at \notin {"idle", "read"}, NEW t, NEW rows, NEW r \in Numbered(t, rows)
    PROVE  Brought(t, rows, r)
<1>1. PICK i \in DOMAIN rows : r = [id |-> next[t] + i, run |-> Len(log), row |-> rows[i]]
  BY DEF Numbered
<1> QED
  BY <1>1, UnderWay DEF ReadOf, Brought

LEMMA NewProfiles ==
    ASSUME MInv, RInv, WriteQualityProfiles
    PROVE  \A r \in tx'.profiles : RowRefers("profiles", r)
<1> SUFFICES ASSUME NEW r \in tx'.profiles
             PROVE  ProfileRefers(r)
  BY DEF RowRefers
<1>1. tx' = [tx EXCEPT !["profiles"] = Numbered("profiles", data.profiles)] /\ at = "profiles"
  BY DEF WriteQualityProfiles, Insert
<1>2. r \in Numbered("profiles", data.profiles)
  BY <1>1, TableNames DEF MInv, Shapes
<1>b. Brought("profiles", data.profiles, r)
  BY <1>1, <1>2, NewRows
<1>3. PICK i \in DOMAIN data.profiles : r.row = data.profiles[i]
  BY <1>b DEF Brought
<1>4. ReadOf(r) = src
  BY <1>b DEF Brought
<1>5. WellRead(src) /\ data.profiles = Profiles(src)
  BY <1>1, UnderWay, DataRows
<1> QED
  BY <1>3, <1>4, <1>5, ProfilesRead DEF ProfileRefers

LEMMA NewFormats ==
    ASSUME MInv, RInv, WriteCustomFormats
    PROVE  \A r \in tx'.formats : RowRefers("formats", r)
<1> SUFFICES ASSUME NEW r \in tx'.formats
             PROVE  FormatRefers(r)
  BY DEF RowRefers
<1>1. PICK rows : /\ rows = [i \in DOMAIN data.formats |->
                                [index |-> i, key |-> data.formats[i].row.name.key]]
                  /\ tx' = [tx EXCEPT !["formats"] = Numbered("formats", rows)] /\ at = "formats"
  BY DEF WriteCustomFormats, Insert
<1>2. r \in Numbered("formats", rows)
  BY <1>1, TableNames DEF MInv, Shapes
<1>b. Brought("formats", rows, r)
  BY <1>1, <1>2, NewRows
<1>3. PICK i \in DOMAIN rows : r.row = rows[i]
  BY <1>b DEF Brought
<1>4. ReadOf(r) = src
  BY <1>b DEF Brought
<1>5. WellRead(src) /\ data.formats = MergedFormats(src)
  BY <1>1, UnderWay, DataRows
<1>6. i \in DOMAIN MergedFormats(src) /\ r.row.index = i
      /\ r.row.key = MergedFormats(src)[i].row.name.key
  BY <1>1, <1>3, <1>5
<1> QED
  BY <1>4, <1>6 DEF FormatRefers

LEMMA NewFiles ==
    ASSUME MInv, RInv, WriteMediaFiles
    PROVE  \A r \in tx'.files : RowRefers("files", r)
<1> SUFFICES ASSUME NEW r \in tx'.files
             PROVE  FileRefers(r)
  BY DEF RowRefers
<1>1. tx' = [tx EXCEPT !["files"] = Numbered("files", data.files)] /\ at = "files"
  BY DEF WriteMediaFiles, Insert
<1>2. r \in Numbered("files", data.files)
  BY <1>1, TableNames DEF MInv, Shapes
<1>b. Brought("files", data.files, r)
  BY <1>1, <1>2, NewRows
<1>3. PICK i \in DOMAIN data.files : r.row = data.files[i]
  BY <1>b DEF Brought
<1>4. ReadOf(r) = src
  BY <1>b DEF Brought
<1>5. WellRead(src) /\ data.files = MediaFiles(src)
  BY <1>1, UnderWay, DataRows
<1> QED
  BY <1>3, <1>4, <1>5, FilesRead DEF FileRefers

(* A folder that fits the path, or none. *)
LEMMA FolderFits ==
    ASSUME MInv, RInv, at \notin {"idle", "read"}, NEW r, r.run = Len(log),
           r.row.folder \in FoldersFor(r.row.path)
    PROVE  InFolder(r)
<1> SUFFICES ASSUME r.row.folder # 0
             PROVE  \E f \in db.folders \cup tx.folders :
                       f.run <= r.run /\ f.id = r.row.folder /\ IsPrefix(f.row.path, r.row.path)
  BY DEF InFolder
<1>1. PICK f \in Visible("folders") : IsPrefix(f.row.path, r.row.path) /\ f.id = r.row.folder
  BY DEF FoldersFor
<1>2. f \in db.folders \cup tx.folders
  BY DEF Visible
<1>3. f.run <= Len(log)
  BY <1>2, UnderWay, OwnedTables
<1> QED
  BY <1>1, <1>2, <1>3

(* The profile of an item, if it was read. *)
LEMMA ItemProfile ==
    ASSUME MInv, RInv, at \notin {"idle", "read"}, Written("profiles"),
           NEW app \in {"sonarr", "radarr"}, NEW id,
           id \in {y.id : y \in ToSet(src[app].profiles)},
           NEW r, r.run = Len(log),
           NEW had, had = IF app = "sonarr" THEN id ELSE id + 100000
    PROVE  /\ ProfileId(had) # 0
           /\ r.row.profile = ProfileId(had) => Named("profiles", r.row.profile, r, <<app, id>>)
<1>1. PICK y \in ToSet(src[app].profiles) : y.id = id
  OBVIOUS
<1>2. PICK row : row = ProfileOfApp(src, app, y)
  OBVIOUS
<1>a. app = "sonarr" \/ app = "radarr"
  OBVIOUS
<1>3. row.old = had /\ row.from = <<app, id>>
  <2>1. row.from = <<app, id>>
    <3>1. row.from = <<app, y.id>>
      BY <1>2 DEF ProfileOfApp, SeriesProfile, MovieProfile
    <3> QED
      BY <1>1, <3>1
  <2>2. row.old = had
    BY <1>a, <1>1, <1>2, ProfileOlds
  <2> QED
    BY <2>1, <2>2
<1>4. PICK p \in tx.profiles : ProfileId(row.old) = p.id /\ p.row = row /\ p.run = Len(log)
  BY <1>2, ProfileFound
<1>5. p.id \in 1..next.profiles /\ next.profiles \in Nat
  BY OwnedTables DEF RInv, IdsNumbered
<1> QED
  BY <1>3, <1>4, <1>5 DEF Named

LEMMA NewSeries ==
    ASSUME MInv, RInv, WriteSeries
    PROVE  \A r \in tx'.series : RowRefers("series", r)
<1> SUFFICES ASSUME NEW r \in tx'.series
             PROVE  ItemRefers("sonarr", "series", r)
  BY DEF RowRefers
<1>1. PICK folder, rows :
          /\ \A i \in DOMAIN data.series : folder[i] \in FoldersFor(data.series[i].path)
          /\ rows = [i \in DOMAIN data.series |->
                        LET s == data.series[i]
                        IN  [old |-> s.old, from |-> s.from, path |-> s.path,
                             folder |-> folder[i], profile |-> SeriesProfileId(s),
                             tags |-> TagIds(MappedTags(src, s.tags))]]
          /\ Insert("series", rows)
  BY DEF WriteSeries
<1>2. at = "series" /\ tx' = [tx EXCEPT !["series"] = Numbered("series", rows)]
  BY <1>1 DEF WriteSeries, Insert
<1>3. r \in Numbered("series", rows)
  BY <1>2, TableNames DEF MInv, Shapes
<1>b. Brought("series", rows, r)
  BY <1>2, <1>3, NewRows
<1>4. PICK i \in DOMAIN rows : r.row = rows[i]
  BY <1>b DEF Brought
<1>5. ReadOf(r) = src /\ r.run = Len(log)
  BY <1>b DEF Brought
<1>6. WellRead(src) /\ data.series = SeriesInserts(src, maps)
  BY <1>2, UnderWay, DataRows
<1>7. i \in DOMAIN data.series
      /\ r.row.old = data.series[i].old /\ r.row.from = data.series[i].from
      /\ r.row.path = data.series[i].path /\ r.row.folder = folder[i]
      /\ r.row.profile = SeriesProfileId(data.series[i])
  BY <1>1, <1>4
<1>8. PICK x \in ToSet(src.sonarr.series) :
           /\ data.series[i].old = x.id /\ data.series[i].from = <<"sonarr", x.id>>
           /\ data.series[i].profile = x.profile
  BY <1>6, <1>7, ItemsRead
<1>9. Written("profiles")
  BY <1>2, Ranks DEF Written
<1>10. ASSUME x.profile \in {y.id : y \in ToSet(src.sonarr.profiles)}
       PROVE  Named("profiles", r.row.profile, r, <<"sonarr", x.profile>>)
  <2>1. ProfileId(x.profile) # 0
        /\ (r.row.profile = ProfileId(x.profile) =>
               Named("profiles", r.row.profile, r, <<"sonarr", x.profile>>))
    BY <1>2, <1>5, <1>9, <1>10, ItemProfile
  <2>2. r.row.profile = ProfileId(x.profile)
    BY <1>7, <1>8, <2>1 DEF SeriesProfileId
  <2> QED
    BY <2>1, <2>2
<1>11. InFolder(r)
  BY <1>1, <1>2, <1>5, <1>7, FolderFits
<1> QED
  BY <1>5, <1>7, <1>8, <1>10, <1>11 DEF ItemRefers

LEMMA NewMovies ==
    ASSUME MInv, RInv, WriteMovies
    PROVE  \A r \in tx'.movies : RowRefers("movies", r)
<1> SUFFICES ASSUME NEW r \in tx'.movies
             PROVE  ItemRefers("radarr", "movies", r)
  BY DEF RowRefers
<1>1. PICK profile, folder :
          /\ \A i \in DOMAIN data.movies :
                /\ profile[i] \in MovieProfileIds(data.movies[i])
                /\ folder[i] \in FoldersFor(data.movies[i].path)
          /\ tx'.movies = Numbered("movies",
                [i \in DOMAIN data.movies |-> MovieRow(data.movies[i], folder[i], profile[i])])
  BY MoviesInserted DEF MInv
<1>2. at = "movies"
  BY DEF WriteMovies
<1>a. PICK rows : rows = [i \in DOMAIN data.movies |-> MovieRow(data.movies[i], folder[i], profile[i])]
  OBVIOUS
<1>3. r \in Numbered("movies", rows)
  BY <1>1, <1>a
<1>b. Brought("movies", rows, r)
  BY <1>2, <1>3, NewRows
<1>4. PICK i \in DOMAIN rows : r.row = rows[i]
  BY <1>b DEF Brought
<1>5. ReadOf(r) = src /\ r.run = Len(log)
  BY <1>b DEF Brought
<1>6. WellRead(src) /\ data.movies = MovieInserts(src, maps)
  BY <1>2, UnderWay, DataRows
<1>7. i \in DOMAIN data.movies
      /\ r.row.old = data.movies[i].old /\ r.row.from = data.movies[i].from
      /\ r.row.path = data.movies[i].path /\ r.row.folder = folder[i]
      /\ r.row.profile = profile[i]
  BY <1>a, <1>4 DEF MovieRow
<1>8. PICK x \in ToSet(src.radarr.movies) :
           /\ data.movies[i].old = x.id /\ data.movies[i].from = <<"radarr", x.id>>
           /\ data.movies[i].profile = x.profile + RADARR_PROFILE_OFFSET
  BY <1>6, <1>7, ItemsRead
<1>9. Written("profiles")
  BY <1>2, Ranks DEF Written
<1>10. ASSUME x.profile \in {y.id : y \in ToSet(src.radarr.profiles)}
       PROVE  Named("profiles", r.row.profile, r, <<"radarr", x.profile>>)
  <2>0. data.movies[i].profile = x.profile + 100000
    BY <1>8 DEF RADARR_PROFILE_OFFSET
  <2>1. ProfileId(x.profile + 100000) # 0
        /\ (r.row.profile = ProfileId(x.profile + 100000) =>
               Named("profiles", r.row.profile, r, <<"radarr", x.profile>>))
    BY <1>2, <1>5, <1>9, <1>10, ItemProfile
  <2>2. r.row.profile = ProfileId(x.profile + 100000)
    <3>1. PICK m : m = data.movies[i]
      OBVIOUS
    <3>2. m.profile = x.profile + 100000 /\ r.row.profile \in MovieProfileIds(m)
      BY <1>1, <1>7, <2>0, <3>1
    <3>3. MovieProfileIds(m) = {ProfileId(x.profile + 100000)}
      BY <2>1, <3>2 DEF MovieProfileIds
    <3> QED
      BY <3>2, <3>3
  <2> QED
    BY <2>1, <2>2
<1>11. InFolder(r)
  BY <1>1, <1>2, <1>5, <1>7, FolderFits
<1> QED
  BY <1>5, <1>7, <1>8, <1>10, <1>11 DEF ItemRefers

LEMMA NewEpisodeRows ==
    ASSUME MInv, RInv, WriteEpisodes
    PROVE  \A r \in tx'.episodes : RowRefers("episodes", r)
<1> SUFFICES ASSUME NEW r \in tx'.episodes
             PROVE  EpisodeRefers(r)
  BY DEF RowRefers
<1>1. PICK rows : rows = [i \in DOMAIN NewEpisodes |-> EpisodeRow(NewEpisodes[i])]
  OBVIOUS
<1>2. at = "episodes" /\ r \in Numbered("episodes", rows)
  BY <1>1, EpisodesInserted DEF MInv
<1>3. Brought("episodes", rows, r)
  BY <1>2, NewRows
<1>4. PICK i \in DOMAIN rows : r.row = rows[i]
  BY <1>3 DEF Brought
<1>5. ReadOf(r) = src /\ r.run = Len(log)
  BY <1>3 DEF Brought
<1>6. WellRead(src) /\ data.episodes = Episodes(src)
  BY <1>2, UnderWay, DataRows
<1>7. i \in DOMAIN NewEpisodes /\ r.row.from = NewEpisodes[i].from
      /\ r.row.series = SeriesId(NewEpisodes[i].series)
  BY <1>1, <1>4 DEF EpisodeRow
<1>8. /\ SeriesId(NewEpisodes[i].series) # 0
      /\ \E n \in DOMAIN data.episodes : NewEpisodes[i] = data.episodes[n]
  BY <1>2, <1>7, EpisodesChosen DEF RInv
<1>9. PICK n \in DOMAIN data.episodes : NewEpisodes[i] = data.episodes[n]
  BY <1>8
<1>10. PICK x \in ToSet(src.sonarr.episodes) :
            data.episodes[n].from = <<"sonarr", x.id>> /\ data.episodes[n].series = x.series
  BY <1>6, <1>9, ItemsRead
<1>11. PICK q \in tx.series :
            q.id = SeriesId(x.series) /\ q.run = Len(log) /\ q.row.from = <<"sonarr", x.series>>
  <2>1. SeriesId(x.series) # 0
    BY <1>8, <1>9, <1>10
  <2>2. at \notin {"idle", "read"}
    BY <1>2
  <2> QED
    BY <2>1, <2>2, ItemFound
<1>12. Named("series", r.row.series, r, <<"sonarr", x.series>>)
  BY <1>5, <1>7, <1>9, <1>10, <1>11 DEF Named
<1> QED
  BY <1>5, <1>7, <1>9, <1>10, <1>12 DEF EpisodeRefers

LEMMA NewJoins ==
    ASSUME MInv, RInv, WriteEpisodes
    PROVE  \A j \in tx'.joins : \E e \in tx'.episodes : JoinRefers(j, e)
<1> SUFFICES ASSUME NEW j \in tx'.joins
             PROVE  \E e \in tx'.episodes : JoinRefers(j, e)
  OBVIOUS
<1>1. PICK rows : rows = [i \in DOMAIN NewEpisodes |-> EpisodeRow(NewEpisodes[i])]
  OBVIOUS
<1>2. at = "episodes" /\ tx'.episodes = Numbered("episodes", rows)
  BY <1>1, EpisodesInserted DEF MInv
<1>3. PICK i \in DOMAIN NewEpisodes :
          /\ EpisodeFile(NewEpisodes[i]) # 0
          /\ j = [episode |-> next.episodes + i, file |-> EpisodeFile(NewEpisodes[i])]
  BY EpisodesInserted DEF MInv
<1>4. PICK e : e = [id |-> next.episodes + i, run |-> Len(log), row |-> rows[i]]
  OBVIOUS
<1>5. e \in tx'.episodes /\ e \in Numbered("episodes", rows)
  BY <1>1, <1>2, <1>3, <1>4 DEF Numbered
<1>6. ReadOf(e) = src /\ e.run = Len(log) /\ e.run > 0 /\ e.id = j.episode
  BY <1>2, <1>3, <1>4, UnderWay DEF ReadOf
<1>7. WellRead(src) /\ data.episodes = Episodes(src)
  BY <1>2, UnderWay, DataRows
<1>8. e.row.from = NewEpisodes[i].from
  BY <1>1, <1>3, <1>4 DEF EpisodeRow
<1>9. PICK n \in DOMAIN data.episodes : NewEpisodes[i] = data.episodes[n]
  BY <1>2, <1>3, EpisodesChosen DEF RInv
<1>10. PICK x \in ToSet(src.sonarr.episodes) :
            data.episodes[n].from = <<"sonarr", x.id>> /\ data.episodes[n].file = x.file
  BY <1>7, <1>9, ItemsRead
<1>11. j.file = FileId("series", x.file) /\ FileId("series", x.file) # 0
  BY <1>3, <1>9, <1>10 DEF EpisodeFile
<1>12. PICK q \in tx.files :
            q.id = FileId("series", x.file) /\ q.run = Len(log) /\ q.row.from = <<"sonarr", x.file>>
  BY <1>2, <1>11, ItemFound
<1>13. Named("files", j.file, e, <<"sonarr", x.file>>)
  BY <1>6, <1>11, <1>12 DEF Named
<1> QED
  BY <1>5, <1>6, <1>8, <1>9, <1>10, <1>13 DEF JoinRefers

LEMMA NewBlocked ==
    ASSUME MInv, RInv, WriteBlocklist
    PROVE  \A r \in tx'.blocklist : RowRefers("blocklist", r)
<1> SUFFICES ASSUME NEW r \in tx'.blocklist
             PROVE  BlockedRefers(r)
  BY DEF RowRefers
<1> DEFINE I == {i \in DOMAIN data.blocklist : ItemId(data.blocklist[i]) # 0}
<1>1. PICK known : known = Picked(data.blocklist, I)
  OBVIOUS
<1>2. PICK rows : /\ rows = [i \in DOMAIN known |-> [media |-> known[i].media, item |-> ItemId(known[i]),
                                                     from |-> known[i].from]]
                  /\ Insert("blocklist", rows)
  BY <1>1 DEF WriteBlocklist, Only
<1>3. at = "blocklist" /\ tx' = [tx EXCEPT !["blocklist"] = Numbered("blocklist", rows)]
  BY <1>2 DEF WriteBlocklist, Insert
<1>4. r \in Numbered("blocklist", rows)
  BY <1>3, TableNames DEF MInv, Shapes
<1>5. Brought("blocklist", rows, r)
  BY <1>3, <1>4, NewRows
<1>6. PICK k \in DOMAIN rows : r.row = rows[k]
  BY <1>5 DEF Brought
<1>7. ReadOf(r) = src /\ r.run = Len(log)
  BY <1>5 DEF Brought
<1>8. WellRead(src) /\ data.blocklist = Blocklist(src) /\ IsRows(data.blocklist)
  BY <1>3, UnderWay, DataRows
<1>9. Nth(I, k) \in I /\ known[k] = data.blocklist[Nth(I, k)]
  <2>1. I \in SUBSET DOMAIN data.blocklist /\ k \in DOMAIN known
    BY <1>2, <1>6
  <2> HIDE DEF I
  <2> QED
    BY <1>1, <1>8, <2>1, PickedRows
<1>10. PICK b : b = known[k] /\ ItemId(b) # 0 /\ \E n \in DOMAIN data.blocklist : b = data.blocklist[n]
  BY <1>9
<1>11. r.row.media = b.media /\ r.row.item = ItemId(b) /\ r.row.from = b.from
  BY <1>2, <1>6, <1>10
<1>a. PICK n \in DOMAIN data.blocklist : b = data.blocklist[n]
  BY <1>10
<1>b. PICK all : all = Blocklist(src) /\ n \in DOMAIN all /\ b = all[n]
  BY <1>8, <1>a
<1>c. \E app \in {"sonarr", "radarr"} : \E x \in ToSet(src[app].blocklist) :
         all[n].item = x.item /\ all[n].from = <<app, x.id>> /\ all[n].media = Media(app)
  BY <1>8, <1>b, BlocklistRead
<1>12. PICK app \in {"sonarr", "radarr"} : \E x \in ToSet(src[app].blocklist) :
            b.item = x.item /\ b.from = <<app, x.id>> /\ b.media = Media(app)
  BY <1>b, <1>c
<1>13. PICK x \in ToSet(src[app].blocklist) :
            b.item = x.item /\ b.from = <<app, x.id>> /\ b.media = Media(app)
  BY <1>12
<1>14. CASE app = "sonarr"
  <2>1. ItemId(b) = SeriesId(x.item)
    BY <1>13, <1>14 DEF ItemId, Media
  <2>2. PICK q \in tx.series :
            q.id = SeriesId(x.item) /\ q.run = Len(log) /\ q.row.from = <<"sonarr", x.item>>
    BY <1>3, <1>10, <2>1, ItemFound
  <2>3. Named("series", r.row.item, r, <<"sonarr", x.item>>)
    BY <1>7, <1>11, <2>1, <2>2 DEF Named
  <2> QED
    BY <1>7, <1>11, <1>13, <1>14, <2>3 DEF BlockedRefers
<1>15. CASE app = "radarr"
  <2>1. ItemId(b) = MovieId(x.item)
    BY <1>13, <1>15 DEF ItemId, Media
  <2>2. PICK q \in tx.movies :
            q.id = MovieId(x.item) /\ q.run = Len(log) /\ q.row.from = <<"radarr", x.item>>
    BY <1>3, <1>10, <2>1, ItemFound
  <2>3. Named("movies", r.row.item, r, <<"radarr", x.item>>)
    BY <1>7, <1>11, <2>1, <2>2 DEF Named
  <2> QED
    BY <1>7, <1>11, <1>13, <1>15, <2>3 DEF BlockedRefers
<1> QED
  BY <1>14, <1>15

(* A score that is written and the one of its profile that it stands for. *)
LEMMA ScoreWritten ==
    ASSUME MInv, RInv, at = "scores",
           NEW app \in {"sonarr", "radarr"}, NEW x \in ToSet(src[app].profiles),
           NEW i \in LastScored(src, app, x.scores),
           NEW p, p = ProfileOfApp(src, app, x),
           NEW n, SameScore(src, app, x.scores[i], p.scores[n]),
           NEW y, y.row = ScoreRow(p, n), y.run = Len(log)
    PROVE  /\ \E q \in tx.profiles : q.id = y.row.profile /\ q.row = p /\ q.run = Len(log)
           /\ \A q : q.id = y.row.profile =>
                 \E f \in tx.formats : Scores(y, q, f, app, x, i)
<1>1. PICK q \in tx.profiles : ProfileId(p.old) = q.id /\ q.row = p /\ q.run = Len(log)
  <2>1. Written("profiles")
    BY Ranks DEF Written
  <2> QED
    BY <2>1, ProfileFound
<1>2. /\ y.row.profile = ProfileId(p.old) /\ y.row.format = FormatId(p.scores[n].index)
      /\ y.row.score = p.scores[n].score
  BY DEF ScoreRow
<1>3. p.scores[n].index = FormatIndex(src, app, x.scores[i].format) /\ p.scores[n].score = x.scores[i].score
  BY DEF SameScore
<1>4. Keys(src, app, x.scores[i].format) # {} /\ WellRead(src)
  BY UnderWay DEF LastScored, Scored
<1> DEFINE index == FormatIndex(src, app, x.scores[i].format)
<1>5. /\ index \in DOMAIN MergedFormats(src)
      /\ Keys(src, app, x.scores[i].format) = {MergedFormats(src)[index].row.name.key}
  BY <1>4, FormatFound
<1>6. PICK f \in tx.formats : /\ FormatId(index) = f.id /\ f.run = Len(log)
                              /\ f.row.key = MergedFormats(src)[index].row.name.key
  <2>1. Written("formats")
    BY Ranks DEF Written
  <2> HIDE DEF index
  <2> QED
    BY <1>5, <2>1, FormatThere
<1>7. ReadOf(y) = src
  BY UnderWay DEF ReadOf
<1>8. \A r : r.id = y.row.profile => Scores(y, r, f, app, x, i)
  BY <1>2, <1>3, <1>5, <1>6, <1>7 DEF Scores
<1> QED
  BY <1>1, <1>2, <1>8

LEMMA NewScoreRows ==
    ASSUME MInv, RInv, WriteFormatScores
    PROVE  \A r \in tx'.scores : RowRefers("scores", r)
<1> SUFFICES ASSUME NEW y \in tx'.scores
             PROVE  ScoreRefers(y)
  BY DEF RowRefers
<1>1. PICK rows : rows = SetToSeq(NewScores) /\ Insert("scores", rows)
  BY DEF WriteFormatScores, NewScores
<1>2. at = "scores" /\ tx' = [tx EXCEPT !["scores"] = Numbered("scores", rows)]
  BY <1>1 DEF WriteFormatScores, Insert
<1>3. y \in Numbered("scores", rows)
  BY <1>2, TableNames DEF MInv, Shapes
<1>4. Brought("scores", rows, y)
  BY <1>2, <1>3, NewRows
<1>5. PICK k \in DOMAIN rows : y.row = rows[k]
  BY <1>4 DEF Brought
<1>6. ReadOf(y) = src /\ y.run = Len(log)
  BY <1>4 DEF Brought
<1>7. IsFiniteSet(NewScores)
  BY <1>2, FiniteScores DEF RInv
<1>8. y.row \in NewScores
  BY <1>1, <1>5, <1>7, SetListed, RowOfSet
<1>9. PICK p \in ToSet(data.profiles) : y.row \in LastScores(p)
  BY <1>8 DEF NewScores
<1>10. PICK n \in LastWritten(p.scores) : y.row = ScoreRow(p, n)
  BY <1>9, LastScoresOf
<1>11. PICK app \in {"sonarr", "radarr"} : \E x \in ToSet(src[app].profiles) :
              /\ p = ProfileOfApp(src, app, x)
              /\ IsRows(x.scores) /\ p.scores = FormatScores(src, app, x.scores) /\ IsRows(p.scores)
  BY <1>2, ProfileScores DEF RInv
<1>12. PICK x \in ToSet(src[app].profiles) :
              /\ p = ProfileOfApp(src, app, x)
              /\ IsRows(x.scores) /\ p.scores = FormatScores(src, app, x.scores)
  BY <1>11
<1>13. WellRead(src)
  BY <1>2, UnderWay
<1>14. PICK i \in LastScored(src, app, x.scores) : SameScore(src, app, x.scores[i], p.scores[n])
  BY <1>10, <1>12, <1>13, ScoresRead
<1>15. /\ \E q \in tx.profiles : q.id = y.row.profile /\ q.row = p /\ q.run = Len(log)
       /\ \A q : q.id = y.row.profile => \E f \in tx.formats : Scores(y, q, f, app, x, i)
  BY <1>2, <1>6, <1>10, <1>12, <1>14, ScoreWritten
<1>16. PICK q \in tx.profiles : q.id = y.row.profile /\ q.row = p /\ q.run = Len(log)
  BY <1>15
<1>17. PICK f \in tx.formats : Scores(y, q, f, app, x, i)
  BY <1>15, <1>16
<1>18. q.row.from = <<app, x.id>>
  BY <1>12, <1>16 DEF ProfileOfApp, SeriesProfile, MovieProfile
<1>19. \E j \in LastScored(ReadOf(y), app, x.scores) : Scores(y, q, f, app, x, j)
  BY <1>6, <1>14, <1>17
<1>20. x \in ToSet(ReadOf(y)[app].profiles) /\ q.run = y.run
  BY <1>6, <1>12, <1>16
<1> QED
  BY <1>16, <1>17, <1>18, <1>19, <1>20 DEF ScoreRefers

(* Once the scores are written, none that counts is missing. *)
ScoreThere(y, p, app, x, i) ==
    /\ y \in db.scores \cup tx'.scores /\ y.run = p.run
    /\ \E f \in tx.formats : Scores(y, p, f, app, x, i)

LEMMA NoScoreMissing ==
    ASSUME MInv, RInv, WriteFormatScores, NEW p \in tx.profiles,
           NEW app \in {"sonarr", "radarr"}, NEW x \in ToSet(ReadOf(p)[app].profiles),
           p.row.from = <<app, x.id>>, NEW i \in LastScored(ReadOf(p), app, x.scores)
    PROVE  \E y : ScoreThere(y, p, app, x, i)
<1>1. PICK rows : rows = SetToSeq(NewScores) /\ Insert("scores", rows)
  BY DEF WriteFormatScores, NewScores
<1>2. at = "scores" /\ tx' = [tx EXCEPT !["scores"] = Numbered("scores", rows)]
  BY <1>1 DEF WriteFormatScores, Insert
<1>3. tx'.scores = Numbered("scores", rows)
  BY <1>2, TableNames DEF MInv, Shapes
<1>4. p.run = Len(log) /\ ReadOf(p) = src /\ RowRefers("profiles", p)
  BY <1>2, UnderWay, OwnedTables
<1>5. WellRead(src) /\ data.profiles = Profiles(src)
  BY <1>2, UnderWay, DataRows
<1>6. PICK app2 \in {"sonarr", "radarr"} : \E z \in ToSet(src[app2].profiles) :
         p.row = ProfileOfApp(src, app2, z)
  BY <1>4 DEF RowRefers, ProfileRefers
<1>7. PICK z \in ToSet(src[app2].profiles) : p.row = ProfileOfApp(src, app2, z)
  BY <1>6
<1>8. p.row.from = <<app2, z.id>>
  BY <1>7, ProfileFrom, SMTT(40)
<1>9. app2 = app /\ z.id = x.id
  BY <1>7, <1>8
<1>10. z = x
  <2>1. Keyed(src[app].profiles)
    BY <1>5, TablesRead
  <2> QED
    BY <1>4, <1>7, <1>9, <2>1, KeysTellRows
<1>11. p.row \in ToSet(data.profiles)
  <2>1. PICK m \in DOMAIN Profiles(src) : Profiles(src)[m] = ProfileOfApp(src, app, x)
    BY <1>4, <1>5, ProfilesRead
  <2> QED
    BY <1>5, <1>7, <1>9, <1>10, <2>1, RowOfSet
<1>12. p.row.scores = FormatScores(src, app, x.scores) /\ IsRows(x.scores)
  <2>1. p.row.scores = FormatScores(src, app, x.scores)
    BY <1>7, <1>9, <1>10, ProfileFrom
  <2>2. x \in ToSet(Sources[app].profiles)
    BY <1>4, <1>5, TablesRead
  <2>3. IsRows(x.scores)
    BY <2>2, SourcesRead DEF Databases, IsRows
  <2> QED
    BY <2>1, <2>3
<1>13. PICK n \in LastWritten(p.row.scores) : SameScore(src, app, x.scores[i], p.row.scores[n])
  BY <1>4, <1>5, <1>12, ScoresRead
<1>14. ScoreRow(p.row, n) \in NewScores
  BY <1>11, <1>13, LastScoresOf DEF NewScores
<1>15. PICK k \in DOMAIN rows : rows[k] = ScoreRow(p.row, n)
  <2>1. IsFiniteSet(NewScores)
    BY <1>2, FiniteScores DEF RInv
  <2> QED
    BY <1>1, <1>14, <2>1, SetListed, RowOfSet
<1>16. PICK y : y = [id |-> next.scores + k, run |-> Len(log), row |-> rows[k]]
  OBVIOUS
<1>17. y \in tx'.scores /\ y.run = Len(log) /\ y.row = ScoreRow(p.row, n)
  BY <1>3, <1>15, <1>16 DEF Numbered
<1>18. /\ \E q \in tx.profiles : q.id = y.row.profile /\ q.row = p.row /\ q.run = Len(log)
       /\ \A q : q.id = y.row.profile => \E f \in tx.formats : Scores(y, q, f, app, x, i)
  BY <1>2, <1>4, <1>7, <1>9, <1>10, <1>13, <1>17, ScoreWritten
<1>19. PICK q \in tx.profiles : q.id = y.row.profile /\ q.row = p.row
  BY <1>18
<1>20. q = p
  BY <1>19 DEF RInv, TablesFilled
<1> QED
  BY <1>4, <1>17, <1>18, <1>19, <1>20 DEF ScoreThere

-----------------------------------------------------------------------------
(*************************************************************************)
(* Every step keeps the invariant, and the invariant gives the property. *)
(*************************************************************************)

(* Only a statement brings rows of a run. *)
LEMMA WhoBrings ==
    ASSUME MInv, RInv, MigrationNext, NEW t \in Owned, NEW r \in db'[t] \cup tx'[t],
           r \notin db[t] \cup tx[t], r.run # 0
    PROVE  Advances /\ Statement /\ r \in tx'[t]
<1> USE DEF MInv
<1>0. t \in Tables /\ t \notin {"links", "naming"}
  BY OwnedTables, TableNames DEF Owned, RunTables
<1>1. CASE Starts \/ Reads
  BY <1>1 DEF Starts, Reads
<1>2. CASE Leaves
  BY <1>0, <1>2, EmptyTables DEF Leaves, Ends
<1>3. CASE Commits
  <2>1. db'[t] \subseteq db[t] \cup tx[t]
    BY <1>0, <1>3 DEF Commits, Merged
  <2> QED
    BY <1>0, <1>3, <2>1, EmptyTables DEF Commits, Ends
<1>4. CASE Advances /\ Statement
  BY <1>4 DEF Advances, Writes
<1>5. ASSUME NEW item, AppLinks(item)
      PROVE  FALSE
  <2>1. PICK f : /\ f.run = 0 /\ db'.files = db.files \cup {f} /\ tx' = tx
                 /\ \A u \in Tables \ {"files", "links"} : db'[u] = db[u]
    BY <1>5, AppLinked
  <2> QED
    BY <1>0, <2>1
<1>6. ASSUME NEW p, UserDeletesProfile(p)
      PROVE  FALSE
  <2>1. tx' = tx /\ db' = [db EXCEPT !["profiles"] = db.profiles \ {p}]
    BY <1>6 DEF UserDeletesProfile, txVars
  <2> QED
    BY <1>0, <2>1 DEF Shapes
<1> QED
  BY <1>1, <1>2, <1>3, <1>4, <1>5, <1>6, RunSteps DEF RInv

(* and only the one that is named for the table. *)
LEMMA AtTable ==
    ASSUME Advances, Statement, NEW t \in Owned, tx'[t] # tx[t]
    PROVE  at = t
<1>1. Rank(t) = Rank(at)
  BY DEF Advances
<1>2. Rank(at) \in 1..15 /\ Rank(at) # 14 /\ Rank(at) # 12 /\ Rank(at) # 6
  BY <1>1, OwnedTables, Ranks
<1>3. at \in Owned \/ at = "joins"
  BY <1>2, OwnedTables, SMTT(40) DEF Rank
<1>4. at # "joins"
  BY ZenonT(40) DEF Statement, Begin, WriteTags, WriteCustomFormats, WriteQualityProfiles, WriteFormatScores,
       WriteMediaLibraryFolders, WriteNamingConfig, WriteIndexers, WriteDownloadClients, WriteSeries,
       WriteMediaFiles, WriteEpisodes, WriteSeasons, WriteMovies, ClearLinks, WriteBlocklist
<1> QED
  BY <1>1, <1>3, <1>4, OwnRanks

LEMMA BroughtRefers ==
    ASSUME MInv, RInv, Advances, Statement, NEW t \in Owned, NEW r \in tx'[t], r \notin tx[t]
    PROVE  RowRefers(t, r)
<1>2. at = t
  BY AtTable
<1>3. CASE t \in {"tags", "folders", "indexers", "clients"}
  BY <1>3 DEF RowRefers
<1>4. CASE t = "profiles"
  BY <1>2, <1>4, StatementAt, NewProfiles
<1>5. CASE t = "formats"
  BY <1>2, <1>5, StatementAt, NewFormats
<1>6. CASE t = "scores"
  BY <1>2, <1>6, StatementAt, NewScoreRows
<1>7. CASE t = "series"
  BY <1>2, <1>7, StatementAt, NewSeries
<1>8. CASE t = "files"
  BY <1>2, <1>8, StatementAt, NewFiles
<1>9. CASE t = "episodes"
  BY <1>2, <1>9, StatementAt, NewEpisodeRows
<1>10. CASE t = "movies"
  BY <1>2, <1>10, StatementAt, NewMovies
<1>11. CASE t = "blocklist"
  BY <1>2, <1>11, StatementAt, NewBlocked
<1> QED
  BY <1>3, <1>4, <1>5, <1>6, <1>7, <1>8, <1>9, <1>10, <1>11, OwnedTables

LEMMA RowsReferStep ==
    ASSUME MInv, RInv, MigrationNext
    PROVE  RowsRefer'
<1> SUFFICES ASSUME NEW t \in Owned, NEW r \in db'[t] \cup tx'[t], r.run > 0
             PROVE  RowRefers(t, r)'
  BY DEF RowsRefer
<1>1. CASE r \in db[t] \cup tx[t]
  BY <1>1, RowsStay, ReferencesStay DEF RInv, RowsRefer
<1>2. CASE r \notin db[t] \cup tx[t]
  <2>1. Advances /\ Statement /\ r \in tx'[t]
    BY <1>2, WhoBrings
  <2>2. RowRefers(t, r)
    BY <1>2, <2>1, BroughtRefers
  <2>3. Stays(r)
    BY <2>1, StatementKeeps
  <2> QED
    BY <2>2, <2>3, ReferencesStay
<1> QED
  BY <1>1, <1>2

LEMMA CommitsAll ==
    ASSUME MInv, Commits
    PROVE  /\ at = "commit" /\ \A t \in Owned \cup {"joins"} : db'[t] = db[t] \cup tx[t]
           /\ \A t \in Owned \cup {"joins"} : tx'[t] = {}
<1>1. at = "commit" /\ db' = [t \in Tables |-> Merged(t)] /\ tx' = Empty
  BY DEF MInv, LinksScanned, Commits, Ends
<1>2. \A t \in Owned \cup {"joins"} : t \in Tables /\ t \notin {"links", "naming"}
  BY OwnedTables, TableNames DEF Owned, RunTables
<1> QED
  BY <1>1, <1>2, EmptyTables DEF Merged

(* The steps that leave the rows of the episodes alone, and the others. *)
LEMMA JoinsStep ==
    ASSUME MInv, RInv, MigrationNext
    PROVE  JoinsRefer'
<1> USE DEF MInv
<1>0. "episodes" \in Owned /\ "joins" \in Tables /\ "episodes" \in Tables /\ "profiles" \in Tables
  BY OwnedTables, TableNames
<1>a. ASSUME NEW j, NEW e \in db.episodes \cup tx.episodes, JoinRefers(j, e),
             e \in db'.episodes \cup tx'.episodes
      PROVE  JoinRefers(j, e)'
  <2>1. e.run > 0
    BY <1>a DEF JoinRefers
  <2>2. Stays(e)
    BY <1>0, <1>a, <2>1, RowsStay
  <2> QED
    BY <1>a, <2>2, JoinStays
<1>b. ASSUME db.episodes \subseteq db'.episodes, tx.episodes \subseteq tx'.episodes,
             db'.joins = db.joins, tx'.joins = tx.joins
      PROVE  JoinsRefer'
  BY <1>a, <1>b DEF RInv, JoinsRefer
<1>1. CASE Starts \/ Reads
  BY <1>b, <1>1 DEF Starts, Reads
<1>2. CASE Leaves
  <2>1. db' = db /\ tx'.joins = {}
    BY <1>0, <1>2, EmptyTables DEF Leaves, Ends
  <2> QED
    BY <1>a, <2>1 DEF RInv, JoinsRefer
<1>3. CASE Commits
  <2>1. /\ db'.joins = db.joins \cup tx.joins /\ tx'.joins = {}
        /\ db'.episodes = db.episodes \cup tx.episodes
    BY <1>0, <1>3, CommitsAll
  <2> QED
    BY <1>a, <2>1 DEF RInv, JoinsRefer
<1>4. CASE Advances /\ Statement
  <2>1. /\ db' = db /\ tx.episodes \subseteq tx'.episodes
        /\ \A r : Stays(r)
    BY <1>0, <1>4, StatementKeeps
  <2>2. CASE at # "episodes"
    BY <1>b, <1>4, <2>1, <2>2 DEF Advances
  <2>3. CASE at = "episodes"
    <3>1. \A j \in tx'.joins : \E e \in tx'.episodes : JoinRefers(j, e)
      BY <1>4, <2>3, StatementAt, NewJoins
    <3>2. \A j \in tx'.joins : \E e \in tx'.episodes : JoinRefers(j, e)'
      BY <2>1, <3>1, JoinStays
    <3>3. \A j \in db'.joins : \E e \in db'.episodes : JoinRefers(j, e)'
      BY <1>a, <2>1 DEF RInv, JoinsRefer
    <3> QED
      BY <3>2, <3>3 DEF JoinsRefer
  <2> QED
    BY <2>2, <2>3
<1>5. ASSUME NEW item, AppLinks(item)
      PROVE  JoinsRefer'
  <2>1. tx' = tx /\ db'.joins = db.joins /\ db'.episodes = db.episodes
    BY <1>0, <1>5, AppLinked, TableNames
  <2> QED
    BY <1>b, <2>1
<1>6. ASSUME NEW p, UserDeletesProfile(p)
      PROVE  JoinsRefer'
  <2>1. tx' = tx /\ db' = [db EXCEPT !["profiles"] = db.profiles \ {p}]
    BY <1>6 DEF UserDeletesProfile, txVars
  <2>2. db'.joins = db.joins /\ db'.episodes = db.episodes
    BY <1>0, <2>1 DEF Shapes
  <2> QED
    BY <1>b, <2>1, <2>2
<1> QED
  BY <1>1, <1>2, <1>3, <1>4, <1>5, <1>6, RunSteps DEF RInv

LEMMA ScoresStep ==
    ASSUME MInv, RInv, MigrationNext
    PROVE  AllScores'
<1> USE DEF MInv
<1>0. "profiles" \in Owned /\ "profiles" \in Tables /\ "profiles" \in RunTables /\ "scores" \in Owned
      /\ "formats" \in Owned
  BY OwnedTables DEF Owned
<1>a. ASSUME NEW p \in db.profiles \cup tx.profiles, p.run > 0, ScoresThere(p),
             p \in db'.profiles \cup tx'.profiles
      PROVE  ScoresThere(p)'
  <2>1. Stays(p)
    BY <1>0, <1>a, RowsStay
  <2> QED
    BY <1>a, <2>1, ScoresStay
<1>b. ASSUME db'.profiles \subseteq db.profiles, Rank(at') = 0 \/ (at' = at /\ tx' = tx)
      PROVE  AllScores'
  <2>1. \A p \in db'.profiles : p.run > 0 => ScoresThere(p)'
    BY <1>a, <1>b DEF RInv, AllScores
  <2>2. CASE Rank(at') = 0
    <3>1. ~Written("scores")'
      BY <2>2, Ranks DEF Written
    <3> QED
      BY <2>1, <3>1 DEF AllScores
  <2>3. CASE at' = at /\ tx' = tx
    <3>1. ASSUME Written("scores"), NEW p \in tx.profiles
          PROVE  ScoresThere(p)'
      <4>1. at \notin {"idle", "read"}
        BY <3>1, Ranks DEF Written
      <4>2. p.run > 0
        BY <1>0, <4>1, UnderWay
      <4> QED
        BY <1>a, <2>3, <3>1, <4>2 DEF RInv, AllScores
    <3> QED
      BY <2>1, <2>3, <3>1 DEF AllScores, Written
  <2> QED
    BY <1>b, <2>2, <2>3
<1>1. CASE Starts \/ Reads
  BY <1>b, <1>1, Ranks DEF Starts, Reads
<1>2. CASE Leaves
  BY <1>b, <1>2, Ranks DEF Leaves, Ends
<1>3. CASE Commits
  <2>1. at = "commit" /\ db'.profiles = db.profiles \cup tx.profiles
    BY <1>0, <1>3, CommitsAll
  <2>2. Written("scores")
    BY <2>1, Ranks DEF Written
  <2>3. \A p \in db'.profiles : p.run > 0 => ScoresThere(p)'
    BY <1>a, <2>1, <2>2 DEF RInv, AllScores
  <2>4. ~Written("scores")'
    BY <1>3, Ranks DEF Commits, Ends, Written
  <2> QED
    BY <2>3, <2>4 DEF AllScores
<1>4. CASE Advances /\ Statement
  <2>1. /\ db' = db /\ \A r : Stays(r)
    BY <1>4, StatementKeeps
  <2>2. \A p \in db'.profiles : p.run > 0 => ScoresThere(p)'
    BY <1>a, <2>1 DEF RInv, AllScores
  <2>3. ASSUME Written("scores")', NEW p \in tx'.profiles
        PROVE  ScoresThere(p)'
    <3>0. at \notin {"idle", "read"} /\ Rank(at) \in Nat /\ Rank(at') = Rank(at) + 1
      <4>1. Rank(at) \in Nat
        BY DEF Rank
      <4> QED
        BY <1>4, <4>1 DEF Advances, Writes
    <3>1. Rank(at) >= 4
      BY <2>3, <3>0, Ranks DEF Written
    <3>2. tx'.profiles = tx.profiles
      BY <1>0, <1>4, <3>1, Ranks DEF Advances
    <3>3. CASE Rank(at) > 4
      <4>1. ScoresThere(p)
        BY <2>3, <3>2, <3>3, Ranks DEF RInv, AllScores, Written
      <4> QED
        BY <2>1, <4>1, ScoresStay
    <3>4. CASE Rank(at) = 4
      <4>1. at = "scores"
        BY <3>4 DEF Rank
      <4>2. WriteFormatScores
        BY <1>4, <4>1, StatementAt
      <4>3. ReadOf(p)' = ReadOf(p) /\ tx'.formats = tx.formats
        <5>1. tx'.formats = tx.formats
          BY <1>0, <1>4, <4>1, Ranks DEF Advances
        <5>2. Stays(p)
          BY <2>1
        <5> QED
          BY <5>1, <5>2 DEF Stays, ReadOf
      <4>4. ASSUME NEW app \in {"sonarr", "radarr"}, NEW x \in ToSet(ReadOf(p)'[app].profiles),
                   p.row.from = <<app, x.id>>, NEW i \in LastScored(ReadOf(p)', app, x.scores)
            PROVE  \E y \in db'.scores \cup tx'.scores, f \in db'.formats \cup tx'.formats :
                      y.run = p.run /\ Scores(y, p, f, app, x, i)'
        <5>1. PICK y : ScoreThere(y, p, app, x, i)
          BY <2>3, <3>2, <4>2, <4>3, <4>4, NoScoreMissing
        <5>2. PICK f \in tx.formats : Scores(y, p, f, app, x, i)
          BY <5>1 DEF ScoreThere
        <5>3. Stays(y)
          BY <2>1
        <5>4. ReadOf(y)' = ReadOf(y)
          BY <5>3 DEF Stays, ReadOf
        <5>5. Scores(y, p, f, app, x, i)'
          BY <5>2, <5>4 DEF Scores
        <5> QED
          BY <2>1, <4>3, <5>1, <5>2, <5>5 DEF ScoreThere
      <4> QED
        BY <4>4 DEF ScoresThere
    <3> QED
      BY <3>0, <3>1, <3>3, <3>4
  <2> QED
    BY <2>2, <2>3 DEF AllScores
<1>5. ASSUME NEW item, AppLinks(item)
      PROVE  AllScores'
  <2>1. tx' = tx /\ at' = at
    BY <1>5 DEF AppLinks, txVars
  <2>2. db'.profiles = db.profiles
    BY <1>0, <1>5, AppLinked, TableNames
  <2> QED
    BY <1>b, <2>1, <2>2
<1>6. ASSUME NEW p, UserDeletesProfile(p)
      PROVE  AllScores'
  <2>1. tx' = tx /\ at' = at /\ db' = [db EXCEPT !["profiles"] = db.profiles \ {p}]
    BY <1>6 DEF UserDeletesProfile, txVars
  <2>2. db'.profiles \subseteq db.profiles
    BY <1>0, <2>1 DEF Shapes
  <2> QED
    BY <1>b, <2>1, <2>2
<1> QED
  BY <1>1, <1>2, <1>3, <1>4, <1>5, <1>6, RunSteps DEF RInv

LEMMA ReferencesStart ==
    ASSUME MigrationInit
    PROVE  RInv
<1>0. MInv
  BY MigrationStarts
<1>a. Len(log) = 0 /\ DOMAIN log = {} /\ at = "idle" /\ src = NoTables /\ tx = Empty
  <2>1. log = <<>>
    BY DEF MigrationInit
  <2> QED
    BY <2>1, EmptySequence DEF MigrationInit
<1>b. \A t \in Owned \cup {"joins"} : t \in Tables /\ tx[t] = {}
  BY <1>a, EmptyTables, OwnedTables
<1>c. /\ \A t \in Tables \ {"profiles", "naming", "movies", "tags", "folders"} : db[t] = {}
      /\ db.profiles = {Row(1, [old |-> 0, from |-> <<"seed", 1>>])}
      /\ db.movies = {Row(1, [from |-> <<"user", 1>>, profile |-> 0])}
      /\ db.tags = Seeds(SeedTags) /\ db.folders = Seeds(SeedFolders)
  BY EmptyTables, TableNames DEF MigrationInit
<1>1. SourcesKnown
  <2>1. DOMAIN NoTables = Applications
    BY SourcesRead DEF Databases
  <2>2. WellRead(NoTables)
    BY <2>1, GivenWellRead
  <2> QED
    BY <1>a, <2>2 DEF SourcesKnown
<1>2. IdsNumbered
  <2>1. ASSUME NEW s, IsRows(s)
        PROVE  NumberedIn(0, Seeds(s), {}, Len(s))
    <3>1. Len(s) \in Nat /\ DOMAIN s = 1..Len(s)
      BY <2>1, RowsType
    <3>2. \A r \in Seeds(s) : \E i \in 1..Len(s) : r = [id |-> i, run |-> 0, row |-> s[i]]
      BY <3>1 DEF Seeds, Row
    <3> QED
      BY <3>1, <3>2 DEF NumberedIn
  <2>2. IsRows(SeedTags) /\ IsRows(SeedFolders)
    BY MigrationAssumption DEF MigrationAssumption, Seeded, IsRows
  <2>3. /\ next.tags = Len(SeedTags) /\ next.folders = Len(SeedFolders)
        /\ next.profiles = 1 /\ next.movies = 1
        /\ \A t \in Tables : t \notin {"tags", "folders", "profiles", "movies"} => next[t] = 0
    BY TableNames DEF MigrationInit
  <2>4. NumberedIn(0, db.tags, {}, next.tags) /\ NumberedIn(0, db.folders, {}, next.folders)
    BY <1>c, <2>1, <2>2, <2>3
  <2>5. NumberedIn(0, db.profiles, {}, next.profiles) /\ NumberedIn(0, db.movies, {}, next.movies)
    BY <1>c, <2>3 DEF NumberedIn, Row
  <2>6. \A t \in Owned : t \notin {"tags", "folders", "profiles", "movies"} =>
           NumberedIn(0, db[t], {}, next[t])
    BY <1>b, <1>c, <2>3 DEF NumberedIn, Owned
  <2>7. \A t \in Owned : NumberedIn(0, db[t], {}, next[t])
    BY <2>4, <2>5, <2>6
  <2> QED
    BY <1>b, <2>7 DEF IdsNumbered, NumberedIn
<1>3. ~Written("profiles") /\ ~Written("formats") /\ ~Written("scores")
  BY <1>a, Ranks DEF Written
<1>4. TablesFilled
  BY <1>b, <1>3, OwnedTables DEF TablesFilled
<1>5. \A t \in Owned : \A r \in db[t] : r.run = 0
  <2>1. Owned \subseteq RunTables
    BY DEF Owned
  <2>2. \A t \in Owned : \A r \in db[t] : Kept(r)
    BY <1>0, <2>1 DEF MInv, RunsNumbered
  <2> QED
    BY <1>a, <2>2 DEF Kept
<1>6. RowsRefer
  BY <1>b, <1>5 DEF RowsRefer
<1>7. JoinsRefer
  BY <1>b, <1>c, OwnedTables DEF JoinsRefer
<1>8. AllScores
  BY <1>3, <1>5, OwnedTables DEF AllScores
<1> QED
  BY <1>1, <1>2, <1>4, <1>6, <1>7, <1>8 DEF RInv

LEMMA ReferencesStep ==
    ASSUME MInv, RInv, [MigrationNext]_migrationVars
    PROVE  RInv'
<1>1. CASE MigrationNext
  BY <1>1, SourcesStep, IdsStep, FilledStep, RowsReferStep, JoinsStep, ScoresStep DEF RInv
<1>2. CASE UNCHANGED migrationVars
  <2>1. SourcesKnown'
    BY <1>2 DEF migrationVars, txVars, RInv, SourcesKnown
  <2>2. IdsNumbered' /\ TablesFilled'
    BY <1>2 DEF migrationVars, txVars, RInv, IdsNumbered, TablesFilled, Written
  <2>3. /\ \A t, r : RowRefers(t, r) => RowRefers(t, r)'
        /\ \A j, e : JoinRefers(j, e) => JoinRefers(j, e)'
        /\ \A p : ScoresThere(p) => ScoresThere(p)'
    <3>1. \A r : Stays(r)
      BY <1>2 DEF migrationVars, txVars, Stays
    <3> QED
      BY <3>1, ReferencesStay, JoinStays, ScoresStay
  <2>4. RowsRefer' /\ JoinsRefer' /\ AllScores'
    BY <1>2, <2>3 DEF migrationVars, txVars, RInv, RowsRefer, JoinsRefer, AllScores, Written
  <2> QED
    BY <2>1, <2>2, <2>4 DEF RInv
<1> QED
  BY <1>1, <1>2

LEMMA ReferencesInvariant ==
    MigrationSpec => [](MInv /\ RInv)
<1>1. MigrationInit => MInv /\ RInv
  BY MigrationStarts, ReferencesStart
<1>2. MInv /\ RInv /\ [MigrationNext]_migrationVars => MInv' /\ RInv'
  BY MigrationStep, ReferencesStep
<1> QED
  BY <1>1, <1>2, PTL DEF MigrationSpec

-----------------------------------------------------------------------------
(* What a committed row refers to is committed. *)
LEMMA CommittedRun ==
    ASSUME MInv, NEW u \in Owned, NEW r \in db[u]
    PROVE  /\ \A t \in Owned : \A q \in db[t] \cup tx[t] : q.run <= r.run => q \in db[t]
           /\ r.run \in Nat
<1>0. Owned \subseteq Tables /\ Owned \subseteq RunTables
  BY OwnedTables DEF Owned
<1>1. Len(log) \in Nat
  BY RowsType DEF MInv, Shapes, LogShape
<1>2. r.run \in 0..Len(log) /\ (at # "idle" => r.run < Len(log))
  BY <1>0 DEF MInv, RunsNumbered, Kept
<1>3. \A t \in Owned : \A q \in tx[t] : at # "idle" /\ q.run = Len(log)
  BY <1>0, EmptyTables DEF MInv, RunsNumbered
<1> QED
  BY <1>1, <1>2, <1>3

LEMMA TheRow ==
    ASSUME RInv, NEW t \in Owned, NEW q \in db[t]
    PROVE  The(t, q.id) = q
<1>1. The(t, q.id) \in db[t] /\ The(t, q.id).id = q.id
  BY DEF The
<1> QED
  BY <1>1 DEF RInv, IdsNumbered

LEMMA NamedIs ==
    ASSUME MInv, RInv, NEW u \in Owned, NEW r \in db[u], NEW t \in Owned, NEW id, NEW from,
           Named(t, id, r, from)
    PROVE  The(t, id).row.from = from
<1>1. PICK q \in db[t] \cup tx[t] : q.run = r.run /\ q.id = id /\ q.row.from = from
  BY DEF Named
<1>2. q \in db[t]
  BY <1>1, CommittedRun
<1> QED
  BY <1>1, <1>2, TheRow

(* The rows of a run. *)
LEMMA RunRows ==
    ASSUME MInv, RInv, NEW k \in DOMAIN log, NEW t \in Owned, NEW r \in Of(k, t)
    PROVE  /\ r \in db[t] /\ r.run = k /\ RowRefers(t, r)
           /\ ReadOf(r) = log[k].src /\ WellRead(log[k].src)
<1>1. r \in db[t] /\ r.run = k
  BY DEF Of
<1>2. k > 0
  BY RowsType DEF MInv, Shapes, LogShape
<1> QED
  BY <1>1, <1>2 DEF RInv, RowsRefer, SourcesKnown, ReadOf

LEMMA ItemsKeepProfiles ==
    ASSUME MInv, RInv, NEW k \in DOMAIN log, NEW app, NEW t,
           (app = "sonarr" /\ t = "series") \/ (app = "radarr" /\ t = "movies")
    PROVE  /\ ProfileKept(k, app, t)
           /\ \A r \in Of(k, t) : FolderHolds(r)
<1>0. t \in Owned /\ "profiles" \in Owned /\ "folders" \in Owned
  BY OwnedTables
<1>1. ASSUME NEW r \in Of(k, t)
      PROVE  /\ r \in db[t] /\ ItemRefers(app, t, r)
             /\ ReadOf(r) = log[k].src /\ WellRead(log[k].src)
  BY <1>0, <1>1, RunRows DEF RowRefers
<1>2. ASSUME NEW r \in Of(k, t), NEW x \in Given(k, app, t), x.id = r.row.old,
             <<app, x.profile>> \in From(k, app, "profiles")
      PROVE  The("profiles", r.row.profile).row.from = <<app, x.profile>>
  <2>1. PICK z \in ToSet(log[k].src[app][t]) :
          /\ r.row.old = z.id
          /\ z.profile \in {y.id : y \in ToSet(log[k].src[app].profiles)} =>
                Named("profiles", r.row.profile, r, <<app, z.profile>>)
    BY <1>1, <1>2 DEF ItemRefers
  <2>2. Keyed(log[k].src[app][t])
    BY <1>1, <1>2, TablesRead
  <2>3. z = x
    BY <1>2, <2>1, <2>2, KeysTellRows DEF Given
  <2>4. x.profile \in {y.id : y \in ToSet(log[k].src[app].profiles)}
    BY <1>2 DEF From, Given
  <2> QED
    BY <1>0, <1>1, <2>1, <2>3, <2>4, NamedIs
<1>3. ASSUME NEW r \in Of(k, t)
      PROVE  FolderHolds(r)
  <2> SUFFICES ASSUME r.row.folder # 0
               PROVE  IsPrefix(The("folders", r.row.folder).row.path, r.row.path)
    BY DEF FolderHolds
  <2>1. InFolder(r)
    BY <1>1 DEF ItemRefers
  <2>2. PICK f \in db.folders \cup tx.folders :
            f.run <= r.run /\ f.id = r.row.folder /\ IsPrefix(f.row.path, r.row.path)
    BY <2>1 DEF InFolder
  <2>3. f \in db.folders
    BY <1>0, <1>1, <2>2, CommittedRun
  <2>4. The("folders", f.id) = f
    BY <1>0, <2>3, TheRow
  <2> QED
    BY <2>2, <2>4
<1> QED
  BY <1>2, <1>3 DEF ProfileKept

(* What a profile's row was read from. *)
LEMMA ProfileRead ==
    ASSUME MInv, RInv, NEW k \in DOMAIN log, NEW p \in Of(k, "profiles")
    PROVE  \E app \in {"sonarr", "radarr"} : \E x \in ToSet(log[k].src[app].profiles) :
              /\ p.row = ProfileOfApp(log[k].src, app, x)
              /\ p.row.from = <<app, x.id>>
              /\ \A z \in ToSet(log[k].src[app].profiles) : z.id = x.id => z = x
<1>1. /\ RowRefers("profiles", p)
      /\ ReadOf(p) = log[k].src /\ WellRead(log[k].src)
  BY RunRows, OwnedTables
<1>2. PICK app \in {"sonarr", "radarr"} : \E x \in ToSet(log[k].src[app].profiles) :
         p.row = ProfileOfApp(log[k].src, app, x)
  BY <1>1 DEF RowRefers, ProfileRefers
<1>3. PICK x \in ToSet(log[k].src[app].profiles) : p.row = ProfileOfApp(log[k].src, app, x)
  BY <1>2
<1>4. p.row.from = <<app, x.id>>
  BY <1>3 DEF ProfileOfApp, SeriesProfile, MovieProfile
<1>5. Keyed(log[k].src[app].profiles)
  BY <1>1, TablesRead
<1>6. \A z \in ToSet(log[k].src[app].profiles) : z.id = x.id => z = x
  BY <1>5, KeysTellRows
<1> QED
  BY <1>3, <1>4, <1>6

LEMMA ProfilesKeepScores ==
    ASSUME MInv, RInv, NEW k \in DOMAIN log, NEW p \in Of(k, "profiles")
    PROVE  ScoresKept(k, p) /\ CutoffKept(k, p)
<1>0. {"profiles", "formats", "scores"} \subseteq Owned
  BY OwnedTables
<1>1. PICK app \in {"sonarr", "radarr"} : \E x \in ToSet(log[k].src[app].profiles) :
              /\ p.row = ProfileOfApp(log[k].src, app, x)
              /\ p.row.from = <<app, x.id>>
              /\ \A z \in ToSet(log[k].src[app].profiles) : z.id = x.id => z = x
  BY ProfileRead
<1>2. PICK x \in ToSet(log[k].src[app].profiles) :
              /\ p.row = ProfileOfApp(log[k].src, app, x)
              /\ p.row.from = <<app, x.id>>
              /\ \A z \in ToSet(log[k].src[app].profiles) : z.id = x.id => z = x
  BY <1>1
<1>3. p.row.from[1] = app /\ p.row.from[2] = x.id
  BY <1>2
<1>4. \A z \in Given(k, p.row.from[1], "profiles") : z.id = p.row.from[2] => z = x
  BY <1>2, <1>3 DEF Given
<1>5. p \in db.profiles /\ p.run = k /\ ReadOf(p) = log[k].src
  BY <1>0, RunRows
<1> DEFINE s    == log[k].src
           rows == {y \in Of(k, "scores") : y.row.profile = p.id}
           key(i) == Keys(s, app, x.scores[i].format)
           last == LastScored(s, app, x.scores)
           said(y) == <<{The("formats", y.row.format).row.key}, y.row.score>>
           meant(i) == <<key(i), x.scores[i].score>>
<1>6. ASSUME NEW y \in rows
      PROVE  \E i \in last : said(y) = meant(i)
  <2>1. y \in Of(k, "scores") /\ y.row.profile = p.id
    OBVIOUS
  <2>2. y \in db.scores /\ y.run = k /\ ScoreRefers(y) /\ ReadOf(y) = s
    BY <1>0, <2>1, RunRows DEF RowRefers
  <2>3. PICK q \in db.profiles \cup tx.profiles, f \in db.formats \cup tx.formats :
       q.run = y.run /\
       \E other \in {"sonarr", "radarr"} : \E z \in ToSet(s[other].profiles) :
          /\ q.row.from = <<other, z.id>>
          /\ \E i \in LastScored(s, other, z.scores) : Scores(y, q, f, other, z, i)
    BY <2>2 DEF ScoreRefers
  <2>4. PICK other \in {"sonarr", "radarr"} : \E z \in ToSet(s[other].profiles) :
          /\ q.row.from = <<other, z.id>>
          /\ \E i \in LastScored(s, other, z.scores) : Scores(y, q, f, other, z, i)
    BY <2>3
  <2>5. PICK z \in ToSet(s[other].profiles) :
          /\ q.row.from = <<other, z.id>>
          /\ \E i \in LastScored(s, other, z.scores) : Scores(y, q, f, other, z, i)
    BY <2>4
  <2>6. PICK i \in LastScored(s, other, z.scores) : Scores(y, q, f, other, z, i)
    BY <2>5
  <2>7. q = p
    <3>1. q.id = p.id
      BY <2>1, <2>6 DEF Scores
    <3> QED
      BY <1>0, <1>5, <3>1 DEF RInv, IdsNumbered
  <2>8. other = app /\ z = x
    BY <1>2, <2>5, <2>7
  <2>9. f.run = k /\ f.id = y.row.format
    BY <2>2, <2>6 DEF Scores
  <2>10. f \in db.formats
    <3>1. f.run <= y.run
      BY <1>0, <2>2, <2>9, CommittedRun
    <3> QED
      BY <1>0, <2>2, <3>1, CommittedRun
  <2>11. The("formats", y.row.format) = f
    BY <1>0, <2>9, <2>10, TheRow
  <2>12. {f.row.key} = key(i) /\ y.row.score = x.scores[i].score
    BY <2>2, <2>6, <2>8 DEF Scores
  <2> QED
    BY <2>6, <2>8, <2>11, <2>12
<1>7. ASSUME NEW i \in last
      PROVE  \E y \in rows : said(y) = meant(i)
  <2>1. ScoresThere(p)
    BY <1>5, RowsType DEF RInv, AllScores, MInv, Shapes, LogShape
  <2>2. PICK y \in db.scores \cup tx.scores, f \in db.formats \cup tx.formats :
           y.run = p.run /\ Scores(y, p, f, app, x, i)
    BY <1>2, <1>5, <2>1 DEF ScoresThere
  <2>3. f.run = k /\ f.id = y.row.format /\ y.row.profile = p.id /\ y.run = k
    BY <1>5, <2>2 DEF Scores
  <2>4. y \in db.scores /\ f \in db.formats
    BY <1>0, <1>5, <2>3, CommittedRun
  <2>5. The("formats", y.row.format) = f
    BY <1>0, <2>3, <2>4, TheRow
  <2>6. ReadOf(y) = s
    BY <2>3 DEF ReadOf
  <2>7. {f.row.key} = key(i) /\ y.row.score = x.scores[i].score
    BY <2>2, <2>6 DEF Scores
  <2>8. y \in rows
    BY <2>3, <2>4 DEF Of
  <2> QED
    BY <2>5, <2>7, <2>8
<1>8. {said(y) : y \in rows} = {meant(i) : i \in last}
  <2> HIDE DEF rows, last, said, meant
  <2> QED
    BY <1>6, <1>7
<1>9. ScoresKept(k, p)
  <2>1. \A id : FormatKey(k, app, id) = Keys(s, app, id)
    BY DEF FormatKey, Keys, Given
  <2>2. LET fkey(i) == FormatKey(k, app, x.scores[i].format)
            scored == {i \in DOMAIN x.scores : x.scores[i].score # 0 /\ fkey(i) # {}}
        IN  {i \in scored : \A j \in scored : fkey(j) = fkey(i) => j <= i} = last
    BY <2>1 DEF Scored, LastScored
  <2>3. LET fkey(i) == FormatKey(k, app, x.scores[i].format)
            scored == {i \in DOMAIN x.scores : x.scores[i].score # 0 /\ fkey(i) # {}}
            final  == {i \in scored : \A j \in scored : fkey(j) = fkey(i) => j <= i}
        IN  {said(y) : y \in rows} = {<<fkey(i), x.scores[i].score>> : i \in final}
    BY <1>8, <2>1, <2>2
  <2> QED
    BY <1>3, <1>4, <2>3, ZenonT(40) DEF ScoresKept
<1>10. CutoffKept(k, p)
  <2>1. p.row.cutoff = QualityId(x.cutoff) /\ p.row.items = {QualityId(q) : q \in x.items}
    BY <1>2 DEF ProfileOfApp, SeriesProfile, MovieProfile
  <2> QED
    BY <1>4, <2>1 DEF CutoffKept
<1> QED
  BY <1>9, <1>10

LEMMA EpisodesKeepFiles ==
    ASSUME MInv, RInv, NEW k \in DOMAIN log, NEW e \in Of(k, "episodes")
    PROVE  EpisodeKept(k, e)
<1>0. {"episodes", "series", "files"} \subseteq Owned
  BY OwnedTables
<1>1. /\ e \in db.episodes /\ EpisodeRefers(e)
      /\ ReadOf(e) = log[k].src /\ WellRead(log[k].src)
  BY <1>0, RunRows DEF RowRefers
<1>2. Keyed(log[k].src.sonarr.episodes)
  BY <1>1, TablesRead
<1>3. SUFFICES ASSUME NEW x \in ToSet(log[k].src.sonarr.episodes), <<"sonarr", x.id>> = e.row.from
      PROVE  /\ The("series", e.row.series).row.from = <<"sonarr", x.series>>
             /\ \A j \in db.joins : j.episode = e.id =>
                   The("files", j.file).row.from = <<"sonarr", x.file>>
  BY DEF EpisodeKept, Given
<1>4. PICK z \in ToSet(log[k].src.sonarr.episodes) :
        e.row.from = <<"sonarr", z.id>> /\ Named("series", e.row.series, e, <<"sonarr", z.series>>)
  BY <1>1 DEF EpisodeRefers
<1>5. z = x
  BY <1>2, <1>3, <1>4, KeysTellRows
<1>6. The("series", e.row.series).row.from = <<"sonarr", x.series>>
  BY <1>0, <1>1, <1>4, <1>5, NamedIs
<1>7. ASSUME NEW j \in db.joins, j.episode = e.id
      PROVE  The("files", j.file).row.from = <<"sonarr", x.file>>
  <2>1. PICK d \in db.episodes : JoinRefers(j, d)
    BY DEF RInv, JoinsRefer
  <2>2. d = e
    BY <1>0, <1>1, <1>7, <2>1 DEF JoinRefers, RInv, IdsNumbered
  <2>3. PICK y \in ToSet(log[k].src.sonarr.episodes) :
           e.row.from = <<"sonarr", y.id>> /\ Named("files", j.file, e, <<"sonarr", y.file>>)
    BY <1>1, <2>1, <2>2 DEF JoinRefers
  <2>4. y = x
    BY <1>2, <1>3, <2>3, KeysTellRows
  <2> QED
    BY <1>0, <1>1, <2>3, <2>4, NamedIs
<1> QED
  BY <1>6, <1>7

LEMMA BlockedKeepItems ==
    ASSUME MInv, RInv, NEW k \in DOMAIN log, NEW b \in Of(k, "blocklist")
    PROVE  BlockedKept(k, b)
<1>0. {"blocklist", "series", "movies"} \subseteq Owned
  BY OwnedTables
<1>1. /\ b \in db.blocklist /\ BlockedRefers(b)
      /\ ReadOf(b) = log[k].src /\ WellRead(log[k].src)
  BY <1>0, RunRows DEF RowRefers
<1>2. PICK app \in {"sonarr", "radarr"} : \E z \in ToSet(log[k].src[app].blocklist) :
         /\ b.row.from = <<app, z.id>> /\ b.row.media = Media(app)
         /\ Named(IF app = "sonarr" THEN "series" ELSE "movies", b.row.item, b, <<app, z.item>>)
  BY <1>1 DEF BlockedRefers
<1>3. PICK z \in ToSet(log[k].src[app].blocklist) :
         /\ b.row.from = <<app, z.id>> /\ b.row.media = Media(app)
         /\ Named(IF app = "sonarr" THEN "series" ELSE "movies", b.row.item, b, <<app, z.item>>)
  BY <1>2
<1>4. b.row.from[1] = app /\ b.row.from[2] = z.id
  BY <1>3
<1>5. Keyed(log[k].src[app].blocklist)
  BY <1>1, TablesRead
<1>6. \A x \in Given(k, b.row.from[1], "blocklist") : x.id = b.row.from[2] => x = z
  BY <1>3, <1>4, <1>5, KeysTellRows DEF Given
<1>7. (IF b.row.media = "series" THEN "series" ELSE "movies") =
         (IF app = "sonarr" THEN "series" ELSE "movies")
  BY <1>3 DEF Media
<1>8. PICK t \in {"series", "movies"} : t = IF app = "sonarr" THEN "series" ELSE "movies"
  OBVIOUS
<1>9. The(t, b.row.item).row.from = <<app, z.item>>
  BY <1>0, <1>1, <1>3, <1>8, NamedIs
<1> QED
  BY <1>4, <1>6, <1>7, <1>8, <1>9 DEF BlockedKept

(* The ids of two applications collide, and what refers to one of them finds  *)
(* it nevertheless (ProfileIdMap and its kin, RADARR_PROFILE_OFFSET): an item  *)
(* its own application's profile, an episode its series and its file, a score *)
(* its profile and its format, a blocked release its item.                    *)
THEOREM ReferencesSurvive ==
    MigrationSpec => []ReferencesKept
<1>1. MInv /\ RInv => ReferencesKept
  <2> SUFFICES ASSUME MInv, RInv, NEW k \in DOMAIN log
               PROVE  /\ ProfileKept(k, "sonarr", "series") /\ ProfileKept(k, "radarr", "movies")
                      /\ \A r \in Of(k, "series") \cup Of(k, "movies") : FolderHolds(r)
                      /\ \A p \in Of(k, "profiles") : ScoresKept(k, p) /\ CutoffKept(k, p)
                      /\ \A e \in Of(k, "episodes") : EpisodeKept(k, e)
                      /\ \A b \in Of(k, "blocklist") : BlockedKept(k, b)
    BY DEF ReferencesKept, Runs
  <2> QED
    BY ItemsKeepProfiles, ProfilesKeepScores, EpisodesKeepFiles, BlockedKeepItems
<1> QED
  BY <1>1, ReferencesInvariant, PTL

-----------------------------------------------------------------------------
(*************************************************************************)
(* The third part: what the schema keeps UNIQUE stays so, and every     *)
(* variable keeps its type (MigrationTypeOK).  The columns are held in   *)
(* the tables together with what the transaction wrote, for COMMIT adds  *)
(* the one to the other; what is written anew is told from what is there *)
(* by what the code asked the tables first, or, where it asks nothing,   *)
(* by the number of the run its new parent has (OtherRun).               *)
(*************************************************************************)

(* The columns that the schema keeps UNIQUE; scores and episodes are those   *)
(* of a run.                                                                 *)
TagsOnce    == \A r, q \in db.tags \cup tx.tags : r.row = q.row => r = q
FoldersOnce == \A r, q \in db.folders \cup tx.folders : r.row.path = q.row.path => r = q

SameScored(r, q)   == r.row.profile = q.row.profile /\ r.row.format = q.row.format
SameEpisode(r, q) == r.row.series = q.row.series /\ r.row.number = q.row.number

ScoresOnce   == \A r, q \in db.scores \cup tx.scores : SameScored(r, q) => r = q
EpisodesOnce == \A r, q \in db.episodes \cup tx.episodes : SameEpisode(r, q) => r = q
OfRuns       == \A t \in {"scores", "episodes"} : \A r \in db[t] \cup tx[t] : r.run > 0

(* Of the rows with one key, one is the first. *)
LEMMA PickedOnce ==
    ASSUME NEW s, IsRows(s), NEW k, NEW J \in SUBSET DOMAIN s,
           \A i \in J : \A j \in DOMAIN s : k[j] = k[i] => i <= j
    PROVE  /\ IsRows(Picked(s, J))
           /\ \A n \in DOMAIN Picked(s, J) : Nth(J, n) \in DOMAIN s /\ Picked(s, J)[n] = s[Nth(J, n)]
           /\ \A m, n \in DOMAIN Picked(s, J) : k[Nth(J, m)] = k[Nth(J, n)] => m = n
<1>2. Len(s) \in Nat /\ DOMAIN s = 1..Len(s)
  BY RowsType
<1>3. /\ IsRows(Picked(s, J)) /\ Cardinality(J) \in Nat /\ DOMAIN Picked(s, J) = 1..Cardinality(J)
      /\ \A n \in DOMAIN Picked(s, J) : Nth(J, n) \in J /\ Picked(s, J)[n] = s[Nth(J, n)]
      /\ \A m, n \in DOMAIN Picked(s, J) : m < n => Nth(J, m) < Nth(J, n)
  BY PickedRows
<1>4. ASSUME NEW m \in DOMAIN Picked(s, J), NEW n \in DOMAIN Picked(s, J),
             k[Nth(J, m)] = k[Nth(J, n)]
      PROVE  m = n
  <2>1. PICK i, j : i = Nth(J, m) /\ j = Nth(J, n)
    OBVIOUS
  <2>2. i \in J /\ j \in J
    BY <1>3, <2>1
  <2>3. i <= j /\ j <= i /\ i \in Nat /\ j \in Nat
    BY <1>2, <1>4, <2>1, <2>2
  <2>4. i = j
    BY <2>3
  <2>5. m \in Nat /\ n \in Nat /\ (m < n => i < j) /\ (n < m => j < i)
    BY <1>3, <2>1
  <2> QED
    BY <2>3, <2>4, <2>5
<1> QED
  BY <1>3, <1>4

(* Rows picked from rows of different keys have different keys. *)
LEMMA PickedApart ==
    ASSUME NEW s, IsRows(s), NEW J \in SUBSET DOMAIN s, 
           NEW m \in DOMAIN Picked(s, J), NEW n \in DOMAIN Picked(s, J), Nth(J, m) = Nth(J, n)
    PROVE  m = n
<1>1. /\ Cardinality(J) \in Nat /\ DOMAIN Picked(s, J) = 1..Cardinality(J)
      /\ Nth(J, m) \in J
      /\ m < n => Nth(J, m) < Nth(J, n)
      /\ n < m => Nth(J, n) < Nth(J, m)
  BY PickedRows
<1>2. Nth(J, m) \in Nat
  BY <1>1, RowsType
<1> QED
  BY <1>1, <1>2

LEMMA TagsApart ==
    ASSUME NEW s, WellRead(s)
    PROVE  \A m, n \in DOMAIN MergedTags(s) : MergedTags(s)[m] = MergedTags(s)[n] => m = n
<1>1. IsRows(s.sonarr.tags) /\ IsRows(s.radarr.tags) /\ IsRows(s.prowlarr.tags)
  BY TablesRead
<1>2. PICK all : all = TagsOf(s)
  OBVIOUS
<1>3. IsRows(all)
  BY <1>1, <1>2, JoinedRows DEF TagsOf
<1> DEFINE I == {i \in DOMAIN all : \A j \in DOMAIN all : all[j].label.key = all[i].label.key => i <= j}
<1>4. PICK firsts : firsts = Picked(all, I)
  OBVIOUS
<1>5. MergedTags(s) = [i \in DOMAIN firsts |-> firsts[i].label]
  BY <1>2, <1>4 DEF MergedTags, Firsts, Apply
<1> DEFINE k == [i \in DOMAIN all |-> all[i].label.key]
<1>6. I \in SUBSET DOMAIN all /\ \A i \in I : \A j \in DOMAIN all : k[j] = k[i] => i <= j
  OBVIOUS
<1>7. \A i \in DOMAIN all : k[i] = all[i].label.key
  OBVIOUS
<1> HIDE DEF I, k
<1>8. /\ \A n \in DOMAIN firsts : Nth(I, n) \in DOMAIN all /\ firsts[n] = all[Nth(I, n)]
      /\ \A m, n \in DOMAIN firsts : k[Nth(I, m)] = k[Nth(I, n)] => m = n
  BY <1>3, <1>4, <1>6, PickedOnce
<1>9. ASSUME NEW m \in DOMAIN firsts, NEW n \in DOMAIN firsts, firsts[m].label = firsts[n].label
      PROVE  m = n
  BY <1>7, <1>8, <1>9
<1> QED
  BY <1>5, <1>9

(* No two tags that are written are one, nor is one of them there. *)
LEMMA TagsStayOnce ==
    ASSUME MInv, RInv, TagsOnce, WriteTags
    PROVE  \A r, q \in db.tags \cup tx'.tags : r.row = q.row => r = q
<1> DEFINE I == {i \in DOMAIN data.tags : data.tags[i] \notin {t.row : t \in db.tags}}
<1>1. PICK rows : rows = Picked(data.tags, I)
  OBVIOUS
<1>2. at = "tags" /\ Insert("tags", rows)
  BY <1>1 DEF WriteTags, Only
<1>3. tx'.tags = Numbered("tags", rows)
  BY <1>2, TableNames DEF Insert, MInv, Shapes
<1>4. WellRead(src) /\ data.tags = MergedTags(src) /\ IsRows(data.tags)
  BY <1>2, UnderWay, DataRows
<1>5. I \in SUBSET DOMAIN data.tags /\ \A i \in I : \A t \in db.tags : t.row # data.tags[i]
  OBVIOUS
<1> HIDE DEF I
<1>6. \A n \in DOMAIN rows : Nth(I, n) \in I /\ rows[n] = data.tags[Nth(I, n)]
  BY <1>1, <1>4, <1>5, PickedRows
<1>7. \A m, n \in DOMAIN rows : rows[m] = rows[n] => m = n
  <2> SUFFICES ASSUME NEW m \in DOMAIN rows, NEW n \in DOMAIN rows, rows[m] = rows[n]
               PROVE  m = n
    OBVIOUS
  <2>1. Nth(I, m) = Nth(I, n)
    BY <1>4, <1>5, <1>6, TagsApart
  <2> QED
    BY <1>1, <1>4, <1>5, <2>1, PickedApart
<1>8. \A n \in DOMAIN rows : \A t \in db.tags : t.row # rows[n]
  BY <1>5, <1>6
<1>9. \A r \in tx'.tags : \E n \in DOMAIN rows :
         r = [id |-> next.tags + n, run |-> Len(log), row |-> rows[n]]
  BY <1>3 DEF Numbered
<1>10. \A r, q \in tx'.tags : r.row = q.row => r = q
  BY <1>7, <1>9
<1>11. \A r \in tx'.tags, q \in db.tags : r.row # q.row
  BY <1>8, <1>9
<1> QED
  BY <1>10, <1>11 DEF TagsOnce

LEMMA FoldersStayOnce ==
    ASSUME MInv, RInv, FoldersOnce, WriteMediaLibraryFolders
    PROVE  \A r, q \in db.folders \cup tx'.folders : r.row.path = q.row.path => r = q
<1> DEFINE I == {i \in DOMAIN data.folders : data.folders[i].path \notin {x.row.path : x \in db.folders}}
<1>1. PICK new : new = Picked(data.folders, I)
  OBVIOUS
<1> DEFINE J == {i \in DOMAIN new : \A j \in DOMAIN new : new[j].path = new[i].path => i <= j}
<1>2. PICK rows : rows = Picked(new, J)
  OBVIOUS
<1>3. at = "folders" /\ Insert("folders", rows)
  <2>1. new = Only(data.folders, LAMBDA f : f.path \notin {x.row.path : x \in db.folders})
    BY <1>1 DEF Only
  <2>2. rows = Firsts(new, LAMBDA f : f.path)
    BY <1>2 DEF Firsts
  <2> QED
    BY <2>1, <2>2 DEF WriteMediaLibraryFolders
<1>4. tx'.folders = Numbered("folders", rows)
  BY <1>3, TableNames DEF Insert, MInv, Shapes
<1>5. IsRows(data.folders)
  BY <1>3, DataShapes DEF RInv
<1>6. I \in SUBSET DOMAIN data.folders /\ \A i \in I : \A t \in db.folders : t.row.path # data.folders[i].path
  OBVIOUS
<1> DEFINE k == [i \in DOMAIN new |-> new[i].path]
<1>7. J \in SUBSET DOMAIN new /\ \A i \in J : \A j \in DOMAIN new : k[j] = k[i] => i <= j
  OBVIOUS
<1>8. \A i \in DOMAIN new : k[i] = new[i].path
  OBVIOUS
<1> HIDE DEF I, J, k
<1>9. IsRows(new) /\ \A n \in DOMAIN new : Nth(I, n) \in I /\ new[n] = data.folders[Nth(I, n)]
  BY <1>1, <1>5, <1>6, PickedRows
<1>10. \A n \in DOMAIN new : \A t \in db.folders : t.row.path # new[n].path
  BY <1>6, <1>9
<1>11. /\ \A n \in DOMAIN rows : Nth(J, n) \in DOMAIN new /\ rows[n] = new[Nth(J, n)]
       /\ \A m, n \in DOMAIN rows : k[Nth(J, m)] = k[Nth(J, n)] => m = n
  BY <1>2, <1>7, <1>9, PickedOnce
<1>12. \A m, n \in DOMAIN rows : rows[m].path = rows[n].path => m = n
  BY <1>8, <1>11
<1>13. \A n \in DOMAIN rows : \A t \in db.folders : t.row.path # rows[n].path
  BY <1>10, <1>11
<1>14. \A r \in tx'.folders : \E n \in DOMAIN rows :
          r = [id |-> next.folders + n, run |-> Len(log), row |-> rows[n]]
  BY <1>4 DEF Numbered
<1>15. \A r, q \in tx'.folders : r.row.path = q.row.path => r = q
  BY <1>12, <1>14
<1>16. \A r \in tx'.folders, q \in db.folders : r.row.path # q.row.path
  BY <1>13, <1>14
<1> QED
  BY <1>15, <1>16 DEF FoldersOnce

(* A row of another run is not one of this run. *)
LEMMA OtherRun ==
    ASSUME MInv, RInv, at \notin {"idle", "read"}, NEW t \in Owned, NEW r \in db[t], r.run > 0,
           NEW u \in Owned, NEW p \in db[u] \cup tx[u], p.run = r.run, NEW q \in tx[u]
    PROVE  p.id # q.id
<1>1. t \in RunTables /\ u \in RunTables
  BY DEF Owned
<1>2. r.run \in 0..Len(log) /\ r.run < Len(log) /\ q.run = Len(log)
  BY <1>1 DEF MInv, RunsNumbered, Kept
<1>3. p # q
  BY <1>2
<1> QED
  BY <1>3 DEF RInv, IdsNumbered

LEMMA EpisodesStayOnce ==
    ASSUME MInv, RInv, EpisodesOnce, OfRuns, WriteEpisodes
    PROVE  \A r, q \in db.episodes \cup tx'.episodes : SameEpisode(r, q) => r = q
<1>1. PICK new : new = NewEpisodes
  OBVIOUS
<1>2. PICK rows : rows = [i \in DOMAIN new |-> EpisodeRow(new[i])]
  OBVIOUS
<1>3. at = "episodes" /\ tx'.episodes = Numbered("episodes", rows)
  BY <1>1, <1>2, EpisodesInserted DEF MInv
<1> DEFINE J == {i \in DOMAIN KnownEpisodes : \A j \in DOMAIN KnownEpisodes :
                    <<KnownEpisodes[j].series, KnownEpisodes[j].number>> =
                    <<KnownEpisodes[i].series, KnownEpisodes[i].number>> => i <= j}
           k == [i \in DOMAIN KnownEpisodes |-> <<KnownEpisodes[i].series, KnownEpisodes[i].number>>]
<1>4. new = Picked(KnownEpisodes, J)
  BY <1>1 DEF NewEpisodes, Firsts
<1>5. J \in SUBSET DOMAIN KnownEpisodes /\ \A i \in J : \A j \in DOMAIN KnownEpisodes : k[j] = k[i] => i <= j
  OBVIOUS
<1>6. \A i \in DOMAIN KnownEpisodes : k[i] = <<KnownEpisodes[i].series, KnownEpisodes[i].number>>
  OBVIOUS
<1>7. IsRows(KnownEpisodes)
  <2> DEFINE I == {i \in DOMAIN data.episodes : SeriesId(data.episodes[i].series) # 0}
  <2>1. KnownEpisodes = Picked(data.episodes, I)
    BY DEF KnownEpisodes, Only
  <2>2. I \in SUBSET DOMAIN data.episodes /\ IsRows(data.episodes)
    BY <1>3, DataShapes DEF RInv
  <2> HIDE DEF I
  <2> QED
    BY <2>1, <2>2, SomeRows
<1> HIDE DEF J, k
<1>8. /\ \A n \in DOMAIN new : Nth(J, n) \in DOMAIN KnownEpisodes /\ new[n] = KnownEpisodes[Nth(J, n)]
      /\ \A m, n \in DOMAIN new : k[Nth(J, m)] = k[Nth(J, n)] => m = n
  BY <1>4, <1>5, <1>7, PickedOnce
<1>9. \A m, n \in DOMAIN new : new[m].series = new[n].series /\ new[m].number = new[n].number => m = n
  BY <1>6, <1>8
<1>10. \A n \in DOMAIN new : SeriesId(new[n].series) # 0
  BY <1>1, <1>3, EpisodesChosen DEF RInv
<1>11. \A n \in DOMAIN new : \E q \in tx.series :
          q.id = SeriesId(new[n].series) /\ q.row.from = <<"sonarr", new[n].series>>
  BY <1>3, <1>10, ItemFound
<1>12. \A m, n \in DOMAIN rows : rows[m].series = rows[n].series => new[m].series = new[n].series
  <2> SUFFICES ASSUME NEW m \in DOMAIN rows, NEW n \in DOMAIN rows, rows[m].series = rows[n].series
               PROVE  new[m].series = new[n].series
    OBVIOUS
  <2>1. m \in DOMAIN new /\ n \in DOMAIN new /\ SeriesId(new[m].series) = SeriesId(new[n].series)
    BY <1>2 DEF EpisodeRow
  <2>2. PICK p \in tx.series : p.id = SeriesId(new[m].series) /\ p.row.from = <<"sonarr", new[m].series>>
    BY <1>11, <2>1
  <2>3. PICK q \in tx.series : q.id = SeriesId(new[n].series) /\ q.row.from = <<"sonarr", new[n].series>>
    BY <1>11, <2>1
  <2>4. p = q
    BY <2>1, <2>2, <2>3, OwnedTables DEF RInv, IdsNumbered
  <2> QED
    BY <2>2, <2>3, <2>4
<1>13. \A m, n \in DOMAIN rows :
          rows[m].series = rows[n].series /\ rows[m].number = rows[n].number => m = n
  BY <1>2, <1>9, <1>12 DEF EpisodeRow
<1>14. \A r \in tx'.episodes : \E n \in DOMAIN rows :
          r = [id |-> next.episodes + n, run |-> Len(log), row |-> rows[n]]
  BY <1>3 DEF Numbered
<1>15. \A r, q \in tx'.episodes : SameEpisode(r, q) => r = q
  BY <1>13, <1>14 DEF SameEpisode
<1>16. ASSUME NEW r \in tx'.episodes, NEW e \in db.episodes
       PROVE  r.row.series # e.row.series
  <2>1. PICK n \in DOMAIN rows : r.row = rows[n]
    BY <1>14
  <2>2. n \in DOMAIN new /\ r.row.series = SeriesId(new[n].series)
    BY <1>2, <2>1 DEF EpisodeRow
  <2>3. PICK q \in tx.series : q.id = r.row.series
    BY <1>11, <2>2
  <2>4. e.run > 0 /\ EpisodeRefers(e)
    BY OwnedTables DEF RInv, RowsRefer, RowRefers, OfRuns
  <2>5. PICK p \in db.series \cup tx.series : p.run = e.run /\ p.id = e.row.series
    BY <2>4 DEF EpisodeRefers, Named
  <2>6. p.id # q.id
    BY <1>3, <2>4, <2>5, OtherRun, OwnedTables
  <2> QED
    BY <2>3, <2>5, <2>6
<1> QED
  BY <1>15, <1>16 DEF EpisodesOnce, SameEpisode

(* A new score tells its profile and its format. *)
ScoreTold(p, n) ==
    /\ \E q \in tx.profiles : q.id = ProfileId(p.old) /\ q.row = p
    /\ \E f \in tx.formats : f.id = FormatId(p.scores[n].index) /\ f.row.index = p.scores[n].index

LEMMA ScoresTold ==
    ASSUME MInv, RInv, at = "scores", NEW p \in ToSet(data.profiles), NEW n \in LastWritten(p.scores)
    PROVE  ScoreTold(p, n) /\ n \in Nat
<1>a. PICK app \in {"sonarr", "radarr"} : \E x \in ToSet(src[app].profiles) :
              /\ p = ProfileOfApp(src, app, x)
              /\ IsRows(x.scores) /\ p.scores = FormatScores(src, app, x.scores) /\ IsRows(p.scores)
  BY ProfileScores DEF RInv
<1>1. PICK x \in ToSet(src[app].profiles) :
              /\ p = ProfileOfApp(src, app, x)
              /\ IsRows(x.scores) /\ p.scores = FormatScores(src, app, x.scores) /\ IsRows(p.scores)
  BY <1>a
<1>2. WellRead(src) /\ Written("profiles") /\ Written("formats")
  BY UnderWay, Ranks DEF Written
<1>3. \E q \in tx.profiles : q.id = ProfileId(p.old) /\ q.row = p
  BY <1>1, <1>2, ProfileFound
<1>4. PICK i \in LastScored(src, app, x.scores) : SameScore(src, app, x.scores[i], p.scores[n])
  BY <1>1, <1>2, ScoresRead
<1>5. Keys(src, app, x.scores[i].format) # {}
  BY <1>4 DEF LastScored, Scored
<1>6. p.scores[n].index \in DOMAIN MergedFormats(src)
  BY <1>2, <1>4, <1>5, FormatFound DEF SameScore
<1>7. \E f \in tx.formats : f.id = FormatId(p.scores[n].index) /\ f.row.index = p.scores[n].index
  BY <1>2, <1>6, FormatThere
<1>8. n \in Nat
  BY <1>1, RowsType DEF LastWritten
<1> QED
  BY <1>3, <1>7, <1>8 DEF ScoreTold

LEMMA ScoresApart ==
    ASSUME MInv, RInv, at = "scores",
           NEW p \in ToSet(data.profiles), NEW m \in LastWritten(p.scores),
           NEW q \in ToSet(data.profiles), NEW n \in LastWritten(q.scores),
           ScoreRow(p, m).profile = ScoreRow(q, n).profile,
           ScoreRow(p, m).format = ScoreRow(q, n).format
    PROVE  ScoreRow(p, m) = ScoreRow(q, n)
<1>1. ScoreTold(p, m) /\ ScoreTold(q, n) /\ m \in Nat /\ n \in Nat
  BY ScoresTold
<1>2. ProfileId(p.old) = ProfileId(q.old) /\ FormatId(p.scores[m].index) = FormatId(q.scores[n].index)
  BY DEF ScoreRow
<1>3. p = q
  BY <1>1, <1>2, OwnedTables DEF ScoreTold, RInv, IdsNumbered
<1>4. p.scores[m].index = q.scores[n].index
  BY <1>1, <1>2, OwnedTables DEF ScoreTold, RInv, IdsNumbered
<1>5. m = n
  BY <1>1, <1>3, <1>4 DEF LastWritten
<1> QED
  BY <1>3, <1>5

LEMMA ScoresStayOnce ==
    ASSUME MInv, RInv, ScoresOnce, OfRuns, WriteFormatScores
    PROVE  \A r, q \in db.scores \cup tx'.scores : SameScored(r, q) => r = q
<1>1. PICK rows : rows = SetToSeq(NewScores) /\ Insert("scores", rows)
  BY DEF WriteFormatScores, NewScores
<1>2. at = "scores" /\ tx'.scores = Numbered("scores", rows)
  BY <1>1, TableNames DEF WriteFormatScores, Insert, MInv, Shapes
<1>3. /\ ToSet(rows) = NewScores
      /\ \A m, n \in DOMAIN rows : rows[m] = rows[n] => m = n
  BY <1>1, <1>2, FiniteScores, SetListed DEF RInv
<1>4. \A k \in DOMAIN rows : \E p \in ToSet(data.profiles) : \E n \in LastWritten(p.scores) :
         rows[k] = ScoreRow(p, n)
  BY <1>3, RowOfSet, LastScoresOf DEF NewScores
<1>5. \A j, k \in DOMAIN rows :
         rows[j].profile = rows[k].profile /\ rows[j].format = rows[k].format => j = k
  <2> SUFFICES ASSUME NEW j \in DOMAIN rows, NEW k \in DOMAIN rows,
                      rows[j].profile = rows[k].profile, rows[j].format = rows[k].format
               PROVE  j = k
    OBVIOUS
  <2>1a. PICK p \in ToSet(data.profiles) : \E m \in LastWritten(p.scores) : rows[j] = ScoreRow(p, m)
    BY <1>4
  <2>1. PICK m \in LastWritten(p.scores) : rows[j] = ScoreRow(p, m)
    BY <2>1a
  <2>2a. PICK q \in ToSet(data.profiles) : \E n \in LastWritten(q.scores) : rows[k] = ScoreRow(q, n)
    BY <1>4
  <2>2. PICK n \in LastWritten(q.scores) : rows[k] = ScoreRow(q, n)
    BY <2>2a
  <2>3. rows[j] = rows[k]
    BY <1>2, <2>1, <2>2, ScoresApart
  <2> QED
    BY <1>3, <2>3
<1>6. \A r \in tx'.scores : \E n \in DOMAIN rows :
         r = [id |-> next.scores + n, run |-> Len(log), row |-> rows[n]]
  BY <1>2 DEF Numbered
<1>7. \A r, q \in tx'.scores : SameScored(r, q) => r = q
  BY <1>5, <1>6 DEF SameScored
<1>8. ASSUME NEW r \in tx'.scores, NEW e \in db.scores
      PROVE  r.row.profile # e.row.profile
  <2>1. PICK k \in DOMAIN rows : r.row = rows[k]
    BY <1>6
  <2>2a. PICK p \in ToSet(data.profiles) : \E m \in LastWritten(p.scores) : rows[k] = ScoreRow(p, m)
    BY <1>4
  <2>2. PICK m \in LastWritten(p.scores) : rows[k] = ScoreRow(p, m)
    BY <2>2a
  <2>3. PICK q \in tx.profiles : q.id = r.row.profile
    BY <1>2, <2>1, <2>2, ScoresTold DEF ScoreTold, ScoreRow
  <2>4. e.run > 0 /\ ScoreRefers(e)
    BY OwnedTables DEF RInv, RowsRefer, RowRefers, OfRuns
  <2>5. PICK s \in db.profiles \cup tx.profiles : s.run = e.run /\ s.id = e.row.profile
    BY <2>4 DEF ScoreRefers, Scores
  <2>6. s.id # q.id
    BY <1>2, <2>4, <2>5, OtherRun, OwnedTables
  <2> QED
    BY <2>3, <2>5, <2>6
<1> QED
  BY <1>7, <1>8 DEF ScoresOnce, SameScored

CInv == TagsOnce /\ FoldersOnce /\ ScoresOnce /\ EpisodesOnce /\ OfRuns

(* Rows come to a table by its statement only. *)
LEMMA FewerRows ==
    ASSUME MInv, RInv, MigrationNext, NEW t \in {"tags", "folders", "scores", "episodes"}
    PROVE  \/ db'[t] \cup tx'[t] \subseteq db[t] \cup tx[t]
           \/ Statement /\ at = t /\ db'[t] = db[t]
<1> USE DEF MInv
<1>0. t \in Owned /\ t \in Tables /\ t \notin {"links", "naming", "files", "profiles"}
  BY OwnedTables
<1>1. CASE Starts \/ Reads
  BY <1>1 DEF Starts, Reads
<1>2. CASE Leaves
  BY <1>0, <1>2, EmptyTables DEF Leaves, Ends
<1>3. CASE Commits
  <2>1. db'[t] \subseteq db[t] \cup tx[t]
    BY <1>0, <1>3 DEF Commits, Merged
  <2> QED
    BY <1>0, <1>3, <2>1, EmptyTables DEF Commits, Ends
<1>4. CASE Advances /\ Statement
  <2>1. db'[t] = db[t]
    BY <1>4 DEF Advances, Writes
  <2>2. CASE tx'[t] = tx[t]
    BY <2>1, <2>2
  <2>3. CASE tx'[t] # tx[t]
    BY <1>0, <1>4, <2>1, <2>3, AtTable
  <2> QED
    BY <2>2, <2>3
<1>5. ASSUME NEW item, AppLinks(item)
      PROVE  db'[t] \cup tx'[t] \subseteq db[t] \cup tx[t]
  <2>1. tx' = tx /\ \A u \in Tables \ {"files", "links"} : db'[u] = db[u]
    BY <1>5, AppLinked
  <2> QED
    BY <1>0, <2>1
<1>6. ASSUME NEW p, UserDeletesProfile(p)
      PROVE  db'[t] \cup tx'[t] \subseteq db[t] \cup tx[t]
  <2>1. tx' = tx /\ db' = [db EXCEPT !["profiles"] = db.profiles \ {p}]
    BY <1>6 DEF UserDeletesProfile, txVars
  <2> QED
    BY <1>0, <2>1 DEF Shapes
<1> QED
  BY <1>1, <1>2, <1>3, <1>4, <1>5, <1>6, RunSteps DEF RInv

LEMMA ColumnsStep ==
    ASSUME MInv, RInv, CInv, MigrationNext
    PROVE  CInv'
<1>1. TagsOnce'
  <2>1. CASE db'.tags \cup tx'.tags \subseteq db.tags \cup tx.tags
    BY <2>1 DEF CInv, TagsOnce
  <2>2. CASE Statement /\ at = "tags" /\ db'.tags = db.tags
    <3>1. WriteTags
      BY <2>2, StatementAt
    <3> QED
      BY <2>2, <3>1, TagsStayOnce DEF CInv, TagsOnce
  <2> QED
    BY <2>1, <2>2, FewerRows
<1>2. FoldersOnce'
  <2>1. CASE db'.folders \cup tx'.folders \subseteq db.folders \cup tx.folders
    BY <2>1 DEF CInv, FoldersOnce
  <2>2. CASE Statement /\ at = "folders" /\ db'.folders = db.folders
    <3>1. WriteMediaLibraryFolders
      BY <2>2, StatementAt
    <3> QED
      BY <2>2, <3>1, FoldersStayOnce DEF CInv, FoldersOnce
  <2> QED
    BY <2>1, <2>2, FewerRows
<1>3. ScoresOnce'
  <2>1. CASE db'.scores \cup tx'.scores \subseteq db.scores \cup tx.scores
    BY <2>1 DEF CInv, ScoresOnce
  <2>2. CASE Statement /\ at = "scores" /\ db'.scores = db.scores
    <3>1. WriteFormatScores
      BY <2>2, StatementAt
    <3> QED
      BY <2>2, <3>1, ScoresStayOnce DEF CInv, ScoresOnce
  <2> QED
    BY <2>1, <2>2, FewerRows
<1>4. EpisodesOnce'
  <2>1. CASE db'.episodes \cup tx'.episodes \subseteq db.episodes \cup tx.episodes
    BY <2>1 DEF CInv, EpisodesOnce
  <2>2. CASE Statement /\ at = "episodes" /\ db'.episodes = db.episodes
    <3>1. WriteEpisodes
      BY <2>2, StatementAt
    <3> QED
      BY <2>2, <3>1, EpisodesStayOnce DEF CInv, EpisodesOnce
  <2> QED
    BY <2>1, <2>2, FewerRows
<1>5. OfRuns'
  <2> SUFFICES ASSUME NEW t \in {"scores", "episodes"}, NEW r \in (db'[t] \cup tx'[t])
               PROVE  r.run > 0
    BY DEF OfRuns
  <2>1. CASE r \in tx'[t]
    <3>1. MInv' /\ t \in RunTables /\ t \in Tables
      BY MigrationStep, OwnedTables DEF Owned
    <3>2. r.run = Len(log') /\ Len(log') > 0
      BY <2>1, <3>1, EmptyTables DEF MInv, RunsNumbered
    <3> QED
      BY <3>2
  <2>2. CASE r \in db'[t]
    BY <2>2, FewerRows DEF CInv, OfRuns
  <2> QED
    BY <2>1, <2>2
<1> QED
  BY <1>1, <1>2, <1>3, <1>4, <1>5 DEF CInv

LEMMA ColumnsStart ==
    ASSUME MigrationInit
    PROVE  CInv
<1>1. /\ tx = Empty /\ db.scores = {} /\ db.episodes = {}
      /\ db.tags = Seeds(SeedTags) /\ db.folders = Seeds(SeedFolders)
  BY EmptyTables, TableNames DEF MigrationInit
<1>2. tx.tags = {} /\ tx.folders = {} /\ tx.scores = {} /\ tx.episodes = {}
  BY <1>1, EmptyTables, TableNames
<1>3. Seeded
  BY MigrationAssumption DEF MigrationAssumption
<1>4. TagsOnce
  <2>1. \A r \in db.tags : \E i \in DOMAIN SeedTags : r = [id |-> i, run |-> 0, row |-> SeedTags[i]]
    BY <1>1 DEF Seeds, Row
  <2> QED
    BY <1>2, <1>3, <2>1 DEF TagsOnce, Seeded
<1>5. FoldersOnce
  <2>1. \A r \in db.folders : \E i \in DOMAIN SeedFolders : r = [id |-> i, run |-> 0, row |-> SeedFolders[i]]
    BY <1>1 DEF Seeds, Row
  <2> QED
    BY <1>2, <1>3, <2>1 DEF FoldersOnce, Seeded
<1> QED
  BY <1>1, <1>2, <1>4, <1>5 DEF CInv, ScoresOnce, EpisodesOnce, OfRuns

(* What the variables range over. *)
Outcomes == \A k \in DOMAIN log : log[k].outcome \in {"running", "ok", "dry", "error"}

Ranges ==
    /\ next \in [Tables -> Nat]
    /\ at \in Writing \cup {"idle", "read", "begin", "seasons"}
    /\ at = "tags" => tx = Empty
    /\ aborted \in BOOLEAN /\ dry \in BOOLEAN /\ trouble \in 0..MaxTrouble
    /\ Outcomes

LEMMA OneSequence ==
    ASSUME MigrationNext
    PROVE  next' = next \/ \E t, n : next' = [next EXCEPT ![t] = n]
<1>1. CASE Start \/ Read \/ DryRun \/ Begin \/ Commit \/ StatementFails \/ Interrupted
  BY <1>1 DEF Start, Read, DryRun, Begin, Commit, StatementFails, Interrupted
<1>2. CASE WriteTags \/ WriteCustomFormats \/ WriteQualityProfiles \/ WriteFormatScores
             \/ WriteMediaLibraryFolders \/ WriteNamingConfig
  BY <1>2 DEF WriteTags, WriteCustomFormats, WriteQualityProfiles, WriteFormatScores,
     WriteMediaLibraryFolders, WriteNamingConfig, Insert
<1>3. CASE WriteIndexers \/ WriteDownloadClients \/ WriteSeries \/ WriteMediaFiles \/ WriteBlocklist
  BY <1>3 DEF WriteIndexers, WriteDownloadClients, WriteSeries, WriteMediaFiles, WriteBlocklist, Insert
<1>4. CASE WriteEpisodes
  <2>1. next' = [next EXCEPT !["episodes"] = @ + Len(NewEpisodes)]
    BY <1>4 DEF WriteEpisodes
  <2> QED
    BY <2>1
<1>5. CASE WriteSeasons \/ WriteMovies \/ ClearLinks
  BY <1>5 DEF WriteSeasons, WriteMovies, ClearLinks
<1>6. ASSUME NEW item, AppLinks(item)
      PROVE  \E t, n : next' = [next EXCEPT ![t] = n]
  BY <1>6 DEF AppLinks
<1>7. ASSUME NEW p, UserDeletesProfile(p)
      PROVE  next' = next
  BY <1>7 DEF UserDeletesProfile
<1> QED
  BY <1>1, <1>2, <1>3, <1>4, <1>5, <1>6, <1>7 DEF MigrationNext

LEMMA SequencesStep ==
    ASSUME MInv, RInv, Ranges, MigrationNext
    PROVE  next' \in [Tables -> Nat]
<1>a. next = [t \in Tables |-> next[t]]
  BY DEF Ranges
<1>b. next' = [t \in Tables |-> next'[t]]
  <2>1. CASE next' = next
    BY <1>a, <2>1
  <2>2. ASSUME NEW t, NEW n, next' = [next EXCEPT ![t] = n]
        PROVE  next' = [u \in Tables |-> next'[u]]
    BY <1>a, <2>2
  <2> QED
    BY <2>1, <2>2, OneSequence
<1> SUFFICES \A t \in Tables : next'[t] \in Nat
  BY <1>b
<1>1. IdsNumbered'
  BY IdsStep
<1>2. Tables = Owned \cup {"naming", "joins", "seasons", "links"}
  BY DEF Owned, RunTables, Tables
<1>3. \A t \in Owned : next'[t] \in Nat
  BY <1>1 DEF IdsNumbered
<1>4. \A t \in {"naming", "joins", "seasons", "links"} : t \in Tables /\ next[t] \in Nat
  BY <1>2 DEF Ranges
<1>5. DOMAIN next = Tables
  BY DEF MInv, Shapes
<1>6. CASE WriteNamingConfig
  <2>1. next' = [next EXCEPT !["naming"] = @ + Len(SetToSeq(data.naming))] /\ at = "naming"
    BY <1>6 DEF WriteNamingConfig, Insert
  <2>2. data.naming = Naming(src)
    BY <2>1, UnderWay DEF build_migration_data
  <2>3. IsFiniteSet(data.naming)
    <3>1. Naming(src) \subseteq {"series", "movie"}
      BY DEF Naming
    <3>2. IsFiniteSet({"series", "movie"})
      <4>1. IsFiniteSet({"series"})
        BY FS_Singleton
      <4>2. IsFiniteSet({"series"} \cup {"movie"})
        BY <4>1, FS_AddElement
      <4>3. {"series"} \cup {"movie"} = {"series", "movie"}
        OBVIOUS
      <4> QED
        BY <4>2, <4>3
    <3> QED
      BY <2>2, <3>1, <3>2, FS_Subset
  <2>4. Len(SetToSeq(data.naming)) \in Nat
    BY <2>3, SetListed, RowsType
  <2>5. \A t \in {"naming", "joins", "seasons", "links"} : next'[t] \in Nat
    BY <1>4, <1>5, <2>1, <2>4
  <2> QED
    BY <1>2, <1>3, <2>5
<1>7. ASSUME \A t \in {"naming", "joins", "seasons", "links"} : next'[t] = next[t]
      PROVE  \A t \in Tables : next'[t] \in Nat
  BY <1>2, <1>3, <1>4, <1>7
<1>8. ASSUME NEW t \in Owned, NEW n, next' = [next EXCEPT ![t] = n]
      PROVE  \A u \in {"naming", "joins", "seasons", "links"} : next'[u] = next[u]
  <2>1. t \notin {"naming", "joins", "seasons", "links"}
    BY OwnedTables
  <2> QED
    BY <1>4, <1>5, <1>8, <2>1
<1>9. {"tags", "formats", "profiles", "scores", "folders", "indexers", "clients", "series",
        "files", "episodes", "movies", "blocklist"} = Owned
  BY OwnedTables
<1>10. ASSUME NEW t \in Owned, NEW rows, Insert(t, rows)
       PROVE  \A u \in {"naming", "joins", "seasons", "links"} : next'[u] = next[u]
  BY <1>8, <1>10 DEF Insert
<1>11. CASE Statement /\ ~WriteNamingConfig
  <2>1. \/ next' = next
        \/ \E t \in Owned : \E rows : Insert(t, rows)
        \/ \E t \in Owned : \E n : next' = [next EXCEPT ![t] = n]
    <3>1. CASE Begin \/ WriteSeasons \/ ClearLinks
      BY <3>1 DEF Begin, WriteSeasons, ClearLinks
    <3>2. CASE WriteTags \/ WriteCustomFormats \/ WriteQualityProfiles \/ WriteFormatScores
      BY <1>9, <3>2 DEF WriteTags, WriteCustomFormats, WriteQualityProfiles, WriteFormatScores
    <3>3. CASE WriteMediaLibraryFolders \/ WriteIndexers \/ WriteDownloadClients \/ WriteSeries
      BY <1>9, <3>3 DEF WriteMediaLibraryFolders, WriteIndexers, WriteDownloadClients, WriteSeries
    <3>4. CASE WriteMediaFiles \/ WriteBlocklist
      BY <1>9, <3>4 DEF WriteMediaFiles, WriteBlocklist
    <3>5. CASE WriteEpisodes
      <4>1. next' = [next EXCEPT !["episodes"] = @ + Len(NewEpisodes)]
        BY <3>5 DEF WriteEpisodes
      <4> QED
        BY <1>9, <4>1
    <3>6. CASE WriteMovies
      <4>1. next' = [next EXCEPT !["movies"] = @ + Len(data.movies)]
        BY <3>6 DEF WriteMovies
      <4> QED
        BY <1>9, <4>1
    <3> QED
      BY <1>11, <3>1, <3>2, <3>3, <3>4, <3>5, <3>6 DEF Statement
  <2>2. \A u \in {"naming", "joins", "seasons", "links"} : next'[u] = next[u]
    BY <1>8, <1>10, <2>1
  <2> QED
    BY <1>7, <2>2
<1>12. CASE Starts \/ Reads \/ Leaves \/ Commits
  BY <1>7, <1>12 DEF Starts, Reads, Leaves, Commits
<1>13. ASSUME NEW item, AppLinks(item)
       PROVE  \A t \in Tables : next'[t] \in Nat
  <2>1. next' = [next EXCEPT !["files"] = @ + 1]
    BY <1>13 DEF AppLinks
  <2> QED
    BY <1>7, <1>8, <1>9, <2>1
<1>14. ASSUME NEW p, UserDeletesProfile(p)
       PROVE  \A t \in Tables : next'[t] \in Nat
  BY <1>7, <1>14 DEF UserDeletesProfile
<1> QED
  BY <1>6, <1>11, <1>12, <1>13, <1>14, RunSteps DEF RInv

LEMMA OutcomesStep ==
    ASSUME MInv, RInv, Ranges, MigrationNext
    PROVE  Outcomes'
<1>0. LogShape /\ Len(log) \in Nat /\ DOMAIN log = 1..Len(log)
  BY RowsType DEF MInv, Shapes, LogShape
<1>a. Len(log') \in Nat /\ DOMAIN log' = 1..Len(log')
  BY ShapesStep, RowsType DEF MInv, Shapes, LogShape
<1>b. Outcomes
  BY DEF Ranges
<1>1. CASE Starts
  <2>1. /\ Len(log') = Len(log) + 1 /\ log'[Len(log) + 1].outcome = "running"
        /\ \A k \in 1..Len(log) : log'[k] = log[k]
    BY <1>0, <1>1, LogStarts
  <2>2. \A k \in DOMAIN log' : k \in DOMAIN log \/ k = Len(log) + 1
    BY <1>0, <1>a, <2>1
  <2> QED
    BY <1>0, <1>b, <2>1, <2>2 DEF Outcomes
<1>2. CASE Reads
  <2>1. Len(log) > 0
    BY <1>2 DEF Reads, MInv, RunsNumbered
  <2>2. DOMAIN log' = DOMAIN log /\ \A k \in DOMAIN log : log'[k].outcome = log[k].outcome
    BY <1>0, <1>2, <2>1, LogReads DEF Reads
  <2> QED
    BY <1>b, <2>2 DEF Outcomes
<1>3. ASSUME NEW outcome \in {"running", "ok", "dry", "error"}, Ends(outcome)
      PROVE  Outcomes'
  <2>1. Len(log) > 0
    BY <1>3 DEF Ends, MInv, RunsNumbered
  <2>2. /\ DOMAIN log' = DOMAIN log /\ log'[Len(log)].outcome = outcome
        /\ \A k \in DOMAIN log : k # Len(log) => log'[k] = log[k]
    BY <1>0, <1>3, <2>1, Ending
  <2> QED
    BY <1>b, <2>2 DEF Outcomes
<1>4. CASE Leaves \/ Commits
  BY <1>3, <1>4 DEF Leaves, Commits
<1>5. CASE Advances
  BY <1>5, <1>b DEF Advances, Writes, Outcomes
<1>6. ASSUME NEW item, AppLinks(item)
      PROVE  Outcomes'
  BY <1>6, <1>b DEF AppLinks, Outcomes
<1>7. ASSUME NEW p, UserDeletesProfile(p)
      PROVE  Outcomes'
  BY <1>7, <1>b DEF UserDeletesProfile, Outcomes
<1> QED
  BY <1>1, <1>2, <1>4, <1>5, <1>6, <1>7, RunSteps DEF RInv

(* Where the run is and what went wrong: the rest of the ranges. *)
Places == {"idle", "read", "begin", "seasons"} \cup Writing

LEMMA PlaceStep ==
    ASSUME MInv, RInv, Ranges, MigrationNext
    PROVE  /\ at' \in Places
           /\ at' = "tags" => tx' = Empty
<1>0. at \in Places /\ (at = "tags" => tx = Empty)
  BY DEF Ranges, Places
<1>a. {"idle", "read", "begin", "seasons", "tags", "formats", "profiles", "scores", "folders", "naming",
       "indexers", "clients", "series", "files", "episodes", "movies", "links", "blocklist",
       "commit"} = Places
  BY DEF Places, Writing
<1>1. CASE Starts \/ Reads \/ Leaves \/ Commits
  BY <1>1, <1>a DEF Starts, Reads, Leaves, Commits, Ends
<1>2. CASE Advances /\ Statement
  <2>1. at' \in Places
    <3>1. CASE Begin \/ WriteEpisodes \/ WriteSeasons \/ ClearLinks \/ WriteMovies
      BY <1>a, <3>1 DEF Begin, WriteEpisodes, WriteSeasons, ClearLinks, WriteMovies, Goto
    <3>2. CASE WriteTags \/ WriteCustomFormats \/ WriteQualityProfiles \/ WriteFormatScores
      BY <1>a, <3>2 DEF WriteTags, WriteCustomFormats, WriteQualityProfiles, WriteFormatScores, Goto
    <3>3. CASE WriteMediaLibraryFolders \/ WriteNamingConfig \/ WriteIndexers \/ WriteDownloadClients
      BY <1>a, <3>3 DEF WriteMediaLibraryFolders, WriteNamingConfig, WriteIndexers, WriteDownloadClients,
                        Goto
    <3>4. CASE WriteSeries \/ WriteMediaFiles \/ WriteBlocklist
      BY <1>a, <3>4 DEF WriteSeries, WriteMediaFiles, WriteBlocklist, Goto
    <3> QED
      BY <1>2, <3>1, <3>2, <3>3, <3>4, SMTT(40) DEF Statement
  <2>2. ASSUME at' = "tags"
        PROVE  tx' = Empty
    <3>1. at = "begin" /\ tx = Empty
      BY <1>2, <2>2 DEF Advances, Writes, MInv, RunsNumbered
    <3>2. Begin
      BY <1>2, <3>1, <1>a DEF Statement, WriteTags, WriteCustomFormats, WriteQualityProfiles,
         WriteFormatScores, WriteMediaLibraryFolders, WriteNamingConfig, WriteIndexers, WriteDownloadClients,
         WriteSeries, WriteMediaFiles, WriteEpisodes, WriteSeasons, WriteMovies, ClearLinks, WriteBlocklist
    <3> QED
      BY <3>1, <3>2 DEF Begin, txVars
  <2> QED
    BY <2>1, <2>2
<1>3. ASSUME NEW item, AppLinks(item)
      PROVE  at' = at /\ tx' = tx
  BY <1>3 DEF AppLinks, txVars
<1>4. ASSUME NEW p, UserDeletesProfile(p)
      PROVE  at' = at /\ tx' = tx
  BY <1>4 DEF UserDeletesProfile, txVars
<1> QED
  BY <1>0, <1>1, <1>2, <1>3, <1>4, RunSteps DEF RInv

LEMMA FlagsStep ==
    ASSUME Ranges, MigrationNext
    PROVE  aborted' \in BOOLEAN /\ dry' \in BOOLEAN /\ trouble' \in 0..MaxTrouble
<1>0. aborted \in BOOLEAN /\ dry \in BOOLEAN /\ trouble \in 0..MaxTrouble /\ MaxTrouble \in Nat
  BY MigrationAssumption DEF Ranges, MigrationAssumption
<1>1. ASSUME Smooth \/ \E kind : Trouble(kind)
      PROVE  trouble' \in 0..MaxTrouble
  BY <1>0, <1>1 DEF Smooth, Trouble
<1>2. ASSUME NEW outcome, NEW report, Ended(outcome, report)
      PROVE  aborted' \in BOOLEAN /\ dry' \in BOOLEAN
  BY <1>2 DEF Ended
<1>3. ASSUME NEW step, Goto(step)
      PROVE  dry' \in BOOLEAN /\ trouble' \in 0..MaxTrouble
  BY <1>0, <1>1, <1>3 DEF Goto
<1>4. CASE Start \/ Read \/ Begin
  BY <1>0, <1>1, <1>4 DEF Start, Read, Begin, txVars
<1>5. CASE DryRun \/ Commit \/ Interrupted \/ StatementFails
  BY <1>1, <1>2, <1>5 DEF DryRun, Commit, Interrupted, StatementFails
<1>6. CASE WriteTags \/ WriteCustomFormats \/ WriteQualityProfiles \/ WriteFormatScores
             \/ WriteMediaLibraryFolders \/ WriteNamingConfig \/ WriteIndexers
  BY <1>0, <1>3, <1>6, SMTT(40) DEF WriteTags, WriteCustomFormats, WriteQualityProfiles, WriteFormatScores,
     WriteMediaLibraryFolders, WriteNamingConfig, WriteIndexers, Insert
<1>7. CASE WriteDownloadClients \/ WriteSeries \/ WriteMediaFiles \/ WriteMovies \/ WriteBlocklist
  BY <1>0, <1>3, <1>7, ZenonT(40) DEF WriteDownloadClients, WriteSeries, WriteMediaFiles, WriteMovies, WriteBlocklist,
     Insert
<1>8. CASE WriteEpisodes \/ WriteSeasons \/ ClearLinks
  BY <1>0, <1>1, <1>8 DEF WriteEpisodes, LastJoinFails, WriteSeasons, ClearLinks
<1>9. ASSUME NEW item, AppLinks(item)
      PROVE  UNCHANGED <<aborted, dry, trouble>>
  BY <1>9 DEF AppLinks, txVars
<1>10. ASSUME NEW p, UserDeletesProfile(p)
       PROVE  UNCHANGED <<aborted, dry, trouble>>
  BY <1>10 DEF UserDeletesProfile, txVars
<1> QED
  BY <1>0, <1>4, <1>5, <1>6, <1>7, <1>8, <1>9, <1>10 DEF MigrationNext

TInv == CInv /\ Ranges

LEMMA RangesStart ==
    ASSUME MigrationInit
    PROVE  Ranges
<1>1. Len(SeedTags) \in Nat /\ Len(SeedFolders) \in Nat
  BY MigrationAssumption, LenProperties DEF MigrationAssumption, Seeded
<1>2. next \in [Tables -> Nat]
  BY <1>1 DEF MigrationInit
<1>3. at = "idle" /\ aborted = FALSE /\ dry = FALSE /\ trouble = 0 /\ log = <<>> /\ MaxTrouble \in Nat
  BY MigrationAssumption DEF MigrationInit, MigrationAssumption
<1>4. DOMAIN log = {}
  BY <1>3
<1>5. Outcomes
  BY <1>4 DEF Outcomes
<1>6. at \in Writing \cup {"idle", "read", "begin", "seasons"} /\ at # "tags"
  BY <1>3
<1>7. trouble \in 0..MaxTrouble
  BY <1>3
<1>8. aborted \in BOOLEAN /\ dry \in BOOLEAN
  BY <1>3
<1> QED
  BY <1>2, <1>5, <1>6, <1>7, <1>8 DEF Ranges

LEMMA TypesStep ==
    ASSUME MInv, RInv, TInv, [MigrationNext]_migrationVars
    PROVE  TInv'
<1>1. CASE MigrationNext
  <2>1. Ranges'
    BY <1>1, SequencesStep, OutcomesStep, PlaceStep, FlagsStep DEF TInv, Ranges, Places
  <2> QED
    BY <1>1, <2>1, ColumnsStep DEF TInv
<1>2. CASE UNCHANGED migrationVars
  BY <1>2 DEF migrationVars, txVars, TInv, CInv, TagsOnce, FoldersOnce, ScoresOnce, EpisodesOnce,
     OfRuns, Ranges, Outcomes
<1> QED
  BY <1>1, <1>2

(* Every row has an id that its table's sequence gave it alone, though rolled *)
(* back runs, imports and a deleted profile leave gaps; no tag, folder, score *)
(* of a profile or number of a series is there twice, in the tables together  *)
(* with what the transaction holds; and the keys of MigrationKeys.            *)
THEOREM MigrationTypes ==
    MigrationSpec => []MigrationTypeOK
<1>1. ASSUME MInv, RInv, TInv
      PROVE  MigrationTypeOK
  <2>1. Tables \ {"joins", "seasons", "links", "naming"} = Owned /\ Owned \subseteq RunTables
    BY DEF Owned, RunTables
  <2>2. Len(log) \in Nat
    BY <1>1, RowsType DEF MInv, Shapes, LogShape
  <2>3. \A t \in Owned : \A r \in db[t] \cup tx[t] : r.run \in 0..Len(log)
    BY <1>1, <2>1, <2>2 DEF MInv, RunsNumbered, Kept
  <2>4. \A t \in Owned : /\ Unique(Visible(t), LAMBDA r : r.id)
                         /\ \A r \in Visible(t) : r.id \in 1..next[t] /\ r.run \in 0..Len(log)
    BY <1>1, <2>3 DEF RInv, IdsNumbered, Unique, Visible
  <2>5. DOMAIN db = Tables /\ DOMAIN tx = Tables /\ next \in [Tables -> Nat]
    BY <1>1 DEF MInv, Shapes, TInv, Ranges
  <2>6. KeysHold
    BY <1>1 DEF MInv, FilesNumbered, LinksScanned, ProfilesThere, ProfileOf, KeysHold, Unique,
         Visible, ProfileExists
  <2>7. /\ Unique(Visible("tags"), LAMBDA t : t.row)
        /\ Unique(Visible("folders"), LAMBDA f : f.row.path)
    BY <1>1 DEF TInv, CInv, TagsOnce, FoldersOnce, Unique, Visible
  <2>8. /\ Unique(Visible("scores"), LAMBDA s : <<s.row.profile, s.row.format>>)
        /\ Unique(Visible("episodes"), LAMBDA e : <<e.row.series, e.row.number>>)
    BY <1>1 DEF TInv, CInv, ScoresOnce, EpisodesOnce, SameScored, SameEpisode, Unique, Visible
  <2>9. at \in {"idle", "read", "begin", "tags"} => tx = Empty
    BY <1>1 DEF MInv, RunsNumbered, TInv, Ranges
  <2> QED
    BY <1>1, <2>1, <2>4, <2>5, <2>6, <2>7, <2>8, <2>9 DEF MigrationTypeOK, TInv, Ranges, Outcomes
<1>2. MigrationInit => MInv /\ RInv /\ TInv
  BY MigrationStarts, ReferencesStart, ColumnsStart, RangesStart DEF TInv
<1>3. MInv /\ RInv /\ TInv /\ [MigrationNext]_migrationVars => (MInv /\ RInv /\ TInv)'
  BY MigrationStep, ReferencesStep, TypesStep
<1>4. MInv /\ RInv /\ TInv => MigrationTypeOK
  BY <1>1
<1> QED
  BY <1>2, <1>3, <1>4, PTL DEF MigrationSpec

-----------------------------------------------------------------------------
(*************************************************************************)
(* The fourth part: a run leaves all that it read, or nothing             *)
(* (AllOrNothing).  What the rows of a run have of what the run read is  *)
(* told table by table (Whole), first of the transaction, as far as its  *)
(* statements have come (Half), then, for the COMMIT brings the rows of  *)
(* that run and of no other (CommitBrings), of what is committed         *)
(* (RunsWhole); from there it stays, since nobody else touches a row     *)
(* that a run brought (WholeStays).                                      *)
(*************************************************************************)

(* What was written of what was read, R being the rows of each table, and s  *)
(* what was read: one row for each series, movie, profile and file.          *)
ItemsIn(R, s, app, t) ==
    /\ \A x \in ToSet(s[app][t]) : \E r \in R[t] : r.row.old = x.id
    /\ \A r, q \in R[t] : r.row.old = q.row.old => r = q

ProfilesIn(R, s) ==
    /\ \A n \in DOMAIN Profiles(s) : \E p \in R["profiles"] : p.row = Profiles(s)[n]
    /\ \A p, q \in R["profiles"] : p.row.old = q.row.old => p = q

FilesIn(R, s) ==
    /\ \A app \in {"sonarr", "radarr"} : \A x \in ToSet(s[app].files) :
          \E f \in R["files"] : f.row.media = Media(app) /\ f.row.old = x.id
    /\ \A f, g \in R["files"] : f.row.media = g.row.media /\ f.row.old = g.row.old => f = g

(* One for each format that is merged, for each client and for each indexer, *)
(* but that Prowlarr may have two of one URL.                                *)
FormatsIn(R, s) ==
    /\ \A n \in DOMAIN MergedFormats(s) :
          \E f \in R["formats"] : f.row.key = MergedFormats(s)[n].row.name.key
    /\ \A f \in R["formats"] : \E n \in DOMAIN MergedFormats(s) : f.row.key = MergedFormats(s)[n].row.name.key
    /\ \A f, g \in R["formats"] : f.row.key = g.row.key => f = g

ClientsIn(R, s) ==
    /\ \A n \in DOMAIN DownloadClients(s) : \E c \in R["clients"] : c.row = DownloadClients(s)[n]
    /\ \A c \in R["clients"] : \E n \in DOMAIN DownloadClients(s) : c.row = DownloadClients(s)[n]
    /\ \A c, d \in R["clients"] : c.row.row.key = d.row.row.key => c = d

IndexersIn(R, s) ==
    /\ \A n \in DOMAIN Indexers(s) : \E i \in R["indexers"] : i.row = Indexers(s)[n]
    /\ \A i \in R["indexers"] : \E n \in DOMAIN Indexers(s) : i.row = Indexers(s)[n]
    /\ \A i, j \in R["indexers"] :
          i.row.row.url = j.row.row.url => i = j \/ (i.row.app = "prowlarr" /\ j.row.app = "prowlarr")

TagsIn(R, s) ==
    /\ \A x \in ToSet(TagsOf(s)) : \E t \in db.tags \cup R["tags"] : t.row.key = x.label.key
    /\ \A t, u \in R["tags"] : t.row.key = u.row.key => t = u

(* Those of an item that was written, each season with its series. *)
EpisodeOf(R, e, x) == e.row.number = x.number /\ \E z \in R["series"] : z.id = e.row.series /\ z.row.old = x.series

EpisodesIn(R, s) ==
    /\ \A x \in ToSet(s.sonarr.episodes) :
          x.series \in {y.id : y \in ToSet(s.sonarr.series)} => \E e \in R["episodes"] : EpisodeOf(R, e, x)
    /\ \A e \in R["episodes"] : \E x \in ToSet(s.sonarr.episodes) :
          x.id = e.row.old /\ EpisodeOf(R, e, x)
    /\ \A e, f \in R["episodes"] : e.row.old = f.row.old => e = f

BlockedIn(R, s, app, t) ==
    \A x \in ToSet(s[app].blocklist) :
        x.item \in {y.id : y \in ToSet(s[app][t])} => \E b \in R["blocklist"] : b.row.from = <<app, x.id>>

SeasonsIn(R, s) ==
    \A z \in R["series"] : \A x \in ToSet(s.sonarr.series) :
        x.id = z.row.old => {n.season : n \in {m \in R["seasons"] : m.series = z.id}} = x.seasons

Whole(R, s) ==
    /\ ItemsIn(R, s, "sonarr", "series") /\ ItemsIn(R, s, "radarr", "movies")
    /\ ProfilesIn(R, s) /\ FilesIn(R, s) /\ FormatsIn(R, s) /\ ClientsIn(R, s) /\ IndexersIn(R, s)
    /\ TagsIn(R, s) /\ EpisodesIn(R, s) /\ SeasonsIn(R, s)
    /\ BlockedIn(R, s, "sonarr", "series") /\ BlockedIn(R, s, "radarr", "movies")

(* A run so far, statement by statement. *)
Half(R, s) ==
    /\ Written("series") => ItemsIn(R, s, "sonarr", "series")
    /\ Written("movies") => ItemsIn(R, s, "radarr", "movies")
    /\ Written("profiles") => ProfilesIn(R, s)
    /\ Written("files") => FilesIn(R, s)
    /\ Written("formats") => FormatsIn(R, s)
    /\ Written("clients") => ClientsIn(R, s)
    /\ Written("indexers") => IndexersIn(R, s)
    /\ Written("tags") => TagsIn(R, s)
    /\ Written("episodes") => EpisodesIn(R, s)
    /\ Written("seasons") => SeasonsIn(R, s)
    /\ Written("blocklist") => BlockedIn(R, s, "sonarr", "series") /\ BlockedIn(R, s, "radarr", "movies")

Finite == \A t \in Owned : IsFiniteSet(tx[t])

SeasonsOwned ==
    /\ \A n \in tx.seasons : \E z \in tx.series : z.id = n.series
    /\ \A n \in db.seasons : \E z \in db.series : z.id = n.series

Committed(k) == [t \in Owned \cup {"seasons"} |-> IF t = "seasons" THEN db.seasons ELSE Of(k, t)]

Nothing(k) == \A t \in RunTables : Of(k, t) = {}

RunWhole(k) ==
    /\ log[k].outcome = "error" => Nothing(k) \/ Whole(Committed(k), log[k].src)
    /\ log[k].outcome = "ok" => Whole(Committed(k), log[k].src) /\ log[k].report = Counted(k)

RunsWhole == \A k \in DOMAIN log : RunWhole(k)

WInv == Finite /\ Half(tx, src) /\ SeasonsOwned /\ RunsWhole

-----------------------------------------------------------------------------
(* The first of each key stand for all. *)
LEMMA FirstsPicked ==
    ASSUME NEW s, IsRows(s), NEW k, NEW J \in SUBSET DOMAIN s,
           \A i \in DOMAIN s : i \in J <=> \A j \in DOMAIN s : k[j] = k[i] => i <= j
    PROVE  /\ IsRows(Picked(s, J))
           /\ \A n \in DOMAIN Picked(s, J) : Nth(J, n) \in DOMAIN s /\ Picked(s, J)[n] = s[Nth(J, n)]
           /\ \A m, n \in DOMAIN Picked(s, J) : k[Nth(J, m)] = k[Nth(J, n)] => m = n
           /\ \A i \in DOMAIN s : \E n \in DOMAIN Picked(s, J) : k[Nth(J, n)] = k[i]
<1>1. \A i \in J : \A j \in DOMAIN s : k[j] = k[i] => i <= j
  OBVIOUS
<1>2. DOMAIN s \in SUBSET Nat
  BY RowsType
<1>3. \A m \in J : \E n \in DOMAIN Picked(s, J) : Nth(J, n) = m
  BY PickedRows, ZenonT(60)
<1>4. ASSUME NEW i \in DOMAIN s
      PROVE  \E n \in DOMAIN Picked(s, J) : k[Nth(J, n)] = k[i]
  <2> DEFINE S == {j \in DOMAIN s : k[j] = k[i]}
  <2>1. S \in SUBSET Nat /\ S # {}
    BY <1>2
  <2>2. PICK m \in S : \A j \in S : m <= j
    BY <2>1, FirstOf
  <2>3. m \in J /\ k[m] = k[i]
    BY <2>2
  <2>4. PICK n \in DOMAIN Picked(s, J) : Nth(J, n) = m
    BY <1>3, <2>3
  <2> QED
    BY <2>3, <2>4
<1> QED
  BY <1>1, <1>4, PickedOnce

(* The rows of two applications, each with the name of its own. *)
OfBoth(a, b, c) ==
    /\ IsRows(c)
    /\ \A n \in DOMAIN c : \/ c[n].app = "sonarr" /\ c[n].row \in ToSet(a)
                           \/ c[n].app = "radarr" /\ c[n].row \in ToSet(b)
    /\ \A x \in ToSet(a) : \E n \in DOMAIN c : c[n].app = "sonarr" /\ c[n].row = x
    /\ \A x \in ToSet(b) : \E n \in DOMAIN c : c[n].app = "radarr" /\ c[n].row = x
LEMMA ByBoth ==
    ASSUME NEW a, NEW b, IsRows(a), IsRows(b),
           NEW p, p = By("sonarr", a), NEW q, q = By("radarr", b), NEW c, c = p \o q
    PROVE  OfBoth(a, b, c)
<1>2. /\ DOMAIN p = DOMAIN a /\ \A i \in DOMAIN a : p[i].app = "sonarr" /\ p[i].row = a[i]
      /\ DOMAIN q = DOMAIN b /\ \A i \in DOMAIN b : q[i].app = "radarr" /\ q[i].row = b[i]
  BY DEF By, Apply
<1>3. IsRows(p) /\ IsRows(q)
  BY ByRows
<1>4. Joined(p, q, c)
  BY <1>3, JoinedMaps
<1>5. ASSUME NEW n \in DOMAIN c
      PROVE  \/ c[n].app = "sonarr" /\ c[n].row \in ToSet(a)
             \/ c[n].app = "radarr" /\ c[n].row \in ToSet(b)
  <2>1. CASE n \in DOMAIN p
    <3>1. c[n] = p[n]
      BY <1>4, <2>1 DEF Joined
    <3> QED
      BY <1>2, <2>1, <3>1, RowOfSet
  <2>2. CASE n \notin DOMAIN p
    <3>1. PICK i \in DOMAIN q : n = Len(p) + i
      BY <1>4, <2>2 DEF Joined
    <3>2. c[n] = q[i]
      BY <1>4, <3>1 DEF Joined
    <3> QED
      BY <1>2, <3>1, <3>2, RowOfSet
  <2> QED
    BY <2>1, <2>2
<1>6. ASSUME NEW x \in ToSet(a)
      PROVE  \E n \in DOMAIN c : c[n].app = "sonarr" /\ c[n].row = x
  <2>1. PICK i \in DOMAIN a : a[i] = x
    BY RowOfSet
  <2>2. i \in DOMAIN c /\ c[i] = p[i]
    BY <1>2, <1>4 DEF Joined
  <2> QED
    BY <1>2, <2>1, <2>2
<1>7. ASSUME NEW x \in ToSet(b)
      PROVE  \E n \in DOMAIN c : c[n].app = "radarr" /\ c[n].row = x
  <2>1. PICK i \in DOMAIN b : b[i] = x
    BY RowOfSet
  <2>2. Len(p) + i \in DOMAIN c /\ c[Len(p) + i] = q[i]
    BY <1>2, <1>4 DEF Joined
  <2> QED
    BY <1>2, <2>1, <2>2
<1> QED
  BY <1>4, <1>5, <1>6, <1>7 DEF Joined, OfBoth

(* One client for each key that an application has. *)
LEMMA ClientsRead ==
    ASSUME NEW s, WellRead(s)
    PROVE  /\ {DownloadClients(s)[n].row.key : n \in DOMAIN DownloadClients(s)} =
                 {x.key : x \in ToSet(s.sonarr.clients) \cup ToSet(s.radarr.clients)}
           /\ \A m, n \in DOMAIN DownloadClients(s) :
                 DownloadClients(s)[m].row.key = DownloadClients(s)[n].row.key => m = n
<1>1. IsRows(s.sonarr.clients) /\ IsRows(s.radarr.clients)
  BY TablesRead
<1>2. PICK a, b, p, q, all : /\ a = s.sonarr.clients /\ b = s.radarr.clients
                             /\ p = By("sonarr", a) /\ q = By("radarr", b) /\ all = p \o q
  OBVIOUS
<1>3. /\ IsRows(all)
      /\ \A n \in DOMAIN all : all[n].row \in ToSet(a) \cup ToSet(b)
      /\ \A x \in ToSet(a) \cup ToSet(b) : \E n \in DOMAIN all : all[n].row = x
  <2>1. IsRows(a) /\ IsRows(b)
    BY <1>1, <1>2
  <2>2. OfBoth(a, b, all)
    BY <1>2, <2>1, ByBoth
  <2> QED
    BY <2>2 DEF OfBoth
<1> DEFINE I == {i \in DOMAIN all : \A j \in DOMAIN all : all[j].row.key = all[i].row.key => i <= j}
           k == [i \in DOMAIN all |-> all[i].row.key]
<1>4. PICK d : d = DownloadClients(s)
  OBVIOUS
<1>5. d = Picked(all, I)
  BY <1>2, <1>4 DEF DownloadClients, Firsts
<1>6. /\ I \in SUBSET DOMAIN all
      /\ \A i \in DOMAIN all : i \in I <=> \A j \in DOMAIN all : k[j] = k[i] => i <= j
  OBVIOUS
<1>7. \A i \in DOMAIN all : k[i] = all[i].row.key
  OBVIOUS
<1> HIDE DEF I, k
<1>8. /\ \A n \in DOMAIN d : Nth(I, n) \in DOMAIN all /\ d[n] = all[Nth(I, n)]
      /\ \A m, n \in DOMAIN d : k[Nth(I, m)] = k[Nth(I, n)] => m = n
      /\ \A i \in DOMAIN all : \E n \in DOMAIN d : k[Nth(I, n)] = k[i]
  BY <1>3, <1>5, <1>6, FirstsPicked
<1>9. \A m, n \in DOMAIN d : d[m].row.key = d[n].row.key => m = n
  BY <1>7, <1>8
<1>10. \A n \in DOMAIN d : d[n].row \in ToSet(a) \cup ToSet(b)
  BY <1>3, <1>8
<1>11. ASSUME NEW x \in ToSet(a) \cup ToSet(b)
       PROVE  \E n \in DOMAIN d : d[n].row.key = x.key
  <2>1. PICK i \in DOMAIN all : all[i].row = x
    BY <1>3
  <2>2. PICK n \in DOMAIN d : k[Nth(I, n)] = k[i]
    BY <1>8
  <2> QED
    BY <1>7, <1>8, <2>1, <2>2
<1> QED
  BY <1>2, <1>4, <1>9, <1>10, <1>11

(* The rows of one application under its name. *)
LEMMA ByOne ==
    ASSUME NEW a, IsRows(a), NEW app, NEW p, p = By(app, a)
    PROVE  /\ IsRows(p)
           /\ \A n \in DOMAIN p : p[n].app = app /\ p[n].row \in ToSet(a)
           /\ \A x \in ToSet(a) : \E n \in DOMAIN p : p[n].row = x
<1>1. DOMAIN p = DOMAIN a /\ \A i \in DOMAIN a : p[i].app = app /\ p[i].row = a[i]
  BY DEF By, Apply
<1> QED
  BY <1>1, ByRows, RowOfSet

(* The ones that have a URL. *)
NoUrl == ""

LEMMA UrlsPicked ==
    ASSUME NEW rows, IsRows(rows), NEW p, p = WithUrl(rows)
    PROVE  /\ IsRows(p)
           /\ \A n \in DOMAIN p : p[n].row.url # NoUrl /\ \E i \in DOMAIN rows : p[n] = rows[i]
           /\ \A i \in DOMAIN rows : rows[i].row.url # NoUrl => \E n \in DOMAIN p : p[n] = rows[i]
<1> DEFINE I == {i \in DOMAIN rows : rows[i].row.url # NoUrl}
<1>1. p = Picked(rows, I)
  BY Zenon DEF WithUrl, Only, NoUrl
<1>2. I \in SUBSET DOMAIN rows /\ \A i \in DOMAIN rows : i \in I <=> rows[i].row.url # NoUrl
  OBVIOUS
<1> HIDE DEF I
<1>3. /\ IsRows(p)
      /\ \A n \in DOMAIN p : Nth(I, n) \in I /\ p[n] = rows[Nth(I, n)]
      /\ \A i \in I : \E n \in DOMAIN p : Nth(I, n) = i
  BY <1>1, <1>2, PickedRows
<1> QED
  BY <1>2, <1>3

(* Of one URL all that Prowlarr has, or one of another application. *)
IndexersListed(s, d) ==
    /\ \A n \in DOMAIN d :
          /\ d[n].row.url # NoUrl
          /\ \/ d[n].app = "prowlarr" /\ d[n].row \in ToSet(s.prowlarr.indexers)
             \/ /\ d[n].app # "prowlarr"
                /\ d[n].row \in ToSet(s.sonarr.indexers) \cup ToSet(s.radarr.indexers)
                /\ \A x \in ToSet(s.prowlarr.indexers) : x.url # d[n].row.url
    /\ \A x \in ToSet(s.sonarr.indexers) \cup ToSet(s.radarr.indexers) \cup ToSet(s.prowlarr.indexers) :
          x.url # NoUrl => \E n \in DOMAIN d : d[n].row.url = x.url
    /\ \A m, n \in DOMAIN d :
          d[m].row.url = d[n].row.url => m = n \/ (d[m].app = "prowlarr" /\ d[n].app = "prowlarr")

LEMMA IndexersRead ==
    ASSUME NEW s, WellRead(s)
    PROVE  IndexersListed(s, Indexers(s))
<1>1. PICK a, b, c : /\ a = s.sonarr.indexers /\ b = s.radarr.indexers /\ c = s.prowlarr.indexers
                     /\ IsRows(a) /\ IsRows(b) /\ IsRows(c)
  BY TablesRead
<1>2. PICK p, q, o, h : /\ p = By("sonarr", a) /\ q = By("radarr", b) /\ o = p \o q
                        /\ h = By("prowlarr", c)
  OBVIOUS
<1>3. OfBoth(a, b, o)
  BY <1>1, <1>2, ByBoth
<1>4. /\ IsRows(h) /\ \A n \in DOMAIN h : h[n].app = "prowlarr" /\ h[n].row \in ToSet(c)
      /\ \A x \in ToSet(c) : \E n \in DOMAIN h : h[n].row = x
  BY <1>1, <1>2, ByOne
<1>5. PICK first, others : first = WithUrl(h) /\ others = WithUrl(o)
  OBVIOUS
<1>6. /\ IsRows(first)
      /\ \A n \in DOMAIN first : first[n].row.url # NoUrl /\ \E i \in DOMAIN h : first[n] = h[i]
      /\ \A i \in DOMAIN h : h[i].row.url # NoUrl => \E n \in DOMAIN first : first[n] = h[i]
  BY <1>4, <1>5, UrlsPicked
<1>7. /\ IsRows(others)
      /\ \A n \in DOMAIN others : others[n].row.url # NoUrl /\ \E i \in DOMAIN o : others[n] = o[i]
      /\ \A i \in DOMAIN o : o[i].row.url # NoUrl => \E n \in DOMAIN others : others[n] = o[i]
  BY <1>3, <1>5, UrlsPicked DEF OfBoth
<1>8. \A url : Seen(first, url) <=> \E n \in DOMAIN first : first[n].row.url = url
  BY RowOfSet DEF Seen
<1> DEFINE I == {i \in DOMAIN others : ~Seen(first, others[i].row.url)}
<1>9. PICK new : new = Picked(others, I)
  OBVIOUS
<1> DEFINE J == {i \in DOMAIN new : \A j \in DOMAIN new : new[j].row.url = new[i].row.url => i <= j}
           k == [i \in DOMAIN new |-> new[i].row.url]
<1>10. PICK last : last = Picked(new, J)
  OBVIOUS
<1>11. Indexers(s) = first \o last
  <2>1. new = Only(others, LAMBDA i : ~Seen(first, i.row.url))
    BY <1>9 DEF Only
  <2>2. last = Firsts(new, LAMBDA i : i.row.url)
    BY <1>10 DEF Firsts
  <2> QED
    BY <1>1, <1>2, <1>5, <2>1, <2>2 DEF Indexers
<1>12. I \in SUBSET DOMAIN others /\ \A i \in DOMAIN others : i \in I <=> ~Seen(first, others[i].row.url)
  OBVIOUS
<1>13. /\ J \in SUBSET DOMAIN new
       /\ \A i \in DOMAIN new : i \in J <=> \A j \in DOMAIN new : k[j] = k[i] => i <= j
       /\ \A i \in DOMAIN new : k[i] = new[i].row.url
  OBVIOUS
<1> HIDE DEF I, J, k
<1>14. /\ IsRows(new)
       /\ \A n \in DOMAIN new : Nth(I, n) \in I /\ new[n] = others[Nth(I, n)]
       /\ \A i \in I : \E n \in DOMAIN new : Nth(I, n) = i
  BY <1>7, <1>9, <1>12, PickedRows
<1>15. /\ IsRows(last)
       /\ \A n \in DOMAIN last : Nth(J, n) \in DOMAIN new /\ last[n] = new[Nth(J, n)]
       /\ \A m, n \in DOMAIN last : k[Nth(J, m)] = k[Nth(J, n)] => m = n
       /\ \A i \in DOMAIN new : \E n \in DOMAIN last : k[Nth(J, n)] = k[i]
  BY <1>10, <1>13, <1>14, FirstsPicked
<1>16. \A n \in DOMAIN first :
          first[n].row.url # NoUrl /\ first[n].app = "prowlarr" /\ first[n].row \in ToSet(c)
  BY <1>4, <1>6
<1>17. \A x \in ToSet(c) : x.url # NoUrl => \E n \in DOMAIN first : first[n].row.url = x.url
  BY <1>4, <1>6
<1>18. ASSUME NEW n \in DOMAIN last
       PROVE  /\ last[n].row.url # NoUrl /\ last[n].app # "prowlarr"
              /\ last[n].row \in ToSet(a) \cup ToSet(b)
              /\ \A x \in ToSet(c) : x.url # last[n].row.url
              /\ \A m \in DOMAIN first : first[m].row.url # last[n].row.url
  <2>1. PICK j \in I : last[n] = others[j]
    BY <1>14, <1>15
  <2>2. PICK i \in DOMAIN o : last[n] = o[i] /\ others[j].row.url # NoUrl
    BY <1>7, <1>12, <2>1
  <2>3. \A m \in DOMAIN first : first[m].row.url # last[n].row.url
    BY <1>8, <1>12, <2>1
  <2> QED
    BY <1>3, <1>17, <2>1, <2>2, <2>3 DEF OfBoth
<1>19. \A m, n \in DOMAIN last : last[m].row.url = last[n].row.url => m = n
  BY <1>13, <1>15
<1>20. ASSUME NEW x \in ToSet(a) \cup ToSet(b), x.url # NoUrl
       PROVE  \/ \E n \in DOMAIN first : first[n].row.url = x.url
              \/ \E n \in DOMAIN last : last[n].row.url = x.url
  <2>1. PICK i \in DOMAIN o : o[i].row = x
    BY <1>3 DEF OfBoth
  <2>2. PICK j \in DOMAIN others : others[j].row.url = x.url
    BY <1>7, <1>20, <2>1
  <2>3. CASE j \in I
    <3>1. PICK m \in DOMAIN new : new[m].row.url = x.url
      BY <1>14, <2>2, <2>3
    <3>2. PICK n \in DOMAIN last : k[Nth(J, n)] = k[m]
      BY <1>15, <3>1
    <3> QED
      BY <1>13, <1>15, <3>1, <3>2
  <2>4. CASE j \notin I
    BY <1>8, <1>12, <2>2, <2>4
  <2> QED
    BY <2>3, <2>4
<1>21. PICK d : d = Indexers(s) /\ Joined(first, last, d)
  BY <1>6, <1>11, <1>15, JoinedMaps
<1>22. /\ \A n \in DOMAIN d : \/ n \in DOMAIN first /\ d[n] = first[n]
                              \/ \E i \in DOMAIN last : n = Len(first) + i /\ d[n] = last[i]
       /\ \A i \in DOMAIN first : i \in DOMAIN d /\ d[i] = first[i]
       /\ \A i \in DOMAIN last : Len(first) + i \in DOMAIN d /\ d[Len(first) + i] = last[i]
  BY <1>21 DEF Joined
<1>23. ASSUME NEW m \in DOMAIN d, NEW n \in DOMAIN d, d[m].row.url = d[n].row.url
       PROVE  m = n \/ (d[m].app = "prowlarr" /\ d[n].app = "prowlarr")
  <2>1. CASE \E i, j \in DOMAIN last : /\ m = Len(first) + i /\ d[m] = last[i]
                                       /\ n = Len(first) + j /\ d[n] = last[j]
    BY <1>19, <1>23, <2>1
  <2> QED
    BY <1>16, <1>18, <1>22, <1>23, <2>1
<1>24. \A n \in DOMAIN d :
          /\ d[n].row.url # NoUrl
          /\ \/ d[n].app = "prowlarr" /\ d[n].row \in ToSet(c)
             \/ /\ d[n].app # "prowlarr" /\ d[n].row \in ToSet(a) \cup ToSet(b)
                /\ \A x \in ToSet(c) : x.url # d[n].row.url
  BY <1>16, <1>18, <1>22
<1>25. \A x \in ToSet(a) \cup ToSet(b) \cup ToSet(c) : x.url # NoUrl => \E n \in DOMAIN d : d[n].row.url = x.url
  BY <1>17, <1>20, <1>22
<1> QED
  BY <1>1, <1>21, <1>23, <1>24, <1>25 DEF IndexersListed

(* One tag for each name in the three applications. *)
TagsListed(s, d) ==
    /\ \A x \in ToSet(TagsOf(s)) : \E n \in DOMAIN d : d[n].key = x.label.key
    /\ \A m, n \in DOMAIN d : d[m].key = d[n].key => m = n

LEMMA TagsRead ==
    ASSUME NEW s, WellRead(s)
    PROVE  TagsListed(s, MergedTags(s))
<1>1. IsRows(s.sonarr.tags) /\ IsRows(s.radarr.tags) /\ IsRows(s.prowlarr.tags)
  BY TablesRead
<1>2. PICK all : all = TagsOf(s)
  OBVIOUS
<1>3. IsRows(all)
  BY <1>1, <1>2, JoinedRows DEF TagsOf
<1> DEFINE I == {i \in DOMAIN all : \A j \in DOMAIN all : all[j].label.key = all[i].label.key => i <= j}
           k == [i \in DOMAIN all |-> all[i].label.key]
<1>4. PICK firsts : firsts = Picked(all, I)
  OBVIOUS
<1>5. PICK d : d = MergedTags(s) /\ d = [i \in DOMAIN firsts |-> firsts[i].label]
  BY <1>2, <1>4 DEF MergedTags, Firsts, Apply
<1>6. /\ I \in SUBSET DOMAIN all
      /\ \A i \in DOMAIN all : i \in I <=> \A j \in DOMAIN all : k[j] = k[i] => i <= j
      /\ \A i \in DOMAIN all : k[i] = all[i].label.key
  OBVIOUS
<1> HIDE DEF I, k
<1>7. /\ \A n \in DOMAIN firsts : Nth(I, n) \in DOMAIN all /\ firsts[n] = all[Nth(I, n)]
      /\ \A m, n \in DOMAIN firsts : k[Nth(I, m)] = k[Nth(I, n)] => m = n
      /\ \A i \in DOMAIN all : \E n \in DOMAIN firsts : k[Nth(I, n)] = k[i]
  BY <1>3, <1>4, <1>6, FirstsPicked
<1>8. \A m, n \in DOMAIN firsts : firsts[m].label.key = firsts[n].label.key => m = n
  BY <1>6, <1>7
<1>9. ASSUME NEW x \in ToSet(all)
      PROVE  \E n \in DOMAIN firsts : firsts[n].label.key = x.label.key
  <2>1. PICK i \in DOMAIN all : all[i] = x
    BY RowOfSet
  <2>2. PICK n \in DOMAIN firsts : k[Nth(I, n)] = k[i]
    BY <1>7
  <2> QED
    BY <1>6, <1>7, <2>1, <2>2
<1>10. DOMAIN d = DOMAIN firsts /\ \A n \in DOMAIN firsts : d[n] = firsts[n].label
  BY <1>5
<1>11. TagsListed(s, d)
  BY <1>2, <1>8, <1>9, <1>10 DEF TagsListed
<1> QED
  BY <1>5, <1>11

(* The tags of each application are among them. *)
LEMMA TagsOfAll ==
    ASSUME NEW s, WellRead(s)
    PROVE  ToSet(s.sonarr.tags) \cup ToSet(s.radarr.tags) \cup ToSet(s.prowlarr.tags) \subseteq ToSet(TagsOf(s))
<1>1. PICK a, b, c : /\ a = s.sonarr.tags /\ b = s.radarr.tags /\ c = s.prowlarr.tags
                     /\ IsRows(a) /\ IsRows(b) /\ IsRows(c)
  BY TablesRead
<1>2. PICK ab, abc : ab = a \o b /\ abc = ab \o c
  OBVIOUS
<1>3. Joined(a, b, ab)
  BY <1>1, <1>2, JoinedMaps
<1>4. Joined(ab, c, abc)
  <2>1. IsRows(ab)
    BY <1>3 DEF Joined
  <2> QED
    BY <1>1, <1>2, <2>1, JoinedMaps
<1>5. ToSet(a) \subseteq ToSet(ab) /\ ToSet(b) \subseteq ToSet(ab)
  BY <1>3, RowOfSet DEF Joined
<1>6. ToSet(ab) \subseteq ToSet(abc) /\ ToSet(c) \subseteq ToSet(abc)
  BY <1>4, RowOfSet DEF Joined
<1>7. TagsOf(s) = abc
  BY <1>1, <1>2 DEF TagsOf
<1> QED
  BY <1>1, <1>5, <1>6, <1>7

(* The rows of two tables, each application's as they are. *)
LEMMA KeyedRows ==
    ASSUME NEW s, Keyed(s), NEW i \in DOMAIN s, NEW j \in DOMAIN s, s[i].id = s[j].id
    PROVE  i = j
BY DEF Keyed

FilesListed(s, d) ==
    /\ \A app \in {"sonarr", "radarr"} : \A x \in ToSet(s[app].files) :
          \E n \in DOMAIN d : d[n].media = Media(app) /\ d[n].old = x.id
    /\ \A m, n \in DOMAIN d : d[m].media = d[n].media /\ d[m].old = d[n].old => m = n

LEMMA FilesOnce ==
    ASSUME NEW s, WellRead(s)
    PROVE  FilesListed(s, MediaFiles(s))
<1>1. PICK a, b : /\ a = s.sonarr.files /\ b = s.radarr.files /\ IsRows(a) /\ IsRows(b)
                  /\ Keyed(a) /\ Keyed(b)
  BY TablesRead
<1> DEFINE p == [i \in DOMAIN a |-> [old |-> a[i].id, from |-> <<"sonarr", a[i].id>>,
                                     media |-> "series", quality |-> QualityId(a[i].quality)]]
           q == [i \in DOMAIN b |-> [old |-> b[i].id, from |-> <<"radarr", b[i].id>>,
                                     media |-> "movie", quality |-> QualityId(b[i].quality)]]
<1>2. MediaFiles(s) = p \o q
  BY <1>1 DEF MediaFiles, Apply
<1>3. /\ DOMAIN p = DOMAIN a /\ \A i \in DOMAIN a : p[i].old = a[i].id /\ p[i].media = "series"
      /\ DOMAIN q = DOMAIN b /\ \A i \in DOMAIN b : q[i].old = b[i].id /\ q[i].media = "movie"
  OBVIOUS
<1>a. p = [i \in DOMAIN a |-> p[i]] /\ q = [i \in DOMAIN b |-> q[i]]
  OBVIOUS
<1> HIDE DEF p, q
<1>4. IsRows(p) /\ IsRows(q)
  BY <1>1, <1>3, <1>a, SameRows
<1>5. PICK c : c = MediaFiles(s) /\ Joined(p, q, c)
  BY <1>2, <1>4, JoinedMaps
<1>6. /\ \A n \in DOMAIN c : \/ n \in DOMAIN a /\ c[n].media = "series" /\ c[n].old = a[n].id
                             \/ \E i \in DOMAIN b : /\ n = Len(p) + i /\ c[n].media = "movie"
                                                   /\ c[n].old = b[i].id
      /\ \A i \in DOMAIN a : i \in DOMAIN c /\ c[i].media = "series" /\ c[i].old = a[i].id
      /\ \A i \in DOMAIN b : \E n \in DOMAIN c : c[n].media = "movie" /\ c[n].old = b[i].id
  BY <1>3, <1>5 DEF Joined
<1>7. ASSUME NEW m \in DOMAIN c, NEW n \in DOMAIN c, c[m].media = c[n].media, c[m].old = c[n].old
      PROVE  m = n
  <2>1. CASE c[m].media = "series"
    <3>1. m \in DOMAIN a /\ n \in DOMAIN a /\ a[m].id = a[n].id
      BY <1>6, <1>7, <2>1
    <3> QED
      BY <1>1, <3>1, KeyedRows
  <2>2. CASE c[m].media # "series"
    <3>1. PICK i \in DOMAIN b : m = Len(p) + i /\ c[m].old = b[i].id
      BY <1>6, <2>2
    <3>2. PICK j \in DOMAIN b : n = Len(p) + j /\ c[n].old = b[j].id
      BY <1>6, <1>7, <2>2
    <3>3. i = j
      BY <1>1, <1>7, <3>1, <3>2, KeyedRows
    <3> QED
      BY <3>1, <3>2, <3>3
  <2> QED
    BY <2>1, <2>2
<1>8. \A x \in ToSet(a) : \E n \in DOMAIN c : c[n].media = "series" /\ c[n].old = x.id
  BY <1>6, RowOfSet
<1>9. \A x \in ToSet(b) : \E n \in DOMAIN c : c[n].media = "movie" /\ c[n].old = x.id
  BY <1>6, RowOfSet
<1>10. FilesListed(s, c)
  BY <1>1, <1>7, <1>8, <1>9 DEF FilesListed, Media
<1> QED
  BY <1>5, <1>10

BlockedListed(s, d) ==
    \A app \in {"sonarr", "radarr"} : \A x \in ToSet(s[app].blocklist) :
        \E n \in DOMAIN d : /\ d[n].media = Media(app) /\ d[n].item = x.item
                            /\ d[n].from = <<app, x.id>>

LEMMA BlockedAll ==
    ASSUME NEW s, WellRead(s)
    PROVE  BlockedListed(s, Blocklist(s))
<1>1. PICK a, b : a = s.sonarr.blocklist /\ b = s.radarr.blocklist /\ IsRows(a) /\ IsRows(b)
  BY TablesRead
<1> DEFINE p == [i \in DOMAIN a |-> [media |-> "series", item |-> a[i].item, from |-> <<"sonarr", a[i].id>>]]
           q == [i \in DOMAIN b |-> [media |-> "movie", item |-> b[i].item, from |-> <<"radarr", b[i].id>>]]
<1>2. Blocklist(s) = p \o q
  BY <1>1 DEF Blocklist, Apply
<1>3. /\ DOMAIN p = DOMAIN a
      /\ \A i \in DOMAIN a : p[i].media = "series" /\ p[i].item = a[i].item /\ p[i].from = <<"sonarr", a[i].id>>
      /\ DOMAIN q = DOMAIN b
      /\ \A i \in DOMAIN b : q[i].media = "movie" /\ q[i].item = b[i].item /\ q[i].from = <<"radarr", b[i].id>>
  OBVIOUS
<1>a. p = [i \in DOMAIN a |-> p[i]] /\ q = [i \in DOMAIN b |-> q[i]]
  OBVIOUS
<1> HIDE DEF p, q
<1>4. IsRows(p) /\ IsRows(q)
  BY <1>1, <1>3, <1>a, SameRows
<1>5. PICK c : c = Blocklist(s) /\ Joined(p, q, c)
  BY <1>2, <1>4, JoinedMaps
<1>6. /\ \A i \in DOMAIN a : \E n \in DOMAIN c :
            c[n].media = "series" /\ c[n].item = a[i].item /\ c[n].from = <<"sonarr", a[i].id>>
      /\ \A i \in DOMAIN b : \E n \in DOMAIN c :
            c[n].media = "movie" /\ c[n].item = b[i].item /\ c[n].from = <<"radarr", b[i].id>>
  BY <1>3, <1>5 DEF Joined
<1>7. ASSUME NEW x \in ToSet(a)
      PROVE  \E n \in DOMAIN c :
                c[n].media = "series" /\ c[n].item = x.item /\ c[n].from = <<"sonarr", x.id>>
  <2>1. PICK i \in DOMAIN a : a[i] = x
    BY RowOfSet
  <2> QED
    BY <1>6, <2>1
<1>8. ASSUME NEW x \in ToSet(b)
      PROVE  \E n \in DOMAIN c :
                c[n].media = "movie" /\ c[n].item = x.item /\ c[n].from = <<"radarr", x.id>>
  <2>1. PICK i \in DOMAIN b : b[i] = x
    BY RowOfSet
  <2> QED
    BY <1>6, <2>1
<1>9. BlockedListed(s, c)
  <2> SUFFICES ASSUME NEW app \in {"sonarr", "radarr"}, NEW x \in ToSet(s[app].blocklist)
               PROVE  \E n \in DOMAIN c : /\ c[n].media = Media(app) /\ c[n].item = x.item
                                          /\ c[n].from = <<app, x.id>>
    BY DEF BlockedListed
  <2>1. CASE app = "sonarr"
    BY <1>1, <1>7, <2>1 DEF Media
  <2>2. CASE app = "radarr"
    BY <1>1, <1>8, <2>2 DEF Media
  <2> QED
    BY <2>1, <2>2
<1> QED
  BY <1>5, <1>9

(* A row for each row that was read, with the same id. *)
Copied(rows, d) ==
    /\ \A x \in ToSet(rows) : \E n \in DOMAIN d : d[n].old = x.id
    /\ \A n \in DOMAIN d : \E x \in ToSet(rows) : d[n].old = x.id
    /\ \A m, n \in DOMAIN d : d[m].old = d[n].old => m = n

LEMMA CopiedRows ==
    ASSUME NEW rows, Keyed(rows), NEW d, DOMAIN d = DOMAIN rows,
           \A i \in DOMAIN rows : d[i].old = rows[i].id
    PROVE  Copied(rows, d)
<1>1. \A x \in ToSet(rows) : \E n \in DOMAIN d : d[n].old = x.id
  BY RowOfSet
<1>2. \A n \in DOMAIN d : \E x \in ToSet(rows) : d[n].old = x.id
  BY RowOfSet
<1>3. \A m, n \in DOMAIN d : d[m].old = d[n].old => m = n
  BY KeyedRows
<1> QED
  BY <1>1, <1>2, <1>3 DEF Copied

LEMMA ItemsCopied ==
    ASSUME NEW s, WellRead(s), NEW m
    PROVE  /\ Copied(s.sonarr.series, SeriesInserts(s, m))
           /\ Copied(s.radarr.movies, MovieInserts(s, m))
           /\ Copied(s.sonarr.episodes, Episodes(s))
<1>1. Keyed(s.sonarr.series) /\ Keyed(s.radarr.movies) /\ Keyed(s.sonarr.episodes)
  BY TablesRead
<1>2. PICK a, b, c : a = SeriesInserts(s, m) /\ b = MovieInserts(s, m) /\ c = Episodes(s)
  OBVIOUS
<1>3. /\ DOMAIN a = DOMAIN s.sonarr.series
      /\ \A i \in DOMAIN s.sonarr.series : a[i].old = s.sonarr.series[i].id
  BY <1>2 DEF SeriesInserts, Apply
<1>4. /\ DOMAIN b = DOMAIN s.radarr.movies
      /\ \A i \in DOMAIN s.radarr.movies : b[i].old = s.radarr.movies[i].id
  BY <1>2 DEF MovieInserts, Apply
<1>5. /\ DOMAIN c = DOMAIN s.sonarr.episodes
      /\ \A i \in DOMAIN s.sonarr.episodes : c[i].old = s.sonarr.episodes[i].id
  BY <1>2 DEF Episodes, Apply
<1>6. Copied(s.sonarr.series, a) /\ Copied(s.radarr.movies, b) /\ Copied(s.sonarr.episodes, c)
  BY <1>1, <1>3, <1>4, <1>5, CopiedRows
<1> QED
  BY <1>2, <1>6

(* The seasons of a series, the series and the number of an episode. *)
LEMMA SeasonsCopied ==
    ASSUME NEW s, WellRead(s), NEW m
    PROVE  \A n \in DOMAIN SeriesInserts(s, m) : \A x \in ToSet(s.sonarr.series) :
              x.id = SeriesInserts(s, m)[n].old => SeriesInserts(s, m)[n].seasons = x.seasons
<1>1. Keyed(s.sonarr.series)
  BY TablesRead
<1>2. PICK a : a = SeriesInserts(s, m)
  OBVIOUS
<1>3. /\ DOMAIN a = DOMAIN s.sonarr.series
      /\ \A i \in DOMAIN s.sonarr.series :
            a[i].old = s.sonarr.series[i].id /\ a[i].seasons = s.sonarr.series[i].seasons
  BY <1>2 DEF SeriesInserts, Apply
<1>4. ASSUME NEW n \in DOMAIN a, NEW x \in ToSet(s.sonarr.series), x.id = a[n].old
      PROVE  a[n].seasons = x.seasons
  <2>1. PICK i \in DOMAIN s.sonarr.series : s.sonarr.series[i] = x
    BY RowOfSet
  <2>2. i = n
    BY <1>1, <1>3, <1>4, <2>1, KeyedRows
  <2> QED
    BY <1>3, <2>1, <2>2
<1> QED
  BY <1>2, <1>4

LEMMA EpisodesCopied ==
    ASSUME NEW s, WellRead(s)
    PROVE  \A x \in ToSet(s.sonarr.episodes) : \E n \in DOMAIN Episodes(s) :
              /\ Episodes(s)[n].old = x.id /\ Episodes(s)[n].series = x.series
              /\ Episodes(s)[n].number = x.number
<1>1. PICK c : c = Episodes(s)
  OBVIOUS
<1>2. /\ DOMAIN c = DOMAIN s.sonarr.episodes
      /\ \A i \in DOMAIN s.sonarr.episodes :
            /\ c[i].old = s.sonarr.episodes[i].id /\ c[i].series = s.sonarr.episodes[i].series
            /\ c[i].number = s.sonarr.episodes[i].number
  BY <1>1 DEF Episodes, Apply
<1>3. ASSUME NEW x \in ToSet(s.sonarr.episodes)
      PROVE  \E n \in DOMAIN c : c[n].old = x.id /\ c[n].series = x.series /\ c[n].number = x.number
  <2>1. PICK i \in DOMAIN s.sonarr.episodes : s.sonarr.episodes[i] = x
    BY RowOfSet
  <2> QED
    BY <1>2, <2>1
<1> QED
  BY <1>1, <1>3

(* The names that formats were merged by are those that were read. *)
LEMMA FormatNames ==
    ASSUME NEW s, WellRead(s)
    PROVE  {MergedFormats(s)[n].row.name.key : n \in DOMAIN MergedFormats(s)} =
              {f.name.key : f \in ToSet(s.sonarr.formats) \cup ToSet(s.radarr.formats)}
<1>1. PICK F, G : F = FormatsOf(s) /\ G = MergedFormats(s)
  OBVIOUS
<1> DEFINE I == {i \in DOMAIN F : \A j \in DOMAIN F : F[j].row.name.key = F[i].row.name.key => i <= j}
<1>2. G = Picked(F, I)
  BY <1>1 DEF MergedFormats, Firsts
<1>3. IsRows(F) /\ I \in SUBSET DOMAIN F
  BY <1>1, FormatsRead
<1> HIDE DEF I
<1>4. \A n \in DOMAIN G : \E i \in DOMAIN F : G[n] = F[i]
  BY <1>2, <1>3, PickedRows
<1>5. \A i \in DOMAIN F : F[i].row \in ToSet(s.sonarr.formats) \cup ToSet(s.radarr.formats)
  BY <1>1, FormatsRead
<1>a. \A app \in {"sonarr", "radarr"} : \A x \in ToSet(s[app].formats) : \E n \in DOMAIN F : F[n].row = x
  BY <1>1, FormatsRead
<1>6. \A n \in DOMAIN G : G[n].row \in ToSet(s.sonarr.formats) \cup ToSet(s.radarr.formats)
  BY <1>4, <1>5
<1>7. ASSUME NEW f \in ToSet(s.sonarr.formats) \cup ToSet(s.radarr.formats)
      PROVE  \E n \in DOMAIN G : G[n].row.name.key = f.name.key
  <2>1. PICK app \in {"sonarr", "radarr"} : f \in ToSet(s[app].formats)
    OBVIOUS
  <2>2. PICK i \in DOMAIN F : F[i].row = f
    BY <1>a, <2>1
  <2>3. PICK n \in DOMAIN G : G[n].row.name.key = F[i].row.name.key
    BY <1>1, FormatsMerged
  <2> QED
    BY <2>2, <2>3
<1> QED
  BY <1>1, <1>6, <1>7

(* The rows of a table and the list they were written from. *)
Holds(S, rows) ==
    /\ \A n \in DOMAIN rows : \E r \in S : r.row = rows[n]
    /\ \A r, q \in S : \E m, n \in DOMAIN rows : r.row = rows[m] /\ q.row = rows[n] /\ (m = n => r = q)

LEMMA NumberedHolds ==
    ASSUME NEW t, NEW rows
    PROVE  Holds(Numbered(t, rows), rows)
<1>1. \A n \in DOMAIN rows : \E r \in Numbered(t, rows) : r.row = rows[n]
  <2> TAKE n \in DOMAIN rows
  <2>1. PICK r : r = [id |-> next[t] + n, run |-> Len(log), row |-> rows[n]]
    OBVIOUS
  <2>2. r \in Numbered(t, rows) /\ r.row = rows[n]
    BY <2>1 DEF Numbered
  <2> QED
    BY <2>2
<1>2. \A r, q \in Numbered(t, rows) : \E m, n \in DOMAIN rows :
         r.row = rows[m] /\ q.row = rows[n] /\ (m = n => r = q)
  <2> TAKE r, q \in Numbered(t, rows)
  <2>1. PICK m \in DOMAIN rows : r = [id |-> next[t] + m, run |-> Len(log), row |-> rows[m]]
    BY DEF Numbered
  <2>2. PICK n \in DOMAIN rows : q = [id |-> next[t] + n, run |-> Len(log), row |-> rows[n]]
    BY DEF Numbered
  <2>3. r.row = rows[m] /\ q.row = rows[n] /\ (m = n => r = q)
    BY <2>1, <2>2
  <2> QED
    BY <2>3
<1> QED
  BY <1>1, <1>2 DEF Holds

(* A statement that inserts a list. *)
LEMMA InsertHolds ==
    ASSUME Shapes, NEW t \in Tables, NEW rows, Insert(t, rows)
    PROVE  Holds(tx'[t], rows) /\ \A u \in Tables \ {t} : tx'[u] = tx[u]
<1>1. tx' = [tx EXCEPT ![t] = Numbered(t, rows)]
  BY DEF Insert
<1>2. tx'[t] = Numbered(t, rows) /\ \A u \in Tables \ {t} : tx'[u] = tx[u]
  BY <1>1 DEF Shapes
<1> QED
  BY <1>2, NumberedHolds

LEMMA WritesTags ==
    ASSUME MInv, RInv, WriteTags
    PROVE  TagsIn(tx', src)
<1> DEFINE I == {i \in DOMAIN data.tags : data.tags[i] \notin {t.row : t \in db.tags}}
<1>1. PICK new : new = Picked(data.tags, I)
  OBVIOUS
<1>2. at = "tags" /\ Insert("tags", new)
  BY <1>1 DEF WriteTags, Only
<1>3. WellRead(src) /\ data.tags = MergedTags(src) /\ IsRows(data.tags)
  BY <1>2, UnderWay, DataRows
<1>4. TagsListed(src, data.tags)
  BY <1>3, TagsRead
<1>5. /\ I \in SUBSET DOMAIN data.tags
      /\ \A i \in DOMAIN data.tags : i \in I \/ \E t \in db.tags : t.row = data.tags[i]
  OBVIOUS
<1> HIDE DEF I
<1>6. /\ \A n \in DOMAIN new : Nth(I, n) \in I /\ new[n] = data.tags[Nth(I, n)]
      /\ \A i \in I : \E n \in DOMAIN new : Nth(I, n) = i
  BY <1>1, <1>3, <1>5, PickedRows
<1>7. \A m, n \in DOMAIN new : Nth(I, m) = Nth(I, n) => m = n
  BY <1>1, <1>3, <1>5, PickedApart
<1>8. Holds(tx'.tags, new)
  BY <1>2, InsertHolds, TableNames DEF MInv
<1>9. ASSUME NEW x \in ToSet(TagsOf(src))
      PROVE  \E t \in db.tags \cup tx'.tags : t.row.key = x.label.key
  <2>1. PICK i \in DOMAIN data.tags : data.tags[i].key = x.label.key
    BY <1>4 DEF TagsListed
  <2>2. CASE i \in I
    <3>1. PICK n \in DOMAIN new : new[n] = data.tags[i]
      BY <1>6, <2>2
    <3>2. PICK t \in tx'.tags : t.row = new[n]
      BY <1>8 DEF Holds
    <3> QED
      BY <2>1, <3>1, <3>2
  <2>3. CASE i \notin I
    BY <1>5, <2>1, <2>3
  <2> QED
    BY <2>2, <2>3
<1>10. ASSUME NEW t \in tx'.tags, NEW u \in tx'.tags, t.row.key = u.row.key
       PROVE  t = u
  <2>1. PICK m \in DOMAIN new, n \in DOMAIN new : t.row = new[m] /\ u.row = new[n] /\ (m = n => t = u)
    BY <1>8 DEF Holds
  <2>2. Nth(I, m) = Nth(I, n)
    BY <1>4, <1>5, <1>6, <1>10, <2>1 DEF TagsListed
  <2> QED
    BY <1>7, <2>1, <2>2
<1> QED
  BY <1>9, <1>10 DEF TagsIn

LEMMA WritesFormats ==
    ASSUME MInv, RInv, WriteCustomFormats
    PROVE  FormatsIn(tx', src)
<1>1. PICK rows : /\ rows = [i \in DOMAIN data.formats |->
                                [index |-> i, key |-> data.formats[i].row.name.key]]
                  /\ Insert("formats", rows) /\ at = "formats"
  BY DEF WriteCustomFormats
<1>2. WellRead(src) /\ data.formats = MergedFormats(src)
  BY <1>1, UnderWay, DataRows
<1>3. PICK d : d = MergedFormats(src)
  OBVIOUS
<1>4. DOMAIN rows = DOMAIN d /\ \A i \in DOMAIN d : rows[i].key = d[i].row.name.key
  BY <1>1, <1>2, <1>3
<1>5. \A m, n \in DOMAIN d : d[m].row.name.key = d[n].row.name.key => m = n
  BY <1>2, <1>3, FormatsMerged
<1>6. Holds(tx'.formats, rows)
  BY <1>1, InsertHolds, TableNames DEF MInv
<1>7. ASSUME NEW n \in DOMAIN d
      PROVE  \E f \in tx'.formats : f.row.key = d[n].row.name.key
  <2>1. PICK f \in tx'.formats : f.row = rows[n]
    BY <1>4, <1>6 DEF Holds
  <2> QED
    BY <1>4, <2>1
<1>a. ASSUME NEW f \in tx'.formats, NEW g \in tx'.formats
      PROVE  \E m, n \in DOMAIN d : /\ f.row.key = d[m].row.name.key /\ g.row.key = d[n].row.name.key
                                    /\ m = n => f = g
  <2>1. PICK m \in DOMAIN rows, n \in DOMAIN rows : f.row = rows[m] /\ g.row = rows[n] /\ (m = n => f = g)
    BY <1>6 DEF Holds
  <2> QED
    BY <1>4, <2>1
<1>8. \A f \in tx'.formats : \E n \in DOMAIN d : f.row.key = d[n].row.name.key
  BY <1>a
<1>9. ASSUME NEW f \in tx'.formats, NEW g \in tx'.formats, f.row.key = g.row.key
      PROVE  f = g
  <2>1. PICK m \in DOMAIN d, n \in DOMAIN d :
            f.row.key = d[m].row.name.key /\ g.row.key = d[n].row.name.key /\ (m = n => f = g)
    BY <1>a
  <2> QED
    BY <1>5, <1>9, <2>1
<1> QED
  BY <1>3, <1>7, <1>8, <1>9 DEF FormatsIn

LEMMA WritesProfiles ==
    ASSUME MInv, RInv, WriteQualityProfiles
    PROVE  ProfilesIn(tx', src)
<1>1. at = "profiles" /\ Insert("profiles", data.profiles)
  BY DEF WriteQualityProfiles
<1>2. WellRead(src) /\ data.profiles = Profiles(src)
  BY <1>1, UnderWay, DataRows
<1>3. PICK d : d = Profiles(src)
  OBVIOUS
<1>4. \A m, n \in DOMAIN d : d[m].old = d[n].old => m = n
  BY <1>2, <1>3, ProfilesRead
<1>5. Holds(tx'.profiles, d)
  BY <1>1, <1>2, <1>3, InsertHolds, TableNames DEF MInv
<1>6. \A n \in DOMAIN d : \E p \in tx'.profiles : p.row = d[n]
  BY <1>5 DEF Holds
<1>7. ASSUME NEW p \in tx'.profiles, NEW q \in tx'.profiles, p.row.old = q.row.old
      PROVE  p = q
  <2>1. PICK m \in DOMAIN d, n \in DOMAIN d : p.row = d[m] /\ q.row = d[n] /\ (m = n => p = q)
    BY <1>5 DEF Holds
  <2> QED
    BY <1>4, <1>7, <2>1
<1> QED
  BY <1>3, <1>6, <1>7 DEF ProfilesIn

LEMMA WritesIndexers ==
    ASSUME MInv, RInv, WriteIndexers
    PROVE  IndexersIn(tx', src)
<1>1. at = "indexers" /\ Insert("indexers", data.indexers)
  BY DEF WriteIndexers
<1>2. WellRead(src) /\ data.indexers = Indexers(src)
  BY <1>1, UnderWay, DataRows
<1>3. PICK d : d = Indexers(src)
  OBVIOUS
<1>4. IndexersListed(src, d)
  BY <1>2, <1>3, IndexersRead
<1>5. Holds(tx'.indexers, d)
  BY <1>1, <1>2, <1>3, InsertHolds, TableNames DEF MInv
<1>6. ASSUME NEW i \in tx'.indexers, NEW j \in tx'.indexers, i.row.row.url = j.row.row.url
      PROVE  i = j \/ (i.row.app = "prowlarr" /\ j.row.app = "prowlarr")
  <2>1. PICK m \in DOMAIN d, n \in DOMAIN d : i.row = d[m] /\ j.row = d[n] /\ (m = n => i = j)
    BY <1>5 DEF Holds
  <2>2. m = n \/ (d[m].app = "prowlarr" /\ d[n].app = "prowlarr")
    BY <1>4, <1>6, <2>1 DEF IndexersListed
  <2> QED
    BY <2>1, <2>2
<1>7. /\ \A n \in DOMAIN d : \E i \in tx'.indexers : i.row = d[n]
      /\ \A i \in tx'.indexers : \E n \in DOMAIN d : i.row = d[n]
  BY <1>5 DEF Holds
<1> QED
  BY <1>3, <1>6, <1>7 DEF IndexersIn

LEMMA WritesClients ==
    ASSUME MInv, RInv, WriteDownloadClients
    PROVE  ClientsIn(tx', src)
<1>1. at = "clients" /\ Insert("clients", data.clients)
  BY DEF WriteDownloadClients
<1>2. WellRead(src) /\ data.clients = DownloadClients(src)
  BY <1>1, UnderWay, DataRows
<1>3. PICK d : d = DownloadClients(src)
  OBVIOUS
<1>4. \A m, n \in DOMAIN d : d[m].row.key = d[n].row.key => m = n
  BY <1>2, <1>3, ClientsRead
<1>5. Holds(tx'.clients, d)
  BY <1>1, <1>2, <1>3, InsertHolds, TableNames DEF MInv
<1>6. /\ \A n \in DOMAIN d : \E c \in tx'.clients : c.row = d[n]
      /\ \A c \in tx'.clients : \E n \in DOMAIN d : c.row = d[n]
  BY <1>5 DEF Holds
<1>7. ASSUME NEW b \in tx'.clients, NEW c \in tx'.clients, b.row.row.key = c.row.row.key
      PROVE  b = c
  <2>1. PICK m \in DOMAIN d, n \in DOMAIN d : b.row = d[m] /\ c.row = d[n] /\ (m = n => b = c)
    BY <1>5 DEF Holds
  <2> QED
    BY <1>4, <1>7, <2>1
<1> QED
  BY <1>3, <1>6, <1>7 DEF ClientsIn

LEMMA WritesFiles ==
    ASSUME MInv, RInv, WriteMediaFiles
    PROVE  FilesIn(tx', src)
<1>1. at = "files" /\ Insert("files", data.files)
  BY DEF WriteMediaFiles
<1>2. WellRead(src) /\ data.files = MediaFiles(src)
  BY <1>1, UnderWay, DataRows
<1>3. PICK d : d = MediaFiles(src)
  OBVIOUS
<1>4. FilesListed(src, d)
  BY <1>2, <1>3, FilesOnce
<1>5. Holds(tx'.files, d)
  BY <1>1, <1>2, <1>3, InsertHolds, TableNames DEF MInv
<1>6. ASSUME NEW app \in {"sonarr", "radarr"}, NEW x \in ToSet(src[app].files)
      PROVE  \E f \in tx'.files : f.row.media = Media(app) /\ f.row.old = x.id
  <2>1. PICK n \in DOMAIN d : d[n].media = Media(app) /\ d[n].old = x.id
    BY <1>4 DEF FilesListed
  <2> QED
    BY <1>5, <2>1 DEF Holds
<1>7. ASSUME NEW f \in tx'.files, NEW g \in tx'.files, f.row.media = g.row.media, f.row.old = g.row.old
      PROVE  f = g
  <2>1. PICK m \in DOMAIN d, n \in DOMAIN d : f.row = d[m] /\ g.row = d[n] /\ (m = n => f = g)
    BY <1>5 DEF Holds
  <2> QED
    BY <1>4, <1>7, <2>1 DEF FilesListed
<1> QED
  BY <1>6, <1>7 DEF FilesIn

(* The items of one table. *)
LEMMA WritesItems ==
    ASSUME NEW S, NEW rows, Holds(S, rows), NEW read, NEW d, Copied(read, d),
           DOMAIN rows = DOMAIN d, \A n \in DOMAIN d : rows[n].old = d[n].old
    PROVE  /\ \A x \in ToSet(read) : \E r \in S : r.row.old = x.id
           /\ \A r \in S : \E x \in ToSet(read) : r.row.old = x.id
           /\ \A r, q \in S : r.row.old = q.row.old => r = q
<1>1. ASSUME NEW x \in ToSet(read)
      PROVE  \E r \in S : r.row.old = x.id
  <2>1. PICK n \in DOMAIN d : d[n].old = x.id
    BY DEF Copied
  <2>2. PICK r \in S : r.row = rows[n]
    BY DEF Holds
  <2> QED
    BY <2>1, <2>2
<1>2. ASSUME NEW r \in S, NEW q \in S
      PROVE  \E m, n \in DOMAIN d : /\ r.row.old = d[m].old /\ q.row.old = d[n].old
                                    /\ m = n => r = q
  <2>1. PICK m \in DOMAIN rows, n \in DOMAIN rows : r.row = rows[m] /\ q.row = rows[n] /\ (m = n => r = q)
    BY DEF Holds
  <2> QED
    BY <2>1
<1>3. ASSUME NEW r \in S
      PROVE  \E x \in ToSet(read) : r.row.old = x.id
  <2>1. PICK n \in DOMAIN d : r.row.old = d[n].old
    BY <1>2
  <2> QED
    BY <2>1 DEF Copied
<1>4. ASSUME NEW r \in S, NEW q \in S, r.row.old = q.row.old
      PROVE  r = q
  <2>1. PICK m \in DOMAIN d, n \in DOMAIN d :
            r.row.old = d[m].old /\ q.row.old = d[n].old /\ (m = n => r = q)
    BY <1>2
  <2> QED
    BY <1>4, <2>1 DEF Copied
<1> QED
  BY <1>1, <1>3, <1>4

LEMMA WritesSeries ==
    ASSUME MInv, RInv, WriteSeries
    PROVE  ItemsIn(tx', src, "sonarr", "series")
<1>1. PICK rows : /\ Insert("series", rows) /\ DOMAIN rows = DOMAIN data.series
                  /\ \A n \in DOMAIN data.series : rows[n].old = data.series[n].old
  BY DEF WriteSeries
<1>2. at = "series"
  BY DEF WriteSeries
<1>3. WellRead(src) /\ data.series = SeriesInserts(src, maps)
  BY <1>2, UnderWay, DataRows
<1>4. Copied(src.sonarr.series, data.series)
  BY <1>3, ItemsCopied
<1>5. Holds(tx'.series, rows)
  BY <1>1, InsertHolds, TableNames DEF MInv
<1> QED
  BY <1>1, <1>4, <1>5, WritesItems DEF ItemsIn

LEMMA WritesMovies ==
    ASSUME MInv, RInv, WriteMovies
    PROVE  ItemsIn(tx', src, "radarr", "movies")
<1>1. PICK profile, folder :
          tx'.movies = Numbered("movies",
              [i \in DOMAIN data.movies |-> MovieRow(data.movies[i], folder[i], profile[i])])
  BY MoviesInserted DEF MInv
<1>2. PICK rows : rows = [i \in DOMAIN data.movies |-> MovieRow(data.movies[i], folder[i], profile[i])]
  OBVIOUS
<1>3. DOMAIN rows = DOMAIN data.movies /\ \A n \in DOMAIN data.movies : rows[n].old = data.movies[n].old
  BY <1>2 DEF MovieRow
<1>4. at = "movies"
  BY DEF WriteMovies
<1>5. WellRead(src) /\ data.movies = MovieInserts(src, maps)
  BY <1>4, UnderWay, DataRows
<1>6. Copied(src.radarr.movies, data.movies)
  BY <1>5, ItemsCopied
<1>7. Holds(tx'.movies, rows)
  BY <1>1, <1>2, NumberedHolds
<1> QED
  BY <1>3, <1>6, <1>7, WritesItems DEF ItemsIn

(* The item that was written for an old id is found again. *)
LEMMA SeriesKnown ==
    ASSUME RInv, ItemsIn(tx, src, "sonarr", "series"), NEW had,
           had \in {y.id : y \in ToSet(src.sonarr.series)}
    PROVE  SeriesId(had) # 0 /\ \E z \in tx.series : z.id = SeriesId(had) /\ z.row.old = had
<1> DEFINE S == {z \in tx.series : z.row.old = had}
<1>1. S # {}
  BY DEF ItemsIn
<1>2. next.series \in Nat /\ \A z \in S : z.id \in 1..next.series
  BY OwnedTables DEF RInv, IdsNumbered
<1>3. SeriesId(had) = NewId(S)
  BY DEF SeriesId
<1> HIDE DEF S
<1>4. NewId(S) # 0 /\ \E z \in S : NewId(S) = z.id
  BY <1>1, <1>2, NewIdFound
<1> QED
  BY <1>3, <1>4 DEF S

LEMMA MovieKnown ==
    ASSUME RInv, ItemsIn(tx, src, "radarr", "movies"), NEW had,
           had \in {y.id : y \in ToSet(src.radarr.movies)}
    PROVE  MovieId(had) # 0
<1> DEFINE S == {z \in tx.movies : z.row.old = had}
<1>1. S # {}
  BY DEF ItemsIn
<1>2. next.movies \in Nat /\ \A z \in S : z.id \in 1..next.movies
  BY OwnedTables DEF RInv, IdsNumbered
<1>3. MovieId(had) = NewId(S)
  BY DEF MovieId
<1> HIDE DEF S
<1> QED
  BY <1>1, <1>2, <1>3, NewIdFound

LEMMA WritesSeasons ==
    ASSUME MInv, RInv, Half(tx, src), WriteSeasons
    PROVE  SeasonsIn(tx', src) /\ \A n \in tx'.seasons : \E z \in tx'.series : z.id = n.series
<1>1. at = "seasons" /\ tx' = [tx EXCEPT !["seasons"] = SeasonRows]
  BY DEF WriteSeasons
<1>2. tx'.seasons = SeasonRows /\ tx'.series = tx.series
  BY <1>1, TableNames DEF MInv, Shapes
<1>3. ItemsIn(tx, src, "sonarr", "series")
  BY <1>1, Ranks DEF Half, Written
<1>4. WellRead(src) /\ data.series = SeriesInserts(src, maps)
  BY <1>1, UnderWay, DataRows
<1>5. Copied(src.sonarr.series, data.series)
  BY <1>4, ItemsCopied
<1>6. ASSUME NEW s \in ToSet(data.series)
      PROVE  /\ \E z \in tx.series : z.id = SeriesId(s.old) /\ z.row.old = s.old
             /\ \A x \in ToSet(src.sonarr.series) : x.id = s.old => s.seasons = x.seasons
  <2>1. PICK n \in DOMAIN data.series : data.series[n] = s
    BY RowOfSet
  <2>2. s.old \in {y.id : y \in ToSet(src.sonarr.series)}
    BY <1>5, <2>1 DEF Copied
  <2>3. \A x \in ToSet(src.sonarr.series) : x.id = s.old => s.seasons = x.seasons
    BY <1>4, <2>1, SeasonsCopied
  <2> QED
    BY <1>3, <2>2, <2>3, SeriesKnown
<1>7. \A n \in SeasonRows : \E s \in ToSet(data.series) :
         n.season \in s.seasons /\ n.series = SeriesId(s.old)
  BY DEF SeasonRows
<1>8. \A s \in ToSet(data.series) : \A c \in s.seasons : \E n \in SeasonRows :
         n.season = c /\ n.series = SeriesId(s.old)
  <2>1. ASSUME NEW s \in ToSet(data.series), NEW c \in s.seasons
        PROVE  \E n \in SeasonRows : n.season = c /\ n.series = SeriesId(s.old)
    <3>1. PICK n : n = [series |-> SeriesId(s.old), season |-> c]
      OBVIOUS
    <3>2. n \in SeasonRows
      BY <3>1 DEF SeasonRows
    <3> QED
      BY <3>1, <3>2
  <2> QED
    BY <2>1
<1>9. \A z, y \in tx.series : z.id = y.id => z = y
  BY OwnedTables DEF RInv, IdsNumbered
<1>10. ASSUME NEW z \in tx.series, NEW x \in ToSet(src.sonarr.series), x.id = z.row.old
       PROVE  {n.season : n \in {m \in SeasonRows : m.series = z.id}} = x.seasons
  <2>1. ASSUME NEW n \in SeasonRows, n.series = z.id
        PROVE  n.season \in x.seasons
    <3>1. PICK s \in ToSet(data.series) : n.season \in s.seasons /\ n.series = SeriesId(s.old)
      BY <1>7
    <3>2. s.old = z.row.old
      BY <1>6, <1>9, <2>1, <3>1
    <3> QED
      BY <1>6, <1>10, <3>1, <3>2
  <2>2. ASSUME NEW c \in x.seasons
        PROVE  \E n \in SeasonRows : n.series = z.id /\ n.season = c
    <3>1. PICK i \in DOMAIN data.series : data.series[i].old = x.id
      BY <1>5 DEF Copied
    <3>2. PICK s : s = data.series[i] /\ s \in ToSet(data.series) /\ s.old = x.id
      BY <3>1, RowOfSet
    <3>3. c \in s.seasons
      BY <1>6, <3>2
    <3>4. SeriesId(s.old) = z.id
      BY <1>3, <1>6, <1>10, <3>2 DEF ItemsIn
    <3> QED
      BY <1>8, <3>2, <3>3, <3>4
  <2> QED
    BY <2>1, <2>2
<1>11. \A n \in SeasonRows : \E z \in tx.series : z.id = n.series
  BY <1>6, <1>7
<1> QED
  BY <1>2, <1>10, <1>11 DEF SeasonsIn

(* The episodes of series that were written are all among those chosen, of   *)
(* two with one number the first.                                            *)
LEMMA EpisodesPicked ==
    ASSUME SourcesKnown, at \notin {"idle", "read"},
           \A m, n \in DOMAIN data.episodes : data.episodes[m].old = data.episodes[n].old => m = n
    PROVE  /\ \A i \in DOMAIN data.episodes :
                 SeriesId(data.episodes[i].series) # 0 =>
                    \E n \in DOMAIN NewEpisodes : /\ NewEpisodes[n].series = data.episodes[i].series
                                                  /\ NewEpisodes[n].number = data.episodes[i].number
           /\ \A m, n \in DOMAIN NewEpisodes : NewEpisodes[m].old = NewEpisodes[n].old => m = n
<1> DEFINE I == {i \in DOMAIN data.episodes : SeriesId(data.episodes[i].series) # 0}
<1>1. PICK known : known = Picked(data.episodes, I)
  OBVIOUS
<1>2. known = KnownEpisodes
  BY <1>1 DEF KnownEpisodes, Only
<1> DEFINE J == {i \in DOMAIN known : \A j \in DOMAIN known :
                    <<known[j].series, known[j].number>> = <<known[i].series, known[i].number>> => i <= j}
           k == [i \in DOMAIN known |-> <<known[i].series, known[i].number>>]
<1>3. PICK new : new = Picked(known, J)
  OBVIOUS
<1>4. new = NewEpisodes
  BY <1>2, <1>3 DEF NewEpisodes, Firsts
<1>5. /\ I \in SUBSET DOMAIN data.episodes /\ IsRows(data.episodes)
      /\ \A i \in DOMAIN data.episodes : i \in I <=> SeriesId(data.episodes[i].series) # 0
  BY DataShapes
<1>6. \A i \in DOMAIN known : k[i] = <<known[i].series, known[i].number>>
  OBVIOUS
<1> HIDE DEF k
<1>13. /\ J \in SUBSET DOMAIN known
       /\ \A i \in DOMAIN known : i \in J <=> \A j \in DOMAIN known : k[j] = k[i] => i <= j
  BY <1>6
<1> HIDE DEF I, J
<1>7. /\ IsRows(known)
      /\ \A n \in DOMAIN known : Nth(I, n) \in I /\ known[n] = data.episodes[Nth(I, n)]
      /\ \A i \in I : \E n \in DOMAIN known : Nth(I, n) = i
  BY <1>1, <1>5, PickedRows
<1>14. IsRows(known)
  BY <1>7
<1>8. \A m, n \in DOMAIN known : Nth(I, m) = Nth(I, n) => m = n
  BY <1>1, <1>5, PickedApart
<1>9. /\ \A n \in DOMAIN new : Nth(J, n) \in DOMAIN known /\ new[n] = known[Nth(J, n)]
      /\ \A i \in DOMAIN known : \E n \in DOMAIN new : k[Nth(J, n)] = k[i]
  <2>1. /\ IsRows(Picked(known, J))
        /\ \A n \in DOMAIN Picked(known, J) : Nth(J, n) \in DOMAIN known /\ Picked(known, J)[n] = known[Nth(J, n)]
        /\ \A m, n \in DOMAIN Picked(known, J) : k[Nth(J, m)] = k[Nth(J, n)] => m = n
        /\ \A i \in DOMAIN known : \E n \in DOMAIN Picked(known, J) : k[Nth(J, n)] = k[i]
    BY <1>13, <1>14, FirstsPicked
  <2> QED
    BY <1>3, <2>1
<1>10. \A m, n \in DOMAIN new : Nth(J, m) = Nth(J, n) => m = n
  BY <1>3, <1>13, <1>14, PickedApart
<1>11. ASSUME NEW i \in DOMAIN data.episodes, SeriesId(data.episodes[i].series) # 0
       PROVE  \E n \in DOMAIN new : new[n].series = data.episodes[i].series
                                    /\ new[n].number = data.episodes[i].number
  <2>1. PICK j \in DOMAIN known : known[j] = data.episodes[i]
    BY <1>5, <1>7, <1>11
  <2>2. PICK n \in DOMAIN new : k[Nth(J, n)] = k[j]
    BY <1>9
  <2>3. PICK e : e = known[Nth(J, n)] /\ e = new[n]
    BY <1>9
  <2>4. <<e.series, e.number>> = <<known[j].series, known[j].number>>
    BY <1>6, <1>9, <2>2, <2>3
  <2> QED
    BY <2>1, <2>3, <2>4
<1>12. ASSUME NEW m \in DOMAIN new, NEW n \in DOMAIN new, new[m].old = new[n].old
       PROVE  m = n
  <2>1. PICK i \in DOMAIN known, j \in DOMAIN known :
            i = Nth(J, m) /\ j = Nth(J, n) /\ new[m] = known[i] /\ new[n] = known[j]
    BY <1>9
  <2>2. Nth(I, i) = Nth(I, j)
    BY <1>5, <1>7, <1>12, <2>1
  <2> QED
    BY <1>8, <1>10, <2>1, <2>2
<1> QED
  BY <1>4, <1>11, <1>12

LEMMA SeriesFound ==
    ASSUME RInv, NEW had, SeriesId(had) # 0
    PROVE  \E z \in tx.series : z.id = SeriesId(had) /\ z.row.old = had
<1> DEFINE S == {z \in tx.series : z.row.old = had}
<1>1. next.series \in Nat /\ \A z \in S : z.id \in 1..next.series
  BY OwnedTables DEF RInv, IdsNumbered
<1>2. SeriesId(had) = NewId(S)
  BY DEF SeriesId
<1> HIDE DEF S
<1>3. \E z \in S : NewId(S) = z.id
  BY <1>1, <1>2, NewIdFound
<1> QED
  BY <1>2, <1>3 DEF S

LEMMA WritesEpisodes ==
    ASSUME MInv, RInv, Half(tx, src), WriteEpisodes
    PROVE  EpisodesIn(tx', src)
<1>1. /\ at = "episodes" /\ tx'.series = tx.series
      /\ tx'.episodes = Numbered("episodes", [i \in DOMAIN NewEpisodes |-> EpisodeRow(NewEpisodes[i])])
  BY EpisodesInserted, OwnedTables DEF MInv
<1>2. ItemsIn(tx, src, "sonarr", "series")
  BY <1>1, Ranks DEF Half, Written
<1>3. WellRead(src) /\ data.episodes = Episodes(src) /\ SourcesKnown
  BY <1>1, UnderWay, DataRows DEF RInv
<1>4. PICK rows : rows = [i \in DOMAIN NewEpisodes |-> EpisodeRow(NewEpisodes[i])]
  OBVIOUS
<1>5. /\ DOMAIN rows = DOMAIN NewEpisodes
      /\ \A n \in DOMAIN NewEpisodes : rows[n].old = NewEpisodes[n].old /\ rows[n].number = NewEpisodes[n].number
                                       /\ rows[n].series = SeriesId(NewEpisodes[n].series)
  BY <1>4 DEF EpisodeRow
<1>6. Holds(tx'.episodes, rows)
  BY <1>1, <1>4, NumberedHolds
<1>7. \A m, n \in DOMAIN data.episodes : data.episodes[m].old = data.episodes[n].old => m = n
  BY <1>3, ItemsCopied DEF Copied
<1>8. /\ \A i \in DOMAIN data.episodes :
            SeriesId(data.episodes[i].series) # 0 =>
               \E n \in DOMAIN NewEpisodes : /\ NewEpisodes[n].series = data.episodes[i].series
                                             /\ NewEpisodes[n].number = data.episodes[i].number
      /\ \A m, n \in DOMAIN NewEpisodes : NewEpisodes[m].old = NewEpisodes[n].old => m = n
  BY <1>1, <1>3, <1>7, EpisodesPicked
<1>9. ASSUME NEW x \in ToSet(src.sonarr.episodes), x.series \in {y.id : y \in ToSet(src.sonarr.series)}
      PROVE  \E e \in tx'.episodes : EpisodeOf(tx', e, x)
  <2>1. PICK i \in DOMAIN data.episodes : data.episodes[i].series = x.series /\ data.episodes[i].number = x.number
    BY <1>3, EpisodesCopied
  <2>2. SeriesId(x.series) # 0
    BY <1>2, <1>9, SeriesKnown
  <2>3. PICK n \in DOMAIN NewEpisodes : NewEpisodes[n].series = x.series /\ NewEpisodes[n].number = x.number
    BY <1>8, <2>1, <2>2
  <2>4. PICK e \in tx'.episodes : e.row = rows[n]
    BY <1>5, <1>6 DEF Holds
  <2>5. PICK z \in tx.series : z.id = SeriesId(x.series) /\ z.row.old = x.series
    BY <2>2, SeriesFound
  <2>6. e.row.number = x.number /\ z.id = e.row.series
    BY <1>5, <2>3, <2>4, <2>5
  <2> QED
    BY <1>1, <2>5, <2>6 DEF EpisodeOf
<1>10. ASSUME NEW e \in tx'.episodes
       PROVE  \E x \in ToSet(src.sonarr.episodes) : x.id = e.row.old /\ EpisodeOf(tx', e, x)
  <2>1. PICK n \in DOMAIN NewEpisodes : e.row = rows[n]
    BY <1>5, <1>6 DEF Holds
  <2>2. PICK i \in DOMAIN data.episodes : NewEpisodes[n] = data.episodes[i] /\ SeriesId(NewEpisodes[n].series) # 0
    BY <1>1, <1>3, EpisodesChosen
  <2>3. PICK x \in ToSet(src.sonarr.episodes) :
            /\ data.episodes[i].series = x.series /\ data.episodes[i].old = x.id
            /\ data.episodes[i].number = x.number
    BY <1>3, ItemsRead
  <2>4. PICK z \in tx.series : z.id = SeriesId(x.series) /\ z.row.old = x.series
    BY <2>2, <2>3, SeriesFound
  <2>5. e.row.old = x.id /\ e.row.number = x.number /\ z.id = e.row.series
    BY <1>5, <2>1, <2>2, <2>3, <2>4
  <2> QED
    BY <1>1, <2>4, <2>5 DEF EpisodeOf
<1>11. ASSUME NEW e \in tx'.episodes, NEW f \in tx'.episodes, e.row.old = f.row.old
       PROVE  e = f
  <2>1. PICK m \in DOMAIN rows, n \in DOMAIN rows : e.row = rows[m] /\ f.row = rows[n] /\ (m = n => e = f)
    BY <1>6 DEF Holds
  <2> QED
    BY <1>5, <1>8, <1>11, <2>1
<1> QED
  BY <1>9, <1>10, <1>11 DEF EpisodesIn

LEMMA WritesBlocklist ==
    ASSUME MInv, RInv, Half(tx, src), WriteBlocklist
    PROVE  BlockedIn(tx', src, "sonarr", "series") /\ BlockedIn(tx', src, "radarr", "movies")
<1> DEFINE I == {i \in DOMAIN data.blocklist : ItemId(data.blocklist[i]) # 0}
<1>1. PICK known : known = Picked(data.blocklist, I)
  OBVIOUS
<1>2. PICK rows : rows = [i \in DOMAIN known |-> [media |-> known[i].media, item |-> ItemId(known[i]),
                                                  from |-> known[i].from]]
  OBVIOUS
<1>3. at = "blocklist" /\ Insert("blocklist", rows)
  <2>1. known = Only(data.blocklist, LAMBDA b : ItemId(b) # 0)
    BY <1>1 DEF Only
  <2> QED
    BY <1>2, <2>1 DEF WriteBlocklist
<1>4. ItemsIn(tx, src, "sonarr", "series") /\ ItemsIn(tx, src, "radarr", "movies")
  BY <1>3, Ranks DEF Half, Written
<1>5. WellRead(src) /\ data.blocklist = Blocklist(src) /\ IsRows(data.blocklist)
  BY <1>3, UnderWay, DataRows
<1>6. I \in SUBSET DOMAIN data.blocklist /\ \A i \in DOMAIN data.blocklist : ItemId(data.blocklist[i]) # 0 => i \in I
  OBVIOUS
<1>7. DOMAIN rows = DOMAIN known /\ \A n \in DOMAIN known : rows[n].from = known[n].from
  BY <1>2
<1> HIDE DEF I
<1>8. /\ \A n \in DOMAIN known : known[n] = data.blocklist[Nth(I, n)]
      /\ \A i \in I : \E n \in DOMAIN known : Nth(I, n) = i
  BY <1>1, <1>5, <1>6, PickedRows
<1>9. Holds(tx'.blocklist, rows)
  BY <1>3, InsertHolds, TableNames DEF MInv
<1>10. ASSUME NEW i \in DOMAIN data.blocklist, ItemId(data.blocklist[i]) # 0
       PROVE  \E b \in tx'.blocklist : b.row.from = data.blocklist[i].from
  <2>1. PICK n \in DOMAIN known : Nth(I, n) = i
    BY <1>6, <1>8, <1>10
  <2>2. PICK b \in tx'.blocklist : b.row = rows[n]
    BY <1>7, <1>9 DEF Holds
  <2> QED
    BY <1>7, <1>8, <2>1, <2>2
<1>13. BlockedListed(src, data.blocklist)
  BY <1>5, BlockedAll
<1>14. Media("sonarr") = "series" /\ Media("radarr") = "movie"
  BY DEF Media
<1>11. ASSUME NEW x \in ToSet(src.sonarr.blocklist), x.item \in {y.id : y \in ToSet(src.sonarr.series)}
       PROVE  \E b \in tx'.blocklist : b.row.from = <<"sonarr", x.id>>
  <2>1. PICK i \in DOMAIN data.blocklist : /\ data.blocklist[i].media = "series" /\ data.blocklist[i].item = x.item
                                           /\ data.blocklist[i].from = <<"sonarr", x.id>>
    BY <1>13, <1>14 DEF BlockedListed
  <2>2. SeriesId(x.item) # 0
    BY <1>4, <1>11, SeriesKnown
  <2>3. ItemId(data.blocklist[i]) # 0
    BY <2>1, <2>2 DEF ItemId
  <2> QED
    BY <1>10, <2>1, <2>3
<1>12. ASSUME NEW x \in ToSet(src.radarr.blocklist), x.item \in {y.id : y \in ToSet(src.radarr.movies)}
       PROVE  \E b \in tx'.blocklist : b.row.from = <<"radarr", x.id>>
  <2>1. PICK i \in DOMAIN data.blocklist : /\ data.blocklist[i].media = "movie" /\ data.blocklist[i].item = x.item
                                           /\ data.blocklist[i].from = <<"radarr", x.id>>
    BY <1>13, <1>14 DEF BlockedListed
  <2>2. MovieId(x.item) # 0
    BY <1>4, <1>12, MovieKnown
  <2>3. ItemId(data.blocklist[i]) # 0
    BY <2>1, <2>2 DEF ItemId
  <2> QED
    BY <1>10, <2>1, <2>3
<1> QED
  BY <1>11, <1>12 DEF BlockedIn

(* Two sets of which each element has one of the other have the same size. *)
LEMMA Matched ==
    ASSUME NEW S, IsFiniteSet(S), NEW T, NEW R,
           \A x \in S : \E y \in T : <<x, y>> \in R,
           \A y \in T : \E x \in S : <<x, y>> \in R,
           \A x, w \in S : \A y, z \in T : <<x, y>> \in R /\ <<w, z>> \in R => (x = w <=> y = z)
    PROVE  Cardinality(S) = Cardinality(T)
<1> DEFINE f == [x \in S |-> CHOOSE y \in T : <<x, y>> \in R]
<1>1. f \in [S -> T] /\ \A x \in S : <<x, f[x]>> \in R
  OBVIOUS
<1> HIDE DEF f
<1>2. ASSUME NEW x \in S, NEW w \in S, f[x] = f[w]
      PROVE  x = w
  <2>1. PICK y \in T : y = f[x]
    BY <1>1
  <2>2. <<x, y>> \in R /\ <<w, y>> \in R
    BY <1>1, <1>2, <2>1
  <2> QED
    BY <2>2
<1>3. ASSUME NEW y \in T
      PROVE  \E x \in S : f[x] = y
  <2>1. PICK x \in S : <<x, y>> \in R
    OBVIOUS
  <2> QED
    BY <1>1, <2>1
<1>4. f \in Bijection(S, T)
  BY <1>1, <1>2, <1>3 DEF Bijection, Injection, Surjection, IsInjective
<1> QED
  BY <1>4, FS_Bijection DEF ExistsBijection

(* The scores of a profile are those that its application has, of the formats *)
(* that were read.                                                            *)
LEMMA ScorePlaces ==
    ASSUME NEW s, WellRead(s), NEW app \in {"sonarr", "radarr"}, NEW items, IsRows(items),
           NEW scores, scores = FormatScores(s, app, items), NEW I, I = Scored(s, app, items)
    PROVE  /\ IsRows(scores)
           /\ \A n \in DOMAIN scores : Nth(I, n) \in I
           /\ \A i \in I : \E n \in DOMAIN scores : Nth(I, n) = i
           /\ \A m, n \in DOMAIN scores : Nth(I, m) = Nth(I, n) => m = n
<1> DEFINE all == [i \in DOMAIN items |->
                      [index |-> FormatIndex(s, app, items[i].format), score |-> items[i].score]]
           J == {i \in DOMAIN all : all[i].score # 0 /\ all[i].index # 0}
<1>1. scores = Picked(all, J)
  BY DEF FormatScores, Only, Apply
<1>2. /\ DOMAIN all = DOMAIN items /\ all = [i \in DOMAIN items |-> all[i]]
      /\ \A i \in DOMAIN items :
            all[i].score = items[i].score /\ all[i].index = FormatIndex(s, app, items[i].format)
  OBVIOUS
<1> HIDE DEF all
<1>3. J = I
  <2>1. \A i \in DOMAIN items : FormatIndex(s, app, items[i].format) # 0 <=>
                                   Keys(s, app, items[i].format) # {}
    BY FormatFound
  <2> QED
    BY <1>2, <2>1 DEF Scored
<1>4. IsRows(all) /\ J \in SUBSET DOMAIN all
  BY <1>2, SameRows
<1> HIDE DEF J
<1> QED
  BY <1>1, <1>3, <1>4, PickedRows, PickedApart

(* Where score i of profile n comes from. *)
ScoreFrom(n, i, c) ==
    \E app \in {"sonarr", "radarr"} : \E x \in ToSet(src[app].profiles) :
        /\ data.profiles[n] = ProfileOfApp(src, app, x)
        /\ c = <<app, x.id, Nth(Scored(src, app, x.scores), i)>>

BothFrom(m, n, i, j, c, e) ==
    \E app \in {"sonarr", "radarr"} : \E x \in ToSet(src[app].profiles) :
        /\ data.profiles[m] = ProfileOfApp(src, app, x) /\ data.profiles[n] = data.profiles[m]
        /\ c = <<app, x.id, Nth(Scored(src, app, x.scores), i)>>
        /\ e = <<app, x.id, Nth(Scored(src, app, x.scores), j)>>

LEMMA ScoreFromOnly ==
    ASSUME SourcesKnown, NEW m, NEW n, NEW i, NEW j, NEW c, NEW e, ScoreFrom(m, i, c), ScoreFrom(n, j, e),
           data.profiles[m] = data.profiles[n] \/ c = e
    PROVE  BothFrom(m, n, i, j, c, e)
<1>1. PICK app \in {"sonarr", "radarr"} : \E x \in ToSet(src[app].profiles) :
        /\ data.profiles[m] = ProfileOfApp(src, app, x)
        /\ c = <<app, x.id, Nth(Scored(src, app, x.scores), i)>>
  BY DEF ScoreFrom
<1>2. PICK x \in ToSet(src[app].profiles) :
        /\ data.profiles[m] = ProfileOfApp(src, app, x)
        /\ c = <<app, x.id, Nth(Scored(src, app, x.scores), i)>>
  BY <1>1
<1>3. PICK other \in {"sonarr", "radarr"} : \E y \in ToSet(src[other].profiles) :
        /\ data.profiles[n] = ProfileOfApp(src, other, y)
        /\ e = <<other, y.id, Nth(Scored(src, other, y.scores), j)>>
  BY DEF ScoreFrom
<1>4. PICK y \in ToSet(src[other].profiles) :
        /\ data.profiles[n] = ProfileOfApp(src, other, y)
        /\ e = <<other, y.id, Nth(Scored(src, other, y.scores), j)>>
  BY <1>3
<1>5. data.profiles[m].from = <<app, x.id>> /\ data.profiles[n].from = <<other, y.id>>
  <2>1. ProfileOfApp(src, app, x).from = <<app, x.id>>
    BY ProfileColumns
  <2>2. ProfileOfApp(src, other, y).from = <<other, y.id>>
    BY DEF ProfileOfApp, SeriesProfile, MovieProfile
  <2> QED
    BY <1>2, <1>4, <2>1, <2>2
<1>6. app = other /\ x.id = y.id
  BY <1>2, <1>4, <1>5
<1>7. Keyed(src[app].profiles)
  BY TablesRead DEF SourcesKnown
<1>8. x = y
  BY <1>6, <1>7, KeysTellRows
<1> QED
  BY <1>2, <1>4, <1>6, <1>8 DEF BothFrom

(* The profiles that are merged are those of the two applications. *)
ProfilesListed(s, d) ==
    /\ \A n \in DOMAIN d : \E app \in {"sonarr", "radarr"} :
          \E x \in ToSet(s[app].profiles) : d[n] = ProfileOfApp(s, app, x)
    /\ \A app \in {"sonarr", "radarr"} : \A x \in ToSet(s[app].profiles) :
          \E n \in DOMAIN d : d[n] = ProfileOfApp(s, app, x)
    /\ \A m, n \in DOMAIN d : d[m].old = d[n].old => m = n

LEMMA ProfilesAll ==
    ASSUME NEW s, WellRead(s), NEW d, d = Profiles(s)
    PROVE  ProfilesListed(s, d)
<1>1. ProfilesListed(s, Profiles(s))
  BY ProfilesRead DEF ProfilesListed
<1> QED
  BY <1>1

LEMMA ScoresFinite ==
    ASSUME SourcesKnown, at \notin {"idle", "read"}
    PROVE  IsFiniteSet(ScoreInserts)
<1>1. ASSUME NEW s, IsRows(s)
      PROVE  IsFiniteSet(DOMAIN s)
  BY <1>1, RowsType, FS_Interval
<1> DEFINE Of1(n) == {<<n, i>> : i \in DOMAIN data.profiles[n].scores}
           g == [n \in DOMAIN data.profiles |-> Of1(n)]
           S == {g[n] : n \in DOMAIN data.profiles}
<1>2. ASSUME NEW n \in DOMAIN data.profiles
      PROVE  IsFiniteSet(Of1(n))
  <2> DEFINE D == DOMAIN data.profiles[n].scores
             f == [i \in D |-> <<n, i>>]
  <2>1. data.profiles[n] \in ToSet(data.profiles)
    BY RowOfSet
  <2>2. IsFiniteSet(D)
    BY <1>1, <2>1, ProfileScores
  <2>3. f = [i \in D |-> f[i]] /\ {f[i] : i \in D} = Of1(n)
    OBVIOUS
  <2> HIDE DEF f, D
  <2> QED
    BY <2>2, <2>3, FiniteImage
<1>3. IsFiniteSet(DOMAIN data.profiles)
  BY <1>1, DataShapes
<1>4. IsFiniteSet(S) /\ \A T \in S : IsFiniteSet(T)
  <2>1. g = [n \in DOMAIN data.profiles |-> g[n]] /\ \A n \in DOMAIN data.profiles : IsFiniteSet(g[n])
    BY <1>2
  <2> HIDE DEF g
  <2> QED
    BY <1>3, <2>1, FiniteImage
<1>5. UNION S = ScoreInserts
  <2>1. S = {Of1(n) : n \in DOMAIN data.profiles}
    OBVIOUS
  <2> QED
    BY <2>1, Zenon DEF ScoreInserts
<1> HIDE DEF S
<1> QED
  BY <1>4, <1>5, FS_UNION

Countable == CountedScores(Len(log), "sonarr") \cup CountedScores(Len(log), "radarr")

LEMMA CountableScores ==
    ASSUME SourcesKnown, at # "idle"
    PROVE  /\ \A app \in {"sonarr", "radarr"} : \A x \in ToSet(src[app].profiles) :
                 \A i \in Scored(src, app, x.scores) : <<app, x.id, i>> \in Countable
           /\ \A c \in Countable : \E app \in {"sonarr", "radarr"} : \E x \in ToSet(src[app].profiles) :
                 \E i \in Scored(src, app, x.scores) : c = <<app, x.id, i>>
<1>1. log[Len(log)].src = src
  BY DEF SourcesKnown
<1>2. ASSUME NEW app \in {"sonarr", "radarr"}
      PROVE  CountedScores(Len(log), app) =
                UNION {{<<app, x.id, i>> : i \in Scored(src, app, x.scores)} : x \in ToSet(src[app].profiles)}
  BY <1>1 DEF CountedScores, FormatKey, Given, Scored, Keys
<1> QED
  BY <1>2 DEF Countable

LEMMA ScoresCounted ==
    ASSUME SourcesKnown, at \notin {"idle", "read"}
    PROVE  Cardinality(ScoreInserts) = Cardinality(Countable)
<1> DEFINE R == {p \in ScoreInserts \X Countable : ScoreFrom(p[1][1], p[1][2], p[2])}
<1>1. PICK d : WellRead(src) /\ d = Profiles(src) /\ d = data.profiles
  BY DataRows DEF SourcesKnown
<1>12. ProfilesListed(src, d)
  BY <1>1, ProfilesAll
<1>9. \A n \in DOMAIN d : \E app \in {"sonarr", "radarr"} :
         \E x \in ToSet(src[app].profiles) : d[n] = ProfileOfApp(src, app, x)
  BY <1>12 DEF ProfilesListed
<1>10. \A app \in {"sonarr", "radarr"} : \A x \in ToSet(src[app].profiles) :
          \E n \in DOMAIN d : d[n] = ProfileOfApp(src, app, x)
  BY <1>12 DEF ProfilesListed
<1>11. \A m, n \in DOMAIN d : d[m].old = d[n].old => m = n
  BY <1>12 DEF ProfilesListed
<1>2. \A n \in DOMAIN d : \A i \in DOMAIN d[n].scores : <<n, i>> \in ScoreInserts
  BY <1>1 DEF ScoreInserts
<1>3. \A p \in ScoreInserts : \E n \in DOMAIN d : \E i \in DOMAIN d[n].scores : p = <<n, i>>
  BY <1>1 DEF ScoreInserts
<1>4. ASSUME NEW app \in {"sonarr", "radarr"}, NEW x \in ToSet(src[app].profiles)
      PROVE  LET scores == ProfileOfApp(src, app, x).scores
                 I == Scored(src, app, x.scores)
             IN  /\ \A n \in DOMAIN scores : Nth(I, n) \in I
                 /\ \A i \in I : \E n \in DOMAIN scores : Nth(I, n) = i
                 /\ \A m, n \in DOMAIN scores : Nth(I, m) = Nth(I, n) => m = n
  <2>1. PICK scores, I : scores = FormatScores(src, app, x.scores) /\ I = Scored(src, app, x.scores)
    OBVIOUS
  <2>2. ProfileOfApp(src, app, x).scores = scores
    BY <2>1, ProfileColumns
  <2>3. IsRows(x.scores)
    <3>2. ToSet(src[app].profiles) \subseteq ToSet(Sources[app].profiles)
      BY <1>1, TablesRead
    <3> QED
      BY <3>2, SourcesRead DEF Databases, IsRows
  <2> QED
    BY <1>1, <2>1, <2>2, <2>3, ScorePlaces
<1>5. ASSUME NEW p \in ScoreInserts
      PROVE  \E c \in Countable : <<p, c>> \in R
  <2>1. PICK n, i : n \in DOMAIN d /\ i \in DOMAIN d[n].scores /\ p = <<n, i>>
    BY <1>3
  <2>2. PICK app, x : /\ app \in {"sonarr", "radarr"} /\ x \in ToSet(src[app].profiles)
                     /\ d[n] = ProfileOfApp(src, app, x)
    BY <1>9, <2>1
  <2>3. PICK c : c = <<app, x.id, Nth(Scored(src, app, x.scores), i)>>
    OBVIOUS
  <2>4. c \in Countable
    BY <1>4, <2>1, <2>2, <2>3, CountableScores
  <2>5. ScoreFrom(n, i, c)
    BY Zenon, <1>1, <2>2, <2>3 DEF ScoreFrom
  <2> QED
    BY <2>1, <2>4, <2>5
<1>6. ASSUME NEW c \in Countable
      PROVE  \E p \in ScoreInserts : <<p, c>> \in R
  <2>1. PICK app, x, j : /\ app \in {"sonarr", "radarr"} /\ x \in ToSet(src[app].profiles)
                        /\ j \in Scored(src, app, x.scores) /\ c = <<app, x.id, j>>
    BY CountableScores
  <2>2. PICK n \in DOMAIN d : d[n] = ProfileOfApp(src, app, x)
    BY <1>10, <2>1
  <2>3. PICK i \in DOMAIN d[n].scores : Nth(Scored(src, app, x.scores), i) = j
    BY <1>4, <2>1, <2>2
  <2>4. ScoreFrom(n, i, c)
    BY Zenon, <1>1, <2>1, <2>2, <2>3 DEF ScoreFrom
  <2>5. <<n, i>> \in ScoreInserts
    BY <1>2, <2>3
  <2> QED
    BY <2>4, <2>5
<1>7. ASSUME NEW p \in ScoreInserts, NEW q \in ScoreInserts, NEW c \in Countable, NEW e \in Countable,
             <<p, c>> \in R, <<q, e>> \in R
      PROVE  p = q <=> c = e
  <2>1. PICK m, i : m \in DOMAIN d /\ i \in DOMAIN d[m].scores /\ p = <<m, i>>
    BY <1>3
  <2>2. PICK n, j : n \in DOMAIN d /\ j \in DOMAIN d[n].scores /\ q = <<n, j>>
    BY <1>3
  <2>3. ScoreFrom(m, i, c) /\ ScoreFrom(n, j, e)
    BY <1>7, <2>1, <2>2
  <2>4. CASE p = q
    <3>1. m = n /\ i = j
      BY <2>1, <2>2, <2>4
    <3>2. data.profiles[m] = data.profiles[n]
      BY <3>1
    <3>3. BothFrom(m, n, i, j, c, e)
      BY <2>3, <3>2, ScoreFromOnly
    <3> QED
      BY <2>4, <3>1, <3>3 DEF BothFrom
  <2>5. CASE c = e
    <3>1. PICK app, x :
            /\ app \in {"sonarr", "radarr"} /\ x \in ToSet(src[app].profiles)
            /\ d[m] = ProfileOfApp(src, app, x) /\ d[n] = d[m]
            /\ c = <<app, x.id, Nth(Scored(src, app, x.scores), i)>>
            /\ e = <<app, x.id, Nth(Scored(src, app, x.scores), j)>>
      <4>1. BothFrom(m, n, i, j, c, e)
        BY <2>3, <2>5, ScoreFromOnly
      <4> QED
        BY <1>1, <4>1 DEF BothFrom
    <3>2. m = n
      BY <1>11, <2>1, <2>2, <3>1
    <3>3. Nth(Scored(src, app, x.scores), i) = Nth(Scored(src, app, x.scores), j)
      <4>1. c[3] = Nth(Scored(src, app, x.scores), i)
        BY <3>1
      <4>2. e[3] = Nth(Scored(src, app, x.scores), j)
        BY <3>1
      <4> QED
        BY <2>5, <4>1, <4>2
    <3>4. i = j
      BY <1>4, <2>1, <2>2, <3>1, <3>3
    <3> QED
      BY <2>1, <2>2, <2>5, <3>2, <3>4
  <2> QED
    BY <2>4, <2>5
<1>8. IsFiniteSet(ScoreInserts)
  BY ScoresFinite
<1> HIDE DEF R
<1>13. \A p \in ScoreInserts : \E c \in Countable : <<p, c>> \in R
  BY <1>5
<1>14. \A c \in Countable : \E p \in ScoreInserts : <<p, c>> \in R
  BY <1>6
<1>15. \A p, q \in ScoreInserts : \A c, e \in Countable :
          <<p, c>> \in R /\ <<q, e>> \in R => (p = q <=> c = e)
  BY <1>7
<1> QED
  BY <1>8, <1>13, <1>14, <1>15, Matched

LEMMA TableAt ==
    ASSUME Statement, NEW t \in Owned, Rank(t) = Rank(at)
    PROVE  at = t
<1>1. Rank(at) \in 1..15 /\ Rank(at) # 14 /\ Rank(at) # 12 /\ Rank(at) # 6
  BY OwnedTables, Ranks
<1>2. at \in Owned \/ at = "joins"
  BY <1>1, OwnedTables, SMTT(40) DEF Rank
<1>3. at # "joins"
  BY ZenonT(40) DEF Statement, Begin, WriteTags, WriteCustomFormats, WriteQualityProfiles, WriteFormatScores,
       WriteMediaLibraryFolders, WriteNamingConfig, WriteIndexers, WriteDownloadClients, WriteSeries,
       WriteMediaFiles, WriteEpisodes, WriteSeasons, WriteMovies, ClearLinks, WriteBlocklist
<1> QED
  BY <1>2, <1>3, OwnRanks

LEMMA SeasonsAlone ==
    ASSUME Shapes, Statement
    PROVE  tx'.seasons = tx.seasons \/ WriteSeasons
<1>1. ASSUME NEW t \in Tables \ {"seasons"}, NEW rows, Insert(t, rows)
      PROVE  tx'.seasons = tx.seasons
  <2>1. tx' = [tx EXCEPT ![t] = Numbered(t, rows)]
    BY <1>1 DEF Insert
  <2> QED
    BY <2>1, TableNames DEF Shapes
<1>2. {"tags", "formats", "profiles", "scores", "folders", "naming", "indexers", "clients",
       "series", "files", "blocklist"} \subseteq Tables \ {"seasons"}
  BY TableNames
<1>3. CASE Begin
  BY <1>3 DEF Begin, txVars
<1>4. CASE WriteTags \/ WriteCustomFormats \/ WriteQualityProfiles \/ WriteFormatScores
  BY <1>1, <1>2, <1>4 DEF WriteTags, WriteCustomFormats, WriteQualityProfiles, WriteFormatScores
<1>5. CASE WriteMediaLibraryFolders \/ WriteNamingConfig \/ WriteIndexers \/ WriteDownloadClients
  BY <1>1, <1>2, <1>5 DEF WriteMediaLibraryFolders, WriteNamingConfig, WriteIndexers, WriteDownloadClients
<1>6. CASE WriteSeries \/ WriteMediaFiles \/ WriteBlocklist
  BY <1>1, <1>2, <1>6 DEF WriteSeries, WriteMediaFiles, WriteBlocklist
<1>7. CASE WriteEpisodes
  <2>1. \E a, b, c : tx' = [tx EXCEPT !["episodes"] = a, !["links"] = b, !["joins"] = c]
    BY <1>7 DEF WriteEpisodes
  <2> QED
    BY <2>1, TableNames DEF Shapes
<1>8. CASE WriteMovies
  <2>1. \E a, b : tx' = [tx EXCEPT !["movies"] = a, !["links"] = b]
    BY <1>8 DEF WriteMovies
  <2> QED
    BY <2>1, TableNames, SMTT(40) DEF Shapes
<1>9. CASE ClearLinks
  <2>1. tx' = [tx EXCEPT !["links"] = {}]
    BY <1>9 DEF ClearLinks
  <2> QED
    BY <2>1, TableNames DEF Shapes
<1> QED
  BY <1>3, <1>4, <1>5, <1>6, <1>7, <1>8, <1>9 DEF Statement

LEMMA FiniteFill ==
    ASSUME NEW t, NEW rows, Fills(t, rows)
    PROVE  IsFiniteSet(tx'[t])
<1> DEFINE D == DOMAIN rows
           f == [i \in D |-> [id |-> next[t] + i, run |-> Len(log), row |-> rows[i]]]
<1>1. IsFiniteSet(D)
  BY RowsType, FS_Interval DEF Fills
<1>2. f = [i \in D |-> f[i]] /\ {f[i] : i \in D} = Numbered(t, rows)
  BY DEF Numbered
<1> HIDE DEF D, f
<1> QED
  BY <1>1, <1>2, FiniteImage DEF Fills

(* An import, a scan or a user leaves every run its rows. *)
LEMMA ByOthers ==
    ASSUME MInv, (\E item \in Linkable : AppLinks(item)) \/ (\E p \in db.profiles : UserDeletesProfile(p))
    PROVE  /\ at' = at /\ tx' = tx /\ log' = log /\ src' = src
           /\ \A t \in Owned : db[t] \subseteq db'[t] \/ t = "profiles"
           /\ \A t \in RunTables : \A r \in db[t] : r \in db'[t] \/ r.run = 0
           /\ \A t \in RunTables : \A r \in db'[t] : r \in db[t] \/ r.run = 0
           /\ db'.seasons = db.seasons
<1>1. ASSUME NEW item, AppLinks(item)
      PROVE  /\ at' = at /\ tx' = tx /\ log' = log /\ src' = src
             /\ \A t \in Owned : db[t] \subseteq db'[t] \/ t = "profiles"
             /\ \A t \in RunTables : \A r \in db[t] : r \in db'[t] \/ r.run = 0
             /\ \A t \in RunTables : \A r \in db'[t] : r \in db[t] \/ r.run = 0
             /\ db'.seasons = db.seasons
  <2>1. PICK f : /\ f.run = 0 /\ db'.files = db.files \cup {f}
                 /\ \A t \in Tables \ {"files", "links"} : db'[t] = db[t]
    BY <1>1, AppLinked DEF MInv
  <2>2. Owned \subseteq RunTables /\ \A t \in RunTables : t \in Tables /\ t # "links"
    BY SMTT(40) DEF Owned, RunTables
  <2>3. at' = at /\ tx' = tx /\ log' = log /\ src' = src
    BY <1>1, ZenonT(40) DEF AppLinks, txVars
  <2> QED
    BY <2>1, <2>2, <2>3, TableNames
<1>2. ASSUME NEW p, UserDeletesProfile(p)
      PROVE  /\ at' = at /\ tx' = tx /\ log' = log /\ src' = src
             /\ \A t \in Owned : db[t] \subseteq db'[t] \/ t = "profiles"
             /\ \A t \in RunTables : \A r \in db[t] : r \in db'[t] \/ r.run = 0
             /\ \A t \in RunTables : \A r \in db'[t] : r \in db[t] \/ r.run = 0
             /\ db'.seasons = db.seasons
  <2>1. p.run = 0 /\ db' = [db EXCEPT !["profiles"] = db.profiles \ {p}]
    BY <1>2 DEF UserDeletesProfile
  <2>2. db'.profiles = db.profiles \ {p} /\ \A t \in Tables \ {"profiles"} : db'[t] = db[t]
    BY <2>1, TableNames DEF MInv, Shapes
  <2>3. at' = at /\ tx' = tx /\ log' = log /\ src' = src
    BY <1>2 DEF UserDeletesProfile, txVars
  <2>4. Owned \subseteq RunTables /\ RunTables \subseteq Tables
    BY DEF Owned, RunTables
  <2> QED
    BY <2>1, <2>2, <2>3, <2>4, TableNames
<1> QED
  BY <1>1, <1>2

(* The other steps empty the transaction or leave it as it is. *)
LEMMA OtherSteps ==
    ASSUME MInv, RInv, MigrationNext
    PROVE  \/ Advances /\ Statement
           \/ Commits
           \/ Rank(at') = 0 /\ db' = db /\ (tx' = Empty \/ tx' = tx)
           \/ /\ at' = at /\ tx' = tx /\ log' = log /\ src' = src
              /\ \A t \in Owned : db[t] \subseteq db'[t] \/ t = "profiles"
              /\ \A t \in RunTables : \A r \in db[t] : r \in db'[t] \/ r.run = 0
              /\ \A t \in RunTables : \A r \in db'[t] : r \in db[t] \/ r.run = 0
              /\ db'.seasons = db.seasons
<1>1. CASE Starts \/ Reads \/ Leaves
  BY <1>1, Ranks DEF Starts, Reads, Leaves, Ends
<1>2. CASE (\E item \in Linkable : AppLinks(item)) \/ (\E p \in db.profiles : UserDeletesProfile(p))
  BY <1>2, ByOthers
<1> QED
  BY <1>1, <1>2, RunSteps DEF RInv

LEMMA FiniteStep ==
    ASSUME MInv, RInv, Finite, MigrationNext
    PROVE  Finite'
<1>1. CASE Advances /\ Statement
  BY <1>1, FiniteFill DEF Advances, Finite
<1>2. \A t \in Owned : Empty[t] = {}
  BY EmptyTables, OwnedTables
<1>3. CASE Commits
  BY <1>3, CommitsAll, FS_EmptySet DEF Finite
<1>4. CASE tx' = Empty \/ tx' = tx
  BY <1>2, <1>4, FS_EmptySet DEF Finite
<1> QED
  BY <1>1, <1>3, <1>4, OtherSteps

LEMMA SeasonsAt ==
    ASSUME Statement, Rank(at) = 12
    PROVE  WriteSeasons
<1>1. \A step \in {"begin", "tags", "formats", "profiles", "scores", "folders", "naming", "indexers",
                   "clients", "series", "files", "episodes", "movies", "links", "blocklist"} : at # step
  BY Ranks
<1> QED
  BY <1>1, ZenonT(40) DEF Statement, Begin, WriteTags, WriteCustomFormats, WriteQualityProfiles, WriteFormatScores,
       WriteMediaLibraryFolders, WriteNamingConfig, WriteIndexers, WriteDownloadClients, WriteSeries,
       WriteMediaFiles, WriteEpisodes, WriteMovies, ClearLinks, WriteBlocklist, Goto

(* A statement writes its own table, and those before it stay as they are. *)
LEMMA StatementWrites ==
    ASSUME MInv, RInv, Advances, Statement
    PROVE  /\ src' = src /\ db' = db /\ log' = log
           /\ \A t \in Owned : Written(t)' => at = t \/ (Written(t) /\ tx'[t] = tx[t])
           /\ Written("episodes") => tx'.series = tx.series
           /\ Written("seasons") => tx'.series = tx.series /\ tx'.seasons = tx.seasons
           /\ Written("seasons")' => Written("seasons") \/ WriteSeasons
<1>1. src' = src /\ db' = db /\ log' = log /\ Rank(at') = Rank(at) + 1
  BY DEF Advances, Writes
<1>2. Rank(at) \in Nat
  BY DEF Rank
<1>3. ASSUME NEW t \in Owned, Written(t)', at # t
      PROVE  Written(t) /\ tx'[t] = tx[t]
  <2>1. Rank(t) \in Nat
    BY OwnedTables, Ranks
  <2>2. Rank(t) # Rank(at)
    BY <1>3, TableAt
  <2>3. Rank(at) > Rank(t)
    BY <1>1, <1>2, <1>3, <2>1, <2>2 DEF Written
  <2> QED
    BY <2>2, <2>3 DEF Advances, Written
<1>4. Written("episodes") => tx'.series = tx.series
  BY Ranks, OwnedTables DEF Written, Advances
<1>5. ASSUME Written("seasons")
      PROVE  tx'.series = tx.series /\ tx'.seasons = tx.seasons
  <2>1. Rank(at) > 12
    BY <1>5, Ranks DEF Written
  <2>2. tx'.series = tx.series
    BY <2>1, Ranks, OwnedTables DEF Advances
  <2>3. ~WriteSeasons
    BY <1>2, <2>1, Ranks DEF WriteSeasons
  <2> QED
    BY <2>2, <2>3, SeasonsAlone DEF MInv
<1>6. ASSUME Written("seasons")', ~Written("seasons")
      PROVE  WriteSeasons
  <2>1. Rank(at) = 12
    BY <1>1, <1>2, <1>6, Ranks, SMTT(40) DEF Written
  <2> QED
    BY <2>1, SeasonsAt
<1> QED
  BY <1>1, <1>3, <1>4, <1>5, <1>6

LEMMA StatementClients ==
    ASSUME Statement
    PROVE  /\ at = "clients" => WriteDownloadClients
           /\ at = "indexers" => WriteIndexers
BY ZenonT(40) DEF Statement, Begin, WriteTags, WriteCustomFormats, WriteQualityProfiles, WriteFormatScores,
       WriteMediaLibraryFolders, WriteNamingConfig, WriteIndexers, WriteDownloadClients, WriteSeries,
       WriteMediaFiles, WriteEpisodes, WriteSeasons, WriteMovies, ClearLinks, WriteBlocklist

LEMMA HalfWritten ==
    ASSUME MInv, RInv, Half(tx, src), Advances, Statement
    PROVE  Half(tx, src)'
<1> DEFINE Same(t) == Written(t) /\ tx'[t] = tx[t]
<1>1. /\ src' = src /\ db' = db
      /\ \A t \in Owned : Written(t)' => at = t \/ Same(t)
      /\ Written("episodes") => tx'.series = tx.series
      /\ Written("seasons") => tx'.series = tx.series /\ tx'.seasons = tx.seasons
      /\ Written("seasons")' => Written("seasons") \/ WriteSeasons
  BY StatementWrites
<1> HIDE DEF Same
<1>2. \A t \in Owned : Same(t) => Written(t) /\ tx'[t] = tx[t]
  BY DEF Same
<1>3. (Written("series") => ItemsIn(tx, src, "sonarr", "series"))'
  <2>1. CASE at = "series"
    <3>1. ItemsIn(tx', src, "sonarr", "series")
      BY <2>1, StatementAt, WritesSeries
    <3> QED
      BY <1>1, <3>1 DEF ItemsIn
  <2>2. CASE Same("series")
    <3>1. ItemsIn(tx, src, "sonarr", "series") /\ tx'.series = tx.series
      BY <1>2, <2>2, OwnedTables DEF Half
    <3> QED
      BY <1>1, <3>1 DEF ItemsIn
  <2> QED
    BY <1>1, <2>1, <2>2, OwnedTables
<1>4. (Written("movies") => ItemsIn(tx, src, "radarr", "movies"))'
  <2>1. CASE at = "movies"
    <3>1. ItemsIn(tx', src, "radarr", "movies")
      BY <2>1, StatementAt, WritesMovies
    <3> QED
      BY <1>1, <3>1 DEF ItemsIn
  <2>2. CASE Same("movies")
    <3>1. ItemsIn(tx, src, "radarr", "movies") /\ tx'.movies = tx.movies
      BY <1>2, <2>2, OwnedTables DEF Half
    <3> QED
      BY <1>1, <3>1 DEF ItemsIn
  <2> QED
    BY <1>1, <2>1, <2>2, OwnedTables
<1>5. (Written("profiles") => ProfilesIn(tx, src))'
  <2>1. CASE at = "profiles"
    <3>1. ProfilesIn(tx', src)
      BY <2>1, StatementAt, WritesProfiles
    <3> QED
      BY <1>1, <3>1 DEF ProfilesIn
  <2>2. CASE Same("profiles")
    <3>1. ProfilesIn(tx, src) /\ tx'.profiles = tx.profiles
      BY <1>2, <2>2, OwnedTables DEF Half
    <3> QED
      BY <1>1, <3>1 DEF ProfilesIn
  <2> QED
    BY <1>1, <2>1, <2>2, OwnedTables
<1>6. (Written("files") => FilesIn(tx, src))'
  <2>1. CASE at = "files"
    <3>1. FilesIn(tx', src)
      BY <2>1, StatementAt, WritesFiles
    <3> QED
      BY <1>1, <3>1 DEF FilesIn
  <2>2. CASE Same("files")
    <3>1. FilesIn(tx, src) /\ tx'.files = tx.files
      BY <1>2, <2>2, OwnedTables DEF Half
    <3> QED
      BY <1>1, <3>1 DEF FilesIn
  <2> QED
    BY <1>1, <2>1, <2>2, OwnedTables
<1>7. (Written("formats") => FormatsIn(tx, src))'
  <2>1. CASE at = "formats"
    <3>1. FormatsIn(tx', src)
      BY <2>1, StatementAt, WritesFormats
    <3> QED
      BY <1>1, <3>1 DEF FormatsIn
  <2>2. CASE Same("formats")
    <3>1. FormatsIn(tx, src) /\ tx'.formats = tx.formats
      BY <1>2, <2>2, OwnedTables DEF Half
    <3> QED
      BY <1>1, <3>1 DEF FormatsIn
  <2> QED
    BY <1>1, <2>1, <2>2, OwnedTables
<1>8. (Written("clients") => ClientsIn(tx, src))'
  <2>1. CASE at = "clients"
    <3>1. ClientsIn(tx', src)
      BY <2>1, StatementClients, WritesClients
    <3> QED
      BY <1>1, <3>1 DEF ClientsIn
  <2>2. CASE Same("clients")
    <3>1. ClientsIn(tx, src) /\ tx'.clients = tx.clients
      BY <1>2, <2>2, OwnedTables DEF Half
    <3> QED
      BY <1>1, <3>1 DEF ClientsIn
  <2> QED
    BY <1>1, <2>1, <2>2, OwnedTables
<1>9. (Written("indexers") => IndexersIn(tx, src))'
  <2>1. CASE at = "indexers"
    <3>1. IndexersIn(tx', src)
      BY <2>1, StatementClients, WritesIndexers
    <3> QED
      BY <1>1, <3>1 DEF IndexersIn
  <2>2. CASE Same("indexers")
    <3>1. IndexersIn(tx, src) /\ tx'.indexers = tx.indexers
      BY <1>2, <2>2, OwnedTables DEF Half
    <3> QED
      BY <1>1, <3>1 DEF IndexersIn
  <2> QED
    BY <1>1, <2>1, <2>2, OwnedTables
<1>10. (Written("tags") => TagsIn(tx, src))'
  <2>1. CASE at = "tags"
    <3>1. TagsIn(tx', src)
      BY <2>1, StatementAt, WritesTags
    <3> QED
      BY <1>1, <3>1 DEF TagsIn
  <2>2. CASE Same("tags")
    <3>1. TagsIn(tx, src) /\ tx'.tags = tx.tags
      BY <1>2, <2>2, OwnedTables DEF Half
    <3> QED
      BY <1>1, <3>1 DEF TagsIn
  <2> QED
    BY <1>1, <2>1, <2>2, OwnedTables
<1>11. (Written("episodes") => EpisodesIn(tx, src))'
  <2>1. CASE at = "episodes"
    <3>1. EpisodesIn(tx', src)
      BY <2>1, StatementAt, WritesEpisodes
    <3> QED
      BY <1>1, <3>1 DEF EpisodesIn, EpisodeOf
  <2>2. CASE Same("episodes")
    <3>1. EpisodesIn(tx, src) /\ tx'.episodes = tx.episodes /\ tx'.series = tx.series
      BY <1>1, <1>2, <2>2, OwnedTables DEF Half
    <3> QED
      BY <1>1, <3>1 DEF EpisodesIn, EpisodeOf
  <2> QED
    BY <1>1, <2>1, <2>2, OwnedTables
<1>12. (Written("seasons") => SeasonsIn(tx, src))'
  <2>1. CASE WriteSeasons
    <3>1. SeasonsIn(tx', src)
      BY <2>1, WritesSeasons
    <3> QED
      BY <1>1, <3>1 DEF SeasonsIn
  <2>2. CASE Written("seasons")
    <3>1. SeasonsIn(tx, src) /\ tx'.seasons = tx.seasons /\ tx'.series = tx.series
      BY <1>1, <2>2 DEF Half
    <3> QED
      BY <1>1, <3>1 DEF SeasonsIn
  <2> QED
    BY <1>1, <2>1, <2>2
<1>13. (Written("blocklist") => BlockedIn(tx, src, "sonarr", "series") /\ BlockedIn(tx, src, "radarr", "movies"))'
  <2>1. CASE at = "blocklist"
    <3>1. BlockedIn(tx', src, "sonarr", "series") /\ BlockedIn(tx', src, "radarr", "movies")
      BY <2>1, StatementAt, WritesBlocklist
    <3> QED
      BY <1>1, <3>1 DEF BlockedIn
  <2>2. CASE Same("blocklist")
    <3>1. /\ BlockedIn(tx, src, "sonarr", "series") /\ BlockedIn(tx, src, "radarr", "movies")
          /\ tx'.blocklist = tx.blocklist
      BY <1>2, <2>2, OwnedTables DEF Half
    <3> QED
      BY <1>1, <3>1 DEF BlockedIn
  <2> QED
    BY <1>1, <2>1, <2>2, OwnedTables
<1> QED
  BY <1>3, <1>4, <1>5, <1>6, <1>7, <1>8, <1>9, <1>10, <1>11, <1>12, <1>13 DEF Half

LEMMA HalfStill ==
    ASSUME Half(tx, src), at' = at, tx' = tx, src' = src, db.tags \subseteq db'.tags
    PROVE  Half(tx, src)'
<1>1. \A t : Written(t)' <=> Written(t)
  BY DEF Written
<1>2. (Written("series") => ItemsIn(tx, src, "sonarr", "series"))'
  BY <1>1 DEF Half, ItemsIn
<1>3. (Written("movies") => ItemsIn(tx, src, "radarr", "movies"))'
  BY <1>1 DEF Half, ItemsIn
<1>4. (Written("profiles") => ProfilesIn(tx, src))'
  BY <1>1 DEF Half, ProfilesIn
<1>5. (Written("files") => FilesIn(tx, src))'
  BY <1>1 DEF Half, FilesIn
<1>6. (Written("formats") => FormatsIn(tx, src))'
  BY <1>1 DEF Half, FormatsIn
<1>7. (Written("clients") => ClientsIn(tx, src))'
  BY <1>1 DEF Half, ClientsIn
<1>8. (Written("indexers") => IndexersIn(tx, src))'
  BY <1>1 DEF Half, IndexersIn
<1>9. (Written("tags") => TagsIn(tx, src))'
  BY <1>1 DEF Half, TagsIn
<1>10. (Written("episodes") => EpisodesIn(tx, src))'
  BY <1>1 DEF Half, EpisodesIn, EpisodeOf
<1>11. (Written("seasons") => SeasonsIn(tx, src))'
  BY <1>1 DEF Half, SeasonsIn
<1>12. (Written("blocklist") => BlockedIn(tx, src, "sonarr", "series") /\ BlockedIn(tx, src, "radarr", "movies"))'
  BY <1>1 DEF Half, BlockedIn
<1> QED
  BY <1>2, <1>3, <1>4, <1>5, <1>6, <1>7, <1>8, <1>9, <1>10, <1>11, <1>12 DEF Half

LEMMA HalfStep ==
    ASSUME MInv, RInv, Half(tx, src), MigrationNext
    PROVE  Half(tx, src)'
<1>1. CASE Advances /\ Statement
  BY <1>1, HalfWritten
<1>2. CASE Rank(at') = 0
  BY <1>2, Ranks DEF Half, Written
<1>3. Commits => Rank(at') = 0
  BY Ranks DEF Commits, Ends
<1>4. CASE at' = at /\ tx' = tx /\ src' = src /\ db.tags \subseteq db'.tags
  BY <1>4, HalfStill
<1> QED
  BY <1>1, <1>2, <1>3, <1>4, OtherSteps, OwnedTables

LEMMA CommitsSeasons ==
    ASSUME MInv, Commits
    PROVE  db'.seasons = db.seasons \cup tx.seasons /\ tx'.seasons = {}
<1>1. db' = [t \in Tables |-> Merged(t)] /\ tx' = Empty
  BY DEF MInv, LinksScanned, Commits, Ends
<1> QED
  BY <1>1, TableNames, EmptyTables DEF Merged

LEMMA SeasonsStep ==
    ASSUME MInv, RInv, Half(tx, src), SeasonsOwned, MigrationNext
    PROVE  SeasonsOwned'
<1>1. CASE Advances /\ Statement
  <2>1. db' = db /\ tx.series \subseteq tx'.series
    BY <1>1, StatementKeeps, OwnedTables
  <2>2. tx'.seasons = tx.seasons \/ \A n \in tx'.seasons : \E z \in tx'.series : z.id = n.series
    BY <1>1, SeasonsAlone, WritesSeasons DEF MInv
  <2> QED
    BY <2>1, <2>2 DEF SeasonsOwned
<1>2. CASE Commits
  <2>1. db'.series = db.series \cup tx.series
    BY <1>2, CommitsAll, OwnedTables
  <2> QED
    BY <1>2, <2>1, CommitsSeasons DEF SeasonsOwned
<1>3. CASE db' = db /\ (tx' = Empty \/ tx' = tx)
  BY <1>3, EmptyTables, TableNames DEF SeasonsOwned
<1>4. CASE tx' = tx /\ db'.seasons = db.seasons /\ db.series \subseteq db'.series
  BY <1>4 DEF SeasonsOwned
<1> QED
  BY <1>1, <1>2, <1>3, <1>4, OtherSteps, OwnedTables

(* What was written stays whole as long as its rows do. *)
SeasonsFor(R, z) == {n.season : n \in {m \in R["seasons"] : m.series = z.id}}

LEMMA WholeStays ==
    ASSUME NEW R, NEW Q, NEW s, Whole(R, s), \A t \in Owned : Q[t] = R[t],
           \A z \in R["series"] : SeasonsFor(Q, z) = SeasonsFor(R, z), db.tags \subseteq db'.tags
    PROVE  Whole(Q, s)'
<1>1. /\ Q["series"] = R["series"] /\ Q["movies"] = R["movies"] /\ Q["profiles"] = R["profiles"]
      /\ Q["files"] = R["files"] /\ Q["formats"] = R["formats"] /\ Q["clients"] = R["clients"]
      /\ Q["indexers"] = R["indexers"] /\ Q["tags"] = R["tags"] /\ Q["episodes"] = R["episodes"]
      /\ Q["blocklist"] = R["blocklist"]
  BY OwnedTables
<1>2. ItemsIn(Q, s, "sonarr", "series")' /\ ItemsIn(Q, s, "radarr", "movies")'
  BY <1>1 DEF Whole, ItemsIn
<1>3. ProfilesIn(Q, s)' /\ FilesIn(Q, s)'
  BY <1>1 DEF Whole, ProfilesIn, FilesIn
<1>4. FormatsIn(Q, s)' /\ ClientsIn(Q, s)'
  BY <1>1 DEF Whole, FormatsIn, ClientsIn
<1>5. IndexersIn(Q, s)' /\ TagsIn(Q, s)'
  BY <1>1 DEF Whole, IndexersIn, TagsIn
<1>6. EpisodesIn(Q, s)'
  BY <1>1 DEF Whole, EpisodesIn, EpisodeOf
<1>7. SeasonsIn(Q, s)'
  BY <1>1 DEF Whole, SeasonsIn, SeasonsFor
<1>8. BlockedIn(Q, s, "sonarr", "series")' /\ BlockedIn(Q, s, "radarr", "movies")'
  BY <1>1 DEF Whole, BlockedIn
<1> QED
  BY <1>2, <1>3, <1>4, <1>5, <1>6, <1>7, <1>8 DEF Whole

LEMMA CountedSame ==
    ASSUME NEW k, log'[k].src = log[k].src, \A t \in Owned : Of(k, t)' = Of(k, t)
    PROVE  Counted(k)' = Counted(k)
<1>1. ASSUME NEW app
      PROVE  CountedScores(k, app)' = CountedScores(k, app)
  BY DEF CountedScores, FormatKey, Given
<1>2. \A t \in {"series", "movies", "episodes", "profiles", "files", "formats", "indexers", "clients",
                "blocklist"} : Of(k, t)' = Of(k, t)
  BY OwnedTables
<1> QED
  BY <1>1, <1>2 DEF Counted

LEMMA RunKept ==
    ASSUME NEW k, RunWhole(k), log'[k] = log[k],
           \A t \in Owned : Of(k, t)' = Of(k, t),
           \A t \in RunTables : Of(k, t) = {} => Of(k, t)' = {},
           \A z \in Of(k, "series") : {n.season : n \in {m \in db'.seasons : m.series = z.id}} =
                                      {n.season : n \in {m \in db.seasons : m.series = z.id}},
           db.tags \subseteq db'.tags
    PROVE  RunWhole(k)'
<1>1. Nothing(k) => Nothing(k)'
  BY DEF Nothing
<1>2. ASSUME Whole(Committed(k), log[k].src)
      PROVE  Whole(Committed(k), log[k].src)'
  <2>1. PICK R, Q, s : R = Committed(k) /\ Q = Committed(k)' /\ s = log[k].src
    OBVIOUS
  <2>2. "series" \in Owned /\ "seasons" \notin Owned
    BY OwnedTables DEF Owned, RunTables
  <2>3. \A t \in Owned : Q[t] = R[t]
    BY <2>1, <2>2 DEF Committed
  <2>4. R["seasons"] = db.seasons /\ Q["seasons"] = db'.seasons /\ R["series"] = Of(k, "series")
    BY <2>1, <2>2 DEF Committed
  <2>5. \A z \in R["series"] : SeasonsFor(Q, z) = SeasonsFor(R, z)
    BY <2>4 DEF SeasonsFor
  <2>6. Whole(R, s)
    BY <1>2, <2>1
  <2>7. Whole(Q, s)'
    BY <2>3, <2>5, <2>6, WholeStays
  <2> QED
    BY <2>1, <2>7
<1>3. Counted(k)' = Counted(k)
  BY CountedSame
<1> QED
  BY <1>1, <1>2, <1>3 DEF RunWhole

LEMMA RunUntouched ==
    ASSUME NEW k, RunWhole(k), log'[k] = log[k], db' = db
    PROVE  RunWhole(k)'
<1>1. \A t : Of(k, t)' = Of(k, t)
  BY DEF Of
<1> QED
  BY <1>1, RunKept

LEMMA CommitReports ==
    ASSUME MInv, MigrationNext, Commits, log'[Len(log)].outcome = "ok"
    PROVE  log'[Len(log)].report = Report
<1>1. at = "commit" /\ at' = "idle"
  BY DEF Commits, Ends
<1>2. Commit \/ StatementFails \/ Interrupted
  BY <1>1 DEF MigrationNext, Start, Read, DryRun, Begin, WriteTags, WriteCustomFormats, WriteQualityProfiles,
       WriteFormatScores, WriteMediaLibraryFolders, WriteNamingConfig, WriteIndexers, WriteDownloadClients,
       WriteSeries, WriteMediaFiles, WriteEpisodes, WriteSeasons, WriteMovies, ClearLinks, WriteBlocklist,
       AppLinks, UserDeletesProfile
<1>3. LogShape /\ Len(log) > 0
  BY <1>1 DEF MInv, Shapes, RunsNumbered
<1>4. ASSUME NEW outcome, NEW report, Ended(outcome, report)
      PROVE  log'[Len(log)].outcome = outcome /\ log'[Len(log)].report = report
  <2>1. log' = [log EXCEPT ![Len(log)].outcome = outcome, ![Len(log)].report = report]
    BY <1>4 DEF Ended
  <2> QED
    BY <1>3, <2>1, LogEnds
<1>5. \/ Ended("ok", Report)
      \/ Ended("error", <<>>)
  BY <1>2 DEF Commit, StatementFails, Interrupted
<1> QED
  BY <1>4, <1>5

LEMMA OnceCounted ==
    ASSUME NEW S, IsFiniteSet(S), NEW f, \A x, y \in S : f[x] = f[y] => x = y
    PROVE  Cardinality({f[x] : x \in S}) = Cardinality(S)
<1> DEFINE R == {<<x, f[x]>> : x \in S}
           T == {f[x] : x \in S}
<1>1. \A x \in S : \E y \in T : <<x, y>> \in R
  OBVIOUS
<1>2. \A y \in T : \E x \in S : <<x, y>> \in R
  OBVIOUS
<1>3. \A x, w \in S : \A y, z \in T : <<x, y>> \in R /\ <<w, z>> \in R => (x = w <=> y = z)
  OBVIOUS
<1> HIDE DEF R, T
<1>4. Cardinality(S) = Cardinality(T)
  BY <1>1, <1>2, <1>3, Matched
<1> QED
  BY <1>4 DEF T

LEMMA ReportCounts ==
    ASSUME RInv, Finite, Whole(tx, src), at \notin {"idle", "read"},
           NEW k, k = Len(log), log'[k].src = src, \A t \in Owned : Of(k, t)' = tx[t]
    PROVE  Report = Counted(k)'
<1>1. \A t \in {"series", "movies", "episodes", "profiles", "files", "formats", "indexers", "clients",
                "blocklist"} : IsFiniteSet(tx[t]) /\ Of(k, t)' = tx[t]
  BY OwnedTables DEF Finite
<1>2. \A t \in {"series", "movies", "episodes", "profiles"} :
         \A r, q \in tx[t] : r.row.old = q.row.old => r = q
  BY DEF Whole, ItemsIn, EpisodesIn, ProfilesIn
<1>3. ASSUME NEW t \in {"series", "movies", "episodes", "profiles"}
      PROVE  Olds(t) = Cardinality(tx[t])
  <2> DEFINE f == [r \in tx[t] |-> r.row.old]
  <2>1. {f[r] : r \in tx[t]} = {r.row.old : r \in tx[t]}
    OBVIOUS
  <2>2. \A r, q \in tx[t] : f[r] = f[q] => r = q
    BY <1>2
  <2> HIDE DEF f
  <2> QED
    <3>1. PICK S : S = tx[t] /\ IsFiniteSet(S)
      BY <1>1
    <3>2. Cardinality({f[x] : x \in S}) = Cardinality(S)
      BY <2>2, <3>1, OnceCounted
    <3> QED
      BY <2>1, <3>1, <3>2 DEF Olds
<1>4. Cardinality({<<f.row.media, f.row.old>> : f \in tx.files}) = Cardinality(tx.files)
  <2> DEFINE f == [r \in tx.files |-> <<r.row.media, r.row.old>>]
  <2>1. {f[r] : r \in tx.files} = {<<r.row.media, r.row.old>> : r \in tx.files}
    OBVIOUS
  <2>2. \A r, q \in tx.files : f[r] = f[q] => r = q
    BY DEF Whole, FilesIn
  <2> HIDE DEF f
  <2> QED
    <3>1. PICK S : S = tx.files /\ IsFiniteSet(S)
      BY <1>1
    <3>2. Cardinality({f[x] : x \in S}) = Cardinality(S)
      BY <2>2, <3>1, OnceCounted
    <3> QED
      BY <2>1, <3>1, <3>2
<1>5. Cardinality(ScoreInserts) = Cardinality(CountedScores(k, "sonarr") \cup CountedScores(k, "radarr"))'
  <2>1. log'[k].src = log[k].src
    BY DEF RInv, SourcesKnown
  <2>2. ASSUME NEW app
        PROVE  CountedScores(k, app)' = CountedScores(k, app)
    BY <2>1 DEF CountedScores, FormatKey, Given
  <2>3. Cardinality(ScoreInserts) = Cardinality(Countable)
    BY ScoresCounted DEF RInv
  <2> QED
    BY <2>2, <2>3 DEF Countable
<1> QED
  BY <1>1, <1>3, <1>4, <1>5 DEF Report, Counted

(* The commit brings the rows of the last run, and those of no other. *)
LEMMA CommitBrings ==
    ASSUME MInv, Commits, NEW k \in DOMAIN log
    PROVE  /\ k = Len(log) => \A t \in Owned : Of(k, t)' = tx[t]
           /\ k # Len(log) => \A t \in Owned : Of(k, t)' = Of(k, t)
           /\ \A t \in Owned : \A r \in db[t] : r.run # Len(log)
<1>0. at = "commit" /\ Owned \subseteq RunTables /\ Len(log) \in Nat
  BY RowsType DEF Owned, Commits, MInv, Shapes, LogShape
<1>1. \A t \in Owned : \A r \in db[t] : r.run # Len(log)
  <2>1. \A t \in Owned : \A r \in db[t] : Kept(r)
    BY <1>0 DEF MInv, RunsNumbered
  <2> QED
    BY <1>0, <2>1 DEF Kept
<1>2. \A t \in Owned : \A r \in tx[t] : r.run = Len(log)
  BY <1>0 DEF MInv, RunsNumbered
<1>3. \A t \in Owned : db'[t] = db[t] \cup tx[t]
  BY CommitsAll
<1> QED
  BY <1>1, <1>2, <1>3 DEF Of

LEMMA RunCommits ==
    ASSUME MInv, RInv, Finite, Half(tx, src), SeasonsOwned, MigrationNext, Commits,
           NEW k, k = Len(log)
    PROVE  RunWhole(k)'
<1>1. at = "commit" /\ db.tags \subseteq db'.tags
  BY CommitsAll, OwnedTables
<1>2. Whole(tx, src)
  BY <1>1, Ranks DEF Half, Written, Whole
<1>3. LogShape /\ Len(log) > 0 /\ k \in DOMAIN log /\ log[k].src = src
  <2>1. LogShape /\ Len(log) > 0 /\ log[Len(log)].src = src
    BY <1>1 DEF MInv, Shapes, RunsNumbered, RInv, SourcesKnown
  <2> QED
    BY <2>1, RowsType DEF LogShape
<1>4. \A t \in Owned : Of(k, t)' = tx[t]
  BY <1>3, CommitBrings
<1>5. log'[k].src = src
  BY <1>3, Ending DEF Commits
<1>6. PICK R, Q, s : R = tx /\ Q = Committed(k)' /\ s = src
  OBVIOUS
<1>7. "series" \in Owned /\ "seasons" \notin Owned
  BY OwnedTables DEF Owned, RunTables
<1>8. \A t \in Owned : Q[t] = R[t]
  BY <1>4, <1>6, <1>7 DEF Committed
<1>9. Q["seasons"] = db.seasons \cup tx.seasons
  BY <1>6, <1>7, CommitsSeasons DEF Committed
<1>10. ASSUME NEW z \in tx.series, NEW n \in db.seasons
       PROVE  n.series # z.id
  <2>1. \A y \in db.series : y.run # Len(log)
    BY <1>3, <1>7, CommitBrings
  <2>2. z.run = Len(log)
    BY <1>7 DEF MInv, RunsNumbered, Owned
  <2>3. \A y \in db.series : y.id = z.id => y = z
    BY <1>7 DEF RInv, IdsNumbered
  <2> QED
    BY <2>1, <2>2, <2>3 DEF SeasonsOwned
<1>11. \A z \in R["series"] : SeasonsFor(Q, z) = SeasonsFor(R, z)
  BY <1>6, <1>9, <1>10 DEF SeasonsFor
<1>12. Whole(Q, s)'
  BY <1>1, <1>2, <1>6, <1>8, <1>11, WholeStays
<1>13. Whole(Committed(k), log[k].src)'
  BY <1>5, <1>6, <1>12
<1>14. Report = Counted(k)'
  BY <1>1, <1>2, <1>4, <1>5, ReportCounts
<1>15. log'[k].outcome = "ok" => log'[k].report = Report
  BY CommitReports
<1> QED
  BY <1>13, <1>14, <1>15 DEF RunWhole

(* A run that ended is not touched by the steps of another, or of others. *)
LEMMA RunOfOthers ==
    ASSUME MInv, RInv, SeasonsOwned, Commits, NEW k \in DOMAIN log, k # Len(log), RunWhole(k)
    PROVE  RunWhole(k)'
<1>1. at = "commit" /\ db.tags \subseteq db'.tags
  BY CommitsAll, OwnedTables
<1>2. LogShape /\ Len(log) > 0
  BY <1>1 DEF MInv, Shapes, RunsNumbered
<1>3. log'[k] = log[k]
  BY <1>2, Ending DEF Commits
<1>4. \A t \in Owned : Of(k, t)' = Of(k, t)
  BY CommitBrings
<1>5. RunTables = Owned \cup {"naming"} /\ "naming" \in Tables
  BY TableNames DEF RunTables, Owned
<1>6. Of(k, "naming") = {} => Of(k, "naming")' = {}
  <2>1. db' = [t \in Tables |-> Merged(t)]
    BY <1>1 DEF MInv, LinksScanned, Commits
  <2>2. \A r \in db'.naming : r \in db.naming \/ r \in tx.naming
    BY <1>5, <2>1 DEF Merged
  <2>3. \A r \in tx.naming : r.run # k
    BY <1>5 DEF MInv, RunsNumbered
  <2> QED
    BY <2>2, <2>3 DEF Of
<1>7. \A t \in RunTables : Of(k, t) = {} => Of(k, t)' = {}
  BY <1>4, <1>5, <1>6
<1>8. ASSUME NEW z \in Of(k, "series"), NEW n \in tx.seasons
      PROVE  n.series # z.id
  <2>1. z \in db.series /\ z.run = k
    BY DEF Of
  <2>2. \A y \in tx.series : y.run = Len(log)
    BY <1>5, OwnedTables DEF MInv, RunsNumbered
  <2>3. \A y \in tx.series : y.id = z.id => y = z
    BY <2>1, OwnedTables DEF RInv, IdsNumbered
  <2> QED
    BY <2>1, <2>2, <2>3 DEF SeasonsOwned
<1>9. \A z \in Of(k, "series") : {n.season : n \in {m \in db'.seasons : m.series = z.id}} =
                                 {n.season : n \in {m \in db.seasons : m.series = z.id}}
  BY <1>8, CommitsSeasons
<1> QED
  BY <1>1, <1>3, <1>4, <1>7, <1>9, RunKept

LEMMA RunsStepWhole ==
    ASSUME MInv, RInv, WInv, MigrationNext
    PROVE  RunsWhole'
<1>0. LogShape /\ Len(log) \in Nat /\ DOMAIN log = 1..Len(log)
  BY RowsType DEF MInv, Shapes, LogShape
<1>a. \A k \in DOMAIN log : RunWhole(k)
  BY DEF WInv, RunsWhole
<1>1. CASE Starts
  <2>1. Len(log') = Len(log) + 1 /\ DOMAIN log' = 1..Len(log')
    BY <1>0, <1>1, LogStarts, RowsType DEF LogShape
  <2>2. ASSUME NEW k \in DOMAIN log'
        PROVE  RunWhole(k)'
    <3>1. CASE k \in DOMAIN log
      BY <1>0, <1>1, <1>a, <3>1, LogStarts, RunUntouched DEF Starts
    <3>2. CASE k = Len(log) + 1
      BY <1>0, <1>1, <3>2, LogStarts DEF RunWhole
    <3> QED
      BY <1>0, <2>1, <3>1, <3>2
  <2> QED
    BY <2>2 DEF RunsWhole
<1>2. CASE Reads
  <2>1. Len(log) > 0 /\ db' = db
    BY <1>2 DEF Reads, MInv, RunsNumbered
  <2>2. /\ DOMAIN log' = DOMAIN log /\ \A k \in DOMAIN log : log'[k].outcome = log[k].outcome
        /\ \A k \in DOMAIN log : k # Len(log) => log'[k] = log[k]
    BY <1>0, <1>2, <2>1, LogReads DEF Reads
  <2>3. ASSUME NEW k \in DOMAIN log
        PROVE  RunWhole(k)'
    <3>1. CASE k = Len(log)
      <4>1. log[k].outcome = "running"
        BY <1>2, <3>1 DEF Reads, MInv, RunsNumbered
      <4> QED
        BY <2>2, <4>1 DEF RunWhole
    <3>2. CASE k # Len(log)
      BY <1>a, <2>1, <2>2, <3>2, RunUntouched
    <3> QED
      BY <3>1, <3>2
  <2> QED
    BY <2>2, <2>3 DEF RunsWhole
<1>3. CASE Leaves
  <2>1. PICK outcome \in {"dry", "error"} : Ends(outcome)
    BY <1>3 DEF Leaves
  <2>2. Len(log) > 0 /\ db' = db /\ at # "idle"
    BY <1>3, <2>1 DEF Leaves, Ends, MInv, RunsNumbered
  <2>3. /\ DOMAIN log' = DOMAIN log /\ log'[Len(log)].outcome = outcome
        /\ \A k \in DOMAIN log : k # Len(log) => log'[k] = log[k]
    BY <1>0, <2>1, <2>2, Ending
  <2>4. ASSUME NEW k \in DOMAIN log
        PROVE  RunWhole(k)'
    <3>1. CASE k = Len(log)
      <4>1. \A t \in RunTables : \A r \in db[t] : r.run # k
        BY <1>0, <2>2, <3>1 DEF MInv, RunsNumbered, Kept
      <4>2. Nothing(k)'
        BY <2>2, <4>1 DEF Nothing, Of
      <4> QED
        BY <2>1, <2>3, <3>1, <4>2 DEF RunWhole
    <3>2. CASE k # Len(log)
      BY <1>a, <2>2, <2>3, <3>2, RunUntouched
    <3> QED
      BY <3>1, <3>2
  <2> QED
    BY <2>3, <2>4 DEF RunsWhole
<1>4. CASE Advances
  <2>1. db' = db /\ log' = log
    BY <1>4 DEF Advances, Writes
  <2> QED
    BY <1>a, <2>1, RunUntouched DEF RunsWhole
<1>5. CASE Commits
  <2>1. at # "idle" /\ Len(log) > 0
    BY <1>5 DEF Commits, MInv, RunsNumbered
  <2>2. DOMAIN log' = DOMAIN log
    BY <1>0, <1>5, <2>1, Ending DEF Commits
  <2>3. ASSUME NEW k \in DOMAIN log
        PROVE  RunWhole(k)'
    BY <1>5, <1>a, RunCommits, RunOfOthers DEF WInv
  <2> QED
    BY <2>2, <2>3 DEF RunsWhole
<1>6. CASE (\E item \in Linkable : AppLinks(item)) \/ (\E p \in db.profiles : UserDeletesProfile(p))
  <2>1. /\ log' = log /\ db'.seasons = db.seasons
        /\ \A t \in Owned : db[t] \subseteq db'[t] \/ t = "profiles"
        /\ \A t \in RunTables : \A r \in db[t] : r \in db'[t] \/ r.run = 0
        /\ \A t \in RunTables : \A r \in db'[t] : r \in db[t] \/ r.run = 0
    BY <1>6, ByOthers
  <2>2. ASSUME NEW k \in DOMAIN log
        PROVE  RunWhole(k)'
    <3>1. k # 0 /\ Owned \subseteq RunTables /\ "tags" \in Owned
      BY <1>0, OwnedTables DEF Owned
    <3>2. \A t \in RunTables : Of(k, t)' = Of(k, t)
      BY <2>1, <3>1 DEF Of
    <3> QED
      BY <1>a, <2>1, <3>1, <3>2, RunKept
  <2> QED
    BY <2>1, <2>2 DEF RunsWhole
<1> QED
  BY <1>1, <1>2, <1>3, <1>4, <1>5, <1>6, RunSteps DEF RInv

LEMMA WholeStart ==
    ASSUME MigrationInit
    PROVE  WInv
<1>1. at = "idle" /\ tx = Empty /\ log = <<>> /\ db.seasons = {}
  BY EmptyTables, TableNames DEF MigrationInit
<1>2. Finite
  BY <1>1, EmptyTables, OwnedTables, FS_EmptySet DEF Finite
<1>3. \A t \in Owned : ~Written(t)
  BY <1>1, Ranks, OwnedTables DEF Written
<1>4. Half(tx, src)
  <2>1. ~Written("seasons")
    BY <1>1, Ranks DEF Written
  <2> QED
    BY <1>3, <2>1, OwnedTables DEF Half
<1>5. SeasonsOwned
  BY <1>1, EmptyTables, TableNames DEF SeasonsOwned
<1>6. RunsWhole
  BY <1>1 DEF RunsWhole
<1> QED
  BY <1>2, <1>4, <1>5, <1>6 DEF WInv

LEMMA WholeStep ==
    ASSUME MInv, RInv, WInv, [MigrationNext]_migrationVars
    PROVE  WInv'
<1>1. CASE MigrationNext
  BY <1>1, FiniteStep, HalfStep, SeasonsStep, RunsStepWhole DEF WInv
<1>2. CASE UNCHANGED migrationVars
  <2>1. db' = db /\ tx' = tx /\ at' = at /\ src' = src /\ log' = log
    BY <1>2 DEF migrationVars, txVars
  <2>2. Half(tx, src)'
    BY <2>1, HalfStill DEF WInv
  <2>3. RunsWhole'
    BY <2>1, RunUntouched DEF WInv, RunsWhole
  <2> QED
    BY <2>1, <2>2, <2>3 DEF WInv, Finite, SeasonsOwned
<1> QED
  BY <1>1, <1>2

LEMMA WholeInvariant ==
    MigrationSpec => [](MInv /\ RInv /\ WInv)
<1>1. MigrationInit => MInv /\ RInv /\ WInv
  BY MigrationStarts, ReferencesStart, WholeStart
<1>2. MInv /\ RInv /\ WInv /\ [MigrationNext]_migrationVars => (MInv /\ RInv /\ WInv)'
  BY MigrationStep, ReferencesStep, WholeStep
<1> QED
  BY <1>1, <1>2, PTL DEF MigrationSpec

(* What is whole is complete.                                                *)
RunOf(k, R, s) ==
    /\ k \in DOMAIN log /\ s = log[k].src /\ WellRead(s)
    /\ \A t \in Owned : R[t] = Of(k, t)
    /\ R["seasons"] = db.seasons
    /\ Whole(R, s)

LEMMA ItemsWhole ==
    ASSUME MInv, RInv, NEW k, NEW R, NEW s, RunOf(k, R, s),
           NEW app, NEW t, (app = "sonarr" /\ t = "series") \/ (app = "radarr" /\ t = "movies")
    PROVE  /\ Froms(k, t) = From(k, app, t)
           /\ \A r \in R[t] : \E x \in ToSet(s[app][t]) : r.row.old = x.id /\ r.row.from = <<app, x.id>>
           /\ \A id : <<app, id>> \in From(k, app, t) <=> id \in {x.id : x \in ToSet(s[app][t])}
<1>1. t \in Owned /\ R[t] = Of(k, t) /\ ItemsIn(R, s, app, t) /\ s = log[k].src /\ k \in DOMAIN log
  BY OwnedTables DEF RunOf, Whole
<1>2. ASSUME NEW r \in Of(k, t)
      PROVE  \E x \in ToSet(s[app][t]) : r.row.old = x.id /\ r.row.from = <<app, x.id>>
  <2>1. RowRefers(t, r) /\ ReadOf(r) = s
    BY <1>1, RunRows
  <2>2. ItemRefers(app, t, r)
    BY <2>1 DEF RowRefers
  <2> QED
    BY <2>1, <2>2 DEF ItemRefers
<1>3. From(k, app, t) = {<<app, x.id>> : x \in ToSet(s[app][t])}
  BY <1>1 DEF From, Given
<1>4. ASSUME NEW x \in ToSet(s[app][t])
      PROVE  \E r \in Of(k, t) : r.row.from = <<app, x.id>>
  <2>1. PICK r \in R[t] : r.row.old = x.id
    BY <1>1 DEF ItemsIn
  <2> QED
    BY <1>1, <1>2, <2>1
<1>5. Froms(k, t) = From(k, app, t)
  BY <1>2, <1>3, <1>4, ZenonT(40) DEF Froms
<1> QED
  BY <1>1, <1>2, <1>3, <1>5

LEMMA ProfilesWhole ==
    ASSUME MInv, RInv, NEW k, NEW R, NEW s, RunOf(k, R, s)
    PROVE  Froms(k, "profiles") = From(k, "sonarr", "profiles") \cup From(k, "radarr", "profiles")
<1>1. R["profiles"] = Of(k, "profiles") /\ ProfilesIn(R, s) /\ s = log[k].src /\ k \in DOMAIN log
  BY OwnedTables DEF RunOf, Whole
<1>2. \A app \in {"sonarr", "radarr"} : From(k, app, "profiles") = {<<app, x.id>> : x \in ToSet(s[app].profiles)}
  BY <1>1 DEF From, Given
<1>3. ASSUME NEW p \in Of(k, "profiles")
      PROVE  \E app \in {"sonarr", "radarr"} : \E x \in ToSet(s[app].profiles) : p.row.from = <<app, x.id>>
  BY <1>1, ProfileRead
<1>4. ASSUME NEW app \in {"sonarr", "radarr"}, NEW x \in ToSet(s[app].profiles)
      PROVE  \E p \in Of(k, "profiles") : p.row.from = <<app, x.id>>
  <2>1. PICK d : d = Profiles(s)
    OBVIOUS
  <2>2. ProfilesListed(s, d)
    BY <2>1, ProfilesAll DEF RunOf
  <2>3. PICK n \in DOMAIN d : d[n] = ProfileOfApp(s, app, x)
    BY <2>2 DEF ProfilesListed
  <2>4. PICK p \in R["profiles"] : p.row = d[n]
    BY <1>1, <2>1 DEF ProfilesIn
  <2>5. ProfileOfApp(s, app, x).from = <<app, x.id>>
    BY DEF ProfileOfApp, SeriesProfile, MovieProfile
  <2>6. p.row.from = <<app, x.id>>
    BY <2>3, <2>4, <2>5
  <2> QED
    BY <1>1, <2>4, <2>6
<1>5. ASSUME NEW app \in {"sonarr", "radarr"}, NEW z \in From(k, app, "profiles")
      PROVE  \E r \in Of(k, "profiles") : r.row.from = z
  <2>1. PICK x \in ToSet(s[app].profiles) : z = <<app, x.id>>
    BY <1>2
  <2> QED
    BY <1>4, <2>1
<1>6. \A r \in Of(k, "profiles") : r.row.from \in From(k, "sonarr", "profiles") \cup From(k, "radarr", "profiles")
  BY <1>2, <1>3
<1> QED
  BY <1>5, <1>6 DEF Froms

LEMMA FilesWhole ==
    ASSUME MInv, RInv, NEW k, NEW R, NEW s, RunOf(k, R, s)
    PROVE  Froms(k, "files") = From(k, "sonarr", "files") \cup From(k, "radarr", "files")
<1>1. R["files"] = Of(k, "files") /\ FilesIn(R, s) /\ s = log[k].src /\ k \in DOMAIN log
  BY OwnedTables DEF RunOf, Whole
<1>2. \A app \in {"sonarr", "radarr"} : From(k, app, "files") = {<<app, x.id>> : x \in ToSet(s[app].files)}
  BY <1>1 DEF From, Given
<1>3. ASSUME NEW f \in Of(k, "files")
      PROVE  \E app \in {"sonarr", "radarr"} : \E x \in ToSet(s[app].files) :
                f.row.old = x.id /\ f.row.from = <<app, x.id>> /\ f.row.media = Media(app)
  <2>1. RowRefers("files", f) /\ ReadOf(f) = s
    BY <1>1, OwnedTables, RunRows
  <2> QED
    BY <2>1 DEF RowRefers, FileRefers
<1>4. ASSUME NEW app \in {"sonarr", "radarr"}, NEW x \in ToSet(s[app].files)
      PROVE  \E f \in Of(k, "files") : f.row.from = <<app, x.id>>
  <2>1. PICK f \in Of(k, "files") : f.row.media = Media(app) /\ f.row.old = x.id
    BY <1>1 DEF FilesIn
  <2>2. PICK other \in {"sonarr", "radarr"} : f.row.from = <<other, x.id>> /\ f.row.media = Media(other)
    BY <1>3, <2>1
  <2>3. other = app
    BY <2>1, <2>2 DEF Media
  <2> QED
    BY <2>2, <2>3
<1>5. \A f \in Of(k, "files") : \E app \in {"sonarr", "radarr"} : \E x \in ToSet(s[app].files) :
         f.row.from = <<app, x.id>>
  BY <1>3
<1>6. ASSUME NEW app \in {"sonarr", "radarr"}, NEW z \in From(k, app, "files")
      PROVE  \E r \in Of(k, "files") : r.row.from = z
  <2>1. PICK x \in ToSet(s[app].files) : z = <<app, x.id>>
    BY <1>2
  <2> QED
    BY <1>4, <2>1
<1>7. \A r \in Of(k, "files") : r.row.from \in From(k, "sonarr", "files") \cup From(k, "radarr", "files")
  BY <1>2, <1>5
<1> QED
  BY <1>6, <1>7 DEF Froms

LEMMA EpisodesWhole ==
    ASSUME MInv, RInv, NEW k, NEW R, NEW s, RunOf(k, R, s)
    PROVE  {<<The("series", e.row.series).row.old, e.row.number>> : e \in Of(k, "episodes")} =
              {<<e.series, e.number>> : e \in
                  {x \in Given(k, "sonarr", "episodes") :
                      <<"sonarr", x.series>> \in From(k, "sonarr", "series")}}
<1>1. /\ R["episodes"] = Of(k, "episodes") /\ R["series"] = Of(k, "series") /\ EpisodesIn(R, s)
      /\ Given(k, "sonarr", "episodes") = ToSet(s.sonarr.episodes)
  BY OwnedTables DEF RunOf, Whole, Given
<1>2. /\ \A z \in R["series"] : \E x \in ToSet(s.sonarr.series) : z.row.old = x.id
      /\ \A id : <<"sonarr", id>> \in From(k, "sonarr", "series") <=> id \in {x.id : x \in ToSet(s.sonarr.series)}
  BY ItemsWhole
<1>3. \A z \in R["series"] : The("series", z.id) = z
  BY <1>1, TheRow, OwnedTables DEF Of
<1>4. ASSUME NEW e \in R["episodes"]
      PROVE  \E x \in ToSet(s.sonarr.episodes) :
                /\ <<"sonarr", x.series>> \in From(k, "sonarr", "series")
                /\ The("series", e.row.series).row.old = x.series /\ e.row.number = x.number
  <2>1. PICK x \in ToSet(s.sonarr.episodes) : EpisodeOf(R, e, x)
    BY <1>1 DEF EpisodesIn
  <2> QED
    BY <1>2, <1>3, <2>1 DEF EpisodeOf
<1>5. ASSUME NEW x \in ToSet(s.sonarr.episodes), <<"sonarr", x.series>> \in From(k, "sonarr", "series")
      PROVE  \E e \in R["episodes"] : The("series", e.row.series).row.old = x.series /\ e.row.number = x.number
  <2>1. PICK e \in R["episodes"] : EpisodeOf(R, e, x)
    BY <1>1, <1>2, <1>5 DEF EpisodesIn
  <2> QED
    BY <1>3, <2>1 DEF EpisodeOf
<1> DEFINE known == {x \in ToSet(s.sonarr.episodes) : <<"sonarr", x.series>> \in From(k, "sonarr", "series")}
           said(e)  == <<The("series", e.row.series).row.old, e.row.number>>
           meant(x) == <<x.series, x.number>>
<1>6. /\ \A e \in R["episodes"] : \E x \in known : said(e) = meant(x)
      /\ \A x \in known : \E e \in R["episodes"] : said(e) = meant(x)
  BY <1>4, <1>5
<1>7. {said(e) : e \in R["episodes"]} = {meant(x) : x \in known}
  <2> HIDE DEF known, said, meant
  <2> QED
    BY <1>6
<1> QED
  BY <1>1, <1>7

LEMMA SeasonsWhole ==
    ASSUME MInv, RInv, NEW k, NEW R, NEW s, RunOf(k, R, s), NEW z \in Of(k, "series")
    PROVE  {n.season : n \in {x \in db.seasons : x.series = z.id}} =
              UNION {x.seasons : x \in {y \in Given(k, "sonarr", "series") : y.id = z.row.old}}
<1>1. /\ R["seasons"] = db.seasons /\ R["series"] = Of(k, "series") /\ SeasonsIn(R, s)
      /\ Given(k, "sonarr", "series") = ToSet(s.sonarr.series)
  BY OwnedTables DEF RunOf, Whole, Given
<1>2. PICK x \in ToSet(s.sonarr.series) : z.row.old = x.id
  BY <1>1, ItemsWhole
<1>3. PICK A : A = {n.season : n \in {m \in db.seasons : m.series = z.id}}
  OBVIOUS
<1>4. \A y \in Given(k, "sonarr", "series") : y.id = z.row.old => y.seasons = A
  BY <1>1, <1>3 DEF SeasonsIn
<1> QED
  BY <1>1, <1>2, <1>3, <1>4

LEMMA BlockedWhole ==
    ASSUME MInv, RInv, NEW k, NEW R, NEW s, RunOf(k, R, s)
    PROVE  {b.row.from : b \in Of(k, "blocklist")} =
              {<<"sonarr", b.id>> : b \in {x \in Given(k, "sonarr", "blocklist") :
                  <<"sonarr", x.item>> \in From(k, "sonarr", "series")}}
              \cup {<<"radarr", b.id>> : b \in {x \in Given(k, "radarr", "blocklist") :
                  <<"radarr", x.item>> \in From(k, "radarr", "movies")}}
<1> DEFINE Items(app) == IF app = "sonarr" THEN "series" ELSE "movies"
<1>1. /\ R["blocklist"] = Of(k, "blocklist") /\ s = log[k].src /\ k \in DOMAIN log
      /\ BlockedIn(R, s, "sonarr", "series") /\ BlockedIn(R, s, "radarr", "movies")
      /\ Given(k, "sonarr", "blocklist") = ToSet(s.sonarr.blocklist)
      /\ Given(k, "radarr", "blocklist") = ToSet(s.radarr.blocklist)
  BY OwnedTables DEF RunOf, Whole, Given
<1>2. Items("sonarr") = "series" /\ Items("radarr") = "movies"
  OBVIOUS
<1>3. ASSUME NEW app \in {"sonarr", "radarr"}
      PROVE  /\ Froms(k, Items(app)) = From(k, app, Items(app))
             /\ \A id : <<app, id>> \in From(k, app, Items(app)) <=> id \in {x.id : x \in ToSet(s[app][Items(app)])}
             /\ BlockedIn(R, s, app, Items(app)) /\ Items(app) \in Owned
  BY <1>1, ItemsWhole, OwnedTables
<1> HIDE DEF Items
<1>4. ASSUME NEW b \in Of(k, "blocklist")
      PROVE  \E app \in {"sonarr", "radarr"} : \E x \in ToSet(s[app].blocklist) :
                b.row.from = <<app, x.id>> /\ <<app, x.item>> \in From(k, app, Items(app))
  <2>1. RowRefers("blocklist", b) /\ ReadOf(b) = s /\ b.run = k /\ b \in db.blocklist
    BY <1>1, OwnedTables, RunRows
  <2>2. PICK app \in {"sonarr", "radarr"} : \E x \in ToSet(s[app].blocklist) :
           b.row.from = <<app, x.id>> /\ Named(Items(app), b.row.item, b, <<app, x.item>>)
    BY <2>1 DEF RowRefers, BlockedRefers, Items
  <2>3. PICK x \in ToSet(s[app].blocklist) :
           b.row.from = <<app, x.id>> /\ Named(Items(app), b.row.item, b, <<app, x.item>>)
    BY <2>2
  <2>4. PICK t \in Owned : t = Items(app)
    BY <1>3
  <2>5. PICK q \in db[t] \cup tx[t] : q.run = b.run /\ q.row.from = <<app, x.item>>
    BY <2>3, <2>4 DEF Named
  <2>6. q \in db[t]
    BY <2>1, <2>5, CommittedRun, OwnedTables
  <2>7. <<app, x.item>> \in Froms(k, t)
    BY <2>1, <2>5, <2>6 DEF Froms, Of
  <2> QED
    BY <1>3, <2>3, <2>4, <2>7
<1>5. ASSUME NEW app \in {"sonarr", "radarr"}, NEW x \in ToSet(s[app].blocklist),
             <<app, x.item>> \in From(k, app, Items(app))
      PROVE  \E b \in Of(k, "blocklist") : b.row.from = <<app, x.id>>
  BY <1>1, <1>3, <1>5 DEF BlockedIn
<1> DEFINE known(app) == {x \in ToSet(s[app].blocklist) : <<app, x.item>> \in From(k, app, Items(app))}
           shown(app) == {<<app, x.id>> : x \in known(app)}
<1>6. ASSUME NEW b \in Of(k, "blocklist")
      PROVE  b.row.from \in shown("sonarr") \cup shown("radarr")
  BY <1>4
<1>7. ASSUME NEW app \in {"sonarr", "radarr"}, NEW v \in shown(app)
      PROVE  \E b \in Of(k, "blocklist") : v = b.row.from
  BY <1>5
<1>8. {b.row.from : b \in Of(k, "blocklist")} = shown("sonarr") \cup shown("radarr")
  <2> HIDE DEF shown
  <2> QED
    BY <1>6, <1>7
<1> QED
  BY <1>1, <1>2, <1>8, ZenonT(40)

LEMMA FormatsWhole ==
    ASSUME NEW k, NEW R, NEW s, RunOf(k, R, s)
    PROVE  /\ {f.row.key : f \in Of(k, "formats")} = {f.name.key : f \in Both(k, "formats")}
           /\ Unique(Of(k, "formats"), LAMBDA f : f.row.key)
<1>1. R["formats"] = Of(k, "formats") /\ FormatsIn(R, s) /\ WellRead(s)
      /\ Both(k, "formats") = ToSet(s.sonarr.formats) \cup ToSet(s.radarr.formats)
  BY OwnedTables DEF RunOf, Whole, Both, Given
<1>2. PICK G : G = MergedFormats(s)
  OBVIOUS
<1>3. {G[n].row.name.key : n \in DOMAIN G} = {f.name.key : f \in Both(k, "formats")}
  <2>1. {MergedFormats(s)[n].row.name.key : n \in DOMAIN MergedFormats(s)} =
           {f.name.key : f \in ToSet(s.sonarr.formats) \cup ToSet(s.radarr.formats)}
    BY <1>1, FormatNames
  <2> QED
    BY <1>1, <1>2, <2>1
<1>4. /\ \A n \in DOMAIN G : \E f \in Of(k, "formats") : f.row.key = G[n].row.name.key
      /\ \A f \in Of(k, "formats") : \E n \in DOMAIN G : f.row.key = G[n].row.name.key
      /\ \A f, g \in Of(k, "formats") : f.row.key = g.row.key => f = g
  BY <1>1, <1>2 DEF FormatsIn
<1>5. {f.row.key : f \in Of(k, "formats")} = {G[n].row.name.key : n \in DOMAIN G}
  BY <1>4
<1> QED
  BY <1>3, <1>4, <1>5 DEF Unique

LEMMA ClientsWhole ==
    ASSUME NEW k, NEW R, NEW s, RunOf(k, R, s)
    PROVE  /\ {c.row.row.key : c \in Of(k, "clients")} = {c.key : c \in Both(k, "clients")}
           /\ Unique(Of(k, "clients"), LAMBDA c : c.row.row.key)
<1>1. R["clients"] = Of(k, "clients") /\ ClientsIn(R, s) /\ WellRead(s)
      /\ Both(k, "clients") = ToSet(s.sonarr.clients) \cup ToSet(s.radarr.clients)
  BY OwnedTables DEF RunOf, Whole, Both, Given
<1>2. PICK G : G = DownloadClients(s)
  OBVIOUS
<1>3. {G[n].row.key : n \in DOMAIN G} = {c.key : c \in Both(k, "clients")}
  <2>1. {DownloadClients(s)[n].row.key : n \in DOMAIN DownloadClients(s)} =
           {c.key : c \in ToSet(s.sonarr.clients) \cup ToSet(s.radarr.clients)}
    BY <1>1, ClientsRead
  <2> QED
    BY <1>1, <1>2, <2>1
<1>4. /\ \A n \in DOMAIN G : \E c \in Of(k, "clients") : c.row = G[n]
      /\ \A c \in Of(k, "clients") : \E n \in DOMAIN G : c.row = G[n]
      /\ \A c, d \in Of(k, "clients") : c.row.row.key = d.row.row.key => c = d
  BY <1>1, <1>2 DEF ClientsIn
<1>5. {c.row.row.key : c \in Of(k, "clients")} = {G[n].row.key : n \in DOMAIN G}
  BY <1>4
<1> QED
  BY <1>3, <1>4, <1>5 DEF Unique

LEMMA IndexersWhole ==
    ASSUME NEW k, NEW R, NEW s, RunOf(k, R, s)
    PROVE  /\ {i.row.row.url : i \in Of(k, "indexers")} =
                 {i.url : i \in Both(k, "indexers") \cup Given(k, "prowlarr", "indexers")} \ {""}
           /\ \A i, j \in Of(k, "indexers") :
                 i.row.row.url = j.row.row.url =>
                    i = j \/ (i.row.app = "prowlarr" /\ j.row.app = "prowlarr")
           /\ \A i \in Of(k, "indexers") :
                 i.row.row.url \in {x.url : x \in Given(k, "prowlarr", "indexers")} =>
                    i.row.app = "prowlarr"
<1>1. R["indexers"] = Of(k, "indexers") /\ IndexersIn(R, s) /\ WellRead(s)
      /\ Both(k, "indexers") = ToSet(s.sonarr.indexers) \cup ToSet(s.radarr.indexers)
      /\ Given(k, "prowlarr", "indexers") = ToSet(s.prowlarr.indexers)
  BY OwnedTables DEF RunOf, Whole, Both, Given
<1>2. PICK d : d = Indexers(s)
  OBVIOUS
<1>3. IndexersListed(s, d)
  BY <1>1, <1>2, IndexersRead
<1>4. /\ \A n \in DOMAIN d : \E i \in Of(k, "indexers") : i.row = d[n]
      /\ \A i \in Of(k, "indexers") : \E n \in DOMAIN d : i.row = d[n]
      /\ \A i, j \in Of(k, "indexers") :
            i.row.row.url = j.row.row.url => i = j \/ (i.row.app = "prowlarr" /\ j.row.app = "prowlarr")
  BY <1>1, <1>2 DEF IndexersIn
<1> DEFINE given == Both(k, "indexers") \cup Given(k, "prowlarr", "indexers")
<1>5. ASSUME NEW i \in Of(k, "indexers")
      PROVE  /\ i.row.row.url # NoUrl /\ \E x \in given : x.url = i.row.row.url
             /\ i.row.row.url \in {x.url : x \in Given(k, "prowlarr", "indexers")} => i.row.app = "prowlarr"
  <2>1. PICK n \in DOMAIN d : i.row = d[n]
    BY <1>4
  <2> QED
    BY <1>1, <1>3, <2>1 DEF IndexersListed
<1>6. ASSUME NEW x \in given, x.url # NoUrl
      PROVE  \E i \in Of(k, "indexers") : i.row.row.url = x.url
  <2>1. PICK n \in DOMAIN d : d[n].row.url = x.url
    BY <1>1, <1>3, <1>6 DEF IndexersListed
  <2> QED
    BY <1>4, <2>1
<1>7. {i.row.row.url : i \in Of(k, "indexers")} = {x.url : x \in given} \ {NoUrl}
  <2> HIDE DEF given
  <2> QED
    BY <1>5, <1>6
<1>8. {i.row.row.url : i \in Of(k, "indexers")} = {x.url : x \in given} \ {""}
  BY <1>7, Zenon DEF NoUrl
<1> QED
  BY <1>4, <1>5, <1>8

LEMMA TagsWhole ==
    ASSUME NEW k, NEW R, NEW s, RunOf(k, R, s)
    PROVE  /\ {t.label.key : t \in Both(k, "tags") \cup Given(k, "prowlarr", "tags")}
                 \subseteq {t.row.key : t \in db.tags}
           /\ Unique(Of(k, "tags"), LAMBDA t : t.row.key)
<1>1. R["tags"] = Of(k, "tags") /\ TagsIn(R, s) /\ WellRead(s)
      /\ Both(k, "tags") = ToSet(s.sonarr.tags) \cup ToSet(s.radarr.tags)
      /\ Given(k, "prowlarr", "tags") = ToSet(s.prowlarr.tags)
  BY OwnedTables DEF RunOf, Whole, Both, Given
<1>2. \A x \in Both(k, "tags") \cup Given(k, "prowlarr", "tags") : x \in ToSet(TagsOf(s))
  BY <1>1, TagsOfAll
<1>3. \A x \in Both(k, "tags") \cup Given(k, "prowlarr", "tags") : \E t \in db.tags : t.row.key = x.label.key
  BY <1>1, <1>2 DEF TagsIn, Of
<1> QED
  BY <1>1, <1>3 DEF TagsIn, Unique

LEMMA WholeIsComplete ==
    ASSUME MInv, RInv, NEW k \in DOMAIN log, Whole(Committed(k), log[k].src)
    PROVE  Complete(k)
<1>1. PICK R, s : R = Committed(k) /\ s = log[k].src
  OBVIOUS
<1>2. RunOf(k, R, s)
  <2>1. "seasons" \notin Owned
    BY DEF Owned, RunTables
  <2>2. R["seasons"] = db.seasons /\ \A t \in Owned : R[t] = Of(k, t)
    BY <1>1, <2>1 DEF Committed
  <2>3. WellRead(s)
    BY <1>1 DEF RInv, SourcesKnown
  <2> QED
    BY <1>1, <2>2, <2>3 DEF RunOf
<1>3. SharedOnce(k)
  BY <1>2, FormatsWhole, ClientsWhole, IndexersWhole, TagsWhole DEF SharedOnce
<1>4. /\ Froms(k, "series") = From(k, "sonarr", "series")
      /\ Froms(k, "movies") = From(k, "radarr", "movies")
  BY <1>2, ItemsWhole
<1>5. \A t \in {"profiles", "files"} : Froms(k, t) = From(k, "sonarr", t) \cup From(k, "radarr", t)
  BY <1>2, ProfilesWhole, FilesWhole
<1>6. \A z \in Of(k, "series") :
          {n.season : n \in {x \in db.seasons : x.series = z.id}} =
             UNION {x.seasons : x \in {y \in Given(k, "sonarr", "series") : y.id = z.row.old}}
  BY <1>2, SeasonsWhole
<1> QED
  BY <1>2, <1>3, <1>4, <1>5, <1>6, EpisodesWhole, FormatsWhole, ClientsWhole, IndexersWhole, TagsWhole,
     BlockedWhole DEF Complete

(* "All writes happen in one transaction for atomicity" (writer.rs:1436): the  *)
(* tables have all of a run or nothing, through whatever errors and whatever  *)
(* the server and its users do meanwhile; all of one that reported success,   *)
(* whose report counts it right, and nothing of a dry run.                    *)
THEOREM RunsAreWhole ==
    MigrationSpec => []AllOrNothing
<1>1. ASSUME MInv, RInv, WInv, MigrationTypeOK, NothingYet
      PROVE  AllOrNothing
  <2> SUFFICES ASSUME NEW k \in DOMAIN log
               PROVE  CASE log[k].outcome = "ok"    -> Complete(k) /\ log[k].report = Counted(k)
                        [] log[k].outcome = "error" ->
                              (\A t \in Tables \ {"joins", "seasons", "links"} : Of(k, t) = {}) \/ Complete(k)
                        [] OTHER -> \A t \in Tables \ {"joins", "seasons", "links"} : Of(k, t) = {}
    BY DEF AllOrNothing, Runs
  <2>1. RunWhole(k) /\ log[k].outcome \in {"running", "ok", "dry", "error"}
    BY <1>1 DEF WInv, RunsWhole, MigrationTypeOK
  <2>2. Nothing(k) <=> \A t \in Tables \ {"joins", "seasons", "links"} : Of(k, t) = {}
    BY DEF Nothing, RunTables
  <2>3. Whole(Committed(k), log[k].src) => Complete(k)
    BY <1>1, WholeIsComplete
  <2>4. log[k].outcome \in {"running", "dry"} => Nothing(k)
    BY <1>1 DEF NothingYet, Runs, Nothing, RunTables
  <2> QED
    BY <2>1, <2>2, <2>3, <2>4 DEF RunWhole
<1>2. MInv /\ RInv /\ WInv /\ MigrationTypeOK /\ NothingYet => AllOrNothing
  BY <1>1
<1> QED
  BY <1>2, WholeInvariant, MigrationTypes, UnfinishedLeavesNothing, PTL
=============================================================================
