------------------------------ MODULE Migration ------------------------------
(***************************************************************************)
(* The migration of Sonarr, Radarr and Prowlarr databases: run_migration   *)
(* reads them, merges them (ArrMerge) and writes the result in one         *)
(* transaction, which sees what others commit in the meantime: the imports *)
(* and scans of a running server and its users.                            *)
(*                                                                         *)
(* A row of a table is its id, the run that inserted it (0: none) and its  *)
(* columns.  The rows a transaction has inserted are in tx until it ends.  *)
(***************************************************************************)
EXTENDS ArrMerge

CONSTANTS
    Sources,    \* [sonarr, radarr, prowlarr |-> the tables of each application]
    NoTables,   \* the same, empty
    Requests,    \* the sets of applications a user may migrate at once
    Mappings,   \* the lists of path mappings a user may give
    SeedTags,   \* labels there are before the first migration
    SeedFolders, \* library folders there are before it
    MaxRuns,    \* bound on migrations
    MaxLinks,   \* bound on the files imports and scans link
    MaxTrouble, \* bound on what goes wrong
    Troubles      \* subset of {"row", "read", "db", "cut", "lost"}

Applications == {"sonarr", "radarr", "prowlarr"}

(* Each table is a sequence of rows, the naming settings are there or not. *)
Readable(tables) ==
    \A t \in DOMAIN tables \ {"naming"} : tables[t] \in Seq(ToSet(tables[t]))

Common == {"tags", "formats", "profiles", "files", "indexers", "clients", "roots", "naming",
           "blocklist"}

Databases ==
    /\ DOMAIN Sources = Applications /\ DOMAIN NoTables = Applications
    /\ DOMAIN Sources.sonarr = Common \cup {"series", "episodes"}
    /\ DOMAIN Sources.radarr = Common \cup {"movies"}
    /\ DOMAIN Sources.prowlarr = {"tags", "indexers"}
    /\ \A app \in Applications :
          /\ Readable(Sources[app])
          /\ DOMAIN NoTables[app] = DOMAIN Sources[app]
          /\ \A t \in DOMAIN NoTables[app] \ {"naming"} : NoTables[app][t] = <<>>
    /\ \A app \in {"sonarr", "radarr"} : \A p \in ToSet(Sources[app].profiles) :
          p.scores \in Seq(ToSet(p.scores))

(* SQLite gave the rows of a table their ids; no application has so many *)
(* profiles that the offset does not keep those of the other apart.      *)
Keyed(rows) ==
    \A i, j \in DOMAIN rows : /\ rows[i].id \in Nat \ {0}
                              /\ rows[i].id = rows[j].id => i = j

PrimaryKeys ==
    /\ \A app \in Applications : \A t \in DOMAIN Sources[app] \ {"roots", "naming"} :
          Keyed(Sources[app][t])
    /\ \A p \in ToSet(Sources.sonarr.profiles) : p.id <= 100000

Seeded ==
    /\ SeedTags \in Seq(ToSet(SeedTags)) /\ SeedFolders \in Seq(ToSet(SeedFolders))
    /\ \A i, j \in DOMAIN SeedTags : SeedTags[i] = SeedTags[j] => i = j
    /\ \A i, j \in DOMAIN SeedFolders : SeedFolders[i].path = SeedFolders[j].path => i = j

ASSUME MigrationAssumption ==
    /\ Requests \subseteq SUBSET Applications \ {{}}
    /\ Databases /\ PrimaryKeys /\ Seeded
    /\ MaxRuns \in Nat /\ MaxLinks \in Nat /\ MaxTrouble \in Nat

Tables == {"tags", "formats", "profiles", "scores", "folders", "naming", "indexers",
           "clients", "series", "files", "episodes", "joins", "seasons", "movies",
           "links", "blocklist"}

VARIABLES
    db,      \* the committed rows of each table
    next,    \* the sequences: the last id given in each table, committed or not
    at,      \* where the migration is
    src,     \* what it was given, then what it read of it
    maps,    \* its path mappings
    dry,     \* --dry-run
    data,    \* MigrationData
    tx,      \* the rows its transaction has inserted
    cleared, \* the links its transaction has cleared, whose items it locks
    aborted, \* a statement of it failed: PostgreSQL refuses all others
    log,     \* history: what each run read, and how it ended
    trouble  \* what has gone wrong so far

txVars        == <<tx, cleared, aborted>>
migrationVars == <<db, next, at, src, maps, dry, data, txVars, log, trouble>>

Empty   == [t \in Tables |-> {}]
NoData  == build_migration_data(NoTables, <<>>)
Row(id, row) == [id |-> id, run |-> 0, row |-> row]
Seeds(s)     == {Row(i, s[i]) : i \in DOMAIN s}

(* What the schema's migrations and a user put there. *)
MigrationInit ==
    /\ db = [Empty EXCEPT
                !.profiles = {Row(1, [old |-> 0, from |-> <<"seed", 1>>])},
                !.naming   = {Row(0, "series"), Row(0, "movie")},
                !.movies   = {Row(1, [from |-> <<"user", 1>>, profile |-> 0])},
                !.tags     = Seeds(SeedTags),
                !.folders  = Seeds(SeedFolders)]
    /\ next = [t \in Tables |-> IF t = "tags" THEN Len(SeedTags)
                                ELSE IF t = "folders" THEN Len(SeedFolders)
                                ELSE IF t \in {"profiles", "movies"} THEN 1 ELSE 0]
    /\ at = "idle" /\ src = NoTables /\ maps = <<>> /\ dry = FALSE /\ data = NoData
    /\ tx = Empty /\ cleared = {} /\ aborted = FALSE
    /\ log = <<>> /\ trouble = 0

Trouble(kind) == kind \in Troubles /\ trouble < MaxTrouble /\ trouble' = trouble + 1
Smooth        == UNCHANGED trouble

-----------------------------------------------------------------------------
(* The command line and POST /system/migrate ask for one database at least. *)
Start ==
    /\ at = "idle" /\ Len(log) < MaxRuns
    /\ \E given \in Requests :
          src' = [app \in Applications |-> IF app \in given THEN Sources[app]
                                           ELSE NoTables[app]]
    /\ maps' \in Mappings
    /\ dry' \in BOOLEAN
    /\ log' = Append(log, [outcome |-> "running", src |-> src', report |-> <<>>])
    /\ at' = "read"
    /\ Smooth
    /\ UNCHANGED <<db, next, data, txVars>>

(* A row that is malformed is skipped with a warning. *)
SeqTables(app) == {t \in DOMAIN src[app] : t # "naming"}

Skipping(app, t, i) == [src EXCEPT ![app][t] = RemoveAt(@, i)]

Read ==
    /\ at = "read"
    /\ \/ src' = src /\ Smooth
       \/ \E app \in Applications : \E t \in SeqTables(app) :
             \E i \in DOMAIN src[app][t] :
                src' = Skipping(app, t, i) /\ Trouble("row")
    /\ data' = build_migration_data(src', maps)
    /\ at' = "begin"
    /\ log' = [log EXCEPT ![Len(log)].src = src']
    /\ UNCHANGED <<db, next, maps, dry, txVars>>

Ended(outcome, report) ==
    /\ at' = "idle" /\ src' = NoTables /\ maps' = <<>> /\ dry' = FALSE /\ data' = NoData
    /\ tx' = Empty /\ cleared' = {} /\ aborted' = FALSE
    /\ log' = [log EXCEPT ![Len(log)].outcome = outcome, ![Len(log)].report = report]

DryRun ==
    /\ at = "begin" /\ dry
    /\ Ended("dry", <<>>)
    /\ Smooth
    /\ UNCHANGED <<db, next>>

Begin ==
    /\ at = "begin" /\ ~dry
    /\ at' = "tags"
    /\ Smooth
    /\ UNCHANGED <<db, next, src, maps, dry, data, txVars, log>>

-----------------------------------------------------------------------------
(* The writers.  Each inserts its rows in order; an id comes from the        *)
(* table's sequence, which a rollback does not turn back.                    *)
Goto(step) ==
    /\ at' = step
    /\ Smooth
    /\ UNCHANGED <<db, src, maps, dry, data, cleared, log>>

Numbered(t, rows) ==
    {[id |-> next[t] + i, run |-> Len(log), row |-> rows[i]] : i \in DOMAIN rows}

Insert(t, rows) ==
    /\ tx' = [tx EXCEPT ![t] = Numbered(t, rows)]
    /\ next' = [next EXCEPT ![t] = @ + Len(rows)]
    /\ UNCHANGED aborted

Visible(t) == db[t] \cup tx[t]

(* A map from old to new ids: the last row inserted for the old one, or 0. *)
NewId(rows) ==
    IF rows = {} THEN 0
    ELSE (CHOOSE r \in rows : \A q \in rows : q.id <= r.id).id

ProfileId(old)     == NewId({p \in tx.profiles : p.row.old = old})
FormatId(index)    == NewId({f \in tx.formats : f.row.index = index})
SeriesId(old)      == NewId({s \in tx.series : s.row.old = old})
MovieId(old)       == NewId({m \in tx.movies : m.row.old = old})
FileId(media, old) == NewId({f \in tx.files : f.row.media = media /\ f.row.old = old})

(* Mutant: no ON CONFLICT. *)
InsertTags ==
    /\ at = "tags"
    /\ Insert("tags", data.tags)
    /\ Goto("formats")

(* A label, or a folder's path, that is there keeps its row. *)
WriteTags ==
    /\ at = "tags"
    /\ Insert("tags", Only(data.tags,
                                LAMBDA l : l \notin {t.row : t \in db.tags}))
    /\ Goto("formats")

TagIds(keys) ==
    {t.id : t \in {x \in Visible("tags") : x.row \in ToSet(data.tags) /\ x.row.key \in keys}}

WriteCustomFormats ==
    /\ at = "formats"
    /\ Insert("formats", [i \in DOMAIN data.formats |->
                             [index |-> i, key |-> data.formats[i].row.name.key]])
    /\ Goto("profiles")

WriteQualityProfiles ==
    /\ at = "profiles"
    /\ Insert("profiles", data.profiles)
    /\ Goto("scores")

(* ON CONFLICT (profile_id, format_id) DO UPDATE: the last score stays. *)
LastScores(p) ==
    {[profile |-> ProfileId(p.old), format |-> FormatId(p.scores[i].index),
      score |-> p.scores[i].score] :
        i \in {j \in DOMAIN p.scores :
                  \A k \in DOMAIN p.scores : p.scores[k].index = p.scores[j].index => k <= j}}

WriteFormatScores ==
    /\ at = "scores"
    /\ Insert("scores", SetToSeq(UNION {LastScores(p) : p \in ToSet(data.profiles)}))
    /\ Goto("folders")

WriteMediaLibraryFolders ==
    /\ at = "folders"
    /\ Insert("folders",
              Firsts(Only(data.folders,
                               LAMBDA f : f.path \notin {x.row.path : x \in db.folders}),
                     LAMBDA f : f.path))
    /\ Goto("naming")

WriteNamingConfig ==
    /\ at = "naming"
    /\ Insert("naming", SetToSeq(data.naming))
    /\ Goto("indexers")

WriteIndexers ==
    /\ at = "indexers"
    /\ Insert("indexers", data.indexers)
    /\ Goto("clients")

WriteDownloadClients ==
    /\ at = "clients"
    /\ Insert("clients", data.clients)
    /\ Goto("series")

(* Any folder whose path starts the item's path: the map has no order. *)
FoldersFor(path) ==
    LET fits == {f \in Visible("folders") : /\ f.row.path \in {x.path : x \in ToSet(data.folders)}
                                            /\ IsPrefix(f.row.path, path)}
    IN  IF fits = {} THEN {0} ELSE {f.id : f \in fits}

(* An item whose profile was not read gets the first profile of all, a movie *)
(* any profile of this run; the foreign key asks that there is such a row.   *)
SeriesProfileId(s) == IF ProfileId(s.profile) # 0 THEN ProfileId(s.profile) ELSE 1

MovieProfileIds(m) ==
    IF ProfileId(m.profile) # 0 THEN {ProfileId(m.profile)}
    ELSE IF tx.profiles = {} THEN {1}
    ELSE {p.id : p \in {x \in tx.profiles :
                           \A y \in tx.profiles : y.row.name = x.row.name => y.id <= x.id}}

ProfileExists(id) == id \in {p.id : p \in Visible("profiles")}

WriteSeries ==
    /\ at = "series"
    /\ \A s \in ToSet(data.series) : ProfileExists(SeriesProfileId(s))
    /\ \E folder \in [DOMAIN data.series -> 0..next.folders] :
          /\ \A i \in DOMAIN folder : folder[i] \in FoldersFor(data.series[i].path)
          /\ Insert("series",
                    [i \in DOMAIN data.series |->
                        LET s == data.series[i]
                        IN  [old |-> s.old, from |-> s.from, path |-> s.path,
                             folder |-> folder[i], profile |-> SeriesProfileId(s),
                             tags |-> TagIds(MappedTags(src, s.tags))]])
    /\ Goto("files")

WriteMediaFiles ==
    /\ at = "files"
    /\ Insert("files", data.files)
    /\ Goto("episodes")

(* The episodes of series that were written, the first of each number. *)
KnownEpisodes == Only(data.episodes, LAMBDA e : SeriesId(e.series) # 0)

NewEpisodes == Firsts(KnownEpisodes, LAMBDA e : <<e.series, e.number>>)

EpisodeFile(e) == IF e.file = 0 THEN 0 ELSE FileId("series", e.file)

(* The error of the INSERT into episode_files is dropped: the next statement *)
(* tells of it, and after the last episode that is none of this writer's.    *)
LastJoinFails ==
    /\ KnownEpisodes # <<>>
    /\ Last(KnownEpisodes) \in ToSet(NewEpisodes) /\ EpisodeFile(Last(KnownEpisodes)) # 0
    /\ Trouble("db")

WriteEpisodes ==
    /\ at = "episodes"
    /\ LET new   == NewEpisodes
           Id(i) == next.episodes + i
           filed == {i \in DOMAIN new : EpisodeFile(new[i]) # 0}
       IN  /\ tx' = [tx EXCEPT
                        !.episodes = Numbered("episodes",
                            [i \in DOMAIN new |->
                                [old |-> new[i].old, from |-> new[i].from,
                                 series |-> SeriesId(new[i].series), number |-> new[i].number]]),
                        !.links = {[item |-> <<"series", Id(i)>>, file |-> EpisodeFile(new[i])] :
                                      i \in filed},
                        !.joins = {[episode |-> Id(i), file |-> EpisodeFile(new[i])] : i \in filed}]
           /\ next' = [next EXCEPT !.episodes = @ + Len(new)]
    /\ aborted' \in BOOLEAN
    /\ IF aborted' THEN LastJoinFails ELSE Smooth
    /\ at' = "seasons"
    /\ UNCHANGED <<db, src, maps, dry, data, cleared, log>>

SeasonRows ==
    UNION {{[series |-> SeriesId(s.old), season |-> n] : n \in s.seasons} : s \in ToSet(data.series)}

(* A season that cannot be inserted is only warned of. *)
WriteSeasons ==
    /\ at = "seasons"
    /\ tx' = [tx EXCEPT !.seasons = SeasonRows]
    /\ \/ UNCHANGED aborted /\ Smooth
       \/ SeasonRows # {} /\ ~aborted /\ aborted' = TRUE /\ Trouble("db")
    /\ at' = "movies"
    /\ UNCHANGED <<db, next, src, maps, dry, data, cleared, log>>

MovieFile(m) == IF m.file = 0 THEN 0 ELSE FileId("movie", m.file)

WriteMovies ==
    /\ at = "movies"
    /\ ~aborted \/ data.movies = <<>>
    /\ \E profile \in [DOMAIN data.movies -> 1..next.profiles],
          folder \in [DOMAIN data.movies -> 0..next.folders] :
          /\ \A i \in DOMAIN data.movies :
                /\ profile[i] \in MovieProfileIds(data.movies[i]) /\ ProfileExists(profile[i])
                /\ folder[i] \in FoldersFor(data.movies[i].path)
          /\ tx' = [tx EXCEPT
                       !.movies = Numbered("movies",
                           [i \in DOMAIN data.movies |->
                               LET m == data.movies[i]
                               IN  [old |-> m.old, from |-> m.from, path |-> m.path,
                                    folder |-> folder[i], profile |-> profile[i],
                                    tags |-> TagIds(MappedTags(src, m.tags))]]),
                       !.links = @ \cup
                           {[item |-> <<"movie", next.movies + i>>,
                             file |-> MovieFile(data.movies[i])] :
                               i \in {j \in DOMAIN data.movies : MovieFile(data.movies[j]) # 0}}]
    /\ next' = [next EXCEPT !.movies = @ + Len(data.movies)]
    /\ UNCHANGED aborted
    /\ Goto("links")

(* Mutant: the movies are forgotten. *)
ClearEpisodeLinks ==
    /\ at = "links"
    /\ ~aborted
    /\ tx' = [tx EXCEPT !.links = {l \in @ : l.item[1] = "movie"}]
    /\ cleared' = {l \in db.links : l.item[1] = "series"}
    /\ at' = "blocklist"
    /\ Smooth
    /\ UNCHANGED <<db, next, src, maps, dry, data, aborted, log>>

(* Every link the statements see, of whomever: "clear file links".  The rows *)
(* of those that are committed stay locked.                                  *)
ClearLinks ==
    /\ at = "links"
    /\ ~aborted
    /\ tx' = [tx EXCEPT !.links = {}]
    /\ cleared' = db.links
    /\ at' = "blocklist"
    /\ Smooth
    /\ UNCHANGED <<db, next, src, maps, dry, data, aborted, log>>

ItemId(b) == IF b.media = "series" THEN SeriesId(b.item) ELSE MovieId(b.item)

WriteBlocklist ==
    /\ at = "blocklist"
    /\ LET known == Only(data.blocklist, LAMBDA b : ItemId(b) # 0)
       IN  Insert("blocklist", [i \in DOMAIN known |->
                                   [media |-> known[i].media, item |-> ItemId(known[i]),
                                    from |-> known[i].from]])
    /\ Goto("commit")

-----------------------------------------------------------------------------
(* MigrationReport: the sizes of the maps, and of what has none the rows   *)
(* that were inserted or updated.                                          *)
Olds(t) == Cardinality({r.row.old : r \in tx[t]})

ScoreInserts ==
    UNION {{<<n, i>> : i \in DOMAIN data.profiles[n].scores} : n \in DOMAIN data.profiles}

Report ==
    [series |-> Olds("series"), movies |-> Olds("movies"), episodes |-> Olds("episodes"),
     profiles |-> Olds("profiles"),
     files |-> Cardinality({<<f.row.media, f.row.old>> : f \in tx.files}),
     formats |-> Cardinality(tx.formats), scores |-> Cardinality(ScoreInserts),
     indexers |-> Cardinality(tx.indexers), clients |-> Cardinality(tx.clients),
     blocklist |-> Cardinality(tx.blocklist)]

(* What the committed tables become. *)
Merged(t) ==
    CASE t = "naming" -> {n \in db.naming : \A m \in tx.naming : m.row # n.row} \cup tx.naming
      [] t = "links"  -> (db.links \ cleared) \cup tx.links
      [] OTHER        -> db[t] \cup tx[t]

(* COMMIT of a transaction that is aborted rolls it back, and that is no     *)
(* error.  The answer may be lost after the commit.                          *)
Commit ==
    /\ at = "commit"
    /\ db' = IF aborted THEN db ELSE [t \in Tables |-> Merged(t)]
    /\ \/ Ended("ok", Report) /\ Smooth
       \/ Ended("error", <<>>) /\ Trouble("lost")
    /\ UNCHANGED next

Writing == {"tags", "formats", "profiles", "scores", "folders", "naming", "indexers",
            "clients", "series", "files", "episodes", "movies", "links", "blocklist", "commit"}

NoProfile ==
    \/ at = "series" /\ \E s \in ToSet(data.series) : ~ProfileExists(SeriesProfileId(s))
    \/ at = "movies" /\ \E m \in ToSet(data.movies) :
                           \A id \in MovieProfileIds(m) : ~ProfileExists(id)

(* An error that is not dropped ends the run, and its transaction with it. *)
StatementFails ==
    /\ \/ at \in Writing \cup {"begin"} /\ Trouble("db")
       \/ at = "read" /\ Trouble("read")
       \/ aborted /\ (at = "links" \/ (at = "movies" /\ data.movies # <<>>)) /\ Smooth
       \/ ~aborted /\ NoProfile /\ Smooth
    /\ Ended("error", <<>>)
    /\ UNCHANGED <<db, next>>

(* Mutant: the statements are not in one transaction. *)
InterruptedMidway ==
    /\ at # "idle" /\ Trouble("cut")
    /\ db' = [t \in Tables |-> Merged(t)]
    /\ Ended("error", <<>>)
    /\ UNCHANGED next

(* The process dies, or the client of the request hangs up. *)
Interrupted ==
    /\ at # "idle" /\ Trouble("cut")
    /\ Ended("error", <<>>)
    /\ UNCHANGED <<db, next>>

-----------------------------------------------------------------------------
(* An import or a scan links an item to a file it found.  The row must not   *)
(* be locked, and its item is one that is committed.                         *)
LinkedByApp == {f \in db.files : f.run = 0}

AppLinks(item) ==
    /\ Cardinality(LinkedByApp) < MaxLinks
    /\ item[2] \in {r.id : r \in db[IF item[1] = "series" THEN "episodes" ELSE "movies"]}
    /\ \A l \in cleared : l.item # item
    /\ next' = [next EXCEPT !.files = @ + 1]
    /\ db' = [db EXCEPT
                 !.files = @ \cup {[id |-> next.files + 1, run |-> 0,
                                    row |-> [media |-> item[1], old |-> 0]]},
                 !.links = {l \in @ : l.item # item}
                               \cup {[item |-> item, file |-> next.files + 1]}]
    /\ UNCHANGED <<at, src, maps, dry, data, txVars, log, trouble>>

(* A user deletes the first profile.  One that a series or a movie names     *)
(* cannot be, nor one an open transaction has just named.                    *)
UserDeletesProfile(p) ==
    /\ p.run = 0
    /\ \A t \in {"series", "movies"} : \A r \in Visible(t) : r.row.profile # p.id
    /\ db' = [db EXCEPT !.profiles = @ \ {p}]
    /\ UNCHANGED <<next, at, src, maps, dry, data, txVars, log, trouble>>

Linkable ==
    {<<"series", e.id>> : e \in db.episodes} \cup {<<"movie", m.id>> : m \in db.movies}

MigrationNext ==
    \/ Start \/ Read \/ DryRun \/ Begin
    \/ WriteTags \/ WriteCustomFormats \/ WriteQualityProfiles \/ WriteFormatScores
    \/ WriteMediaLibraryFolders \/ WriteNamingConfig \/ WriteIndexers \/ WriteDownloadClients
    \/ WriteSeries \/ WriteMediaFiles \/ WriteEpisodes \/ WriteSeasons \/ WriteMovies
    \/ ClearLinks \/ WriteBlocklist \/ Commit \/ StatementFails \/ Interrupted
    \/ \E item \in Linkable : AppLinks(item)
    \/ \E p \in db.profiles : UserDeletesProfile(p)

MigrationSpec == MigrationInit /\ [][MigrationNext]_migrationVars

-----------------------------------------------------------------------------
Unique(rows, Key(_)) == \A r, q \in rows : Key(r) = Key(q) => r = q

(* An item has one link, the links that a transaction has locked are there,  *)
(* and so is every profile that is named.                                    *)
KeysHold ==
    /\ Unique(db.links, LAMBDA l : l.item)
    /\ cleared \subseteq db.links
    /\ \A t \in {"series", "movies"} : \A r \in Visible(t) :
          r.row.profile = 0 \/ ProfileExists(r.row.profile)

(* Every row has an id of its own that its sequence gave, the UNIQUE columns *)
(* and the foreign keys hold, and the variables have their ranges.           *)
MigrationTypeOK ==
    /\ DOMAIN db = Tables /\ DOMAIN tx = Tables /\ next \in [Tables -> Nat]
    /\ \A t \in Tables \ {"joins", "seasons", "links", "naming"} :
          /\ Unique(Visible(t), LAMBDA r : r.id)
          /\ \A r \in Visible(t) : r.id \in 1..next[t] /\ r.run \in 0..Len(log)
    /\ Unique(Visible("tags"), LAMBDA t : t.row)
    /\ Unique(Visible("folders"), LAMBDA f : f.row.path)
    /\ Unique(Visible("scores"), LAMBDA s : <<s.row.profile, s.row.format>>)
    /\ Unique(Visible("episodes"), LAMBDA e : <<e.row.series, e.row.number>>)
    /\ KeysHold
    /\ at \in Writing \cup {"idle", "read", "begin", "seasons"}
    /\ at \in {"idle", "read", "begin", "tags"} => tx = Empty
    /\ aborted \in BOOLEAN /\ dry \in BOOLEAN /\ trouble \in 0..MaxTrouble
    /\ \A k \in DOMAIN log : log[k].outcome \in {"running", "ok", "dry", "error"}

Runs       == DOMAIN log
Of(k, t)   == {r \in db[t] : r.run = k}
The(t, id) == CHOOSE r \in db[t] : r.id = id
Given(k, app, t) == ToSet(log[k].src[app][t])
From(k, app, t)  == {<<app, x.id>> : x \in Given(k, app, t)}
Froms(k, t)      == {r.row.from : r \in Of(k, t)}
Both(k, t)       == Given(k, "sonarr", t) \cup Given(k, "radarr", t)
FormatKey(k, app, id) == {f.name.key : f \in {x \in Given(k, app, "formats") : x.id = id}}

(* What two applications share is written once: of the indexers with one URL *)
(* those of Prowlarr, or else the first of Sonarr, or else of Radarr; one    *)
(* client for each key, one format and one tag for each name.                *)
SharedOnce(k) ==
    /\ \A i, j \in Of(k, "indexers") :
          i.row.row.url = j.row.row.url =>
             i = j \/ (i.row.app = "prowlarr" /\ j.row.app = "prowlarr")
    /\ \A i \in Of(k, "indexers") :
          i.row.row.url \in {x.url : x \in Given(k, "prowlarr", "indexers")} =>
             i.row.app = "prowlarr"
    /\ Unique(Of(k, "clients"), LAMBDA c : c.row.row.key)
    /\ Unique(Of(k, "formats"), LAMBDA f : f.row.key)
    /\ Unique(Of(k, "tags"), LAMBDA t : t.row.key)

(* Everything that the run read and that belongs to something it read is there. *)
Complete(k) ==
    /\ Froms(k, "series") = From(k, "sonarr", "series")
    /\ Froms(k, "movies") = From(k, "radarr", "movies")
    /\ \A t \in {"profiles", "files"} :
          Froms(k, t) = From(k, "sonarr", t) \cup From(k, "radarr", t)
    /\ {<<The("series", e.row.series).row.old, e.row.number>> : e \in Of(k, "episodes")} =
          {<<e.series, e.number>> : e \in
              {x \in Given(k, "sonarr", "episodes") :
                  <<"sonarr", x.series>> \in From(k, "sonarr", "series")}}
    /\ \A s \in Of(k, "series") :
          {n.season : n \in {x \in db.seasons : x.series = s.id}} =
             UNION {x.seasons : x \in {y \in Given(k, "sonarr", "series") : y.id = s.row.old}}
    /\ {f.row.key : f \in Of(k, "formats")} = {f.name.key : f \in Both(k, "formats")}
    /\ {c.row.row.key : c \in Of(k, "clients")} = {c.key : c \in Both(k, "clients")}
    /\ {i.row.row.url : i \in Of(k, "indexers")} =
          {i.url : i \in Both(k, "indexers") \cup Given(k, "prowlarr", "indexers")} \ {""}
    /\ {b.row.from : b \in Of(k, "blocklist")} =
          {<<"sonarr", b.id>> : b \in {x \in Given(k, "sonarr", "blocklist") :
              <<"sonarr", x.item>> \in From(k, "sonarr", "series")}}
          \cup {<<"radarr", b.id>> : b \in {x \in Given(k, "radarr", "blocklist") :
              <<"radarr", x.item>> \in From(k, "radarr", "movies")}}
    /\ {t.label.key : t \in Both(k, "tags") \cup Given(k, "prowlarr", "tags")}
          \subseteq {t.row.key : t \in db.tags}
    /\ SharedOnce(k)

(* The scores it read of formats it read; two of them may be one row. *)
CountedScores(k, app) ==
    UNION {{<<app, x.id, i>> : i \in {j \in DOMAIN x.scores :
              x.scores[j].score # 0 /\ FormatKey(k, app, x.scores[j].format) # {}}} :
           x \in Given(k, app, "profiles")}

Counted(k) ==
    [t \in {"series", "movies", "episodes", "profiles", "files", "formats", "scores",
            "indexers", "clients", "blocklist"} |->
        Cardinality(IF t = "scores" THEN CountedScores(k, "sonarr") \cup CountedScores(k, "radarr")
                    ELSE Of(k, t))]

(* "All writes happen in one transaction for atomicity" (writer.rs:1436): a  *)
(* run leaves everything or nothing, a run that reported success left        *)
(* everything and counted it right, and a dry run left nothing - although    *)
(* two writers drop errors, after which PostgreSQL refuses what follows.     *)
AllOrNothing ==
    \A k \in Runs :
        LET nothing == \A t \in Tables \ {"joins", "seasons", "links"} : Of(k, t) = {}
        IN  CASE log[k].outcome = "ok"    -> Complete(k) /\ log[k].report = Counted(k)
              [] log[k].outcome = "error" -> nothing \/ Complete(k)
              [] OTHER                    -> nothing

(* The ids of two applications collide, and what refers to one of them still *)
(* finds it: an item its own application's profile, an episode its series    *)
(* and its file, a score its profile and its format, a blocked release its   *)
(* item; a folder holds its items, and a cutoff that was one of its          *)
(* profile's qualities still is.                                             *)
ProfileKept(k, app, t) ==
    \A r \in Of(k, t) : \A x \in Given(k, app, t) :
        x.id = r.row.old /\ <<app, x.profile>> \in From(k, app, "profiles") =>
            The("profiles", r.row.profile).row.from = <<app, x.profile>>

FolderHolds(r) == r.row.folder # 0 => IsPrefix(The("folders", r.row.folder).row.path, r.row.path)

(* A profile scores a format by its name.  Two formats of an application may *)
(* have one name, its case aside: the last that has a score gives it.        *)
ScoresKept(k, p) ==
    \A x \in Given(k, p.row.from[1], "profiles") :
        x.id = p.row.from[2] =>
            LET key(i) == FormatKey(k, p.row.from[1], x.scores[i].format)
                scored == {i \in DOMAIN x.scores : x.scores[i].score # 0 /\ key(i) # {}}
                last   == {i \in scored : \A j \in scored : key(j) = key(i) => j <= i}
            IN  {<<{The("formats", s.row.format).row.key}, s.row.score>> :
                    s \in {y \in Of(k, "scores") : y.row.profile = p.id}} =
                {<<key(i), x.scores[i].score>> : i \in last}

CutoffKept(k, p) ==
    \A x \in Given(k, p.row.from[1], "profiles") :
        x.id = p.row.from[2] /\ x.cutoff \in x.items => p.row.cutoff \in p.row.items

EpisodeKept(k, e) ==
    \A x \in Given(k, "sonarr", "episodes") :
        <<"sonarr", x.id>> = e.row.from =>
            /\ The("series", e.row.series).row.from = <<"sonarr", x.series>>
            /\ \A j \in db.joins : j.episode = e.id =>
                  The("files", j.file).row.from = <<"sonarr", x.file>>

BlockedKept(k, b) ==
    \A x \in Given(k, b.row.from[1], "blocklist") :
        x.id = b.row.from[2] =>
            The(IF b.row.media = "series" THEN "series" ELSE "movies", b.row.item).row.from =
                <<b.row.from[1], x.item>>

ReferencesKept ==
    \A k \in Runs :
        /\ ProfileKept(k, "sonarr", "series") /\ ProfileKept(k, "radarr", "movies")
        /\ \A r \in Of(k, "series") \cup Of(k, "movies") : FolderHolds(r)
        /\ \A p \in Of(k, "profiles") : ScoresKept(k, p) /\ CutoffKept(k, p)
        /\ \A e \in Of(k, "episodes") : EpisodeKept(k, e)
        /\ \A b \in Of(k, "blocklist") : BlockedKept(k, b)

(* "we can't trust that the actual files exist" (writer.rs:1554): whatever   *)
(* a migration brought, an item's file is one that an import or a scan found. *)
OnlyScannedLinks == \A l \in db.links : The("files", l.file).run = 0

-----------------------------------------------------------------------------
(* What a comment says and the code does not do. *)

(* "Map old source tag IDs to lowercase label for re-mapping during write"   *)
(* (writer.rs:557): an item has the tags it had.                             *)
TagsKept ==
    \A k \in Runs : \A r \in Of(k, "series") : \A x \in Given(k, "sonarr", "series") :
        x.id = r.row.old =>
            {The("tags", t).row.key : t \in r.row.tags} =
                {t.label.key : t \in {y \in Given(k, "sonarr", "tags") : y.id \in x.tags}}
=============================================================================
