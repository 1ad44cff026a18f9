# StackArr: specifications, model checking and proofs

This directory holds TLA+ specifications of the parts of StackArr (crates under
`crates/`) whose correctness depends on order: background tasks that share rows with each
other and with users, state that is read before an `await` and used after it, processes,
files and directories that outlive the table that knows them, transactions that others write
beside. Nine components are modelled: the **download queue**, **service health**,
**streaming sessions**, the **import pipeline with the library's files**, **automatic search
and grab** with the **decision engine**, the **long searches and their guards**, **RSS
feeds**, the **embedded PostgreSQL** and the **migration of \*arr databases**.

| module | models | extends / instances | TLC | proofs |
|---|---|---|---|---|
| `DownloadQueue` | the queue table, `download_sync_task`, `importer_task`, grabs, users | | `MCDownloadQueue`, three configurations | `DownloadQueueProofs` |
| `QueueLifecycle` | what the queue promises: the abstract life of one download | | through the refinement | `DownloadQueueProofs` |
| `ServiceHealth` | `health_check_task`, the indexer and client API, the live managers | | `MCServiceHealth` | `ServiceHealthProofs` |
| `StreamSessions` | `SessionManager`: table, ffmpeg processes, directories, rows | | `MCStreamSessions` | `StreamSessionsProofs` |
| `LibraryFiles` | the import pipeline, manual import, disk scan and recycle bin, at every file operation and statement | | `MCLibraryFiles` | `LibraryFilesProofs` |
| `ReleaseDecision` | the decision engine, ranking, custom format scores and the import's own check, as operators | | through `SearchGrab` | through `SearchProofs` |
| `SearchGrab` | searches, grabs and what the queue makes of them | extends `ReleaseDecision`, instances `QueueLifecycle` | `MCSearchGrab`, two configurations | `SearchProofs` |
| `SearchTasks` | the commands, the scheduled search, their guards, tokens and triggers | | `MCSearchTasks` | `SearchProofs` |
| `RssFeeds` | feeds, rules, items, the sync and users' checks | | `MCRssFeeds` | `RssFeedsProofs` |
| `EmbeddedPostgres` | the life of the managed server and its data directory under several processes | | `MCEmbeddedPostgres` | `EmbeddedPostgresProofs` |
| `ArrMerge` | the merge of the tables of Sonarr, Radarr and Prowlarr, as operators | | through `Migration` | |
| `Migration` | the transaction that writes the result, beside a running server | extends `ArrMerge` | `MCMigration` | `MigrationProofs` |

`PROJECT.json` lists the runs, the mutants, the source lines of each definition, the
finding, the hazards and the theorems. A configuration is checked by
`tlc -config X.cfg MCModule.tla`, a proof by `tlapm ModuleProofs.tla`.

## The system

One Rust binary: an axum web server, a scheduler of background tasks, optional embedded
torrent and usenet engines, PostgreSQL through sqlx. Tasks are tokio tasks, one sequential
loop each, woken by a timer or by a manual trigger; there are almost no transactions, so
every statement is an atomic step of its own and every `await` a point where anyone else may
come between.

| component | state | operations | meets | hard behaviour | what makes it correct |
|---|---|---|---|---|---|
| download queue (`stackarr-scheduler/src/lib.rs`, `routes/queue.rs`) | `queue`, `history`, `blocklist` rows; snapshots inside the tasks | grab INSERT, sync pass, import pass, user DELETE | clients, pipeline, users | two tasks writing one row by id from old snapshots; one counter with two meanings; crash between mark and result | one owner at a time, one ending, bounded attempts, nothing lost |
| service health (`health.rs`) | `indexers`, `download_clients` rows; entries of two managers | health pass, create, edit, delete, restart | API, managers, services | a 15 s test between a read and the write it decides; row and live entry disagree | disabled after three failures and not before, one entry each, recovery |
| streaming sessions (`stackarr-stream/src/session.rs`) | DashMap of sessions, ffmpeg children, directories, rows | start, heartbeat, stop, cleanup | routes, ffmpeg, disk | check-then-act limit; dropped request futures; collect-then-stop cleanup | what is served exists, what ended is released |
| import pipeline, recycle bin (`stackarr-import`, `routes/manual_import.rs`) | library files, `media_files`, links, `recycle_bin` | import, upgrade, disk scan, recycle, delete and empty | importer, manual imports, scans | seven awaits between the old file and the new; two importers on one path | an item keeps a file, none is downgraded, the bin lists what it holds |
| quality decisions (`stackarr-quality`, `upgrade.rs`) | none | judge, rank, score, check upgrade | search, import | two orders of quality, boundaries of cutoffs and saturated scores | search and import agree |
| automatic search and grab (`auto_search.rs`, `routes/releases.rs`) | queue, history, blocklist | guard, search, judge, grab | indexers, clients, queue | guard and lists read before a search and used after it | what ended is not grabbed again |
| task registry, commands (`task_registry.rs`, `routes/system.rs`, `routes/scheduler.rs`) | `system_activities`, cancel tokens, Notify permits | begin, ask, cancel, trigger, clear, prune | each other, users, panics | row-by-row guards among rows that come, age and go | guards hold, cancels and triggers take effect, orphans do not block |
| RSS (`rss.rs`, `routes/rss.rs`) | `rss_feeds`, `rss_rules`, `rss_items` | sync, check, download, edit, prune | clients, users | an item is new once; overlapping checks of feeds that share entries | handed over once, none overlooked |
| embedded PostgreSQL (`stackarr-postgres`) | binaries, data directory, pid file, a child | provision, recover, start, stop, drop | other processes of the application, the system | every step may fail or be the last; the server outlives its parent | data kept, no server left behind, the next start succeeds |
| \*arr migration (`stackarr-migrate`) | maps from old ids to new, one transaction | read, merge, write, commit | running server, users, a broken connection | ids of three applications collide; dropped errors in a transaction | all or nothing, references kept |
| download client adapters | engines' own | poll, add, remove | queue | missing and late answers | seen from the queue only |
| Plex sync, requests, library CRUD, WebDAV, authentication, backup, bootstrap, Cardigann, parser, adapters, user interfaces | rows, remote services, or none | see *Not modelled* | | | |

How they meet: the searches of `SearchTasks` run the items of `SearchGrab`; what
`SearchGrab` and `RssFeeds` grab becomes a row of `DownloadQueue`, whose import step is
`LibraryFiles`; `ServiceHealth` decides which clients and indexers they find. The pieces are
joined where a state is shared: `SearchGrab` composes the searches with the queue, not as
`DownloadQueue` details it but as `QueueLifecycle` promises it, and
`DownloadQueueProofs` proves that the promise is kept. The other links are named
abstractions: the pipeline is one step with three outcomes in the queue, an item of a search
is one step in the tasks, a grab is one step with two outcomes in the feeds.

What makes each correct, and where it bites, is the list `hazards` of `PROJECT.json`, each
with its source line and the properties that watch it, or the reason why none does.

## DownloadQueue

A row's life: a grab hands a release to a client (`GrabAdd`) and inserts a row afterwards
(`GrabInsert`, whose error the code drops). `download_sync_task` selects the pending rows
(`SyncSelect`), asks all clients (`SyncPoll`, where any subset of them may answer) and
handles one row after the other: one `Sync...(r)` action per branch of the loop body, each the
one statement of that branch; the failure record that may follow is `SyncRecord`, and
`SyncPurge` ends the pass. `importer_task` selects the completed rows (`ImpSelect`), skips
those whose path is gone (`ImpSkip`), marks one (`ImpMark`), opens an activity record on its
first attempt (`ImpActivity`), runs the pipeline (`ImpRun`, with its three outcomes) and
imports, retries or fails the row. A user may delete a row at any moment, the client's item
may change or vanish at any moment (external actions `ClientProgress`, `ClientForget`).

| variable | code |
|---|---|
| `status stale path aged` | columns `status`, `stale_count`, `output_path`, `added_at` of `queue` |
| `events` | the `history` rows the two tasks write for a download, by event type |
| `blocklist` | `blocklist` rows made by `record_download_failure` |
| `owner item disk` | the client that has the download, what it reports, whether the files exist |
| `syncPc todo snap view answered syncRow` | locals of `download_sync_task` |
| `impPc batch impSnap impRow activity outcome` | locals of `importer_task` |
| `attempts finished removed` | history variables; no action reads them |

`Faults` says what may go wrong: with `"db"` every statement may fail, with the effect its
place gives it (`?` ends the pass, `let _` and logged errors go on), with `"crash"` the
process dies between any two steps and comes back with the database and the disk, with
`"relist"` a client lists an item again that an earlier answer lacked.

Names of releases, sizes, qualities and error texts are left out; the history rows that the
grab and the pipeline write themselves are too. One order is left free that the code fixes:
the rows of a pass are handled in any order, not by id.

**Properties.** `ImporterOwnsRow`: no unguarded UPDATE of the sync task changes a row under
import. `AttemptsBounded`: the counter that means missed polls first and failed imports later
is never misread. `NothingLost`: what left the queue was imported, deleted by its user, or
blocklisted (without failing statements: a failed INSERT of a record is only logged).
`LifecycleSpec`: the queue implements `QueueLifecycle`, with the life of a row read off its
status (`Life`) and its verdict off blocklist and history (`Verdict`): one verdict for each
download, never back from completed to downloading. `CompletedSettles`: a completed download
whose files stay reaches an end. `SettledOnce` and `FirstAttemptLogged` are proved and, being
theorems, have no run.

## ServiceHealth

Rows of the two tables (`rows enabled auto failures`) and entries of the two managers
(`live`, a sequence per id because `add_client` and `add_indexer` append without replacing)
are changed by the API and by `health_check_task`. An API request on an indexer is a
statement and then one or two sections under the manager's lock (`UpdateIndexer`, `RemoveEntry`,
`RegisterEntry`), with anyone between them; requests on download clients write the table only,
as in the code. The check reads the rows (`HealthSelect`), tests one after the other and
decides by what it read (`snap`): enable and reset (`HealthEnable`, `HealthReset`), count
(`HealthCount`), disable under the manager's lock held across the UPDATE (`HealthDisable`,
`HealthDisabled`), or build a client that start-up did not register (`HealthRebuild`). Its
statements may fail (`HealthUnread`, `HealthUnwritten`): the code drops their errors and goes on, so
that a service may be off in the manager and not in its row. A restart loads all indexers but
only enabled clients. Two history variables follow the real tests, over restarts too: `streak`
is how many in a row a service has failed, `unwritten` are the services that passed one
which their row does not know of.

**Properties.** `FailingIsDisabled` and `DisabledAfterFailures` bound the counter from both
sides. The second says that the task disables only what has really failed its last `Threshold`
tests, and exempts the services in `unwritten`, because the code does not keep it for them: with
two failures in the row, a passed test whose reset is lost (health.rs:102, dropped error or restart)
and one failure more, a service is disabled on a single failure. `OneClientEach` is about the look and the `add_client` with awaits between;
`Recovers` is the task's purpose: what answers again is enabled again, stated for services no
request is being made on from some time on.

Not modelled: the `health_status` column, Cardigann indexers (`get_client` finds Newznab
entries only, so they are never checked), statements of the API that fail, its clients that disconnect.

## StreamSessions

Every session has a control state `pc` that runs through its start (directory, spawn, two
seconds of verification, row and table entry), its time in the table (`"open"`) and its stop
(kill, directory, row). `Spawn` and `Fallback` are the two attempts, hardware and software.
`Cut` is a client that disconnects: its handler's future is dropped where it stands, and a
dropped `Child` keeps running. `SweepScan` and `SweepTake` are the two halves of
`cleanup_idle_sessions`. `restarts` bounds `Restart`; ffmpeg children may survive it.

**Properties.** `ServedHasFiles`: what a player can reach is there. `ReleasedAll`: what ended
left no process, directory or active row, except for the starts and stops in `spilled`, which
were cut off, hit by a restart, or met an error that the code lets pass (the `let _` of a removed
directory in `Verify` and in the stop, an INSERT after the spawn); the model collects them, so
that the property names exactly the leaks the code has. `AbandonedIsReleased`: the cleanup
task stops what nobody watches. That the limit on transcodes is exceeded by fewer sessions
than there are overlapping starts is a theorem.

Not modelled: `create_multi_rendition_session` (no route calls it), the probe of the encoder,
serving of files and playlists, a directory removed by hand.

## LibraryFiles

One file per download, and one path of the library per name: what `process_completed_download`
does to files and rows, one action per `rename`, `remove_file` and statement. An import
(`Workers`: the importer task and users' manual imports, which overlap) finds the row it would
replace, asks `IsUpgrade`, recycles or deletes the old file and its row (seven awaits), moves
its own file in, inserts the row and links it, the further episodes of the file last. A disk
scan visits files it selected against paths it read before, inserts rows and links items
that have none. Cleaners remove bin entries one by one, or all rows after the files of those
they selected.

| variable | code |
|---|---|
| `place` | where each file is: the download folder, the library, a path of the bin, or gone |
| `media`, `links`, `entries` | `media_files`, `movie_file_id` and `episode_file_id`, `recycle_bin` |
| `pc job old slot` | locals of `process_completed_download` and of the recycle it calls |
| `spc sjob seen` | locals of `scan_series` and `scan_movies` |
| `cpc listing taken` | locals of `cleanup_expired`, `delete_entry` and `empty_bin` |
| `faulted marred` | the faults so far; history: what an error or an emptying left half-way |

A move onto a path replaces what is there (`Moved`), as `rename` does. `BinSettings` lets the
user set and clear the recycle path while imports run. `Faults`: statements, file operations,
the process.

**Properties.** `NeverDowngraded`: a file leaves the library only for a release at least as
good of an item it holds. `ItemKeepsFile`: when no import of an item is under way, an item
whose import moved a file has a link that leads to a file, unless an error left it half-way.
`BinIsListed`: a file in the bin has its entry, or a recycle on the way to write it.

What `ItemKeepsFile` exempts is named, not left out: `marred` collects the items and files that
an error, a crash or an emptied bin left half-way, the items whose file another import
overwrote or another episode's upgrade took, and those of `Mistaken(w)`. An import remembers
the row it replaces (`old`) but finds that row's file by its path (`OldFiles`): when another
import has put its file on that path meanwhile, it is the newcomer that is recycled, whose row
then names no file. It takes three imports: two that upgrade one row
and, between them, one that fills its path. TLC showed it when the proof asked for a third; with three
importers, no scan's finds, no cleaner and no faults (620k states) `LibraryFiles.cfg` passes with the
exemption and fails without.

Not modelled: which of a download's files are samples, names and naming formats (a name and
what it tells of the quality are constants, `NamesAssumption`), history rows, hard links and copies,
`series` folders moved by hand.

## ReleaseDecision and SearchGrab

`ReleaseDecision` is the pure part: profiles with groups, ranks and cutoffs (`Rank`,
`CutoffMet`, `Improves`), the eleven specifications of the engine (`Approved`),
custom format scores with saturation (`Score`), the ranking of the approved (`Best`), and
`ImportAccepts`, the check the import makes on quality numbers. Titles are the sets of
patterns that hit them; width is kept where it matters, in the saturated sum of scores.

`SearchGrab` runs it: a search takes up an item, whichever its list named and whatever has become of
it since, and passes the guard; it asks the indexers, reads queue, history and blocklist, reads the
file there is and judges what they answered (`Judge`), hands the best to a client (`Add`) and
inserts the row (`Insert`). A user grabs anything at any time; the request may leave the
episode out, and then no guard sees the row. The queue is `QueueLifecycle`: any download may be
imported or fail at any moment its life allows.

The import is here in the steps at which others see the item. It compares quality numbers
(`Upgrades`) and leaves its file (`Skip`) or begins. An upgrade deletes the old file and row and
clears all links to it (`TakeOld`), those of the other episodes of that file too, several awaits before
its own file is in place; then it links the item, and the further episodes its name lists that have none
(`Place`). Or it ends in between: `GiveUp` (the new file cannot be moved, or the process dies:
the item has no file, the download's is whole), `Misplace` (the file is moved and a statement
after it fails: it is where no later attempt looks). The statements inside `TakeOld` and `Place` are
one step each; `LibraryFiles` has them one by one, with an import that fails before the old row is
deleted.

| variable | code |
|---|---|
| `life verdict` | the queue, as `QueueLifecycle` keeps it |
| `of` | `queue` and `history` rows: item and release of each download, whether the row names the episode; history: the file its search judged it against |
| `file` | the item's media file, by the download it came from |
| `transfer` | where an import is with the file of a download |
| `bared` | history: the items that an import left without the file they had |
| `pc item offers read pick row` | locals of `search_and_grab` |
| `known` | history: the titles that had ended when the search passed its guard; the file it judged its choice against |

**Properties.** `ImportedNotGrabbedAgain`, `FailedNotGrabbedAgain`: what ended before a search
began is not grabbed by it, although the lists are read before the indexers are asked. The
first holds for a search that has read a file (where there is none, everything is better), in a
profile whose order is that of the numbers, and for an item that no failed import has bared;
and it needs that file names tell the quality (`grab_again` is what happens without).
`RankNeverFalls`: an item loses its file only to an import for it, or for an item of the same
file, and never to one lower in the profile's order, with the decision in ranks and the import
in numbers; unless the two orders differ in that profile and no search has judged the new
file against the old (`Vetted`): then the numbers alone decide, and they may well take the lower one.

Facts met on the way: the guard does not count `completed` rows, and one `failed` row, even
without a record, keeps its item from being searched (auto_search.rs:68-71); an import that
refuses the file as no upgrade is reported as a success; the files of a season pack are matched
against the row's one episode; `min_upgrade_format_score` is read by nothing; `rank_releases`
compares quality numbers, not the profile's order; the 90 s timeout of an item may drop
`search_and_grab` between the client's answer and the INSERT.

## SearchTasks

The commands of `routes/system.rs`, the scheduler's `auto_search` and `disk_scan` tasks. Each runs in
a slot: it asks for the activities its guard names one by one (`Ask`, where a row older than
thirty minutes is failed on the way), inserts its own row (`Create`), its cancel token
(`Token`), reads its list, and goes from item to item: look at the token (`Check`), write the progress
(`Progress`), search (`Searched`). It ends its row and its token, in the order of its kind. Beside
it users cancel, trigger, and clear the table; rows age, the daily cleanup prunes them,
searches panic, the program restarts and fails what it finds running. Of a statement that fails the
code drops the error, which leaves a search without a row (`Create`), a row without a search
(`Complete`, `Restart`), and a question without an answer: only `Ok(Some(_))` refuses, so a SELECT that
fails lets the search go on (`Ask`, system.rs:1658, scheduler lib.rs:464). (Names that `SearchGrab` has
too carry a prefix here, so that `SearchProofs` can extend both.)

| variable | code |
|---|---|
| `kind stage todo left` | locals of each search |
| `running old orphans` | rows of `system_activities` that say running: of a search, older than thirty minutes, of nobody |
| `tokens cancelled` | `search_cancel_tokens` and the tokens themselves |
| `permit` | the `Notify` of the automatic search |
| `asked late before unanswered` | history: an unserved trigger, items begun after a cancel, the young rows a search had to heed, the questions answered by an error |

**Properties.** `GuardHonoured`: a search does not pass its questions beside a young one it
had to heed when it began to ask, although it asks row by row; unless the question that
would have told was `unanswered`. (Guards are check-then-act: two
searches that begin together may both pass, and a live search of more than thirty minutes is
failed by the next; both are in the model, and neither is promised otherwise.)
`AtMostOneMore`: after a cancel at most one more item is searched. `NoTriggerLost`.
`BlockedSearchesRecover`: a row left running goes away in the end.

Facts: `SeriesMissingSearch` does not ask for its own kind; `SeriesCutoffSearch`,
`EpisodeSearch` and `MovieSearch` ask nothing and cannot be cancelled; a `CutoffSearch` that finds
nothing leaves its token in the map; `DELETE /activities` ("Clear all completed and failed
activities.", activities.rs:84) takes running rows too; a disk scan given as a command runs inside its request.

## RssFeeds

The scheduler's sync over the enabled feeds, a user's check of one feed, a user's download of one item, and
the edits of feeds and rules beside them. A check fetches a document, inserts its entries
(`InsertItem`, `ON CONFLICT DO NOTHING`), keeps those whose row it made (`new`), loads the
rules, judges each new entry, hands it to a client and marks it. A row is known to the
histories by its item and its number, because rows are pruned and feeds deleted and the entry
may come again.

| variable | code |
|---|---|
| `live fresh setting rules` | `rss_feeds` and `rss_rules` |
| `rows marked` | `rss_items` and their `downloaded` |
| `pc todo snap cur pending at new applied` | locals of `rss_sync` and `check_feed` |
| `request` | the handler of one item's download |
| `made handed again settled accepted` | history |

**Properties.** `HandedOnce`: a row's item goes to a client at most once without a user's
hand (012_rss.sql:16, "deduped by feed entry GUID"), unless one document lists the entry
twice (`Repeated`). `NothingOverlooked`: a row that was made is judged by the check that made
it, past failed grabs, failed marks and edits, unless the check is cut short; then nobody
looks at it again.

Facts: a failed grab is never tried again; a failing INSERT in the middle of a document gives
up the new entries before it; an entry first seen through another feed is never matched
by the second feed's rules; deleting and adding a feed, and pruning beyond 5000 items, download again;
a grab writes no queue row; a filter that is no regular expression is accepted and then matches nothing.

## EmbeddedPostgres

Several processes of the application (the server, the `migrate` command, a start that
overlaps) on one data directory. `start()` is one action per step: find or download the
binaries (`FindBinaries`, `Extracted`, `WriteStamp`), recover (`Recover`: stop what the pid
file names), check the version, first run (`InitDb` spawns a process of its own), configuration,
`Spawn`, wait (`Answered`, `TimedOut`), `CreateDatabase`, then use; a failure anywhere drops
what was built, which stops the child. `tar`, `initdb` and the server run on by themselves
when their parent is killed. A pg_ctl may fail (`SignalFails`), or be gone with the packages, which are
installed and removed under a running server too (`Install`): crash recovery ignores that; `stop()` returns the
error and leaves the child to the drop when pg_ctl could not be run, and waits for the child, for
ever if need be, when it ran; the drop ignores it and leaves the server (`StopServer`, `Stopped`).

| variable | code |
|---|---|
| `system local stamp tar` | installed PostgreSQL, downloaded binaries, `version.json`, running extractions |
| `cluster major initdb db` | the data directory: what `PG_VERSION` shows of it, and the database in it |
| `server phase left` | the server, whose child it is, and `postmaster.pid` without a server |
| `pc bins first child` | each process |
| `used cutShort killed unstopped` | history: the schema was written; a first run was cut short; the processes that were killed, and those whose drop ran a pg_ctl that failed, since their last server started |

**Properties.** `DataKept`: a directory that holds the schema is never initialised again.
`UrlIsUsable`: the URL that `start()` returns names a database, unless a first run was cut
short between initdb and CREATE DATABASE. `NoServerLeftBehind`: only a process that was killed, or whose drop met
a failing pg_ctl, leaves a server. `ComesUp`: without a named `Obstacle` (binaries of another version, a stale
`version.json`, a half download, a reused pid) a start succeeds in the end.

Facts behind the exceptions: after a first run cut between initdb and CREATE DATABASE, by a crash or by
its own 30 s timeout, no later start creates the database, although lifecycle.rs:33-34 says
"create db. Returns the connection URL on success"; a `migrate` beside a running application
stops its server as one "from previous session" (lifecycle.rs:147), and nobody watches the
child; a pg_ctl that ran and failed makes `stop()` wait for a server that nobody told to go; `version.json` is asked before the binaries that are used, so a stale one refuses
falsely or misses a mismatch; a reused pid in `postmaster.pid` blocks every start; SIGTERM is
not handled (only `ctrl_c`), so a stopped service leaves its server; the server's stderr is piped
and never read (lifecycle.rs:316); a half-extracted download is told by `pg_isready` alone.
A foreign server on the port is not modelled.

## ArrMerge and Migration

`ArrMerge` is `build_migration_data`: tags by label, formats by name, profiles with
renumbered ids (`RADARR_PROFILE_OFFSET`), indexers by URL with Prowlarr's first, clients by
key, folders, path mappings. `Migration` reads the databases, with malformed rows and dropped
errors, and writes the result: one action per table, each row's id from its table's sequence
(which does not roll back), references through the maps of the run, as the transaction sees
the database while imports link files and a user deletes a profile. A failed statement aborts
the transaction; where the code drops the error it goes on, everything after fails, and a
COMMIT becomes a rollback. (Names that every module has carry a prefix
here: `MigrationSpec`, `MigrationTypeOK`.)

| variable | code |
|---|---|
| `db next` | the committed rows and the sequences |
| `at src maps dry data` | the run: where it is, what it was given, read and merged |
| `tx cleared aborted` | its transaction |
| `log trouble` | history: what each run read and how it ended; bound on faults |

**Properties.** `AllOrNothing`: a run that reported success left everything it read, each
shared thing once, and counted it right; any other left nothing, or, when the answer to COMMIT
was lost, everything. `ReferencesKept`: an item finds its own application's profile, an episode its series and
file, a score its format, a blocked release its item, in databases whose ids collide.
`OnlyScannedLinks`: no imported link to a file survives. `KeysHold` is the part of `MigrationTypeOK`
that statements of others could break.

Facts: an aborted transaction is reported only because the UPDATEs after it fail too (COMMIT
of one is silently a ROLLBACK); a lost answer and a second run leave everything twice (no UNIQUE on names or tmdb_id);
a folder is chosen by string prefix in the order of a HashMap (`/tv` holds `/tv-kids`); a movie
whose profile was not read gets any profile, a series profile 1; the clearing of links takes every
link of the library, not only imported ones (1557-1565); "A disk scan will re-link files
that are actually present" (1556) is not what the scan does with a path that a row already has: it skips the
file (stackarr-import lib.rs:1257), linked or not; malformed rows are skipped; the dry
run counts what a run would skip; two indexers of Prowlarr with one URL are both kept; the tables are not
read in one snapshot.

## The runs

| run | instance | states | shows |
|---|---|---|---|
| queue | 2 rows (symmetric), 1 client, 3 item statuses, 2 attempts, items that vanish from a listing and come back, no other faults | 578k | `TypeOK`, `NothingLost` under every interleaving of both tasks and users |
| queue_faults | 1 row, 3 clients (two embedded, one external), all 9 item statuses, 3 attempts, crashes, failing statements, relisted items | 409k | ownership, attempts and the life cycle survive faults |
| queue_live | 2 rows, 2 item statuses, fair tasks, no faults | 227k | `CompletedSettles` |
| health | 1 indexer, 1 client, 1 request in flight, threshold 2, 2 restarts or failing statements | 492k | counters, entries, recovery |
| stream | 2 ids, limit 1, 3 starts, 2 restarts, all faults, hardware encoder, fair cleanup | 35k | safety, and abandoned sessions end |
| library | 3 releases of an item, one holding a second episode, 2 imports, 1 scan, 1 cleaner, 1 fault, bin set and unset | 3.39M | files, links and bin at every interleaving |
| grab | 2 episodes and a movie with a disordered profile, 4 releases, one of both episodes, 2 downloads, 1 search, a user, failing statements | 769k | decision, queue and import together |
| grab_again | 1 search, a file whose name tells no quality | violation | the finding below |
| tasks | a slot for series searches and scans, one for scans, the automatic search, 2 of the 3 at a time, 2 and 1 items, 1 panic or failing statement | 405k | guards, cancels, triggers, recovery |
| feeds | 2 feeds sharing an entry, the sync and 1 check, 1 rule, 1 filter, 1 user's download, 1 removed row, all faults | 2.73M | once for each row, none overlooked |
| postgres | 2 processes, 2 versions, 3 troubles | 450k | data, URL, leftovers, recovery |
| migration | 3 databases with colliding ids, names and folders, 2 runs, 1 link, 1 trouble, dry runs, mappings | 406k | all or nothing, references |

**Bounds, and why they are enough.** The queue's tasks treat rows alike and one after the
other, so a row meets at most what two rows show: one in hand and one waiting, in either task.
The attempt limit is 2 or 3 where the code has 10: the hazard is the first, a middle and the
last attempt. `StaleLimit` is the code's. The threshold of the health check is 2 where the code has
3: a first failure that must not disable and a second that must; its failure counters are
followed up to the threshold (`FailureCap`), beyond which only `>=` is asked of them. Two
sessions are one in the table and one on its way in. Three releases are the one replaced, the
one that replaces it and a third that comes between; a fault is bounded to one because each
property exempts what a fault touched, so a second shows the same. Two downloads are one that
ended and one that comes after, or two that replace each other's files; one search is enough
because the user's grabs and the imports, which ask nothing, do beside it all that a second search
could. The searches of `tasks` meet in pairs (`MaxBusy`): a
series search and the automatic one, which heed each other, and two scans. Of the other guarded
kinds, `MissingSearch` asks what the automatic search asks and `CutoffSearch` asks for its own
kind as a scan does; all kinds, and any number at a time, are in the theorem. Two feeds with an entry in common
and one removed row are the least in which a row is made twice and a check meets what another
made. In PostgreSQL's instance three troubles are a kill, a
reused pid and a package change in one history, or a package that goes, a pg_ctl that fails and a start
of the command between them. `MaxRuns = 2` in the migration is a run that meets what a run left.
`MaxRestarts`, `MaxMishaps`, `MaxDeaths`, `MaxFaults`, `MaxTrouble`, `MaxLinks`, `MaxRemoved` bound what
would otherwise recur for ever; each is a guard of the actions it bounds.

**Deadlock** is checked but in `library`, `grab` and `migration`, whose runs end: all imports
made, all downloads spent, all migrations done; and in `postgres`, where `stop()` may wait for ever
for a server its failed pg_ctl did not stop.

**Fairness.** Weak fairness of a task as a whole: each is a loop on an interval timer that
nothing stops (queue, health, stream cleanup, `AutoBegin`). Of a request's steps once it has
begun (health), of a stop (stream), of each step of a search (`Step(w)`), of each step of
`start()` and of `tar`, `initdb` and the server (PostgreSQL), because a spawned future is polled to its end and a
process runs on; an item of a search is cut off after ninety seconds. The
automatic search needs strong fairness (`AutoBegin`): its interval comes round whatever else runs, but
`MaxBusy` keeps it out now and then, which is the bound's doing and not the code's.
Of `Start(Serve)`: the
server's process is started again by its supervisor. Of `Age`, `AgeOrphans` and of `Expire`
for a session nobody watches: time passes. None is assumed of clients, users, players,
services, nor of anything a fault does.

## What the code does not do

One run ends with a counterexample, quoted in full under `findings`:

- `grab_again`: AlreadyImportedSpec "Rejects releases that have already been grabbed and
  imported (by guid)", but the guids are compared with the clients' download ids and never
  match. A release whose title tells a quality and whose file does not is grabbed,
  imported and grabbed again, for ever.

More sentences of comments and documents are stated last in their modules without a run of
their own; put into the module's configuration (the one named, or its only one) each is
refuted by TLC:

| definition | says | the code |
|---|---|---|
| `DownloadQueue!OnlyFinishedComplete` (`DownloadQueueFaults.cfg`) | a missing download is completed if it completed | the disk is trusted before it is asked whether the client answered (lib.rs:1262) |
| `ServiceHealth!UserDisableHonoured` | "Skip user-disabled indexers" | a user's disable during a test is overwritten by the test's result (health.rs:284) |
| `ServiceHealth!EveryDownIsDisabled` | "Auto-disables services after 3 consecutive failures" | what was auto-disabled and then enabled by its user keeps `auto_disabled` and is never disabled again (health.rs:321) |
| `StreamSessions!LimitHeld` | `max_concurrent_sessions` | overlapping starts exceed it (session.rs:228) |
| `LibraryFiles!LinkedResolves` | a row's path joined to its folder is the file | a scan stores paths relative to another folder than an import |
| `Migration!TagsKept` | "Map old source tag IDs to lowercase label" (writer.rs:557) | one map for three applications: colliding ids give an item another application's label |

Others are behaviours of the models that no document speaks of plainly enough to state:

- torrent rows are dropped and blocklisted when the torrent engine is silent, because a NULL
  client id counts as reachable through the usenet engine (lib.rs:1282, `Reachable`);
- an import that moved the files and then failed is skipped for ever, neither retried nor
  failed (lib.rs:1434, `ImpSkip`; docs/SCHEDULER.md:151 promises both);
- failed rows are purged only by a sync pass that has pending rows (lib.rs:1330);
- a row that was 'importing' at a crash is selected by neither task again (lib.rs:1449);
- of three imports that overlap, one may recycle the file another has just moved in, because
  the path of the row it replaces is asked late: the item's link may then lead to no file
  (stackarr-import lib.rs:376, upgrade.rs:91, `Mistaken`);
- an INSERT that fails after the client accepted a download leaves it without a row
  (auto_search.rs:517);
- two PUTs on one indexer may register it twice (indexers.rs:250);
- a heartbeat between the two halves of the stream cleanup does not save its session
  (session.rs:594), and a start cut off or hit by a failing INSERT leaves its ffmpeg running
  (session.rs:340).

## The proofs

All proof modules follow one scheme: an inductive invariant (`IInv`), a lemma that `Init`
establishes it, lemmas that every step keeps it (by action, or by conjunct where that is
shorter), `Inductive`, which puts them together, and the theorems, each from the invariant
alone. Constants are arbitrary up to the named ASSUMEs of the modules (limits are naturals,
"none" is not a row, ids are finite where they are counted), so the theorems hold for any
number of rows, clients, services, sessions, releases, searches, feeds and processes, and for
any faults.

*DownloadQueue.* `TypeCorrect`, `ImporterOwnsItsRow`, `OneEnding`, `AttemptsAreBounded`,
`FirstAttemptIsLogged`, with any faults. `ImporterOwnsRow` is not inductive: that a row in the
importer's hands is not written by the sync task needs that a row in the sync task's `todo`
was active when selected and has not been completed since except by the sync task itself, which
drops it from `todo` in the same step (`TodoInv`, `SyncOK`); that the importer's batch holds rows
that are completed or were deleted (`BatchInv`); and that a row's counters and records fit
its status (`RowInv`): a completed row's `stale` is the number of its attempts, so the
bound and the "first attempt" test read what they mean.
`NothingIsLost` assumes that no statement fails and the process does not die (`LossInv`: a row
that ended is `Accounted` for, and the importer deletes a row only after its import is on
record); with either fault the property is false, and the code promises no more.
`QueueKeepsItsPromise` is the refinement, with any faults: `InitRefines`, one lemma per action
that changes what a row shows, `StepRefines`. `LifeStep` and `VerdictStep` turn a change of one
row into a step of `QueueLifecycle`; that the change is one the abstract module allows comes from
`IInv`.

*ServiceHealth.* `TypeCorrect`, `FailingServicesAreDisabled`, `OneEntryPerClient`,
`DisabledOnlyAfterFailures`. The key is `SnapInv`: of the rows still to do, what was read still
stands, because only the check writes the counters and an id is never used again, so a write
that was decided seconds ago is right or hits no row. `BranchInv` keeps the decision that was
made, `StreakInv` ties the table's count to the tests that really failed: of a row outside `unwritten` it
is never more, whatever restarts and lost writes come between.

*StreamSessions.* `TypeCorrect`, `ServedSessionsHaveFiles`, `EndedSessionsAreReleased`,
`OvershootIsBounded`, `LimitIsKeptAlone`. Most is per session (`IdInv`). For the limit, `Busy`
counts the transcodes in the table together with the starts that will join them: only
`StartTranscode` adds to it, and only when the transcodes are below the limit and the starts below
their number.

*SearchGrab* (`SearchProofs`, first part). `TypeCorrect`, `NoSecondImport`, `NoSecondFailure`,
`FilesOnlyImprove`, for any releases, profiles, downloads and searches. Three invariants, one on the other.
`FailedInv`: what a search knew at its guard has ended (`KnownHasEnded`) and is in what it
reads later (`BlockedIsRead`), for verdicts last (`Lasting`). `FilesInv`: at most one import stands
between the old file and the new (`OneReplacing`), and what a search has judged against a file
improves on it by the profile's order (`JudgedToImprove`; no two files improve on each other,
`ImprovesOneWay`). These need no hypothesis; in a profile that is `Ordered` ranks
follow numbers besides (`RankFollowsNumber`, `CutoffReached`). `NoSecondImport` alone assumes `HonestNames`,
that the name of a file tells the quality of its title, which the code does not ensure
(`grab_again`): then what was imported for an item is no improvement over the file it has now
(`ImportedIsSettled`), or an import of something better is between the two.

`OneReleaseIsChosen` is about the ranking: the keys are
compared by a strict order (`KeyOrder`), so with the place in the list as the last criterion
exactly one of what is fit comes before all others (`OneIsBest`, which counts those ahead of it),
and `Judge` neither stalls nor has a choice. It needs that a score is a number, which
`ScoresAreBounded` shows of the saturated sum without induction over the formats, by the least
place at which it would leave its range (`TotalsExist`, `TotalsRange`).

*SearchTasks* (`SearchProofs`, second part). `TasksTypeCorrect`, `GuardsAreHonoured`, `AtMostOneMoreItem`, `TriggersAreKept`.
`Heeding` is the strengthening of the guard: a search that has to be heeded is past its own
questions, so that it cannot insert its row a second time, and while it is young its activity is
among the questions still to ask, or its question is `unanswered`; a question that is answered takes
only old rows away and goes on only when none of its type is left. `Bounded` ties the late item to a cancelled token that no later
`Check` passes. Nothing is claimed of two searches that begin together: no lock is held over the
questions and the INSERT.

*RssFeeds.* `TypeCorrect`, `RowsAreHandedOnce`, `MarkedIsAccepted`, `NothingIsOverlooked`. `Owned`: a row
number belongs to the new entries of one check; `Behind`: what a check handed over lies
behind it in its document; `Seen`: a row is judged or ahead of the check that made it.

*EmbeddedPostgres.* `TypeCorrect`, `DataIsKept`, `ReturnedUrlIsUsable`, `NoServerIsLeftBehind`. `Owed`: a
whole cluster without its database is the work of a first run that was cut or is still to
create it; `InitdbRuns`: initdb never runs over a whole cluster; `Equipped` and `Held`: a
server that is not stopping has a parent that still has it as its child, was killed, or is `unstopped`; only
processes from the wait to the drop have a child, and they end through the drop.

*LibraryFiles* (`LibraryFilesProofs`). `TypeCorrect`, `ItemsKeepFiles`, `BinListed`,
`OnlyUpgrades`. The invariant follows one row: it is linked only by who inserted it, and only once
(`Linked`, `LinkSound`), so the row an upgrade replaces is never one that is about to be linked; a file
is on its way in by one import at most (`OneMover`). `Served` says of each item with a moved
file why it is not lost: it is linked to a file, or an import that is past the old row will link
it (`WillLink`), and `Replaceable` and `FileStays` that the file of a link stays unless such an
import takes it. For the bin, `Settled` and `BinSettled`: a file that was recycled never comes
back, so there are fewer files in it than paths (`BinHasRoom`) and the search for a free one
ends (`FreeSlotType`, from the pigeonhole lemma `RoomForOne`). `OnlyUpgrades` needs that
the file on a path is at least as bad as the one its import compared
(`ReplacedIsWorse`). `LeastNumber` and `BestFile` are the two arguments by a least element.

*Migration* (`MigrationProofs`, first part). `LinksScannedOnly`, `RowsComeAtOnce`,
`UnfinishedLeavesNothing`, `MigrationKeys`. Each step is first reduced to what it does to tables and
transaction (`Kinds`: `Starts`, `Reads`, `Writes`, `Leaves`, `Commits`), then the five parts of `MInv` are
kept one by one. `LinksScanned`: between the clearing of the links and the commit the
transaction has none and is not aborted, so what becomes of a dropped error is never a
success. `RunsNumbered`: the rows in the transaction are the last run's, and none of them is
committed while it is under way. `ProfilesThere`: a profile is written before what names it, and a
user cannot delete one that is named.

*References* (`MigrationProofs`, second part). `ReferencesSurvive`: `ReferencesKept` for any databases,
runs, links, deleted profiles and troubles. Of the databases `MigrationAssumption` says what their schemas
do: a table is a sequence of rows, each with an id of its own (the primary key), no profile
of Sonarr has an id above `RADARR_PROFILE_OFFSET`, and what is seeded is there once. The
proof has three layers. First `ArrMerge`: what `Picked`, and so `Only` and `Firsts`, return
(`PickedRows`, `FirstOf`), and from it what is merged (`ProfilesRead`, `FilesRead`, `BlocklistRead`,
`FormatFound`, `ScoresRead`: a profile's scores are found under the merged format of their
name). Then `RInv`, beside `MInv`: what a run holds is what it read (`SourcesKnown`), ids are given
once (`IdsNumbered`), a table is empty before its statement and has everything merged after it
(`TablesFilled`), and a row refers to rows of its own run that came from what its source row
named (`RowsRefer`, `JoinsRefer`, `AllScores`). A step keeps it because a statement writes rows that refer
to what the statements before it wrote (`NewSeries` ... `NewScoreRows`), because a commit
brings all of a transaction or nothing (`CommitsAll`), and because nothing that is referred to goes away
(`RowsStay`: only profiles of no run can be deleted). Last, in a committed
run an id names one row (`TheRow`), so that what `RowsRefer` says of some row, `ReferencesKept` says
of the row (`ItemsKeepProfiles`, `ProfilesKeepScores`, `EpisodesKeepFiles`, `BlockedKeepItems`).

*Types of the migration* (`MigrationProofs`, third part). `MigrationTypes`: `MigrationTypeOK`. The UNIQUE
columns are kept over the tables and the transaction together (`CInv`), for COMMIT adds
the one to the other: tags and folders because the code asks what is there and takes the
first of each (`TagsStayOnce`, `FoldersStayOnce`), scores because the last of a profile and a format is
the one that stays (`ScoresApart`), episodes because the series of two runs have two ids
(`OtherRun`). `Ranges` holds the rest.

*Whole runs* (`MigrationProofs`, fourth part). `RunsAreWhole`: `AllOrNothing` for any databases, runs,
mappings, links and troubles. `Whole` says table by table what the rows of a run have of what the run
read: a row for each series, movie, profile and file and one only, a format, client and indexer for
each key that the merge keeps (`FormatNames`, `ClientsRead`, `IndexersRead`, `TagsRead`: what `Firsts`
keeps), the episodes and blocked releases of the items that were read, the seasons of each series.
`WInv`, beside `MInv` and `RInv`: of the transaction `Whole` holds as far as its statements have
come (`Half`, by `StatementWrites`), of every run that ended well it holds of the committed rows, and of
one that ended badly unless it left nothing (`RunsWhole`). The commit carries the one over to
the other, since it brings the rows of its run and of no other (`CommitBrings`, `RunCommits`), and nobody
touches the rows of a run that ended (`RunKept`; a season belongs to a series by an id that no
other run has, `SeasonsOwned`). The report counts by sizes of sets, which are compared by
one-to-one relations (`Matched`, `OnceCounted`, `ScoresCounted`); its scores are counted per INSERT, and
two INSERTs may be one row, so they are held against the scores that were read.

**Only model-checked.** Liveness (`CompletedSettles`, `Recovers`, `AbandonedIsReleased`,
`BlockedSearchesRecover`, `ComesUp`): the prover has no rules for fairness or ENABLED. Every other
property of a passing run is stated by a theorem (`NothingLost` without faults, `ImportedNotGrabbedAgain`
with `HonestNames`). No module
uses a RECURSIVE operator.

Every property of a passing run has a mutant of the code, defined beside the definition it
replaces and marked `Mutant`, under which TLC finds the property violated.

## Not modelled

The modules were written in the order of what is hardest to test: the queue first, then the
tasks that share rows with users, then what touches files, processes and transactions.
What is left out, and why (one by one also under `components`):

- *Plex sync.* A scan pages through a server's items while a second pass asks every server
  about every key and clears what none confirms. Any bound at which removals, edits and two
  servers meet gave state spaces out of TLC's reach. What reading shows: the availability
  pass treats a failed request like an absent item (sync.rs:124), two servers clear each
  other's keys, the clearing is by id after an HTTP await and may wipe a newer key (sync.rs:50), the
  recent scan stamps `last_scan` even after a fetch failed, and pages shift when items are
  removed meanwhile.
- *Requests, watchlist, progress, notifications.* Single statements. An approved request never adds
  media (docs/clientapp.md:122 says "triggers library add"), `mark_request_available` is never called, the watchlist says
  "tv" where requests say "series".
- *Library CRUD and metadata.* Single statements and a TMDB client. An update that moves files
  fails after the move when its UPDATE fails; accepting a series (import_candidates.rs:303)
  casts to a type `series_status` that no migration creates, and drops the error; monitoring single episodes does not
  update `seasons`; a custom format is saved as DELETE and INSERT without a transaction; deleted
  titles come back with the next import list.
- *WebDAV mounts, usenet engine servers, download client adapters.* The engines are
  dependencies from crates.io, their sources not in the repository; of them the queue sees a
  status or nothing.
- *Cardigann, search adapters, the name parser, naming formats.* Data, without state between calls:
  templates, regular expressions and XML. Where their result decides something, it is a
  constant (`covers`, `hits`, `fileQuality`, `NameOf`).
- *Authentication and rate limits.* One step per request, in memory or in one row.
- *Backup, bootstrap, configuration, logging, database plumbing.* Process and file I/O, HTTP,
  and parsing.
- *The user interfaces.* Their state is the server's.
- Inside the modelled components: two migrations at once, a foreign server on PostgreSQL's port,
  multi-rendition streaming (no route starts it), the `health_status` column, metadata refresh and import lists among
  the scheduler's tasks, history rows that are only shown.
