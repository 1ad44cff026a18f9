--------------------------- MODULE DownloadQueue ---------------------------
(***************************************************************************)
(* The life of a row of the `queue` table: a grab inserts it, the          *)
(* download_sync task copies the download client's view into it, the       *)
(* importer task turns a completed row into library files, and a user may  *)
(* delete it at any time.  The two tasks run concurrently, each select a   *)
(* snapshot of rows and then write them back one await at a time, by id,   *)
(* with no transaction and no guard on the status they read.               *)
(***************************************************************************)
EXTENDS Naturals

CONSTANTS
    Rows,          \* ids the queue's sequence may hand out (bounds the grabs)
    Clients,       \* the download clients, the two embedded ones or external
    ItemStatuses,  \* DownloadItemStatus values the clients report
    PathStatuses,  \* the statuses in which an item comes with an output path
    StaleLimit,    \* cycles a row may be missing from its client: 2 in the code
    MaxAttempts,   \* import attempts before a row is failed: 10 in the code
    Faults,        \* which of "crash", "db" (a statement fails) and "relist"
                   \* (a client lists an item again) may happen
    NoRow          \* no row

ASSUME LimitsAssumption ==
    /\ StaleLimit \in Nat \ {0}
    /\ MaxAttempts \in Nat \ {0}

ASSUME RowsAssumption == NoRow \notin Rows

ASSUME ItemsAssumption ==
    /\ ItemStatuses \subseteq {"Queued", "Downloading", "Paused", "Completed",
                               "Failed", "Warning", "Seeding", "Extracting",
                               "Verifying"}
    /\ "Queued" \in ItemStatuses
    /\ PathStatuses \subseteq ItemStatuses

VARIABLES
    (* the database *)
    grab,      \* how far the grab of each row has come
    status,    \* queue.status, or "absent" when there is no such row
    stale,     \* queue.stale_count: missed polls, then failed imports
    path,      \* queue.output_path is not NULL
    aged,      \* rows whose added_at is more than an hour ago
    events,    \* the history events the two tasks write for each download
    blocklist, \* the number of blocklist entries made for each row
    (* the clients and the disk *)
    owner,     \* the client that accepted the download
    item,      \* what that client says of it, "none" once it forgot it
    disk,      \* rows whose output path exists on disk
    (* download_sync_task *)
    syncPc, todo, snap, view, answered, syncRow,
    (* importer_task *)
    impPc, batch, impSnap, impRow, activity, outcome,
    (* history variables, read by the properties only *)
    attempts,  \* how often the import pipeline ran on each row
    finished,  \* rows whose item a client reported Completed or Seeding
    removed    \* rows a user deleted from the queue

dbVars   == <<grab, status, stale, path, aged, events, blocklist>>
envVars  == <<owner, item, disk>>
syncVars == <<syncPc, todo, snap, view, answered, syncRow>>
impVars  == <<impPc, batch, impSnap, impRow, activity, outcome>>
ghosts   == <<attempts, finished, removed>>
vars     == <<dbVars, envVars, syncVars, impVars, ghosts>>
rowVars  == <<status, stale, path>>

Embedded  == {"embedded_torrent", "embedded_usenet"}   \* ids -1 and -2
Active    == {"queued", "downloading", "paused", "post_processing", "warning"}
Statuses  == Active \cup {"completed", "importing", "failed"}
Events    == {"import_started", "imported", "download_imported", "download_failed"}
Snapshot  == [status : Statuses, stale : Nat, path : BOOLEAN]
Blank     == [status |-> "queued", stale |-> 0, path |-> FALSE]
Present(r) == status[r] # "absent"

(* Mutant: the item status is stored as the client words it. *)
QueueStatusUnmapped(s) == s

(* The queue status a client's item status is stored as. *)
QueueStatus(s) ==
    CASE s \in {"Completed", "Seeding"}    -> "completed"
      [] s \in {"Extracting", "Verifying"} -> "post_processing"
      [] s = "Failed"                      -> "failed"
      [] s = "Downloading"                 -> "downloading"
      [] s = "Paused"                      -> "paused"
      [] s = "Warning"                     -> "warning"
      [] OTHER                             -> "queued"

(* UPDATE queue SET ... WHERE id = r: changes nothing when the row is gone. *)
UpdateRow(r, st, n, p) ==
    IF Present(r)
    THEN /\ status' = [status EXCEPT ![r] = st]
         /\ stale'  = [stale EXCEPT ![r] = n]
         /\ path'   = [path EXCEPT ![r] = p]
    ELSE UNCHANGED rowVars

DeleteRow(r) ==
    /\ status' = [status EXCEPT ![r] = "absent"]
    /\ aged' = aged \ {r}
    /\ stale'  = [stale EXCEPT ![r] = 0]
    /\ path'   = [path EXCEPT ![r] = FALSE]

(* Mutant: the failure is in the history but the release is not blocked. *)
RecordFailureUnblocked(r, E) ==
    /\ events' = [events EXCEPT ![r] = E \cup {"download_failed"}]
    /\ UNCHANGED blocklist

(* record_download_failure: a blocklist entry and a history event; an error  *)
(* of either INSERT is logged and the task goes on.                          *)
RecordFailure(r, E) ==
    /\ \/ blocklist' = [blocklist EXCEPT ![r] = @ + 1]
       \/ "db" \in Faults /\ UNCHANGED blocklist
    /\ \/ events' = [events EXCEPT ![r] = E \cup {"download_failed"}]
       \/ "db" \in Faults /\ events' = [events EXCEPT ![r] = E]

-----------------------------------------------------------------------------
Init ==
    /\ grab = [r \in Rows |-> "free"]
    /\ status = [r \in Rows |-> "absent"]
    /\ stale = [r \in Rows |-> 0]
    /\ path = [r \in Rows |-> FALSE]
    /\ aged = {}
    /\ events = [r \in Rows |-> {}]
    /\ blocklist = [r \in Rows |-> 0]
    /\ owner = [r \in Rows |-> NoRow]
    /\ item = [r \in Rows |-> "none"]
    /\ disk = {}
    /\ syncPc = "idle" /\ todo = {} /\ answered = {} /\ syncRow = NoRow
    /\ snap = [r \in Rows |-> Blank]
    /\ view = [r \in Rows |-> "none"]
    /\ impPc = "idle" /\ batch = {} /\ impRow = NoRow
    /\ impSnap = [r \in Rows |-> Blank]
    /\ activity = FALSE /\ outcome = "ok"
    /\ attempts = [r \in Rows |-> 0]
    /\ finished = {} /\ removed = {}

-----------------------------------------------------------------------------
(* Grabs and the queue page. *)

(* A grab hands the release to a client first ... *)
GrabAdd(r, c) ==
    /\ grab[r] = "free"
    /\ grab' = [grab EXCEPT ![r] = "adding"]
    /\ owner' = [owner EXCEPT ![r] = c]
    /\ item' = [item EXCEPT ![r] = "Queued"]
    /\ UNCHANGED <<status, stale, path, aged, events, blocklist, disk, syncVars,
                   impVars, ghosts>>

(* ... and inserts the queue row afterwards; an INSERT that fails is ignored. *)
GrabInsert(r) ==
    /\ grab[r] = "adding"
    /\ \/ /\ grab' = [grab EXCEPT ![r] = "inserted"]
          /\ status' = [status EXCEPT ![r] = "queued"]
       \/ /\ "db" \in Faults
          /\ grab' = [grab EXCEPT ![r] = "lost"]
          /\ UNCHANGED status
    /\ UNCHANGED <<stale, path, aged, events, blocklist, envVars, syncVars, impVars,
                   ghosts>>

UserDelete(r) ==
    /\ Present(r)
    /\ DeleteRow(r)
    /\ removed' = removed \cup {r}
    /\ UNCHANGED <<grab, events, blocklist, envVars, syncVars, impVars,
                   attempts, finished>>

(* An hour has passed since the row was added; only the purge of failed rows *)
(* reads this, so it is not followed before.                                 *)
Age(r) ==
    /\ status[r] = "failed" /\ r \notin aged
    /\ aged' = aged \cup {r}
    /\ UNCHANGED <<grab, status, stale, path, events, blocklist, envVars, syncVars,
                   impVars, ghosts>>

-----------------------------------------------------------------------------
(* The download clients: external to the program.  An item may be missing    *)
(* from one listing and back in the next, as between a queue and a history;  *)
(* it is followed as long as something may still read it.                    *)

Followed(r) ==
    /\ item[r] # "none" \/ ("relist" \in Faults /\ grab[r] # "free")
    /\ grab[r] = "adding" \/ Present(r) \/ r \in todo \cup batch

ClientProgress(r, s) ==
    /\ Followed(r) /\ s # item[r]
    /\ item' = [item EXCEPT ![r] = s]
    /\ \/ disk' = disk \cup {r}
       \/ s \notin {"Completed", "Seeding"} /\ UNCHANGED disk
    /\ finished' = IF QueueStatus(s) = "completed" THEN finished \cup {r} ELSE finished
    /\ UNCHANGED <<dbVars, owner, syncVars, impVars, attempts, removed>>

(* The item leaves the client's list, its files kept or deleted. *)
ClientForget(r) ==
    /\ Followed(r)
    /\ item' = [item EXCEPT ![r] = "none"]
    /\ disk' \in {disk, disk \ {r}}
    /\ UNCHANGED <<dbVars, owner, syncVars, impVars, ghosts>>

-----------------------------------------------------------------------------
(* download_sync_task.  One row of the loop is one step: its one statement   *)
(* is atomic, and the failure record that may follow it is a step of its own.*)

(* Mutant: the selection leaves the rows in that are being imported. *)
PendingImporting(r) == status[r] \in Active \cup {"importing"}

(* Rows the task selects: status NOT IN ('completed', 'importing', 'failed'). *)
Pending(r) == status[r] \in Active

SyncSelect ==
    /\ syncPc = "idle"
    /\ \E r \in Rows : Pending(r)
    /\ todo' = {r \in Rows : Pending(r)}
    /\ snap' = [r \in Rows |->
                  IF Pending(r)
                  THEN [status |-> status[r], stale |-> stale[r], path |-> path[r]]
                  ELSE Blank]
    /\ syncPc' = "poll"
    /\ UNCHANGED <<dbVars, envVars, view, answered, syncRow, impVars, ghosts>>

(* Nothing is pending: the pass ends at once, without the purge. *)
SyncNothing ==
    /\ syncPc = "idle"
    /\ \A r \in Rows : ~Pending(r)
    /\ UNCHANGED vars

(* get_items_all: a client that is disabled, or errors, is left out. *)
SyncPoll ==
    /\ syncPc = "poll"
    /\ \E A \in SUBSET Clients :
          /\ answered' = A
          /\ view' = [r \in Rows |->
                        IF r \in todo /\ owner[r] \in A THEN item[r] ELSE "none"]
    /\ syncPc' = "apply"
    /\ UNCHANGED <<dbVars, envVars, todo, snap, syncRow, impVars, ghosts>>

(* A row stores NULL for either embedded client, and NULL counts as          *)
(* reachable when the usenet engine is.                                      *)
Reachable(r) ==
    IF owner[r] \in Embedded THEN "embedded_usenet" \in answered
                             ELSE owner[r] \in answered

AtRow(r) == syncPc = "apply" /\ syncRow = NoRow /\ r \in todo

(* The loop is done with r: its snapshot is dropped. *)
Done(r) ==
    /\ todo' = todo \ {r}
    /\ snap' = [snap EXCEPT ![r] = Blank]
    /\ view' = [view EXCEPT ![r] = "none"]

(* The item's status differs from the snapshot's: stale_count starts over. *)
StaleOnMove(r) == 0

SyncMove(r) ==
    LET new == QueueStatus(view[r]) IN
    /\ AtRow(r) /\ view[r] # "none" /\ new # snap[r].status
    /\ UpdateRow(r, new, StaleOnMove(r), path[r] \/ view[r] \in PathStatuses)
    /\ IF new = "failed"
       THEN syncRow' = r /\ UNCHANGED <<todo, snap, view>>
       ELSE UNCHANGED syncRow /\ Done(r)
    /\ UNCHANGED <<grab, aged, events, blocklist, envVars, syncPc, answered, impVars,
                   ghosts>>

SyncSame(r) ==
    /\ AtRow(r) /\ view[r] # "none" /\ QueueStatus(view[r]) = snap[r].status
    /\ IF view[r] \in PathStatuses \/ snap[r].stale > 0
       THEN UpdateRow(r, status[r], 0, path[r] \/ view[r] \in PathStatuses)
       ELSE UNCHANGED rowVars
    /\ Done(r)
    /\ UNCHANGED <<grab, aged, events, blocklist, envVars, syncPc, answered, syncRow,
                   impVars, ghosts>>

(* No client lists the download, but the path the row remembers is there. *)
OnDisk(r) == snap[r].path /\ r \in disk

SyncTrustDisk(r) ==
    /\ AtRow(r) /\ view[r] = "none" /\ OnDisk(r)
    /\ UpdateRow(r, "completed", StaleOnMove(r), path[r])
    /\ Done(r)
    /\ UNCHANGED <<grab, aged, events, blocklist, envVars, syncPc, answered, syncRow,
                   impVars, ghosts>>

SyncStale(r) ==
    /\ AtRow(r) /\ view[r] = "none" /\ ~OnDisk(r) /\ Reachable(r)
    /\ snap[r].stale + 1 < StaleLimit
    /\ UpdateRow(r, status[r], snap[r].stale + 1, path[r])
    /\ Done(r)
    /\ UNCHANGED <<grab, aged, events, blocklist, envVars, syncPc, answered, syncRow,
                   impVars, ghosts>>

(* Missing for StaleLimit cycles: the row goes, then its failure is recorded. *)
SyncDrop(r) ==
    /\ AtRow(r) /\ view[r] = "none" /\ ~OnDisk(r) /\ Reachable(r)
    /\ snap[r].stale + 1 >= StaleLimit
    /\ DeleteRow(r)
    /\ syncRow' = r
    /\ UNCHANGED <<grab, events, blocklist, envVars, syncPc, todo, snap, view,
                   answered, impVars, ghosts>>

SyncUnreachable(r) ==
    /\ AtRow(r) /\ view[r] = "none" /\ ~OnDisk(r) /\ ~Reachable(r)
    /\ Done(r)
    /\ UNCHANGED <<dbVars, envVars, syncPc, answered, syncRow, impVars, ghosts>>

SyncRecord ==
    /\ syncRow # NoRow
    /\ RecordFailure(syncRow, events[syncRow])
    /\ Done(syncRow)
    /\ syncRow' = NoRow
    /\ UNCHANGED <<grab, status, stale, path, aged, envVars, syncPc, answered, impVars,
                   ghosts>>

(* The purge of failed rows that ends a pass which had rows to sync. *)
SyncPurge ==
    /\ syncPc = "apply" /\ todo = {} /\ syncRow = NoRow
    /\ LET old == {r \in aged : status[r] = "failed"} IN
          /\ status' = [r \in Rows |-> IF r \in old THEN "absent" ELSE status[r]]
          /\ stale' = [r \in Rows |-> IF r \in old THEN 0 ELSE stale[r]]
          /\ path' = [r \in Rows |-> IF r \in old THEN FALSE ELSE path[r]]
          /\ aged' = aged \ old
    /\ syncPc' = "idle" /\ answered' = {}
    /\ UNCHANGED <<grab, events, blocklist, envVars, todo, snap, view, syncRow,
                   impVars, ghosts>>

SyncReset ==
    /\ syncPc' = "idle" /\ todo' = {} /\ answered' = {} /\ syncRow' = NoRow
    /\ snap' = [r \in Rows |-> Blank]
    /\ view' = [r \in Rows |-> "none"]

(* A statement fails and `?` ends the pass; the next tick starts a new one. *)
SyncAbort ==
    /\ "db" \in Faults
    /\ syncPc # "idle" /\ syncRow = NoRow
    /\ SyncReset
    /\ UNCHANGED <<dbVars, envVars, impVars, ghosts>>

-----------------------------------------------------------------------------
(* importer_task. *)

(* Mutant: rows that were tried before are left out. *)
ReadyOnce(r) == status[r] = "completed" /\ stale[r] = 0

Ready(r) == status[r] = "completed"

ImpSelect ==
    /\ impPc = "idle"
    /\ \E r \in Rows : Ready(r)
    /\ batch' = {r \in Rows : Ready(r)}
    /\ impSnap' = [r \in Rows |->
                     IF Ready(r)
                     THEN [status |-> status[r], stale |-> stale[r], path |-> path[r]]
                     ELSE Blank]
    /\ impPc' = "next"
    /\ UNCHANGED <<dbVars, envVars, syncVars, impRow, activity, outcome, ghosts>>

(* The stored path is gone, or there is none and the client's configured     *)
(* directory does not hold the download either: `continue`.                  *)
ImpSkip(r) ==
    /\ impPc = "next" /\ r \in batch
    /\ ~(impSnap[r].path /\ r \in disk)
    /\ batch' = batch \ {r}
    /\ impSnap' = [impSnap EXCEPT ![r] = Blank]
    /\ UNCHANGED <<dbVars, envVars, syncVars, impPc, impRow, activity, outcome, ghosts>>

ImpMark(r) ==
    /\ impPc = "next" /\ r \in batch
    /\ r \in disk
    /\ UpdateRow(r, "importing", stale[r], path[r])
    /\ impRow' = r
    /\ batch' = batch \ {r}
    /\ impPc' = "activity"
    /\ UNCHANGED <<grab, aged, events, blocklist, envVars, syncVars, impSnap, activity,
                   outcome, ghosts>>

(* Only the first attempt opens an activity record. *)
FirstAttempt(r) == impSnap[r].stale = 0

ImpActivity ==
    /\ impPc = "activity"
    /\ activity' = FirstAttempt(impRow)
    /\ events' = [events EXCEPT ![impRow] =
                    IF FirstAttempt(impRow) THEN @ \cup {"import_started"} ELSE @]
    /\ impPc' = "run"
    /\ UNCHANGED <<grab, status, stale, path, aged, blocklist, envVars, syncVars, batch,
                   impSnap, impRow, outcome, ghosts>>

(* process_completed_download: every file imported or skipped, some file in  *)
(* error, or no scan at all.  Files may have been moved in the first two.    *)
ImpRun ==
    /\ impPc = "run"
    /\ \/ outcome' \in {"ok", "errors"} /\ disk' \in {disk, disk \ {impRow}}
       \/ outcome' = "fatal" /\ UNCHANGED disk
    /\ attempts' = [attempts EXCEPT ![impRow] = @ + 1]
    /\ impPc' = "outcome"
    /\ UNCHANGED <<dbVars, owner, item, syncVars, batch, impSnap, impRow, activity,
                   finished, removed>>

(* The activity record an attempt opened changes its event type. *)
Close(r, E, e) == IF activity THEN (E \ {"import_started"}) \cup {e} ELSE E

ImpImported ==
    /\ impPc = "outcome" /\ outcome = "ok"
    /\ LET all == Close(impRow, events[impRow], "imported") \cup {"download_imported"} IN
       \/ events' = [events EXCEPT ![impRow] = all]
       \/ /\ "db" \in Faults
          /\ events' \in {events,
                          [events EXCEPT ![impRow] = Close(impRow, @, "imported")],
                          [events EXCEPT ![impRow] = @ \cup {"download_imported"}]}
    /\ impPc' = "remove"
    /\ UNCHANGED <<grab, status, stale, path, aged, blocklist, envVars, syncVars, batch,
                   impSnap, impRow, activity, outcome, ghosts>>

NextRow ==
    /\ impPc' = "next" /\ impRow' = NoRow
    /\ activity' = FALSE /\ outcome' = "ok"
    /\ impSnap' = [impSnap EXCEPT ![impRow] = Blank]

ImpRemove ==
    /\ impPc = "remove"
    /\ DeleteRow(impRow)
    /\ NextRow
    /\ UNCHANGED <<grab, events, blocklist, envVars, syncVars, batch, ghosts>>

(* stale_count is now the number of failed imports. *)
Exhausted(r) == impSnap[r].stale + 1 >= MaxAttempts

ImpRetry ==
    /\ impPc = "outcome" /\ outcome = "errors" /\ ~Exhausted(impRow)
    /\ UpdateRow(impRow, "completed", impSnap[impRow].stale + 1, path[impRow])
    /\ NextRow
    /\ UNCHANGED <<grab, aged, events, blocklist, envVars, syncVars, batch, ghosts>>

ImpFail ==
    /\ impPc = "outcome"
    /\ \/ /\ outcome = "errors" /\ Exhausted(impRow)
          /\ UpdateRow(impRow, "failed", impSnap[impRow].stale + 1, path[impRow])
       \/ /\ outcome = "fatal"
          /\ UpdateRow(impRow, "failed", stale[impRow], path[impRow])
    /\ impPc' = "record"
    /\ UNCHANGED <<grab, aged, events, blocklist, envVars, syncVars, batch, impSnap,
                   impRow, activity, outcome, ghosts>>

ImpRecord ==
    /\ impPc = "record"
    /\ \E E \in {Close(impRow, events[impRow], "download_failed")}
                \cup (IF "db" \in Faults THEN {events[impRow]} ELSE {}) :
          RecordFailure(impRow, E)
    /\ NextRow
    /\ UNCHANGED <<grab, status, stale, path, aged, envVars, syncVars, batch, ghosts>>

ImpEnd ==
    /\ impPc = "next" /\ batch = {}
    /\ impPc' = "idle"
    /\ UNCHANGED <<dbVars, envVars, syncVars, batch, impSnap, impRow, activity, outcome,
                   ghosts>>

ImpReset ==
    /\ impPc' = "idle" /\ batch' = {} /\ impRow' = NoRow
    /\ impSnap' = [r \in Rows |-> Blank]
    /\ activity' = FALSE /\ outcome' = "ok"

(* A statement whose error is not ignored fails: the UPDATE that marks the    *)
(* row, the INSERT of the activity, or the last write to the queue.          *)
ImpAbort ==
    /\ "db" \in Faults
    /\ \/ impPc = "next" /\ batch # {}
       \/ impPc \in {"activity", "remove"}
       \/ impPc = "outcome" /\ outcome # "ok"
    /\ ImpReset
    /\ UNCHANGED <<dbVars, envVars, syncVars, ghosts>>

-----------------------------------------------------------------------------
(* Mutant: start-up hands rows left 'importing' back to the importer. *)
CrashRequeue ==
    /\ "crash" \in Faults
    /\ SyncReset
    /\ ImpReset
    /\ grab' = [r \in Rows |-> IF grab[r] = "adding" THEN "lost" ELSE grab[r]]
    /\ status' = [r \in Rows |->
                     IF status[r] = "importing" THEN "completed" ELSE status[r]]
    /\ UNCHANGED <<stale, path, aged, events, blocklist, envVars, ghosts>>

(* The process dies and starts again: the database and the disk survive, a   *)
(* grab between its two steps is forgotten.  Start-up touches no queue row.  *)
Crash ==
    /\ "crash" \in Faults
    /\ SyncReset
    /\ ImpReset
    /\ grab' = [r \in Rows |-> IF grab[r] = "adding" THEN "lost" ELSE grab[r]]
    /\ UNCHANGED <<status, stale, path, aged, events, blocklist, envVars, ghosts>>

SyncRow(r) ==
    \/ SyncMove(r) \/ SyncSame(r) \/ SyncTrustDisk(r)
    \/ SyncStale(r) \/ SyncDrop(r) \/ SyncUnreachable(r)

Sync ==
    \/ SyncSelect \/ SyncNothing \/ SyncPoll
    \/ \E r \in Rows : SyncRow(r)
    \/ SyncRecord \/ SyncPurge

Import ==
    \/ ImpSelect
    \/ \E r \in Rows : ImpSkip(r) \/ ImpMark(r)
    \/ ImpActivity \/ ImpRun \/ ImpImported \/ ImpRemove
    \/ ImpRetry \/ ImpFail \/ ImpRecord \/ ImpEnd

Others ==
    \/ \E r \in Rows : \/ \E c \in Clients : GrabAdd(r, c)
                       \/ GrabInsert(r) \/ UserDelete(r) \/ Age(r)
    \/ \E r \in Rows : \/ \E s \in ItemStatuses : ClientProgress(r, s)
                       \/ ClientForget(r)
    \/ SyncAbort \/ ImpAbort \/ Crash

Next == Sync \/ Import \/ Others

Spec == Init /\ [][Next]_vars

(* Both tasks loop for ever on their own timers (interval 60 s and 30 s).    *)
FairSpec == Spec /\ WF_vars(Sync) /\ WF_vars(Import) /\ \A r \in Rows : WF_vars(Age(r))

-----------------------------------------------------------------------------
TypeOK ==
    /\ grab \in [Rows -> {"free", "adding", "inserted", "lost"}]
    /\ status \in [Rows -> Statuses \cup {"absent"}]
    /\ stale \in [Rows -> Nat]
    /\ path \in [Rows -> BOOLEAN]
    /\ aged \subseteq Rows
    /\ events \in [Rows -> SUBSET Events]
    /\ blocklist \in [Rows -> Nat]
    /\ owner \in [Rows -> Clients \cup {NoRow}]
    /\ item \in [Rows -> ItemStatuses \cup {"none"}]
    /\ disk \subseteq Rows
    /\ syncPc \in {"idle", "poll", "apply"}
    /\ todo \subseteq Rows
    /\ snap \in [Rows -> Snapshot]
    /\ view \in [Rows -> ItemStatuses \cup {"none"}]
    /\ answered \subseteq Clients
    /\ syncRow \in Rows \cup {NoRow}
    /\ impPc \in {"idle", "next", "activity", "run", "outcome", "remove", "record"}
    /\ batch \subseteq Rows
    /\ impSnap \in [Rows -> Snapshot]
    /\ impRow \in Rows \cup {NoRow}
    /\ activity \in BOOLEAN
    /\ outcome \in {"ok", "errors", "fatal"}
    /\ attempts \in [Rows -> Nat]
    /\ finished \subseteq Rows
    /\ removed \subseteq Rows

(* While the importer works on a row, the row is 'importing' or a user       *)
(* deleted it: no unguarded UPDATE of the concurrent download_sync_task,     *)
(* made from a snapshot taken before, puts another status back.              *)
ImporterOwnsRow ==
    impPc \in {"activity", "run", "outcome", "remove"} =>
        status[impRow] \in {"importing", "absent"}

(* A row that was inserted and is gone was imported, was deleted by a user,  *)
(* or left a blocklist entry (or its failure is just being recorded), and a  *)
(* row that is 'failed' is blocklisted: a release is never silently lost.    *)
NothingLost ==
    \A r \in Rows :
        grab[r] = "inserted" /\ status[r] \in {"absent", "failed"} =>
            \/ r \in removed
            \/ "download_imported" \in events[r]
            \/ blocklist[r] > 0
            \/ syncRow = r
            \/ impRow = r /\ impPc = "record"

(* A download has one ending: its release is blocklisted at most once, and   *)
(* never when it was imported.                                               *)
SettledOnce ==
    \A r \in Rows :
        /\ blocklist[r] <= 1
        /\ "download_imported" \in events[r] => blocklist[r] = 0

(* The pipeline runs at most MaxAttempts times on a row, although the        *)
(* counter is the one download_sync_task uses for missed polls.              *)
AttemptsBounded == \A r \in Rows : attempts[r] <= MaxAttempts

(* The first run of the pipeline on a row left an activity in the history,   *)
(* which the counter decides: a missed poll must not be taken for a retry.   *)
FirstAttemptLogged == \A r \in Rows : attempts[r] > 0 => events[r] # {}

(* Once completed, a download whose files stay where its row says they are   *)
(* is imported, failed or deleted in the end.                                *)
CompletedSettles ==
    \A r \in Rows :
        status[r] = "completed" ~>
            (status[r] \in {"absent", "failed"} \/ r \notin disk \/ ~path[r])

-----------------------------------------------------------------------------
(* The life of a row, read off the table and the records it leaves. *)
Life(r) ==
    IF grab[r] # "inserted" THEN "unborn"
    ELSE CASE status[r] = "absent"    -> "gone"
           [] status[r] = "completed" -> "ready"
           [] status[r] = "importing" -> "importing"
           [] status[r] = "failed"    -> "failed"
           [] OTHER                   -> "active"

Verdict(r) ==
    IF "download_imported" \in events[r] THEN "imported"
    ELSE IF blocklist[r] > 0 THEN "blocklisted" ELSE "open"

Lifecycle == INSTANCE QueueLifecycle
                WITH life    <- [r \in Rows |-> Life(r)],
                     verdict <- [r \in Rows |-> Verdict(r)]

(* The two tasks, the grabs and the user together implement the life cycle:  *)
(* a row never goes back from completed to downloading, only an importing    *)
(* row is imported, and one verdict is passed on each download.              *)
LifecycleSpec == Lifecycle!Spec

-----------------------------------------------------------------------------
(* What comments and documents say and the code does not do. *)

(* download_sync_task: "check if the download completed but fell out of the  *)
(* in-memory history window".                                                *)
OnlyFinishedComplete == \A r \in Rows : status[r] = "completed" => r \in finished
=============================================================================
