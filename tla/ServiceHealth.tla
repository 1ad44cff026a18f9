--------------------------- MODULE ServiceHealth ---------------------------
(***************************************************************************)
(* Indexers and external download clients live twice: as rows of their     *)
(* table and as entries of a live manager, which searches and grabs read.  *)
(* The health_check task tests each service, counts consecutive failures,  *)
(* disables a service that keeps failing and enables it again when it      *)
(* recovers; API requests create, edit and delete rows meanwhile.  A test  *)
(* takes up to 15 s, and what follows it is decided by the row read before.*)
(***************************************************************************)
EXTENDS Naturals, Sequences

CONSTANTS
    Indexers,     \* ids of the `indexers` table (Newznab and Torznab)
    Downloaders,  \* ids of the `download_clients` table, embedded ones left out
    Requests,     \* API requests on indexers that may be in flight at once
    Threshold,    \* FAILURE_THRESHOLD: 3
    FailureCap,   \* the failure counters are followed up to here
    MaxMishaps,   \* how many restarts and failing statements there may be
    NoService     \* no service

ASSUME ThresholdAssumption ==
    /\ Threshold \in Nat \ {0} /\ FailureCap \in Nat /\ FailureCap >= Threshold
    /\ MaxMishaps \in Nat

ASSUME ServicesAssumption ==
    /\ Indexers \cap Downloaders = {}
    /\ NoService \notin Indexers \cup Downloaders

Services == Indexers \cup Downloaders

VARIABLES
    (* the two tables *)
    rows,     \* ids with a row
    used,     \* ids the sequences have handed out
    enabled,  \* the user's switch, which the task writes too
    auto,     \* auto_disabled
    failures, \* consecutive_failures
    (* the two managers *)
    live,     \* per id, the `enabled` flags of its entries, oldest first
    (* the services *)
    up,       \* services that answer their test
    (* health_check_task *)
    hcPc, hcKind, hcTodo, snap, hcRow,
    (* API requests on indexers, between their database and manager halves *)
    req,
    mishaps,  \* restarts and failing statements so far
    (* history variables *)
    streak,   \* tests in a row the service has really failed
    unwritten \* services that passed a test their row does not know of

rowVars == <<rows, used, enabled, auto, failures>>
hcVars  == <<hcPc, hcKind, hcTodo, snap, hcRow>>
history == <<streak, unwritten>>
vars    == <<rowVars, live, up, hcVars, req, mishaps, history>>

Blank   == [enabled |-> FALSE, auto |-> FALSE, failures |-> 0]
NoReq   == [pc |-> "idle", on |-> NoService, flag |-> FALSE]
Kinds   == {"downloader", "indexer"}
OfKind(k) == IF k = "downloader" THEN Downloaders ELSE Indexers
Capped(n) == IF n > FailureCap THEN FailureCap ELSE n

(* The task holds the manager's write lock while it awaits an UPDATE. *)
Locked(s) == s = hcRow /\ hcPc = "disabling"

(* add_client, add_indexer: an entry is appended, enabled. *)
Registered(entries) == Append(entries, TRUE)

(* set_enabled: the first entry with the id, if there is one. *)
Switched(entries, on) ==
    IF entries = <<>> THEN entries ELSE [entries EXCEPT ![1] = on]

-----------------------------------------------------------------------------
Init ==
    /\ rows = {} /\ used = {}
    /\ enabled = [s \in Services |-> FALSE]
    /\ auto = [s \in Services |-> FALSE]
    /\ failures = [s \in Services |-> 0]
    /\ live = [s \in Services |-> <<>>]
    /\ up \in {{}, Services}
    /\ hcPc = "select" /\ hcKind = "downloader" /\ hcTodo = {} /\ hcRow = NoService
    /\ snap = [s \in Services |-> Blank]
    /\ req = [q \in Requests |-> NoReq]
    /\ mishaps = 0
    /\ streak = [s \in Services |-> 0] /\ unwritten = {}

-----------------------------------------------------------------------------
(* The services themselves: external. *)
Flip(s) ==
    /\ up' \in {up \cup {s}, up \ {s}} \ {up}
    /\ UNCHANGED <<rowVars, live, hcVars, req, mishaps, history>>

-----------------------------------------------------------------------------
(* The API on download clients writes the table and never the manager. *)

InsertRow(s, e) ==
    /\ s \notin used
    /\ rows' = rows \cup {s} /\ used' = used \cup {s}
    /\ enabled' = [enabled EXCEPT ![s] = e]
    /\ UNCHANGED <<auto, failures>>

DropRow(s) ==
    /\ s \in rows
    /\ rows' = rows \ {s}
    /\ enabled' = [enabled EXCEPT ![s] = FALSE]
    /\ auto' = [auto EXCEPT ![s] = FALSE]
    /\ failures' = [failures EXCEPT ![s] = 0]
    /\ UNCHANGED used

(* An edit that does not name `enabled` keeps it. *)
EditRow(s, e) ==
    /\ s \in rows
    /\ enabled' = [enabled EXCEPT ![s] = e]
    /\ UNCHANGED <<rows, used, auto, failures>>

CreateDownloader(s, e) == InsertRow(s, e) /\ UNCHANGED <<live, up, hcVars, req, mishaps, history>>
UpdateDownloader(s, e) == EditRow(s, e) /\ UNCHANGED <<live, up, hcVars, req, mishaps, history>>
DeleteDownloader(s) == DropRow(s) /\ UNCHANGED <<live, up, hcVars, req, mishaps, history>>

-----------------------------------------------------------------------------
(* The API on indexers: a statement, then one or two sections under the      *)
(* manager's write lock, which other requests and the task may come between. *)

Begin(q, step, s, e) ==
    /\ req[q] = NoReq
    /\ req' = [req EXCEPT ![q] = [pc |-> step, on |-> s, flag |-> e]]
    /\ UNCHANGED <<live, up, hcVars, mishaps, history>>

CreateIndexer(q, s, e) == InsertRow(s, e) /\ Begin(q, "register", s, e)
UpdateIndexer(q, s, e) == EditRow(s, e) /\ Begin(q, "remove", s, e)
DeleteIndexer(q, s) == DropRow(s) /\ Begin(q, "unlink", s, FALSE)

RemoveEntry(q) ==
    LET s == req[q].on IN
    /\ req[q].pc \in {"remove", "unlink"} /\ ~Locked(s)
    /\ live' = [live EXCEPT ![s] = <<>>]
    /\ req' = [req EXCEPT ![q] = IF @.pc = "remove" THEN [@ EXCEPT !.pc = "register"]
                                                    ELSE NoReq]
    /\ UNCHANGED <<rowVars, up, hcVars, mishaps, history>>

(* register_indexer_in_manager: with the row the statement returned. *)
RegisterEntry(q) ==
    LET s == req[q].on
        added == Registered(live[s]) IN
    /\ req[q].pc = "register" /\ ~Locked(s)
    /\ live' = [live EXCEPT ![s] = IF req[q].flag THEN added ELSE Switched(added, FALSE)]
    /\ req' = [req EXCEPT ![q] = NoReq]
    /\ UNCHANGED <<rowVars, up, hcVars, mishaps, history>>

-----------------------------------------------------------------------------
(* health_check_task: the download clients, then the indexers. *)

HealthSelect ==
    /\ hcPc = "select"
    /\ hcTodo' = rows \cap OfKind(hcKind)
    /\ snap' = [s \in Services |->
                  IF s \in rows \cap OfKind(hcKind)
                  THEN [enabled |-> enabled[s], auto |-> auto[s], failures |-> failures[s]]
                  ELSE Blank]
    /\ hcPc' = "row"
    /\ UNCHANGED <<rowVars, live, up, hcKind, hcRow, req, mishaps, history>>

(* The first loop is over: on to the indexers, or to sleep. *)
HealthNext ==
    /\ hcPc = "row" /\ hcTodo = {}
    /\ hcKind' \in Kinds \ {hcKind}
    /\ hcPc' = "select"
    /\ UNCHANGED <<rowVars, live, up, hcTodo, snap, hcRow, req, mishaps, history>>

(* The task is done with a row. *)
Leave(s) ==
    /\ hcTodo' = hcTodo \ {s} /\ hcRow' = NoService
    /\ snap' = [snap EXCEPT ![s] = Blank]
    /\ hcPc' = "row"
    /\ UNCHANGED hcKind

(* Mutant: a disabled service is not tested, whoever disabled it. *)
DisabledByAny(s) == ~snap[s].enabled

(* A service the user disabled is not tested. *)
UserDisabled(s) == ~snap[s].enabled /\ ~snap[s].auto

(* Nor is one without an entry, but a download client that was auto-disabled *)
(* is built anew.                                                            *)
HealthSkip(s) ==
    /\ hcPc = "row" /\ s \in hcTodo
    /\ UserDisabled(s) \/ (live[s] = <<>> /\ ~(s \in Downloaders /\ snap[s].auto))
    /\ Leave(s)
    /\ UNCHANGED <<rowVars, live, up, req, mishaps, history>>

(* client_by_id, get_client: the entry is cloned out of the lock and tested. *)
HealthTest(s) ==
    /\ hcPc = "row" /\ s \in hcTodo /\ ~UserDisabled(s) /\ live[s] # <<>>
    /\ hcPc' = "testing" /\ hcRow' = s
    /\ UNCHANGED <<rowVars, live, up, hcKind, hcTodo, snap, req, mishaps, history>>

(* The test passed. *)
HealthPassed ==
    /\ hcPc = "testing" /\ hcRow \in up
    /\ streak' = [streak EXCEPT ![hcRow] = 0]
    /\ \/ /\ snap[hcRow].auto \/ snap[hcRow].failures > 0
          /\ hcPc' = IF snap[hcRow].auto THEN "recovered" ELSE "reset"
          /\ unwritten' = unwritten \cup {hcRow}
          /\ UNCHANGED <<hcKind, hcTodo, snap, hcRow>>
       \/ /\ ~snap[hcRow].auto /\ snap[hcRow].failures = 0
          /\ Leave(hcRow)
          /\ UNCHANGED unwritten
    /\ UNCHANGED <<rowVars, live, up, req, mishaps>>

(* Mutant: a service is disabled one failure late. *)
KeepsFailingLate(s) == snap[s].failures + 1 > Threshold /\ ~snap[s].auto

KeepsFailing(s) == snap[s].failures + 1 >= Threshold /\ ~snap[s].auto

(* The test failed or timed out. *)
HealthFailed ==
    /\ hcPc = "testing" /\ hcRow \notin up
    /\ streak' = [streak EXCEPT ![hcRow] = Capped(@ + 1)]
    /\ hcPc' = IF KeepsFailing(hcRow) THEN "failing" ELSE "count"
    /\ UNCHANGED <<rowVars, live, up, hcKind, hcTodo, snap, hcRow, req, mishaps, unwritten>>

(* Mutant: a row that was deleted meanwhile is written back. *)
SaveRowAnyway(e, a, n) ==
    /\ enabled' = [enabled EXCEPT ![hcRow] = e]
    /\ auto' = [auto EXCEPT ![hcRow] = a]
    /\ failures' = [failures EXCEPT ![hcRow] = Capped(n)]
    /\ UNCHANGED <<rows, used>>

(* An UPDATE of a row that was deleted meanwhile changes nothing. *)
SaveRow(e, a, n) ==
    IF hcRow \in rows
    THEN /\ enabled' = [enabled EXCEPT ![hcRow] = e]
         /\ auto' = [auto EXCEPT ![hcRow] = a]
         /\ failures' = [failures EXCEPT ![hcRow] = Capped(n)]
         /\ UNCHANGED <<rows, used>>
    ELSE UNCHANGED rowVars

HealthEnable ==
    /\ hcPc = "recovered"
    /\ live' = [live EXCEPT ![hcRow] = Switched(@, TRUE)]
    /\ hcPc' = "reset"
    /\ UNCHANGED <<rowVars, up, hcKind, hcTodo, snap, hcRow, req, mishaps, history>>

(* Mutant: the failures before a test that passed stay counted. *)
HealthResetNot ==
    /\ hcPc = "reset"
    /\ SaveRow(TRUE, FALSE, snap[hcRow].failures)
    /\ Leave(hcRow)
    /\ unwritten' = unwritten \ {hcRow}
    /\ UNCHANGED <<live, up, req, mishaps, streak>>

(* The row is written as healthy, which enables it. *)
HealthReset ==
    /\ hcPc = "reset"
    /\ SaveRow(TRUE, FALSE, 0)
    /\ Leave(hcRow)
    /\ unwritten' = unwritten \ {hcRow}
    /\ UNCHANGED <<live, up, req, mishaps, streak>>

NewFailures(s) == snap[s].failures + 1

HealthCount ==
    /\ hcPc = "count"
    /\ SaveRow(enabled[hcRow], auto[hcRow], NewFailures(hcRow))
    /\ Leave(hcRow)
    /\ UNCHANGED <<live, up, req, mishaps, history>>

(* The write lock is held from here ... *)
HealthDisable ==
    /\ hcPc = "failing"
    /\ live' = [live EXCEPT ![hcRow] = Switched(@, FALSE)]
    /\ hcPc' = "disabling"
    /\ UNCHANGED <<rowVars, up, hcKind, hcTodo, snap, hcRow, req, mishaps, history>>

(* ... until the row is written. *)
HealthDisabled ==
    /\ hcPc = "disabling"
    /\ SaveRow(FALSE, TRUE, NewFailures(hcRow))
    /\ Leave(hcRow)
    /\ UNCHANGED <<live, up, req, mishaps, history>>

(* Mutant: the client is built without a look at the manager. *)
UnregisteredAny(s) == s \in Downloaders /\ snap[s].auto

(* An auto-disabled download client that start-up did not register. *)
Unregistered(s) == s \in Downloaders /\ snap[s].auto /\ live[s] = <<>>

HealthRebuild(s) ==
    /\ hcPc = "row" /\ s \in hcTodo /\ Unregistered(s)
    /\ hcPc' = "rebuilding" /\ hcRow' = s
    /\ UNCHANGED <<rowVars, live, up, hcKind, hcTodo, snap, req, mishaps, history>>

(* The row is gone, the client cannot be built or it fails its test. *)
HealthNotRebuilt ==
    /\ hcPc = "rebuilding" /\ hcRow \notin up \cap rows
    /\ Leave(hcRow)
    /\ UNCHANGED <<rowVars, live, up, req, mishaps, history>>

HealthRebuilt ==
    /\ hcPc = "rebuilding" /\ hcRow \in up
    /\ live' = [live EXCEPT ![hcRow] = Registered(@)]
    /\ streak' = [streak EXCEPT ![hcRow] = 0] /\ unwritten' = unwritten \cup {hcRow}
    /\ hcPc' = "reset"
    /\ UNCHANGED <<rowVars, up, hcKind, hcTodo, snap, hcRow, req, mishaps>>

-----------------------------------------------------------------------------
Mishap == mishaps < MaxMishaps /\ mishaps' = mishaps + 1

(* A SELECT fails: the task is done with the kind. *)
HealthUnread ==
    /\ hcPc = "select" /\ Mishap
    /\ hcKind' \in Kinds \ {hcKind}
    /\ UNCHANGED <<rowVars, live, up, hcPc, hcTodo, snap, hcRow, req, history>>

(* An UPDATE, or the SELECT before a client is built, fails: its error is    *)
(* dropped and the task goes on to the next row.                             *)
HealthUnwritten ==
    /\ hcPc \in {"reset", "count", "disabling", "rebuilding"} /\ Mishap
    /\ Leave(hcRow)
    /\ UNCHANGED <<rowVars, live, up, req, history>>

(* The process starts again: every indexer is loaded with its flag, but only *)
(* the enabled download clients.  What a task or a request still had to do   *)
(* is lost.                                                                  *)
Restart ==
    /\ Mishap
    /\ live' = [s \in Services |->
                  IF s \in rows /\ (s \in Indexers \/ enabled[s]) THEN <<enabled[s]>>
                                                                 ELSE <<>>]
    /\ hcPc' = "select" /\ hcKind' = "downloader" /\ hcTodo' = {} /\ hcRow' = NoService
    /\ snap' = [s \in Services |-> Blank]
    /\ req' = [q \in Requests |-> NoReq]
    /\ UNCHANGED <<rowVars, up, history>>

Health ==
    \/ HealthSelect \/ HealthNext
    \/ \E s \in Services : HealthSkip(s) \/ HealthTest(s) \/ HealthRebuild(s)
    \/ HealthPassed \/ HealthFailed
    \/ HealthEnable \/ HealthReset \/ HealthCount \/ HealthDisable \/ HealthDisabled
    \/ HealthNotRebuilt \/ HealthRebuilt

Request(q) == RemoveEntry(q) \/ RegisterEntry(q)

Users ==
    \/ \E s \in Downloaders : \/ \E e \in BOOLEAN : CreateDownloader(s, e) \/ UpdateDownloader(s, e)
                              \/ DeleteDownloader(s)
    \/ \E q \in Requests, s \in Indexers :
          \/ \E e \in BOOLEAN : CreateIndexer(q, s, e) \/ UpdateIndexer(q, s, e)
          \/ DeleteIndexer(q, s)

Next ==
    \/ Health \/ HealthUnread \/ HealthUnwritten \/ Users \/ Restart
    \/ \E q \in Requests : Request(q)
    \/ \E s \in Services : Flip(s)

Spec == Init /\ [][Next]_vars

(* The task runs every five minutes for ever; a request that has begun is    *)
(* carried through.                                                          *)
FairSpec == Spec /\ WF_vars(Health) /\ \A q \in Requests : WF_vars(Request(q))

-----------------------------------------------------------------------------
TypeOK ==
    /\ rows \subseteq used /\ used \subseteq Services
    /\ enabled \in [Services -> BOOLEAN]
    /\ auto \in [Services -> BOOLEAN]
    /\ failures \in [Services -> 0..FailureCap]
    /\ \A s \in Services \ rows : ~enabled[s] /\ ~auto[s] /\ failures[s] = 0
    /\ live \in [Services -> Seq(BOOLEAN)]
    /\ up \subseteq Services
    /\ hcPc \in {"select", "row", "testing", "recovered", "reset", "failing", "disabling",
                 "count", "rebuilding"}
    /\ hcKind \in Kinds
    /\ hcTodo \subseteq Services
    /\ snap \in [Services -> [enabled : BOOLEAN, auto : BOOLEAN, failures : 0..FailureCap]]
    /\ hcRow \in Services \cup {NoService}
    /\ req \in [Requests -> [pc : {"idle", "remove", "register", "unlink"},
                             on : Services \cup {NoService}, flag : BOOLEAN]]
    /\ mishaps \in 0..MaxMishaps
    /\ streak \in [Services -> 0..FailureCap] /\ unwritten \subseteq Services

(* A service that is not auto-disabled has failed fewer than Threshold times:*)
(* no user's edit and no restart between a test and its UPDATE lets a count  *)
(* slip past the test for it.                                                *)
FailingIsDisabled == \A s \in rows : ~auto[s] => failures[s] < Threshold

(* The task auto-disables a service only when its last Threshold tests have  *)
(* all failed, although the count it adds to was read before the test and    *)
(* outlives the process.  The one exemption is a pass that was not written:  *)
(* its UPDATE failed, or the process ended first.  The table then still      *)
(* counts the failures before it, and a single failure more may disable.     *)
DisabledAfterFailures ==
    [][\A s \in Services :
          ~auto[s] /\ auto'[s] => streak[s] >= Threshold \/ s \in unwritten]_vars

(* A download client has one entry in the manager: the task's look and its   *)
(* add_client are awaits apart, and add_client does not replace.             *)
OneClientEach == \A s \in Downloaders : Len(live[s]) <= 1

Quiet(s) == \A q \in Requests : req[q].on # s

(* A service that answers its tests again is enabled again, also when it was *)
(* auto-disabled before a restart, which does not register it.               *)
Recovers ==
    \A s \in Services :
        <>[](s \in up /\ Quiet(s)) => (auto[s] ~> ~auto[s])

(* A live service that stops answering is disabled in the end. *)
DownIsDisabled ==
    \A s \in Services :
        <>[](s \notin up /\ Quiet(s)) =>
            ((enabled[s] /\ ~auto[s] /\ live[s] # <<>>) ~> (~enabled[s] \/ auto[s]))

-----------------------------------------------------------------------------
(* What comments and documents say and the code does not do. *)

(* check_indexers: "Skip user-disabled indexers": the task does not enable   *)
(* what a user disabled.                                                     *)
UserDisableHonoured ==
    [][\A s \in rows : ~enabled[s] /\ ~auto[s] /\ enabled'[s] => UNCHANGED hcPc]_vars

(* SCHEDULER.md: the health check "tests all download clients and indexers.  *)
(* ... Auto-disables services after 3 consecutive failures".                 *)
EveryDownIsDisabled ==
    \A s \in Services :
        <>[](s \notin up /\ Quiet(s)) =>
            ((enabled[s] /\ live[s] # <<>>) ~> ~enabled[s])
=============================================================================
