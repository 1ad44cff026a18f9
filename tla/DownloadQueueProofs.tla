------------------------ MODULE DownloadQueueProofs ------------------------
(***************************************************************************)
(* The safety of DownloadQueue, and that it implements QueueLifecycle, for  *)
(* every set of rows, clients and faults, and every value of the two       *)
(* limits.                                                                 *)
(***************************************************************************)
EXTENDS DownloadQueue, TLAPS

Settled(r) == "download_imported" \in events[r] \/ blocklist[r] > 0

(* A row that was never inserted left no trace; a row still with its client  *)
(* has no record yet; a completed row has one failed import per count.       *)
RowOK(r) ==
    /\ grab[r] # "inserted" => status[r] = "absent"
    /\ grab[r] # "inserted" \/ status[r] \in Active =>
          events[r] = {} /\ blocklist[r] = 0 /\ attempts[r] = 0
    /\ status[r] = "completed" =>
          ~Settled(r) /\ attempts[r] = stale[r] /\ stale[r] < MaxAttempts
    /\ attempts[r] <= MaxAttempts
    /\ attempts[r] > 0 => events[r] # {}
    /\ blocklist[r] <= 1
    /\ "download_imported" \in events[r] => blocklist[r] = 0

(* A row of a running sync pass has not moved since the pass selected it.    *)
TodoOK(r) ==
    /\ grab[r] = "inserted" /\ snap[r].status \in Active
    /\ events[r] = {} /\ blocklist[r] = 0 /\ attempts[r] = 0
    /\ r # syncRow => status[r] \in Active \cup {"absent"}

SyncOK ==
    /\ syncPc = "idle" => todo = {}
    /\ syncRow # NoRow =>
          syncPc = "apply" /\ syncRow \in todo /\ status[syncRow] \in {"failed", "absent"}

(* Nor has a row of the importer's batch. *)
BatchOK(r) ==
    /\ grab[r] = "inserted" /\ r \notin todo /\ r # impRow
    /\ status[r] \in {"completed", "absent"} /\ ~Settled(r)
    /\ attempts[r] = impSnap[r].stale /\ attempts[r] < MaxAttempts

(* The row r the importer is at, step by step. *)
CursorOK(r) ==
    /\ grab[r] = "inserted" /\ r \notin todo
    /\ impPc \notin {"idle", "next"}
    /\ impPc = "record" => status[r] \in {"failed", "absent"}
    /\ impPc # "record" => status[r] \in {"importing", "absent"}
    /\ impPc = "remove" => blocklist[r] = 0
    /\ impPc # "remove" => ~Settled(r)
    /\ impPc \in {"activity", "run"} =>
          attempts[r] = impSnap[r].stale /\ attempts[r] < MaxAttempts
    /\ impPc = "run" => events[r] # {}
    /\ impPc = "outcome" => attempts[r] = impSnap[r].stale + 1

ImportOK ==
    /\ impPc = "idle" => batch = {}
    /\ impRow = NoRow => impPc \in {"idle", "next"}
    /\ impRow # NoRow => CursorOK(impRow)

RowInv   == \A r \in Rows : RowOK(r)
TodoInv  == \A r \in todo : TodoOK(r)
BatchInv == \A r \in batch : BatchOK(r)

Core == RowInv /\ TodoInv /\ SyncOK /\ BatchInv /\ ImportOK

IInv == TypeOK /\ Core

-----------------------------------------------------------------------------
(* Lemmas about the helpers the actions share. *)

LEMMA QueueStatusType == \A s \in ItemStatuses : QueueStatus(s) \in Statuses \ {"importing"}
BY ItemsAssumption DEF QueueStatus, Statuses, Active

(* UPDATE ... WHERE id = r touches no other row and brings none back.        *)
LEMMA UpdateRowEffect ==
    ASSUME TypeOK, NEW r \in Rows, NEW st \in Statuses, NEW n \in Nat, NEW p \in BOOLEAN,
           UpdateRow(r, st, n, p)
    PROVE  /\ status' \in [Rows -> Statuses \cup {"absent"}]
           /\ stale' \in [Rows -> Nat]
           /\ path' \in [Rows -> BOOLEAN]
           /\ \A q \in Rows \ {r} : status'[q] = status[q] /\ stale'[q] = stale[q]
           /\ status'[r] = IF status[r] = "absent" THEN "absent" ELSE st
           /\ stale'[r] = IF status[r] = "absent" THEN stale[r] ELSE n
BY DEF UpdateRow, Present, TypeOK, rowVars

LEMMA DeleteRowEffect ==
    ASSUME TypeOK, NEW r \in Rows, DeleteRow(r)
    PROVE  /\ status' \in [Rows -> Statuses \cup {"absent"}]
           /\ stale' \in [Rows -> Nat]
           /\ path' \in [Rows -> BOOLEAN]
           /\ aged' \subseteq Rows
           /\ \A q \in Rows \ {r} : status'[q] = status[q] /\ stale'[q] = stale[q]
           /\ status'[r] = "absent"
BY DEF DeleteRow, TypeOK

LEMMA DoneEffect ==
    ASSUME TypeOK, NEW r \in Rows, Done(r)
    PROVE  /\ todo' \subseteq Rows
           /\ snap' \in [Rows -> Snapshot]
           /\ view' \in [Rows -> ItemStatuses \cup {"none"}]
           /\ todo' = todo \ {r}
           /\ \A q \in Rows \ {r} : snap'[q] = snap[q]
<1>1. Blank \in Snapshot
    BY DEF Blank, Snapshot, Statuses, Active
<1> QED
    BY <1>1 DEF Done, TypeOK

LEMMA RecordFailureEffect ==
    ASSUME TypeOK, NEW r \in Rows, NEW E \in SUBSET Events, RecordFailure(r, E)
    PROVE  /\ blocklist' \in [Rows -> Nat]
           /\ events' \in [Rows -> SUBSET Events]
           /\ \A q \in Rows \ {r} : blocklist'[q] = blocklist[q] /\ events'[q] = events[q]
           /\ blocklist'[r] \in {blocklist[r], blocklist[r] + 1}
           /\ events'[r] \in {E, E \cup {"download_failed"}}
           /\ "db" \notin Faults => blocklist'[r] = blocklist[r] + 1
<1>1. E \cup {"download_failed"} \in SUBSET Events
    BY DEF Events
<1>2. PICK F \in {E, E \cup {"download_failed"}} : events' = [events EXCEPT ![r] = F]
    BY DEF RecordFailure
<1>3. F \in SUBSET Events
    BY <1>1, <1>2
<1>4. /\ events' \in [Rows -> SUBSET Events] /\ events'[r] = F
      /\ \A q \in Rows \ {r} : events'[q] = events[q]
    BY <1>2, <1>3 DEF TypeOK
<1>5. /\ blocklist' \in [Rows -> Nat]
      /\ \A q \in Rows \ {r} : blocklist'[q] = blocklist[q]
      /\ blocklist'[r] \in {blocklist[r], blocklist[r] + 1}
      /\ "db" \notin Faults => blocklist'[r] = blocklist[r] + 1
    BY DEF RecordFailure, TypeOK
<1> QED
    BY <1>2, <1>4, <1>5

LEMMA NextRowEffect ==
    ASSUME TypeOK, impRow \in Rows, NextRow
    PROVE  /\ impPc' = "next" /\ impRow' = NoRow /\ activity' = FALSE /\ outcome' = "ok"
           /\ impSnap' \in [Rows -> Snapshot]
           /\ \A q \in Rows \ {impRow} : impSnap'[q] = impSnap[q]
<1>1. Blank \in Snapshot
    BY DEF Blank, Snapshot, Statuses, Active
<1> QED
    BY <1>1 DEF NextRow, TypeOK

LEMMA CloseEffect ==
    ASSUME NEW r \in Rows, NEW E \in SUBSET Events, NEW e \in Events
    PROVE  /\ Close(r, E, e) \in SUBSET Events
           /\ Close(r, E, e) = E \/ Close(r, E, e) = (E \ {"import_started"}) \cup {e}
<1>1. CASE activity
    BY <1>1 DEF Close
<1>2. CASE ~activity
    BY <1>2 DEF Close
<1> QED
    BY <1>1, <1>2

-----------------------------------------------------------------------------
LEMMA InitInv == Init => IInv
<1> SUFFICES ASSUME Init PROVE IInv
    OBVIOUS
<1>1. TypeOK
    BY DEF Init, TypeOK, Snapshot, Blank, Statuses, Active, Events
<1>2. RowInv
  <2> SUFFICES ASSUME NEW r \in Rows PROVE RowOK(r)
    BY DEF RowInv
  <2>1. /\ grab[r] = "free" /\ status[r] = "absent" /\ events[r] = {}
        /\ blocklist[r] = 0 /\ attempts[r] = 0
    BY DEF Init
  <2> QED
    BY <2>1, LimitsAssumption DEF RowOK, Active
<1>3. TodoInv /\ SyncOK
    BY DEF Init, TodoInv, SyncOK
<1>4. BatchInv /\ ImportOK
    BY DEF Init, BatchInv, ImportOK
<1> QED
    BY <1>1, <1>2, <1>3, <1>4 DEF IInv, Core

-----------------------------------------------------------------------------
(* The cursor of the importer is at a row exactly while it works on one. *)
LEMMA CursorAtRow ==
    ASSUME IInv, impPc \notin {"idle", "next"}
    PROVE  impRow \in Rows /\ CursorOK(impRow)
BY DEF IInv, Core, TypeOK, ImportOK

(* Every step keeps the variables in their types. *)
LEMMA TypeStep == IInv /\ [Next]_vars => TypeOK'
<1> SUFFICES ASSUME IInv, [Next]_vars PROVE TypeOK'
    OBVIOUS
<1> USE DEF dbVars, envVars, syncVars, impVars, ghosts, rowVars
<1>t. TypeOK /\ Blank \in Snapshot
    BY DEF IInv, Blank, Snapshot, Statuses, Active
<1>1. ASSUME NEW r \in Rows, NEW c \in Clients, GrabAdd(r, c) PROVE TypeOK'
    BY <1>t, <1>1, ItemsAssumption DEF TypeOK, GrabAdd
<1>2. ASSUME NEW r \in Rows, GrabInsert(r) PROVE TypeOK'
    BY <1>t, <1>2 DEF TypeOK, GrabInsert, Statuses, Active
<1>3. ASSUME NEW r \in Rows, UserDelete(r) PROVE TypeOK'
    BY <1>t, <1>3, DeleteRowEffect DEF TypeOK, UserDelete
<1>4. ASSUME NEW r \in Rows, Age(r) PROVE TypeOK'
    BY <1>t, <1>4 DEF TypeOK, Age
<1>5. ASSUME NEW r \in Rows, NEW s \in ItemStatuses, ClientProgress(r, s) PROVE TypeOK'
    BY <1>t, <1>5 DEF TypeOK, ClientProgress
<1>6. ASSUME NEW r \in Rows, ClientForget(r) PROVE TypeOK'
    BY <1>t, <1>6 DEF TypeOK, ClientForget
<1>7. ASSUME SyncSelect PROVE TypeOK'
  <2>1. \A r \in Rows : Pending(r) =>
           [status |-> status[r], stale |-> stale[r], path |-> path[r]] \in Snapshot
    BY <1>t DEF TypeOK, Pending, Snapshot, Statuses
  <2>2. snap' \in [Rows -> Snapshot]
    BY <1>t, <1>7, <2>1 DEF SyncSelect
  <2> QED
    BY <1>t, <1>7, <2>2 DEF TypeOK, SyncSelect
<1>8. ASSUME SyncPoll PROVE TypeOK'
    BY <1>t, <1>8 DEF TypeOK, SyncPoll
<1>9. ASSUME NEW r \in Rows, SyncMove(r) PROVE TypeOK'
  <2>1. QueueStatus(view[r]) \in Statuses /\ StaleOnMove(r) \in Nat
        /\ (path[r] \/ view[r] \in PathStatuses) \in BOOLEAN
    BY <1>t, <1>9, QueueStatusType DEF TypeOK, SyncMove, StaleOnMove
  <2>2. UpdateRow(r, QueueStatus(view[r]), StaleOnMove(r),
                  path[r] \/ view[r] \in PathStatuses)
    BY <1>9 DEF SyncMove
  <2>3. todo' \subseteq Rows /\ snap' \in [Rows -> Snapshot] /\ syncRow' \in Rows \cup {NoRow}
        /\ view' \in [Rows -> ItemStatuses \cup {"none"}]
    BY <1>t, <1>9, DoneEffect DEF TypeOK, SyncMove
  <2> QED
    BY <1>t, <1>9, <2>1, <2>2, <2>3, UpdateRowEffect DEF TypeOK, SyncMove
<1>10. ASSUME NEW r \in Rows, SyncSame(r) PROVE TypeOK'
  <2>1. CASE UNCHANGED rowVars
    BY <1>t, <1>10, <2>1, DoneEffect DEF TypeOK, SyncSame
  <2>2. CASE UpdateRow(r, status[r], 0, path[r] \/ view[r] \in PathStatuses)
    <3>1. CASE status[r] = "absent"
      BY <1>t, <1>10, <2>2, <3>1, DoneEffect DEF TypeOK, SyncSame, UpdateRow, Present
    <3>2. CASE status[r] \in Statuses
      BY <1>t, <1>10, <2>2, <3>2, DoneEffect, UpdateRowEffect DEF TypeOK, SyncSame
    <3> QED
      BY <1>t, <3>1, <3>2 DEF TypeOK
  <2> QED
    BY <1>10, <2>1, <2>2 DEF SyncSame
<1>11. ASSUME NEW r \in Rows, SyncTrustDisk(r) PROVE TypeOK'
  <2>1. "completed" \in Statuses /\ StaleOnMove(r) \in Nat /\ path[r] \in BOOLEAN
    BY <1>t DEF TypeOK, Statuses, StaleOnMove
  <2> QED
    BY <1>t, <1>11, <2>1, DoneEffect, UpdateRowEffect DEF TypeOK, SyncTrustDisk
<1>12. ASSUME NEW r \in Rows, SyncStale(r) PROVE TypeOK'
  <2>1. snap[r].stale + 1 \in Nat /\ path[r] \in BOOLEAN
    BY <1>t DEF TypeOK, Snapshot
  <2>2. CASE status[r] = "absent"
    BY <1>t, <1>12, <2>2, DoneEffect DEF TypeOK, SyncStale, UpdateRow, Present
  <2>3. CASE status[r] \in Statuses
    BY <1>t, <1>12, <2>1, <2>3, DoneEffect, UpdateRowEffect DEF TypeOK, SyncStale
  <2> QED
    BY <1>t, <2>2, <2>3 DEF TypeOK
<1>13. ASSUME NEW r \in Rows, SyncDrop(r) PROVE TypeOK'
    BY <1>t, <1>13, DeleteRowEffect DEF TypeOK, SyncDrop
<1>14. ASSUME NEW r \in Rows, SyncUnreachable(r) PROVE TypeOK'
    BY <1>t, <1>14, DoneEffect DEF TypeOK, SyncUnreachable
<1>15. ASSUME SyncRecord PROVE TypeOK'
  <2>1. syncRow \in Rows /\ events[syncRow] \in SUBSET Events
    BY <1>t, <1>15 DEF TypeOK, SyncRecord
  <2> QED
    BY <1>t, <1>15, <2>1, RecordFailureEffect, DoneEffect DEF TypeOK, SyncRecord
<1>16. ASSUME SyncPurge PROVE TypeOK'
    BY <1>t, <1>16 DEF TypeOK, SyncPurge
<1>17. ASSUME SyncAbort PROVE TypeOK'
    BY <1>t, <1>17 DEF TypeOK, SyncAbort, SyncReset
<1>18. ASSUME ImpSelect PROVE TypeOK'
  <2>1. \A r \in Rows : Ready(r) =>
           [status |-> status[r], stale |-> stale[r], path |-> path[r]] \in Snapshot
    BY <1>t DEF TypeOK, Ready, Snapshot, Statuses
  <2>2. impSnap' \in [Rows -> Snapshot]
    BY <1>t, <1>18, <2>1 DEF ImpSelect
  <2> QED
    BY <1>t, <1>18, <2>2 DEF TypeOK, ImpSelect
<1>19. ASSUME NEW r \in Rows, ImpSkip(r) PROVE TypeOK'
    BY <1>t, <1>19 DEF TypeOK, ImpSkip
<1>20. ASSUME NEW r \in Rows, ImpMark(r) PROVE TypeOK'
  <2>1. "importing" \in Statuses /\ stale[r] \in Nat /\ path[r] \in BOOLEAN
    BY <1>t DEF TypeOK, Statuses
  <2> QED
    BY <1>t, <1>20, <2>1, UpdateRowEffect DEF TypeOK, ImpMark
<1>21. ASSUME ImpActivity PROVE TypeOK'
  <2>1. FirstAttempt(impRow) \in BOOLEAN /\ impRow \in Rows
    BY <1>21, CursorAtRow DEF FirstAttempt, ImpActivity
  <2>2. events' \in [Rows -> SUBSET Events]
    BY <1>t, <1>21, <2>1 DEF TypeOK, ImpActivity, Events
  <2> QED
    BY <1>t, <1>21, <2>1, <2>2 DEF TypeOK, ImpActivity
<1>22. ASSUME ImpRun PROVE TypeOK'
  <2>1. attempts' \in [Rows -> Nat]
    BY <1>t, <1>22, CursorAtRow DEF TypeOK, ImpRun
  <2> QED
    BY <1>t, <1>22, <2>1 DEF TypeOK, ImpRun
<1>23. ASSUME ImpImported PROVE TypeOK'
  <2> DEFINE closed == Close(impRow, events[impRow], "imported")
  <2>1. impRow \in Rows
    BY <1>23, CursorAtRow DEF ImpImported
  <2>2. closed \in SUBSET Events /\ "download_imported" \in Events
    BY <1>t, <2>1, CloseEffect DEF TypeOK, Events
  <2>3. \E F \in {events[impRow], closed, closed \cup {"download_imported"},
                 events[impRow] \cup {"download_imported"}} :
           events' = [events EXCEPT ![impRow] = F]
    BY <1>t, <1>23, <2>1 DEF TypeOK, ImpImported
  <2>4. events' \in [Rows -> SUBSET Events]
    BY <1>t, <2>1, <2>2, <2>3 DEF TypeOK
  <2> QED
    BY <1>t, <1>23, <2>4 DEF TypeOK, ImpImported
<1>24. ASSUME ImpRemove PROVE TypeOK'
    BY <1>t, <1>24, CursorAtRow, DeleteRowEffect, NextRowEffect DEF TypeOK, ImpRemove
<1>25. ASSUME ImpRetry PROVE TypeOK'
  <2>1. /\ "completed" \in Statuses /\ impRow \in Rows
        /\ impSnap[impRow].stale + 1 \in Nat /\ path[impRow] \in BOOLEAN
    BY <1>t, <1>25, CursorAtRow DEF TypeOK, Statuses, Snapshot, ImpRetry
  <2>2. UpdateRow(impRow, "completed", impSnap[impRow].stale + 1, path[impRow]) /\ NextRow
    BY <1>25 DEF ImpRetry
  <2>3. /\ status' \in [Rows -> Statuses \cup {"absent"}]
        /\ stale' \in [Rows -> Nat] /\ path' \in [Rows -> BOOLEAN]
    BY <1>t, <2>1, <2>2, UpdateRowEffect
  <2> QED
    BY <1>t, <1>25, <2>1, <2>2, <2>3, NextRowEffect DEF TypeOK, ImpRetry
<1>26. ASSUME ImpFail PROVE TypeOK'
  <2>1. /\ "failed" \in Statuses /\ impRow \in Rows /\ stale[impRow] \in Nat
        /\ impSnap[impRow].stale + 1 \in Nat /\ path[impRow] \in BOOLEAN
    BY <1>t, <1>26, CursorAtRow DEF TypeOK, Statuses, Snapshot, ImpFail
  <2>2. \E n \in Nat : UpdateRow(impRow, "failed", n, path[impRow])
    BY <1>26, <2>1 DEF ImpFail
  <2> QED
    BY <1>t, <1>26, <2>1, <2>2, UpdateRowEffect DEF TypeOK, ImpFail
<1>27. ASSUME ImpRecord PROVE TypeOK'
  <2>1. impRow \in Rows
    BY <1>27, CursorAtRow DEF ImpRecord
  <2>2. events[impRow] \in SUBSET Events
        /\ Close(impRow, events[impRow], "download_failed") \in SUBSET Events
    BY <1>t, <2>1, CloseEffect DEF TypeOK, Events
  <2>3. \E E \in SUBSET Events : RecordFailure(impRow, E)
    BY <1>27, <2>2 DEF ImpRecord
  <2> QED
    BY <1>t, <1>27, <2>1, <2>3, RecordFailureEffect, NextRowEffect DEF TypeOK, ImpRecord
<1>28. ASSUME ImpEnd PROVE TypeOK'
    BY <1>t, <1>28 DEF TypeOK, ImpEnd
<1>29. ASSUME ImpAbort PROVE TypeOK'
    BY <1>t, <1>29 DEF TypeOK, ImpAbort, ImpReset
<1>30. ASSUME Crash PROVE TypeOK'
    BY <1>t, <1>30 DEF TypeOK, Crash, SyncReset, ImpReset
<1>31. CASE UNCHANGED vars
    BY <1>t, <1>31 DEF TypeOK, vars
<1>32. ASSUME SyncNothing PROVE TypeOK'
    BY <1>31, <1>32 DEF SyncNothing
<1> QED
    BY <1>1, <1>2, <1>3, <1>4, <1>5, <1>6, <1>7, <1>8, <1>9, <1>10, <1>11, <1>12, <1>13,
       <1>14, <1>15, <1>16, <1>17, <1>18, <1>19, <1>20, <1>21, <1>22, <1>23, <1>24,
       <1>25, <1>26, <1>27, <1>28, <1>29, <1>30, <1>31, <1>32
    DEF Next, Sync, SyncRow, Import, Others

-----------------------------------------------------------------------------
(* What one row of the sync loop may do: to the row itself, and nothing else. *)
SyncRowFrame(r) ==
    /\ r \in todo /\ syncRow = NoRow /\ syncPc = "apply"
    /\ UNCHANGED <<grab, events, blocklist, attempts, syncPc, impVars>>
    /\ \A q \in Rows \ {r} : status'[q] = status[q] /\ stale'[q] = stale[q]
                             /\ snap'[q] = snap[q]
    /\ \/ /\ todo' = todo \ {r} /\ syncRow' = NoRow
          /\ status'[r] \in Active \cup {"completed", "absent"}
       \/ /\ todo' = todo /\ syncRow' = r /\ snap' = snap
          /\ status'[r] \in {"failed", "absent"}
    /\ status'[r] = "completed" => stale'[r] = 0

LEMMA SyncRowEffect ==
    ASSUME IInv, NEW r \in Rows, SyncRow(r)
    PROVE  SyncRowFrame(r)
<1> USE DEF dbVars, envVars, syncVars, impVars, ghosts, rowVars
<1>t. TypeOK /\ Statuses = Active \cup {"completed", "importing", "failed"}
    BY DEF IInv, Statuses
<1>a. /\ r \in todo /\ syncRow = NoRow /\ syncPc = "apply"
      /\ UNCHANGED <<grab, events, blocklist, attempts, syncPc, impVars>>
    BY DEF SyncRow, SyncMove, SyncSame, SyncTrustDisk, SyncStale, SyncDrop,
           SyncUnreachable, AtRow
<1>b. status[r] \in Active \cup {"absent"}
    BY <1>a, RowsAssumption DEF IInv, Core, TodoInv, TodoOK
<1>c. "completed" \notin Active /\ "failed" \notin Active /\ "absent" \notin Active
    BY DEF Active
<1>1. CASE SyncMove(r)
  <2> DEFINE new == QueueStatus(view[r])
  <2>1. new \in Statuses \ {"importing"} /\ StaleOnMove(r) = 0
        /\ (path[r] \/ view[r] \in PathStatuses) \in BOOLEAN
    BY <1>t, <1>1, QueueStatusType DEF TypeOK, SyncMove, StaleOnMove
  <2>2. UpdateRow(r, new, StaleOnMove(r), path[r] \/ view[r] \in PathStatuses)
    BY <1>1 DEF SyncMove
  <2>3. /\ \A q \in Rows \ {r} : status'[q] = status[q] /\ stale'[q] = stale[q]
        /\ status'[r] = IF status[r] = "absent" THEN "absent" ELSE new
        /\ stale'[r] = IF status[r] = "absent" THEN stale[r] ELSE 0
    BY <1>t, <2>1, <2>2 DEF TypeOK, UpdateRow, Present
  <2>4. CASE new = "failed"
    BY <1>1, <1>a, <1>c, <2>3, <2>4 DEF SyncMove, SyncRowFrame
  <2>5. CASE new # "failed"
    BY <1>t, <1>1, <1>a, <1>c, <2>1, <2>3, <2>5, DoneEffect DEF SyncMove, SyncRowFrame
  <2> QED
    BY <2>4, <2>5
<1>2. CASE SyncSame(r)
  <2>1. /\ \A q \in Rows \ {r} : status'[q] = status[q] /\ stale'[q] = stale[q]
        /\ status'[r] = status[r]
    <3>1. CASE UNCHANGED rowVars
      BY <3>1
    <3>2. CASE UpdateRow(r, status[r], 0, path[r] \/ view[r] \in PathStatuses)
      BY <1>t, <3>2 DEF TypeOK, UpdateRow, Present
    <3> QED
      BY <1>2, <3>1, <3>2 DEF SyncSame
  <2> QED
    BY <1>t, <1>2, <1>a, <1>b, <1>c, <2>1, DoneEffect DEF SyncSame, SyncRowFrame
<1>3. CASE SyncTrustDisk(r)
  <2>1. StaleOnMove(r) = 0 /\ path[r] \in BOOLEAN
    BY <1>t DEF TypeOK, StaleOnMove
  <2>2. /\ \A q \in Rows \ {r} : status'[q] = status[q] /\ stale'[q] = stale[q]
        /\ status'[r] = IF status[r] = "absent" THEN "absent" ELSE "completed"
        /\ stale'[r] = IF status[r] = "absent" THEN stale[r] ELSE 0
    BY <1>t, <1>3, <2>1, UpdateRowEffect DEF SyncTrustDisk
  <2> QED
    BY <1>t, <1>3, <1>a, <1>c, <2>2, DoneEffect DEF SyncTrustDisk, SyncRowFrame
<1>4. CASE SyncStale(r)
  <2>1. /\ \A q \in Rows \ {r} : status'[q] = status[q] /\ stale'[q] = stale[q]
        /\ status'[r] = status[r]
    BY <1>t, <1>4 DEF TypeOK, SyncStale, UpdateRow, Present
  <2> QED
    BY <1>t, <1>4, <1>a, <1>b, <1>c, <2>1, DoneEffect DEF SyncStale, SyncRowFrame
<1>5. CASE SyncDrop(r)
    BY <1>t, <1>5, <1>a, DeleteRowEffect DEF SyncDrop, SyncRowFrame
<1>6. CASE SyncUnreachable(r)
    BY <1>t, <1>6, <1>a, <1>b, <1>c, DoneEffect DEF SyncUnreachable, SyncRowFrame
<1> QED
    BY <1>1, <1>2, <1>3, <1>4, <1>5, <1>6 DEF SyncRow

-----------------------------------------------------------------------------
(* The parts of the invariant that relate the records to the two tasks.      *)

Same(q) == /\ grab'[q] = grab[q] /\ status'[q] = status[q] /\ stale'[q] = stale[q]
           /\ events'[q] = events[q] /\ blocklist'[q] = blocklist[q]
           /\ attempts'[q] = attempts[q]

SyncCursor   == <<syncPc, todo, snap, syncRow>>
ImportCursor == <<impPc, batch, impSnap, impRow>>

(* A step that touches no record and no cursor keeps them. *)
LEMMA FrameStep ==
    ASSUME IInv, UNCHANGED <<grab, status, stale, events, blocklist, attempts>>,
           UNCHANGED <<SyncCursor, ImportCursor>>
    PROVE  Core'
BY DEF IInv, Core, RowInv, RowOK, TodoInv, TodoOK, SyncOK, BatchInv, BatchOK, ImportOK,
       CursorOK, Settled, SyncCursor, ImportCursor

(* A step that only changes the records of rows no task is working on. *)
LEMMA GrabAddStep ==
    ASSUME IInv, NEW r \in Rows, NEW c \in Clients, GrabAdd(r, c)
    PROVE  Core'
<1> USE DEF dbVars, envVars, syncVars, impVars, ghosts, rowVars
<1>1. /\ grab[r] = "free" /\ grab'[r] = "adding" /\ \A q \in Rows \ {r} : Same(q)
      /\ UNCHANGED <<status, stale, events, blocklist, attempts, SyncCursor, ImportCursor>>
    BY DEF IInv, TypeOK, GrabAdd, Same, SyncCursor, ImportCursor
<1>2. RowInv'
  <2> SUFFICES ASSUME NEW q \in Rows PROVE RowOK(q)'
    BY DEF RowInv
  <2> QED
    BY <1>1 DEF IInv, Core, RowInv, RowOK, Same, Settled
<1>3. r \notin todo /\ r \notin batch /\ r # impRow
    BY <1>1, RowsAssumption DEF IInv, Core, TodoInv, TodoOK, BatchInv, BatchOK, ImportOK, CursorOK
<1>4. TodoInv' /\ SyncOK'
    BY <1>1, <1>3 DEF IInv, Core, TypeOK, TodoInv, TodoOK, SyncOK, Same, SyncCursor
<1>5. BatchInv' /\ ImportOK'
    BY <1>1, <1>3 DEF IInv, Core, TypeOK, BatchInv, BatchOK, ImportOK, CursorOK, Settled,
       Same, SyncCursor, ImportCursor
<1> QED
    BY <1>2, <1>4, <1>5 DEF Core

LEMMA GrabInsertStep ==
    ASSUME IInv, NEW r \in Rows, GrabInsert(r)
    PROVE  Core'
<1> USE DEF dbVars, envVars, syncVars, impVars, ghosts, rowVars
<1>1. /\ grab[r] = "adding" /\ \A q \in Rows \ {r} : Same(q)
      /\ \/ grab'[r] = "inserted" /\ status'[r] = "queued"
         \/ grab'[r] = "lost" /\ status'[r] = status[r]
      /\ UNCHANGED <<stale, events, blocklist, attempts, SyncCursor, ImportCursor>>
    BY DEF IInv, TypeOK, GrabInsert, Same, SyncCursor, ImportCursor
<1>2. RowInv'
  <2> SUFFICES ASSUME NEW q \in Rows PROVE RowOK(q)'
    BY DEF RowInv
  <2>1. RowOK(q)
    BY LimitsAssumption DEF IInv, Core, RowInv
  <2> QED
    BY <1>1, <2>1 DEF IInv, TypeOK, RowOK, Same, Settled, Active
<1>3. r \notin todo /\ r \notin batch /\ r # impRow
    BY <1>1, RowsAssumption DEF IInv, Core, TodoInv, TodoOK, BatchInv, BatchOK, ImportOK, CursorOK
<1>4. TodoInv' /\ SyncOK'
    BY <1>1, <1>3 DEF IInv, Core, TypeOK, TodoInv, TodoOK, SyncOK, Same, SyncCursor
<1>5. BatchInv' /\ ImportOK'
    BY <1>1, <1>3 DEF IInv, Core, TypeOK, BatchInv, BatchOK, ImportOK, CursorOK, Settled,
       Same, SyncCursor, ImportCursor
<1> QED
    BY <1>2, <1>4, <1>5 DEF Core

LEMMA UserDeleteStep ==
    ASSUME IInv, NEW r \in Rows, UserDelete(r)
    PROVE  Core'
<1> USE DEF dbVars, envVars, syncVars, impVars, ghosts, rowVars
<1>1. /\ grab[r] = "inserted" /\ \A q \in Rows \ {r} : Same(q)
      /\ status'[r] = "absent"
      /\ UNCHANGED <<grab, events, blocklist, attempts, SyncCursor, ImportCursor>>
    BY DeleteRowEffect DEF IInv, Core, RowInv, RowOK, UserDelete, Present, Same, SyncCursor,
       ImportCursor
<1>2. RowInv'
  <2> SUFFICES ASSUME NEW q \in Rows PROVE RowOK(q)'
    BY DEF RowInv
  <2> QED
    BY <1>1 DEF IInv, Core, RowInv, RowOK, Same, Settled, Active
<1>4. TodoInv' /\ SyncOK'
    BY <1>1 DEF IInv, Core, TypeOK, TodoInv, TodoOK, SyncOK, Same, SyncCursor
<1>5. BatchInv' /\ ImportOK'
    BY <1>1 DEF IInv, Core, TypeOK, BatchInv, BatchOK, ImportOK, CursorOK, Settled,
       Same, SyncCursor, ImportCursor
<1> QED
    BY <1>2, <1>4, <1>5 DEF Core

-----------------------------------------------------------------------------
(* download_sync_task. *)

LEMMA SyncSelectStep ==
    ASSUME IInv, SyncSelect
    PROVE  Core'
<1> USE DEF dbVars, envVars, syncVars, impVars, ghosts, rowVars
<1>1. /\ syncPc = "idle" /\ syncPc' = "poll"
      /\ todo' = {q \in Rows : status[q] \in Active}
      /\ \A q \in todo' : snap'[q].status = status[q]
      /\ UNCHANGED <<grab, status, stale, events, blocklist, attempts, syncRow, ImportCursor>>
    BY DEF SyncSelect, Pending, ImportCursor
<1>2. syncRow = NoRow
    BY <1>1 DEF IInv, Core, SyncOK
<1>3. RowInv'
    BY <1>1 DEF IInv, Core, RowInv, RowOK, Settled
<1>4. TodoInv' /\ SyncOK'
  <2> SUFFICES ASSUME NEW q \in todo' PROVE TodoOK(q)'
    BY <1>1, <1>2 DEF TodoInv, SyncOK
  <2>1. q \in Rows /\ status[q] \in Active /\ RowOK(q)
    BY <1>1 DEF IInv, Core, RowInv
  <2>2. grab[q] = "inserted"
    BY <2>1 DEF RowOK, Active
  <2> QED
    BY <1>1, <2>1, <2>2 DEF RowOK, TodoOK
<1>5. BatchInv' /\ ImportOK'
    BY <1>1 DEF IInv, Core, BatchInv, BatchOK, ImportOK, CursorOK, Settled, ImportCursor, Active
<1> QED
    BY <1>3, <1>4, <1>5 DEF Core

LEMMA SyncPollStep ==
    ASSUME IInv, SyncPoll
    PROVE  Core'
<1> USE DEF dbVars, envVars, syncVars, impVars, ghosts, rowVars
<1>1. /\ syncPc = "poll" /\ syncPc' = "apply"
      /\ UNCHANGED <<grab, status, stale, events, blocklist, attempts, todo, snap, syncRow,
                     ImportCursor>>
    BY DEF SyncPoll, ImportCursor
<1> QED
    BY <1>1 DEF IInv, Core, RowInv, RowOK, TodoInv, TodoOK, SyncOK, BatchInv, BatchOK,
       ImportOK, CursorOK, Settled, ImportCursor

LEMMA SyncRowStep ==
    ASSUME IInv, NEW r \in Rows, SyncRow(r)
    PROVE  Core'
<1>1. SyncRowFrame(r) /\ RowOK(r) /\ TodoOK(r)
    BY SyncRowEffect DEF IInv, Core, RowInv, TodoInv, SyncRowFrame
<1>2. /\ r \in todo /\ syncRow = NoRow /\ syncPc = "apply"
      /\ UNCHANGED <<grab, events, blocklist, attempts, syncPc, ImportCursor>>
      /\ \A q \in Rows \ {r} : Same(q) /\ snap'[q] = snap[q]
    BY <1>1 DEF SyncRowFrame, Same, impVars, ImportCursor
<1>3. \/ /\ todo' = todo \ {r} /\ syncRow' = NoRow
         /\ status'[r] \in Active \cup {"completed", "absent"}
      \/ /\ todo' = todo /\ syncRow' = r /\ snap' = snap
         /\ status'[r] \in {"failed", "absent"}
    BY <1>1 DEF SyncRowFrame
<1>4. /\ grab[r] = "inserted" /\ events[r] = {} /\ blocklist[r] = 0 /\ attempts[r] = 0
      /\ status'[r] = "completed" => stale'[r] = 0
    BY <1>1 DEF TodoOK, SyncRowFrame
<1>5. r \notin batch /\ r # impRow
    BY <1>2, RowsAssumption DEF IInv, Core, BatchInv, BatchOK, ImportOK, CursorOK
<1>6. RowInv'
  <2> SUFFICES ASSUME NEW q \in Rows PROVE RowOK(q)'
    BY DEF RowInv
  <2>1. CASE q = r
    BY <1>2, <1>4, <2>1, LimitsAssumption DEF RowOK, Settled
  <2>2. CASE q # r
    BY <1>2, <2>2 DEF IInv, Core, RowInv, RowOK, Same, Settled
  <2> QED
    BY <2>1, <2>2
<1>7. TodoInv'
  <2> SUFFICES ASSUME NEW q \in todo' PROVE TodoOK(q)'
    BY DEF TodoInv
  <2>1. q \in Rows /\ q \in todo /\ TodoOK(q)
    BY <1>3 DEF IInv, Core, TypeOK, TodoInv
  <2>2. CASE q = r
    BY <1>2, <1>3, <1>1, <2>2, RowsAssumption DEF TodoOK
  <2>3. CASE q # r
    BY <1>2, <1>3, <2>1, <2>3, RowsAssumption DEF TodoOK, Same
  <2> QED
    BY <2>2, <2>3
<1>8. SyncOK'
    BY <1>2, <1>3, RowsAssumption DEF SyncOK
<1>9. BatchInv'
  <2> SUFFICES ASSUME NEW q \in batch PROVE BatchOK(q)'
    BY <1>2 DEF BatchInv, ImportCursor
  <2>1. q \in Rows \ {r} /\ BatchOK(q)
    BY <1>5 DEF IInv, Core, TypeOK, BatchInv
  <2> QED
    BY <1>2, <1>3, <2>1 DEF BatchOK, Same, Settled, ImportCursor
<1>10. ImportOK'
  <2>1. CASE impRow = NoRow
    BY <1>2, <2>1 DEF IInv, Core, ImportOK, ImportCursor
  <2>2. CASE impRow # NoRow
    <3>1. impRow \in Rows \ {r} /\ CursorOK(impRow)
      BY <1>5, <2>2 DEF IInv, Core, TypeOK, ImportOK
    <3> QED
      BY <1>2, <1>3, <2>2, <3>1 DEF IInv, Core, ImportOK, CursorOK, Same, Settled, ImportCursor
  <2> QED
    BY <2>1, <2>2
<1> QED
    BY <1>6, <1>7, <1>8, <1>9, <1>10 DEF Core

LEMMA SyncRecordStep ==
    ASSUME IInv, SyncRecord
    PROVE  Core'
<1> USE DEF dbVars, envVars, syncVars, impVars, ghosts, rowVars
<1> DEFINE r == syncRow
<1>1. /\ r \in Rows /\ r \in todo /\ RowOK(r) /\ TodoOK(r)
      /\ status[r] \in {"failed", "absent"} /\ syncPc = "apply"
    BY DEF IInv, Core, TypeOK, SyncRecord, SyncOK, RowInv, TodoInv
<1>2. /\ grab[r] = "inserted" /\ events[r] = {} /\ blocklist[r] = 0 /\ attempts[r] = 0
      /\ events[r] \in SUBSET Events
    BY <1>1 DEF TodoOK
<1>3. /\ blocklist'[r] \in {0, 1} /\ events'[r] \in {{}, {"download_failed"}}
      /\ \A q \in Rows \ {r} : blocklist'[q] = blocklist[q] /\ events'[q] = events[q]
      /\ RecordFailure(r, events[r])
    BY <1>1, <1>2, RecordFailureEffect DEF IInv, SyncRecord
<1>4. /\ todo' = todo \ {r} /\ syncRow' = NoRow
      /\ \A q \in Rows \ {r} : snap'[q] = snap[q]
      /\ UNCHANGED <<grab, status, stale, attempts, syncPc, ImportCursor>>
    BY <1>1, DoneEffect DEF IInv, SyncRecord, ImportCursor
<1>5. \A q \in Rows \ {r} : Same(q) /\ snap'[q] = snap[q]
    BY <1>3, <1>4 DEF Same
<1>6. r \notin batch /\ r # impRow
    BY <1>1, RowsAssumption DEF IInv, Core, BatchInv, BatchOK, ImportOK, CursorOK
<1>7. RowInv'
  <2> SUFFICES ASSUME NEW q \in Rows PROVE RowOK(q)'
    BY DEF RowInv
  <2>1. CASE q = r
    BY <1>1, <1>2, <1>3, <1>4, <2>1, LimitsAssumption DEF RowOK, Settled, Active
  <2>2. CASE q # r
    BY <1>5, <2>2 DEF IInv, Core, RowInv, RowOK, Same, Settled
  <2> QED
    BY <2>1, <2>2
<1>8. TodoInv' /\ SyncOK'
  <2> SUFFICES ASSUME NEW q \in todo' PROVE TodoOK(q)'
    BY <1>1, <1>4 DEF TodoInv, SyncOK
  <2>1. q \in Rows \ {r} /\ q \in todo /\ TodoOK(q)
    BY <1>4 DEF IInv, Core, TypeOK, TodoInv
  <2> QED
    BY <1>4, <1>5, <2>1 DEF TodoOK, Same
<1>9. BatchInv'
  <2> SUFFICES ASSUME NEW q \in batch PROVE BatchOK(q)'
    BY <1>4 DEF BatchInv, ImportCursor
  <2>1. q \in Rows \ {r} /\ BatchOK(q)
    BY <1>6 DEF IInv, Core, TypeOK, BatchInv
  <2> QED
    BY <1>4, <1>5, <2>1 DEF BatchOK, Same, Settled, ImportCursor
<1>10. ImportOK'
  <2>1. CASE impRow = NoRow
    BY <1>4, <2>1 DEF IInv, Core, ImportOK, ImportCursor
  <2>2. CASE impRow # NoRow
    <3>1. impRow \in Rows \ {r} /\ CursorOK(impRow)
      BY <1>6, <2>2 DEF IInv, Core, TypeOK, ImportOK
    <3> QED
      BY <1>4, <1>5, <2>2, <3>1 DEF IInv, Core, ImportOK, CursorOK, Same, Settled, ImportCursor
  <2> QED
    BY <2>1, <2>2
<1> QED
    BY <1>7, <1>8, <1>9, <1>10 DEF Core

LEMMA SyncPurgeStep ==
    ASSUME IInv, SyncPurge
    PROVE  Core'
<1> USE DEF dbVars, envVars, syncVars, impVars, ghosts, rowVars
<1>1. /\ todo = {} /\ todo' = {} /\ syncRow = NoRow /\ syncRow' = NoRow
      /\ UNCHANGED <<grab, events, blocklist, attempts, ImportCursor>>
      /\ \A q \in Rows : \/ status'[q] = status[q] /\ stale'[q] = stale[q]
                         \/ status[q] = "failed" /\ status'[q] = "absent"
    BY DEF SyncPurge, IInv, TypeOK, ImportCursor
<1>2. RowInv'
  <2> SUFFICES ASSUME NEW q \in Rows PROVE RowOK(q)'
    BY DEF RowInv
  <2>1. RowOK(q)
    BY DEF IInv, Core, RowInv
  <2>2. grab[q] # "inserted" => status'[q] = "absent"
    BY <1>1, <2>1 DEF RowOK
  <2> QED
    BY <1>1, <2>1, <2>2 DEF RowOK, Settled, Active
<1>3. TodoInv' /\ SyncOK'
    BY <1>1 DEF TodoInv, SyncOK
<1>4. BatchInv' /\ ImportOK'
    BY <1>1 DEF IInv, Core, TypeOK, BatchInv, BatchOK, ImportOK, CursorOK, Settled, ImportCursor
<1> QED
    BY <1>2, <1>3, <1>4 DEF Core

LEMMA SyncAbortStep ==
    ASSUME IInv, SyncAbort
    PROVE  Core'
<1> USE DEF dbVars, envVars, syncVars, impVars, ghosts, rowVars
<1>1. /\ todo' = {} /\ syncRow' = NoRow
      /\ UNCHANGED <<grab, status, stale, events, blocklist, attempts, ImportCursor>>
    BY DEF SyncAbort, SyncReset, ImportCursor
<1> QED
    BY <1>1 DEF IInv, Core, RowInv, RowOK, TodoInv, SyncOK, BatchInv, BatchOK, ImportOK,
       CursorOK, Settled, ImportCursor

-----------------------------------------------------------------------------
(* importer_task. *)

LEMMA ImpSelectStep ==
    ASSUME IInv, ImpSelect
    PROVE  Core'
<1> USE DEF dbVars, envVars, syncVars, impVars, ghosts, rowVars
<1>1. /\ impPc = "idle" /\ impPc' = "next" /\ impRow' = impRow
      /\ batch' = {q \in Rows : status[q] = "completed"}
      /\ \A q \in batch' : impSnap'[q].stale = stale[q]
      /\ UNCHANGED <<grab, status, stale, events, blocklist, attempts, SyncCursor>>
    BY DEF ImpSelect, Ready, SyncCursor
<1>2. impRow = NoRow
    BY <1>1 DEF IInv, Core, ImportOK, CursorOK
<1>3. RowInv' /\ TodoInv' /\ SyncOK'
    BY <1>1 DEF IInv, Core, RowInv, RowOK, Settled, TodoInv, TodoOK, SyncOK, SyncCursor
<1>4. BatchInv'
  <2> SUFFICES ASSUME NEW q \in batch' PROVE BatchOK(q)'
    BY DEF BatchInv
  <2>1. q \in Rows /\ status[q] = "completed" /\ RowOK(q)
    BY <1>1 DEF IInv, Core, RowInv
  <2>2. q \notin todo
    BY <2>1, RowsAssumption DEF IInv, Core, TodoInv, TodoOK, SyncOK, Active
  <2>3. grab[q] = "inserted" /\ ~Settled(q) /\ attempts[q] = stale[q] /\ stale[q] < MaxAttempts
    BY <2>1 DEF RowOK
  <2> QED
    BY <1>1, <1>2, <2>1, <2>2, <2>3, RowsAssumption DEF BatchOK, Settled, SyncCursor
<1>5. ImportOK'
    BY <1>1, <1>2 DEF ImportOK
<1> QED
    BY <1>3, <1>4, <1>5 DEF Core

LEMMA ImpSkipStep ==
    ASSUME IInv, NEW r \in Rows, ImpSkip(r)
    PROVE  Core'
<1> USE DEF dbVars, envVars, syncVars, impVars, ghosts, rowVars
<1>1. /\ impPc = "next" /\ impPc' = "next" /\ impRow' = impRow
      /\ batch' = batch \ {r} /\ \A q \in Rows \ {r} : impSnap'[q] = impSnap[q]
      /\ UNCHANGED <<grab, status, stale, events, blocklist, attempts, SyncCursor>>
    BY DEF ImpSkip, SyncCursor, IInv, TypeOK
<1>2. impRow = NoRow
    BY <1>1 DEF IInv, Core, ImportOK, CursorOK
<1>3. RowInv' /\ TodoInv' /\ SyncOK'
    BY <1>1 DEF IInv, Core, RowInv, RowOK, Settled, TodoInv, TodoOK, SyncOK, SyncCursor
<1>4. BatchInv' /\ ImportOK'
    BY <1>1, <1>2 DEF IInv, Core, TypeOK, BatchInv, BatchOK, ImportOK, Settled, SyncCursor
<1> QED
    BY <1>3, <1>4 DEF Core

LEMMA ImpMarkStep ==
    ASSUME IInv, NEW r \in Rows, ImpMark(r)
    PROVE  Core'
<1> USE DEF dbVars, envVars, syncVars, impVars, ghosts, rowVars
<1>1. /\ r \in batch /\ impPc' = "activity" /\ impRow' = r /\ impPc = "next"
      /\ batch' = batch \ {r}
      /\ UNCHANGED <<grab, events, blocklist, attempts, impSnap, SyncCursor>>
    BY DEF ImpMark, SyncCursor
<1>2. /\ \A q \in Rows \ {r} : Same(q)
      /\ status'[r] = IF status[r] = "absent" THEN "absent" ELSE "importing"
  <2>1. "importing" \in Statuses /\ stale[r] \in Nat /\ path[r] \in BOOLEAN
    BY DEF IInv, TypeOK, Statuses
  <2>2. UpdateRow(r, "importing", stale[r], path[r])
    BY DEF ImpMark
  <2>3. /\ \A q \in Rows \ {r} : status'[q] = status[q] /\ stale'[q] = stale[q]
        /\ status'[r] = IF status[r] = "absent" THEN "absent" ELSE "importing"
    BY <2>1, <2>2, UpdateRowEffect DEF IInv
  <2> QED
    BY <1>1, <2>3 DEF Same
<1>3. BatchOK(r) /\ RowOK(r)
    BY <1>1 DEF IInv, Core, RowInv, BatchInv
<1>4. RowInv'
  <2> SUFFICES ASSUME NEW q \in Rows PROVE RowOK(q)'
    BY DEF RowInv
  <2>1. CASE q = r
    BY <1>1, <1>2, <1>3, <2>1 DEF RowOK, BatchOK, Settled, Active
  <2>2. CASE q # r
    BY <1>1, <1>2, <2>2 DEF IInv, Core, RowInv, RowOK, Same, Settled
  <2> QED
    BY <2>1, <2>2
<1>5. TodoInv' /\ SyncOK'
    BY <1>1, <1>2, <1>3 DEF IInv, Core, TypeOK, TodoInv, TodoOK, SyncOK, BatchOK, Same, SyncCursor
<1>6. BatchInv'
  <2> SUFFICES ASSUME NEW q \in batch' PROVE BatchOK(q)'
    BY DEF BatchInv
  <2>1. q \in Rows \ {r} /\ BatchOK(q)
    BY <1>1 DEF IInv, Core, TypeOK, BatchInv
  <2> QED
    BY <1>1, <1>2, <2>1 DEF BatchOK, Same, Settled, SyncCursor
<1>7. ImportOK'
  <2>1. CursorOK(r)'
    BY <1>1, <1>2, <1>3 DEF CursorOK, BatchOK, Settled, SyncCursor
  <2> QED
    BY <1>1, <2>1, RowsAssumption DEF ImportOK
<1> QED
    BY <1>4, <1>5, <1>6, <1>7 DEF Core

(* A step of the importer at its row: the row's own records may change, and  *)
(* no other row, no row of the batch and no row of the sync pass is touched. *)
LEMMA AtCursorFrame ==
    ASSUME IInv, impRow \in Rows, CursorOK(impRow),
           UNCHANGED <<grab, batch, SyncCursor>>,
           \A q \in Rows \ {impRow} : Same(q) /\ impSnap'[q] = impSnap[q],
           impRow' \in {impRow, NoRow}
    PROVE  /\ TodoInv' /\ SyncOK' /\ BatchInv'
           /\ \A q \in Rows \ {impRow} : RowOK(q)'
<1>1. impRow \notin todo /\ impRow \notin batch
    BY DEF CursorOK, IInv, Core, BatchInv, BatchOK
<1>2. TodoInv'
  <2> SUFFICES ASSUME NEW q \in todo PROVE TodoOK(q)'
    BY DEF TodoInv, SyncCursor
  <2>1. q \in Rows \ {impRow} /\ TodoOK(q)
    BY <1>1 DEF IInv, Core, TypeOK, TodoInv
  <2> QED
    BY <2>1 DEF TodoOK, Same, SyncCursor
<1>3. SyncOK'
    BY <1>1 DEF IInv, Core, TypeOK, SyncOK, Same, SyncCursor
<1>4. BatchInv'
  <2> SUFFICES ASSUME NEW q \in batch PROVE BatchOK(q)'
    BY DEF BatchInv
  <2>1. q \in Rows \ {impRow} /\ BatchOK(q)
    BY <1>1 DEF IInv, Core, TypeOK, BatchInv
  <2> QED
    BY <2>1, RowsAssumption DEF BatchOK, Same, Settled, SyncCursor
<1>5. ASSUME NEW q \in Rows \ {impRow} PROVE RowOK(q)'
    BY DEF IInv, Core, RowInv, RowOK, Same, Settled
<1> QED
    BY <1>2, <1>3, <1>4, <1>5

LEMMA ImpActivityStep ==
    ASSUME IInv, ImpActivity
    PROVE  Core'
<1> USE DEF dbVars, envVars, syncVars, impVars, ghosts, rowVars
<1> DEFINE r == impRow
<1>1. r \in Rows /\ CursorOK(r) /\ RowOK(r) /\ impPc = "activity"
    BY CursorAtRow DEF ImpActivity, IInv, Core, RowInv
<1>2. /\ impPc' = "run" /\ impRow' = impRow
      /\ UNCHANGED <<grab, status, stale, blocklist, attempts, batch, impSnap, SyncCursor>>
      /\ events' = [events EXCEPT ![impRow] =
                       IF FirstAttempt(impRow) THEN @ \cup {"import_started"} ELSE @]
    BY DEF ImpActivity, SyncCursor
<1>3. \A q \in Rows \ {r} : Same(q)
    BY <1>2 DEF IInv, TypeOK, Same
<1>4. /\ "download_imported" \in events'[r] => "download_imported" \in events[r]
      /\ events'[r] # {}
  <2>1. CASE impSnap[r].stale = 0
    BY <1>1, <1>2, <2>1 DEF IInv, TypeOK, FirstAttempt
  <2>2. CASE impSnap[r].stale # 0
    <3>1. attempts[r] > 0
      BY <1>1, <2>2 DEF CursorOK, IInv, TypeOK
    <3> QED
      BY <1>1, <1>2, <2>2, <3>1 DEF RowOK, IInv, TypeOK, FirstAttempt
  <2> QED
    BY <2>1, <2>2
<1>5. /\ TodoInv' /\ SyncOK' /\ BatchInv'
      /\ \A q \in Rows \ {r} : RowOK(q)'
    BY <1>1, <1>2, <1>3, AtCursorFrame
<1>6. RowOK(r)' /\ CursorOK(r)'
    BY <1>1, <1>2, <1>4 DEF RowOK, CursorOK, Settled, SyncCursor, Active
<1> QED
    BY <1>1, <1>2, <1>5, <1>6, RowsAssumption DEF Core, RowInv, ImportOK

LEMMA ImpRunStep ==
    ASSUME IInv, ImpRun
    PROVE  Core'
<1> USE DEF dbVars, envVars, syncVars, impVars, ghosts, rowVars
<1> DEFINE r == impRow
<1>1. r \in Rows /\ CursorOK(r) /\ RowOK(r) /\ impPc = "run"
    BY CursorAtRow DEF ImpRun, IInv, Core, RowInv
<1>2. /\ impPc' = "outcome" /\ impRow' = impRow
      /\ UNCHANGED <<grab, status, stale, events, blocklist, batch, impSnap, SyncCursor>>
      /\ attempts'[r] = attempts[r] + 1
      /\ \A q \in Rows \ {r} : attempts'[q] = attempts[q]
    BY <1>1 DEF ImpRun, SyncCursor, IInv, TypeOK
<1>3. \A q \in Rows \ {r} : Same(q)
    BY <1>2 DEF Same
<1>4. /\ TodoInv' /\ SyncOK' /\ BatchInv'
      /\ \A q \in Rows \ {r} : RowOK(q)'
    BY <1>1, <1>2, <1>3, AtCursorFrame
<1>5. attempts[r] \in Nat /\ MaxAttempts \in Nat
    BY <1>1, LimitsAssumption DEF IInv, TypeOK
<1>6. RowOK(r)' /\ CursorOK(r)'
    BY <1>1, <1>2, <1>5 DEF RowOK, CursorOK, Settled, SyncCursor, Active
<1> QED
    BY <1>1, <1>2, <1>4, <1>6, RowsAssumption DEF Core, RowInv, ImportOK

LEMMA ImpImportedStep ==
    ASSUME IInv, ImpImported
    PROVE  Core'
<1> USE DEF dbVars, envVars, syncVars, impVars, ghosts, rowVars
<1> DEFINE r == impRow
           closed == Close(r, events[r], "imported")
<1>1. r \in Rows /\ CursorOK(r) /\ RowOK(r) /\ impPc = "outcome"
    BY CursorAtRow DEF ImpImported, IInv, Core, RowInv
<1>2. events[r] \in SUBSET Events /\ events[r] # {} /\ blocklist[r] = 0
    BY <1>1 DEF CursorOK, RowOK, Settled, IInv, TypeOK, Snapshot
<1>3. closed = events[r] \/ closed = (events[r] \ {"import_started"}) \cup {"imported"}
    BY <1>1, <1>2, CloseEffect DEF Events
<1>4. /\ impPc' = "remove" /\ impRow' = impRow
      /\ UNCHANGED <<grab, status, stale, blocklist, attempts, batch, impSnap, SyncCursor>>
    BY DEF ImpImported, SyncCursor
<1>5. \E F \in {events[r], closed, closed \cup {"download_imported"},
                events[r] \cup {"download_imported"}} :
         events' = [events EXCEPT ![r] = F]
    BY <1>1 DEF ImpImported, IInv, TypeOK
<1>6. events'[r] # {} /\ \A q \in Rows \ {r} : events'[q] = events[q]
    BY <1>1, <1>2, <1>3, <1>5 DEF IInv, TypeOK
<1>7. \A q \in Rows \ {r} : Same(q)
    BY <1>4, <1>6 DEF Same
<1>8. /\ TodoInv' /\ SyncOK' /\ BatchInv'
      /\ \A q \in Rows \ {r} : RowOK(q)'
    BY <1>1, <1>4, <1>7, AtCursorFrame
<1>9. RowOK(r)' /\ CursorOK(r)'
    BY <1>1, <1>2, <1>4, <1>6 DEF RowOK, CursorOK, Settled, SyncCursor, Active
<1> QED
    BY <1>1, <1>4, <1>8, <1>9, RowsAssumption DEF Core, RowInv, ImportOK

LEMMA ImpRemoveStep ==
    ASSUME IInv, ImpRemove
    PROVE  Core'
<1> USE DEF dbVars, envVars, syncVars, impVars, ghosts, rowVars
<1>0. PICK r \in Rows : r = impRow
    BY CursorAtRow DEF ImpRemove
<1> USE <1>0
<1>1. r \in Rows /\ CursorOK(r) /\ RowOK(r)
    BY CursorAtRow DEF ImpRemove, IInv, Core, RowInv
<1>2. /\ impPc' = "next" /\ impRow' = NoRow
      /\ \A q \in Rows \ {r} : impSnap'[q] = impSnap[q]
    BY <1>1, NextRowEffect DEF ImpRemove, IInv
<1>3. /\ status'[r] = "absent"
      /\ \A q \in Rows \ {r} : status'[q] = status[q] /\ stale'[q] = stale[q]
      /\ UNCHANGED <<grab, events, blocklist, attempts, batch, SyncCursor>>
    BY <1>1, DeleteRowEffect DEF ImpRemove, IInv, SyncCursor
<1>4. \A q \in Rows \ {r} : Same(q) /\ impSnap'[q] = impSnap[q]
    BY <1>2, <1>3 DEF Same
<1>5. /\ TodoInv' /\ SyncOK' /\ BatchInv'
      /\ \A q \in Rows \ {r} : RowOK(q)'
    BY <1>1, <1>2, <1>3, <1>4, AtCursorFrame
<1>6. RowOK(r)'
    BY <1>1, <1>3 DEF RowOK, CursorOK, Settled, Active
<1>7. ImportOK'
    BY <1>2 DEF ImportOK
<1> QED
    BY <1>1, <1>5, <1>6, <1>7 DEF Core, RowInv

LEMMA ImpRetryStep ==
    ASSUME IInv, ImpRetry
    PROVE  Core'
<1> USE DEF dbVars, envVars, syncVars, impVars, ghosts, rowVars
<1>0. PICK r \in Rows : r = impRow
    BY CursorAtRow DEF ImpRetry
<1> USE <1>0
<1> DEFINE n == impSnap[r].stale + 1
<1>1. r \in Rows /\ CursorOK(r) /\ RowOK(r) /\ impPc = "outcome"
    BY CursorAtRow DEF ImpRetry, IInv, Core, RowInv
<1>2. /\ impPc' = "next" /\ impRow' = NoRow
      /\ \A q \in Rows \ {r} : impSnap'[q] = impSnap[q]
    BY <1>1, NextRowEffect DEF ImpRetry, IInv
<1>3. /\ \A q \in Rows \ {r} : status'[q] = status[q] /\ stale'[q] = stale[q]
      /\ status'[r] \in {"completed", "absent"}
      /\ status'[r] = "completed" => stale'[r] = n
  <2>1. "completed" \in Statuses /\ n \in Nat /\ path[r] \in BOOLEAN
    BY <1>1 DEF IInv, TypeOK, Snapshot, Statuses
  <2>2. UpdateRow(r, "completed", n, path[r])
    BY DEF ImpRetry
  <2> QED
    BY <1>1, <2>1, <2>2, UpdateRowEffect DEF IInv
<1>4. UNCHANGED <<grab, events, blocklist, attempts, batch, SyncCursor>>
    BY DEF ImpRetry, SyncCursor
<1>5. \A q \in Rows \ {r} : Same(q) /\ impSnap'[q] = impSnap[q]
    BY <1>2, <1>3, <1>4 DEF Same
<1>6. /\ TodoInv' /\ SyncOK' /\ BatchInv'
      /\ \A q \in Rows \ {r} : RowOK(q)'
    BY <1>1, <1>2, <1>4, <1>5, AtCursorFrame
<1>7. n < MaxAttempts /\ attempts[r] = n /\ ~Settled(r)
    BY <1>1, LimitsAssumption DEF ImpRetry, Exhausted, CursorOK, IInv, TypeOK, Snapshot
<1>8. RowOK(r)'
    BY <1>1, <1>3, <1>4, <1>7 DEF RowOK, CursorOK, Settled, Active
<1>9. ImportOK'
    BY <1>2 DEF ImportOK
<1> QED
    BY <1>1, <1>6, <1>8, <1>9 DEF Core, RowInv

LEMMA ImpFailStep ==
    ASSUME IInv, ImpFail
    PROVE  Core'
<1> USE DEF dbVars, envVars, syncVars, impVars, ghosts, rowVars
<1> DEFINE r == impRow
<1>1. r \in Rows /\ CursorOK(r) /\ RowOK(r) /\ impPc = "outcome"
    BY CursorAtRow DEF ImpFail, IInv, Core, RowInv
<1>2. /\ \A q \in Rows \ {r} : status'[q] = status[q] /\ stale'[q] = stale[q]
      /\ status'[r] \in {"failed", "absent"}
  <2>1. /\ "failed" \in Statuses /\ impSnap[r].stale + 1 \in Nat /\ stale[r] \in Nat
        /\ path[r] \in BOOLEAN
    BY <1>1 DEF IInv, TypeOK, Snapshot, Statuses
  <2>2. \E n \in Nat : UpdateRow(r, "failed", n, path[r])
    BY <2>1 DEF ImpFail
  <2> QED
    BY <1>1, <2>1, <2>2, UpdateRowEffect DEF IInv
<1>3. /\ impPc' = "record" /\ impRow' = impRow
      /\ UNCHANGED <<grab, events, blocklist, attempts, batch, impSnap, SyncCursor>>
    BY DEF ImpFail, SyncCursor
<1>4. \A q \in Rows \ {r} : Same(q)
    BY <1>2, <1>3 DEF Same
<1>5. /\ TodoInv' /\ SyncOK' /\ BatchInv'
      /\ \A q \in Rows \ {r} : RowOK(q)'
    BY <1>1, <1>3, <1>4, AtCursorFrame
<1>6. RowOK(r)' /\ CursorOK(r)'
    BY <1>1, <1>2, <1>3 DEF RowOK, CursorOK, Settled, SyncCursor, Active
<1> QED
    BY <1>1, <1>3, <1>5, <1>6, RowsAssumption DEF Core, RowInv, ImportOK

LEMMA ImpRecordStep ==
    ASSUME IInv, ImpRecord
    PROVE  Core'
<1> USE DEF dbVars, envVars, syncVars, impVars, ghosts, rowVars
<1>0. PICK r \in Rows : r = impRow
    BY CursorAtRow DEF ImpRecord
<1> USE <1>0
<1> DEFINE closed == Close(r, events[r], "download_failed")
<1>1. r \in Rows /\ CursorOK(r) /\ RowOK(r) /\ impPc = "record"
    BY CursorAtRow DEF ImpRecord, IInv, Core, RowInv
<1>2. /\ status[r] \in {"failed", "absent"} /\ blocklist[r] = 0
      /\ "download_imported" \notin events[r] /\ events[r] \in SUBSET Events
    BY <1>1 DEF CursorOK, RowOK, Settled, IInv, TypeOK
<1>3. /\ closed \in SUBSET Events
      /\ closed = events[r] \/ closed = (events[r] \ {"import_started"}) \cup {"download_failed"}
    BY <1>1, <1>2, CloseEffect DEF Events
<1>4. PICK E \in {events[r], closed} : RecordFailure(r, E)
    BY DEF ImpRecord
<1>5. /\ \A q \in Rows \ {r} : blocklist'[q] = blocklist[q] /\ events'[q] = events[q]
      /\ blocklist'[r] \in {0, 1}
      /\ events'[r] \in {E, E \cup {"download_failed"}}
    BY <1>1, <1>2, <1>3, <1>4, RecordFailureEffect DEF IInv
<1>6. /\ "download_imported" \notin events'[r]
      /\ events[r] # {} => events'[r] # {}
    BY <1>2, <1>3, <1>5
<1>7. /\ impPc' = "next" /\ impRow' = NoRow
      /\ \A q \in Rows \ {r} : impSnap'[q] = impSnap[q]
    BY <1>1, NextRowEffect DEF ImpRecord, IInv
<1>8. UNCHANGED <<grab, status, stale, attempts, batch, SyncCursor>>
    BY DEF ImpRecord, SyncCursor
<1>9. \A q \in Rows \ {r} : Same(q) /\ impSnap'[q] = impSnap[q]
    BY <1>5, <1>7, <1>8 DEF Same
<1>10. /\ TodoInv' /\ SyncOK' /\ BatchInv'
       /\ \A q \in Rows \ {r} : RowOK(q)'
    BY <1>1, <1>7, <1>8, <1>9, AtCursorFrame
<1>11. RowOK(r)'
    BY <1>1, <1>2, <1>5, <1>6, <1>8 DEF RowOK, CursorOK, Active
<1>12. ImportOK'
    BY <1>7 DEF ImportOK
<1> QED
    BY <1>1, <1>10, <1>11, <1>12 DEF Core, RowInv

LEMMA ImpEndStep ==
    ASSUME IInv, ImpEnd
    PROVE  Core'
<1> USE DEF dbVars, envVars, syncVars, impVars, ghosts, rowVars
<1>1. /\ impPc = "next" /\ impPc' = "idle" /\ batch = {} /\ batch' = {} /\ impRow' = impRow
      /\ UNCHANGED <<grab, status, stale, events, blocklist, attempts, SyncCursor>>
    BY DEF ImpEnd, SyncCursor
<1>2. impRow = NoRow
    BY <1>1 DEF IInv, Core, ImportOK, CursorOK
<1> QED
    BY <1>1, <1>2 DEF IInv, Core, RowInv, RowOK, Settled, TodoInv, TodoOK, SyncOK, BatchInv,
       ImportOK, SyncCursor

(* A task that stops, alone or with the process, forgets its rows. *)
LEMMA ImportStopped ==
    ASSUME IInv, ImpReset,
           UNCHANGED <<status, stale, events, blocklist, attempts>>,
           \A q \in Rows : \/ grab'[q] = grab[q]
                           \/ status[q] = "absent" /\ "inserted" \notin {grab[q], grab'[q]}
    PROVE  RowInv' /\ BatchInv' /\ ImportOK'
BY DEF ImpReset, IInv, Core, RowInv, RowOK, Settled, BatchInv, ImportOK

LEMMA ImpAbortStep ==
    ASSUME IInv, ImpAbort
    PROVE  Core'
<1> USE DEF dbVars, envVars, syncVars, impVars, ghosts, rowVars
<1>0. ImpReset /\ UNCHANGED <<grab, status, stale, events, blocklist, attempts>>
    BY DEF ImpAbort
<1>1. RowInv' /\ BatchInv' /\ ImportOK'
    BY <1>0, ImportStopped
<1>2. TodoInv' /\ SyncOK'
    BY DEF ImpAbort, IInv, Core, TodoInv, TodoOK, SyncOK
<1> QED
    BY <1>1, <1>2 DEF Core

LEMMA CrashStep ==
    ASSUME IInv, Crash
    PROVE  Core'
<1> USE DEF dbVars, envVars, syncVars, impVars, ghosts, rowVars
<1>1. \A q \in Rows : \/ grab'[q] = grab[q]
                      \/ status[q] = "absent" /\ "inserted" \notin {grab[q], grab'[q]}
  <2> SUFFICES ASSUME NEW q \in Rows, grab'[q] # grab[q]
               PROVE  status[q] = "absent" /\ "inserted" \notin {grab[q], grab'[q]}
    OBVIOUS
  <2>1. grab[q] = "adding" /\ grab'[q] = "lost"
    BY DEF Crash
  <2> QED
    BY <2>1 DEF IInv, Core, RowInv, RowOK
<1>0. ImpReset /\ UNCHANGED <<status, stale, events, blocklist, attempts>>
    BY DEF Crash
<1>2. RowInv' /\ BatchInv' /\ ImportOK'
    BY <1>0, <1>1, ImportStopped
<1>3. TodoInv' /\ SyncOK'
    BY DEF Crash, SyncReset, TodoInv, SyncOK
<1> QED
    BY <1>2, <1>3 DEF Core

-----------------------------------------------------------------------------
(* IInv is inductive. *)
LEMMA InvStep == IInv /\ [Next]_vars => IInv'
<1> SUFFICES ASSUME IInv, [Next]_vars PROVE Core'
    BY TypeStep DEF IInv
<1>1. CASE UNCHANGED <<dbVars, syncVars, impVars, attempts>>
    BY <1>1, FrameStep DEF dbVars, syncVars, impVars, SyncCursor, ImportCursor
<1>2. ASSUME SyncNothing \/ UNCHANGED vars PROVE Core'
    BY <1>1, <1>2 DEF SyncNothing, vars, ghosts
<1>3. ASSUME NEW r \in Rows, Age(r) PROVE Core'
    BY <1>3, FrameStep
    DEF Age, envVars, syncVars, impVars, ghosts, SyncCursor, ImportCursor
<1>4. ASSUME NEW r \in Rows, NEW s \in ItemStatuses, ClientProgress(r, s) PROVE Core'
    BY <1>1, <1>4 DEF ClientProgress
<1>5. ASSUME NEW r \in Rows, ClientForget(r) PROVE Core'
    BY <1>1, <1>5 DEF ClientForget, ghosts
<1>6. CASE Sync
    BY <1>2, <1>6, SyncSelectStep, SyncPollStep, SyncRowStep, SyncRecordStep, SyncPurgeStep
    DEF Sync
<1>7. CASE Import
    BY <1>7, ImpSelectStep, ImpSkipStep, ImpMarkStep, ImpActivityStep, ImpRunStep,
       ImpImportedStep, ImpRemoveStep, ImpRetryStep, ImpFailStep, ImpRecordStep, ImpEndStep
    DEF Import
<1>8. CASE Others
    BY <1>3, <1>4, <1>5, <1>8, GrabAddStep, GrabInsertStep, UserDeleteStep, SyncAbortStep,
       ImpAbortStep, CrashStep
    DEF Others
<1> QED
    BY <1>2, <1>6, <1>7, <1>8 DEF Next

LEMMA Inductive == Spec => []IInv
BY InitInv, InvStep, PTL DEF Spec

-----------------------------------------------------------------------------
(* Every variable of the queue, the clients and the two tasks keeps its type *)
(* in all behaviours: a queue row only ever holds a status the table knows.  *)
THEOREM TypeCorrect == Spec => []TypeOK
<1>1. IInv => TypeOK
    BY DEF IInv
<1> QED
    BY <1>1, Inductive, PTL

(* importer_task never works on a row that download_sync_task has put back   *)
(* into another status, whatever the interleaving of the two, and with any   *)
(* crashes and failing statements.                                           *)
THEOREM ImporterOwnsItsRow == Spec => []ImporterOwnsRow
<1>1. IInv => ImporterOwnsRow
  <2> SUFFICES ASSUME IInv, impPc \in {"activity", "run", "outcome", "remove"}
               PROVE  status[impRow] \in {"importing", "absent"}
    BY DEF ImporterOwnsRow
  <2> QED
    BY CursorAtRow DEF CursorOK
<1> QED
    BY <1>1, Inductive, PTL

(* A release is blocklisted at most once, and not when it was imported.      *)
THEOREM OneEnding == Spec => []SettledOnce
<1>1. IInv => SettledOnce
    BY DEF IInv, Core, RowInv, RowOK, SettledOnce
<1> QED
    BY <1>1, Inductive, PTL

(* The pipeline runs at most MaxAttempts times on a row, although missed     *)
(* polls are counted in the same column and cycles overlap.                  *)
THEOREM AttemptsAreBounded == Spec => []AttemptsBounded
<1>1. IInv => AttemptsBounded
    BY DEF IInv, Core, RowInv, RowOK, AttemptsBounded
<1> QED
    BY <1>1, Inductive, PTL

(* The first run of the pipeline on a row is logged in the history: a missed *)
(* poll is never taken for a retry.                                          *)
THEOREM FirstAttemptIsLogged == Spec => []FirstAttemptLogged
<1>1. IInv => FirstAttemptLogged
    BY DEF IInv, Core, RowInv, RowOK, FirstAttemptLogged
<1> QED
    BY <1>1, Inductive, PTL

-----------------------------------------------------------------------------
(* Nothing is lost, when no statement fails and the process does not die.    *)

Accounted(r) ==
    \/ r \in removed
    \/ "download_imported" \in events[r]
    \/ blocklist[r] > 0
    \/ syncRow = r
    \/ impRow = r /\ impPc = "record"

Ended(r) == grab[r] = "inserted" /\ status[r] \in {"absent", "failed"}

(* The importer deletes a row only after it wrote that it was imported.      *)
RemoveInv == impPc = "remove" => "download_imported" \in events[impRow]

EndedInv == \A r \in Rows : Ended(r) => Accounted(r)

LossInv == IInv /\ EndedInv /\ RemoveInv

LEMMA NothingLostIsEndedInv == NothingLost <=> EndedInv
BY DEF NothingLost, EndedInv, Ended, Accounted

(* A row that does not end in this step stays accounted for. *)
LEMMA StaysAccounted ==
    ASSUME EndedInv, NEW q \in Rows, Ended(q)' => Ended(q),
           q \in removed => q \in removed',
           "download_imported" \in events[q] => "download_imported" \in events'[q],
           blocklist[q] > 0 => blocklist'[q] > 0,
           syncRow = q => syncRow' = q,
           impRow = q /\ impPc = "record" => impRow' = q /\ impPc' = "record"
    PROVE  Ended(q)' => Accounted(q)'
BY DEF EndedInv, Accounted

LEMMA LossFrame ==
    ASSUME LossInv, UNCHANGED <<grab, status, events, blocklist, removed, syncRow, impRow, impPc>>
    PROVE  EndedInv' /\ RemoveInv'
BY DEF LossInv, EndedInv, Ended, Accounted, RemoveInv

(* A row of a sync pass: when it ends, its failure is recorded next. *)
LEMMA SyncRowLoss ==
    ASSUME LossInv, NEW r \in Rows, SyncRow(r)
    PROVE  EndedInv' /\ RemoveInv'
<1> USE DEF dbVars, envVars, syncVars, impVars, ghosts, rowVars
<1>1. SyncRowFrame(r)
    BY SyncRowEffect DEF LossInv
<1>2. /\ UNCHANGED <<grab, events, blocklist, impRow, impPc>> /\ syncRow = NoRow
      /\ \A q \in Rows \ {r} : status'[q] = status[q]
    BY <1>1 DEF SyncRowFrame
<1>3. UNCHANGED removed
    BY DEF SyncRow, SyncMove, SyncSame, SyncTrustDisk, SyncStale, SyncDrop, SyncUnreachable
<1>4. syncRow' = r \/ (status'[r] \in {"absent", "failed"} => status[r] = "absent")
  <2>1. CASE SyncDrop(r)
    BY <2>1 DEF SyncDrop
  <2>2. CASE ~SyncDrop(r)
    <3>1. \/ UNCHANGED status
          \/ \E st \in Statuses, n \in Nat, p \in BOOLEAN : UpdateRow(r, st, n, p)
      <4>1. CASE SyncMove(r)
        BY <4>1, QueueStatusType
        DEF SyncMove, StaleOnMove, LossInv, IInv, TypeOK
      <4>2. CASE SyncSame(r)
        <5>1. QueueStatus(view[r]) \in Statuses /\ snap[r].stale \in Nat
          BY <4>2, QueueStatusType DEF SyncSame, LossInv, IInv, TypeOK, Snapshot
        <5>2. status[r] = "absent" \/ status[r] \in Statuses
          BY DEF LossInv, IInv, TypeOK
        <5> QED
          BY <4>2, <5>1, <5>2 DEF SyncSame, UpdateRow, Present
      <4>3. CASE SyncTrustDisk(r)
        BY <4>3 DEF SyncTrustDisk, StaleOnMove, Statuses, LossInv, IInv, TypeOK
      <4>4. CASE SyncStale(r)
        <5>1. snap[r].stale + 1 \in Nat /\ path[r] \in BOOLEAN
          BY DEF LossInv, IInv, TypeOK, Snapshot
        <5>2. status[r] = "absent" \/ status[r] \in Statuses
          BY DEF LossInv, IInv, TypeOK
        <5> QED
          BY <4>4, <5>1, <5>2 DEF SyncStale, UpdateRow, Present
      <4>5. CASE SyncUnreachable(r)
        BY <4>5 DEF SyncUnreachable
      <4> QED
        BY <2>2, <4>1, <4>2, <4>3, <4>4, <4>5 DEF SyncRow
    <3>2. status'[r] = "absent" => status[r] = "absent"
      BY <3>1, UpdateRowEffect DEF LossInv, IInv, Statuses, Active
    <3>3. syncRow' # r => status'[r] # "failed"
      BY <1>1 DEF SyncRowFrame, Active
    <3> QED
      BY <3>2, <3>3
  <2> QED
    BY <2>1, <2>2
<1>5. ASSUME NEW q \in Rows PROVE Ended(q)' => Accounted(q)'
  <2>1. CASE q = r /\ syncRow' = r
    BY <2>1 DEF Accounted
  <2>2. CASE q # r \/ syncRow' # r
    <3>1. Ended(q)' => Ended(q)
      BY <1>2, <1>4, <2>2 DEF Ended
    <3>2. syncRow # q
      BY <1>2, RowsAssumption
    <3> QED
      BY <1>2, <1>3, <3>1, <3>2, StaysAccounted DEF LossInv
  <2> QED
    BY <2>1, <2>2
<1>6. RemoveInv'
    BY <1>2 DEF LossInv, RemoveInv
<1> QED
    BY <1>5, <1>6 DEF EndedInv

(* The blocklist entry takes the cursor's place. *)
LEMMA SyncRecordLoss ==
    ASSUME LossInv, SyncRecord, "db" \notin Faults
    PROVE  EndedInv' /\ RemoveInv'
<1>0. PICK r \in Rows : r = syncRow
    BY DEF SyncRecord, LossInv, IInv, TypeOK
<1>1. /\ UNCHANGED <<grab, status, removed, impRow, impPc>>
      /\ RecordFailure(r, events[r])
    BY <1>0 DEF SyncRecord, impVars, ghosts
<1>2. /\ \A q \in Rows \ {r} : blocklist'[q] = blocklist[q] /\ events'[q] = events[q]
      /\ blocklist'[r] > 0 /\ events[r] \subseteq events'[r]
    BY <1>1, RecordFailureEffect DEF LossInv, IInv, TypeOK
<1>3. ASSUME NEW q \in Rows PROVE Ended(q)' => Accounted(q)'
  <2>1. CASE q = r
    BY <1>2, <2>1 DEF Accounted
  <2>2. CASE q # r
    BY <1>0, <1>1, <1>2, <2>2, StaysAccounted DEF LossInv, Ended
  <2> QED
    BY <2>1, <2>2
<1>4. RemoveInv'
  <2> SUFFICES ASSUME impPc = "remove" PROVE "download_imported" \in events'[impRow]
    BY <1>1 DEF RemoveInv
  <2>1. impRow \in Rows /\ "download_imported" \in events[impRow]
    BY CursorAtRow DEF LossInv, RemoveInv
  <2> QED
    BY <1>2, <2>1
<1> QED
    BY <1>3, <1>4 DEF EndedInv

(* A failed row that is purged was blocklisted before. *)
LEMMA SyncPurgeLoss ==
    ASSUME LossInv, SyncPurge
    PROVE  EndedInv' /\ RemoveInv'
<1>1. /\ UNCHANGED <<grab, events, blocklist, removed, syncRow, impRow, impPc>>
      /\ \A q \in Rows : status'[q] = status[q] \/ status[q] = "failed"
    BY DEF SyncPurge, impVars, ghosts
<1> QED
    BY <1>1 DEF LossInv, EndedInv, Ended, Accounted, RemoveInv

LEMMA UserDeleteLoss ==
    ASSUME LossInv, NEW r \in Rows, UserDelete(r)
    PROVE  EndedInv' /\ RemoveInv'
<1>1. /\ UNCHANGED <<grab, events, blocklist, syncRow, impRow, impPc>>
      /\ removed' = removed \cup {r}
      /\ \A q \in Rows \ {r} : status'[q] = status[q]
    BY DeleteRowEffect DEF UserDelete, LossInv, IInv, syncVars, impVars
<1>2. ASSUME NEW q \in Rows PROVE Ended(q)' => Accounted(q)'
  <2>1. CASE q = r
    BY <1>1, <2>1 DEF Accounted
  <2>2. CASE q # r
    BY <1>1, <2>2, StaysAccounted DEF LossInv, Ended
  <2> QED
    BY <2>1, <2>2
<1> QED
    BY <1>1, <1>2 DEF LossInv, EndedInv, RemoveInv

LEMMA GrabInsertLoss ==
    ASSUME LossInv, NEW r \in Rows, GrabInsert(r), "db" \notin Faults
    PROVE  EndedInv' /\ RemoveInv'
<1>1. /\ UNCHANGED <<events, blocklist, removed, syncRow, impRow, impPc>>
      /\ status'[r] = "queued"
      /\ \A q \in Rows \ {r} : grab'[q] = grab[q] /\ status'[q] = status[q]
    BY DEF GrabInsert, LossInv, IInv, TypeOK, syncVars, impVars, ghosts
<1>2. ASSUME NEW q \in Rows PROVE Ended(q)' => Ended(q)
    BY <1>1 DEF Ended
<1> QED
    BY <1>1, <1>2, StaysAccounted DEF LossInv, EndedInv, RemoveInv

LEMMA GrabAddLoss ==
    ASSUME LossInv, NEW r \in Rows, NEW c \in Clients, GrabAdd(r, c)
    PROVE  EndedInv' /\ RemoveInv'
<1>1. /\ UNCHANGED <<status, events, blocklist, removed, syncRow, impRow, impPc>>
      /\ grab'[r] = "adding" /\ \A q \in Rows \ {r} : grab'[q] = grab[q]
    BY DEF GrabAdd, LossInv, IInv, TypeOK, syncVars, impVars, ghosts
<1>2. ASSUME NEW q \in Rows PROVE Ended(q)' => Ended(q)
    BY <1>1 DEF Ended
<1> QED
    BY <1>1, <1>2, StaysAccounted DEF LossInv, EndedInv, RemoveInv

LEMMA ImpMarkLoss ==
    ASSUME LossInv, NEW r \in Rows, ImpMark(r)
    PROVE  EndedInv' /\ RemoveInv'
<1>1. /\ UNCHANGED <<grab, events, blocklist, removed, syncRow>>
      /\ impPc = "next" /\ impPc' = "activity"
    BY DEF ImpMark, syncVars, ghosts
<1>2. /\ \A q \in Rows \ {r} : status'[q] = status[q]
      /\ status'[r] = IF status[r] = "absent" THEN "absent" ELSE "importing"
  <2>1. "importing" \in Statuses /\ stale[r] \in Nat /\ path[r] \in BOOLEAN
    BY DEF LossInv, IInv, TypeOK, Statuses
  <2> QED
    BY <2>1, UpdateRowEffect DEF ImpMark, LossInv, IInv
<1>3. ASSUME NEW q \in Rows PROVE Ended(q)' => Ended(q)
    BY <1>1, <1>2 DEF Ended
<1> QED
    BY <1>1, <1>3, StaysAccounted DEF LossInv, EndedInv, RemoveInv

(* The importer's own steps leave the other rows accounted for. *)
LEMMA ImpActivityLoss ==
    ASSUME LossInv, ImpActivity
    PROVE  EndedInv' /\ RemoveInv'
<1>0. PICK r \in Rows : r = impRow
    BY CursorAtRow DEF ImpActivity, LossInv
<1>1. /\ UNCHANGED <<grab, status, blocklist, removed, syncRow, impRow>>
      /\ impPc = "activity" /\ impPc' = "run"
      /\ \A q \in Rows : events[q] \subseteq events'[q]
    BY <1>0 DEF ImpActivity, LossInv, IInv, TypeOK, syncVars, ghosts
<1>2. ASSUME NEW q \in Rows PROVE Ended(q)' => Ended(q)
    BY <1>1 DEF Ended
<1> QED
    BY <1>1, <1>2, StaysAccounted DEF LossInv, EndedInv, RemoveInv

LEMMA ImpImportedLoss ==
    ASSUME LossInv, ImpImported, "db" \notin Faults
    PROVE  EndedInv' /\ RemoveInv'
<1>0. PICK r \in Rows : r = impRow
    BY CursorAtRow DEF ImpImported, LossInv
<1>1. /\ UNCHANGED <<grab, status, blocklist, removed, syncRow, impRow>>
      /\ impPc = "outcome" /\ impPc' = "remove"
    BY DEF ImpImported, syncVars, ghosts
<1>2. /\ "download_imported" \in events'[r]
      /\ \A q \in Rows \ {r} : events'[q] = events[q]
    BY <1>0 DEF ImpImported, LossInv, IInv, TypeOK
<1>3. ASSUME NEW q \in Rows PROVE Ended(q)' => Ended(q)
    BY <1>1 DEF Ended
<1> QED
    BY <1>0, <1>1, <1>2, <1>3, StaysAccounted DEF LossInv, EndedInv, RemoveInv

LEMMA ImpRemoveLoss ==
    ASSUME LossInv, ImpRemove
    PROVE  EndedInv' /\ RemoveInv'
<1>0. PICK r \in Rows : r = impRow
    BY CursorAtRow DEF ImpRemove, LossInv
<1>1. /\ UNCHANGED <<grab, events, blocklist, removed, syncRow>>
      /\ impPc = "remove" /\ impPc' = "next"
    BY DEF ImpRemove, NextRow, syncVars, ghosts
<1>2. /\ "download_imported" \in events[r]
      /\ \A q \in Rows \ {r} : status'[q] = status[q]
    BY <1>0, <1>1, DeleteRowEffect DEF ImpRemove, LossInv, IInv, RemoveInv
<1>3. ASSUME NEW q \in Rows PROVE Ended(q)' => Accounted(q)'
  <2>1. CASE q = r
    BY <1>1, <1>2, <2>1 DEF Accounted
  <2>2. CASE q # r
    BY <1>0, <1>1, <1>2, <2>2, StaysAccounted DEF LossInv, Ended
  <2> QED
    BY <2>1, <2>2
<1> QED
    BY <1>1, <1>3 DEF EndedInv, RemoveInv

LEMMA ImpRetryLoss ==
    ASSUME LossInv, ImpRetry
    PROVE  EndedInv' /\ RemoveInv'
<1>0. PICK r \in Rows : r = impRow
    BY CursorAtRow DEF ImpRetry, LossInv
<1>1. /\ UNCHANGED <<grab, events, blocklist, removed, syncRow>>
      /\ impPc = "outcome" /\ impPc' = "next"
    BY DEF ImpRetry, NextRow, syncVars, ghosts
<1>2. /\ \A q \in Rows \ {r} : status'[q] = status[q]
      /\ status'[r] = IF status[r] = "absent" THEN "absent" ELSE "completed"
  <2>1. "completed" \in Statuses /\ impSnap[r].stale + 1 \in Nat /\ path[r] \in BOOLEAN
    BY DEF LossInv, IInv, TypeOK, Snapshot, Statuses
  <2> QED
    BY <1>0, <2>1, UpdateRowEffect DEF ImpRetry, LossInv, IInv
<1>3. ASSUME NEW q \in Rows PROVE Ended(q)' => Ended(q)
    BY <1>1, <1>2 DEF Ended
<1> QED
    BY <1>1, <1>3, StaysAccounted DEF LossInv, EndedInv, RemoveInv

(* A row that fails is recorded in the next step. *)
LEMMA ImpFailLoss ==
    ASSUME LossInv, ImpFail
    PROVE  EndedInv' /\ RemoveInv'
<1>0. PICK r \in Rows : r = impRow
    BY CursorAtRow DEF ImpFail, LossInv
<1>1. /\ UNCHANGED <<grab, events, blocklist, removed, syncRow, impRow>>
      /\ impPc = "outcome" /\ impPc' = "record"
    BY DEF ImpFail, syncVars, ghosts
<1>2. \A q \in Rows \ {r} : status'[q] = status[q]
  <2>1. /\ "failed" \in Statuses /\ impSnap[r].stale + 1 \in Nat /\ stale[r] \in Nat
        /\ path[r] \in BOOLEAN
    BY DEF LossInv, IInv, TypeOK, Snapshot, Statuses
  <2>2. \E n \in Nat : UpdateRow(r, "failed", n, path[r])
    BY <1>0, <2>1 DEF ImpFail
  <2> QED
    BY <2>1, <2>2, UpdateRowEffect DEF LossInv, IInv
<1>3. ASSUME NEW q \in Rows PROVE Ended(q)' => Accounted(q)'
  <2>1. CASE q = r
    BY <1>0, <1>1, <2>1 DEF Accounted
  <2>2. CASE q # r
    BY <1>0, <1>1, <1>2, <2>2, StaysAccounted DEF LossInv, Ended
  <2> QED
    BY <2>1, <2>2
<1> QED
    BY <1>1, <1>3 DEF EndedInv, RemoveInv

LEMMA ImpRecordLoss ==
    ASSUME LossInv, ImpRecord, "db" \notin Faults
    PROVE  EndedInv' /\ RemoveInv'
<1>0. PICK r \in Rows : r = impRow
    BY CursorAtRow DEF ImpRecord, LossInv
<1>1. /\ UNCHANGED <<grab, status, removed, syncRow>>
      /\ impPc = "record" /\ impPc' = "next"
    BY DEF ImpRecord, NextRow, syncVars, ghosts
<1>2. RecordFailure(r, Close(r, events[r], "download_failed"))
    BY <1>0 DEF ImpRecord
<1>3. Close(r, events[r], "download_failed") \in SUBSET Events
    BY CloseEffect DEF LossInv, IInv, TypeOK, Events
<1>4. /\ \A q \in Rows \ {r} : blocklist'[q] = blocklist[q] /\ events'[q] = events[q]
      /\ blocklist'[r] > 0
    BY <1>2, <1>3, RecordFailureEffect DEF LossInv, IInv, TypeOK
<1>5. ASSUME NEW q \in Rows PROVE Ended(q)' => Accounted(q)'
  <2>1. CASE q = r
    BY <1>4, <2>1 DEF Accounted
  <2>2. CASE q # r
    BY <1>0, <1>1, <1>4, <2>2, StaysAccounted DEF LossInv, Ended
  <2> QED
    BY <2>1, <2>2
<1> QED
    BY <1>1, <1>5 DEF EndedInv, RemoveInv

(* The importer goes on without touching a record. *)
LEMMA ImpCursorLoss ==
    ASSUME LossInv, UNCHANGED <<grab, status, events, blocklist, removed, syncRow, impRow>>,
           impPc # "record", impPc' \notin {"record", "remove"}
    PROVE  EndedInv' /\ RemoveInv'
BY DEF LossInv, EndedInv, Ended, Accounted, RemoveInv

LEMMA LossStep ==
    ASSUME LossInv, [Next]_vars, Faults \cap {"db", "crash"} = {}
    PROVE  LossInv'
<1>1. IInv'
    BY InvStep DEF LossInv
<1>2. SUFFICES EndedInv' /\ RemoveInv'
    BY <1>1 DEF LossInv
<1>3. "db" \notin Faults /\ "crash" \notin Faults
    OBVIOUS
<1> USE DEF dbVars, envVars, syncVars, impVars, ghosts, rowVars
<1>4. CASE UNCHANGED vars
    BY <1>4, LossFrame DEF vars
<1>5. CASE Sync
  <2>1. CASE SyncSelect \/ SyncNothing \/ SyncPoll
    BY <2>1, LossFrame DEF SyncSelect, SyncNothing, SyncPoll, vars
  <2> QED
    BY <1>3, <1>5, <2>1, SyncRowLoss, SyncRecordLoss, SyncPurgeLoss DEF Sync
<1>6. CASE Import
  <2>1. ASSUME NEW r \in Rows, ImpSkip(r) PROVE EndedInv' /\ RemoveInv'
    BY <2>1, LossFrame DEF ImpSkip
  <2>2. CASE ImpSelect \/ ImpRun \/ ImpEnd
    BY <2>2, ImpCursorLoss DEF ImpSelect, ImpRun, ImpEnd
  <2> QED
    BY <1>3, <1>6, <2>1, <2>2, ImpMarkLoss, ImpActivityLoss, ImpImportedLoss, ImpRemoveLoss,
       ImpRetryLoss, ImpFailLoss, ImpRecordLoss
    DEF Import
<1>7. CASE Others
  <2>1. ASSUME NEW r \in Rows, Age(r) \/ ClientForget(r) PROVE EndedInv' /\ RemoveInv'
    BY <2>1, LossFrame DEF Age, ClientForget
  <2>2. ASSUME NEW r \in Rows, NEW s \in ItemStatuses, ClientProgress(r, s)
        PROVE  EndedInv' /\ RemoveInv'
    BY <2>2, LossFrame DEF ClientProgress
  <2>3. ~(SyncAbort \/ ImpAbort \/ Crash)
    BY <1>3 DEF SyncAbort, ImpAbort, Crash
  <2> QED
    BY <1>3, <1>7, <2>1, <2>2, <2>3, GrabAddLoss, GrabInsertLoss, UserDeleteLoss DEF Others
<1> QED
    BY <1>4, <1>5, <1>6, <1>7 DEF Next

(* When no statement fails and the process does not die, no download leaves  *)
(* the queue without a trace: it was imported, deleted by its user, or its   *)
(* release was blocklisted.                                                  *)
THEOREM NothingIsLost ==
    ASSUME Faults \cap {"db", "crash"} = {}
    PROVE  Spec => []NothingLost
<1>1. Init => LossInv
  <2>1. Init => EndedInv /\ RemoveInv
    BY DEF Init, EndedInv, Ended, RemoveInv
  <2> QED
    BY <2>1, InitInv DEF LossInv
<1>2. LossInv /\ [Next]_vars => LossInv'
    BY LossStep
<1>3. LossInv => NothingLost
    BY NothingLostIsEndedInv DEF LossInv
<1> QED
    BY <1>1, <1>2, <1>3, PTL DEF Spec

-----------------------------------------------------------------------------
(* The rows live the life that QueueLifecycle describes. *)

lives    == [r \in Rows |-> Life(r)]
verdicts == [r \in Rows |-> Verdict(r)]

AbsStep == [Lifecycle!Next]_<<lives, verdicts>>

(* The step leaves the life and the verdict of a row as they are. *)
Still(q) == Life(q)' = Life(q) /\ Verdict(q)' = Verdict(q)

-----------------------------------------------------------------------------
(* What a step shows of itself in the abstract state. *)

LEMMA NothingShows ==
    ASSUME \A q \in Rows : Still(q)
    PROVE  AbsStep
BY DEF Still, AbsStep, lives, verdicts

LEMMA MapsMove ==
    ASSUME NEW r \in Rows, \A q \in Rows \ {r} : Still(q), Verdict(r)' = Verdict(r)
    PROVE  /\ lives' = [lives EXCEPT ![r] = Life(r)']
           /\ verdicts' = verdicts
BY DEF Still, lives, verdicts

LEMMA MapsVerdict ==
    ASSUME NEW r \in Rows, \A q \in Rows \ {r} : Still(q), Life(r)' = Life(r)
    PROVE  /\ verdicts' = [verdicts EXCEPT ![r] = Verdict(r)']
           /\ lives' = lives
BY DEF Still, lives, verdicts

(* One row goes on in its life, and no verdict is passed. *)
LEMMA LifeStep ==
    ASSUME NEW r \in Rows, \A q \in Rows \ {r} : Still(q), Verdict(r)' = Verdict(r),
           \/ Life(r)' = Life(r)
           \/ Life(r) = "unborn" /\ Life(r)' = "active"
           \/ Life(r) = "active" /\ Life(r)' = "ready"
           \/ Life(r) = "ready" /\ Life(r)' = "importing"
           \/ Life(r) = "importing" /\ Life(r)' \in {"ready", "failed"} /\ Verdict(r) = "open"
           \/ Life(r) = "active" /\ Life(r)' \in {"failed", "gone"} /\ Verdict(r) = "open"
           \/ Life(r) # "unborn" /\ Life(r)' = "gone"
    PROVE  AbsStep
<1>1. /\ lives' = [lives EXCEPT ![r] = Life(r)']
      /\ verdicts' = verdicts
    BY MapsMove
<1>2. lives[r] = Life(r) /\ verdicts[r] = Verdict(r)
    BY DEF lives, verdicts
<1>3. CASE Life(r)' = Life(r)
    BY <1>3, NothingShows DEF Still
<1>4. CASE Life(r) = "unborn" /\ Life(r)' = "active"
  <2>1. Lifecycle!Enqueue(r)
    BY <1>1, <1>2, <1>4 DEF Lifecycle!Enqueue, Lifecycle!Move, lives, verdicts
  <2> QED
    BY <2>1 DEF AbsStep, Lifecycle!Next
<1>5. CASE Life(r) = "active" /\ Life(r)' = "ready"
  <2>1. Lifecycle!Finish(r)
    BY <1>1, <1>2, <1>5 DEF Lifecycle!Finish, Lifecycle!Move, lives, verdicts
  <2> QED
    BY <2>1 DEF AbsStep, Lifecycle!Next
<1>6. CASE Life(r) = "ready" /\ Life(r)' = "importing"
  <2>1. Lifecycle!Import(r)
    BY <1>1, <1>2, <1>6 DEF Lifecycle!Import, Lifecycle!Move, lives, verdicts
  <2> QED
    BY <2>1 DEF AbsStep, Lifecycle!Next
<1>7. CASE Life(r) = "importing" /\ Life(r)' = "ready" /\ Verdict(r) = "open"
  <2>1. Lifecycle!Retry(r)
    BY <1>1, <1>2, <1>7 DEF Lifecycle!Retry, Lifecycle!Move, lives, verdicts
  <2> QED
    BY <2>1 DEF AbsStep, Lifecycle!Next
<1>8. CASE Life(r) \in {"active", "importing"} /\ Life(r)' = "failed" /\ Verdict(r) = "open"
  <2>1. Lifecycle!Fail(r)
    BY <1>1, <1>2, <1>8 DEF Lifecycle!Fail, Lifecycle!Move, lives, verdicts
  <2> QED
    BY <2>1 DEF AbsStep, Lifecycle!Next
<1>9. CASE Life(r) \notin {"unborn", "gone"} /\ Life(r)' = "gone"
  <2>1. Lifecycle!Cancel(r)
    BY <1>1, <1>2, <1>9 DEF Lifecycle!Cancel, lives, verdicts
  <2> QED
    BY <2>1 DEF AbsStep, Lifecycle!Next
<1> QED
    BY <1>3, <1>4, <1>5, <1>6, <1>7, <1>8, <1>9

(* A verdict is passed on one row that has none. *)
LEMMA VerdictStep ==
    ASSUME NEW r \in Rows, \A q \in Rows \ {r} : Still(q), Life(r)' = Life(r),
           \/ Verdict(r)' = Verdict(r)
           \/ /\ Verdict(r) = "open" /\ Verdict(r)' = "imported"
              /\ Life(r) \in {"importing", "gone"}
           \/ /\ Verdict(r) = "open" /\ Verdict(r)' = "blocklisted"
              /\ Life(r) \in {"failed", "gone"}
    PROVE  AbsStep
<1>1. /\ verdicts' = [verdicts EXCEPT ![r] = Verdict(r)']
      /\ lives' = lives
    BY MapsVerdict
<1>2. lives[r] = Life(r) /\ verdicts[r] = Verdict(r)
    BY DEF lives, verdicts
<1>3. CASE Verdict(r)' = Verdict(r)
    BY <1>3, NothingShows DEF Still
<1>4. CASE Verdict(r) = "open" /\ Verdict(r)' = "imported" /\ Life(r) \in {"importing", "gone"}
  <2>1. Lifecycle!Accept(r)
    BY <1>1, <1>2, <1>4 DEF Lifecycle!Accept, lives, verdicts
  <2> QED
    BY <2>1 DEF AbsStep, Lifecycle!Next
<1>5. CASE Verdict(r) = "open" /\ Verdict(r)' = "blocklisted" /\ Life(r) \in {"failed", "gone"}
  <2>1. Lifecycle!Reject(r)
    BY <1>1, <1>2, <1>5 DEF Lifecycle!Reject, lives, verdicts
  <2> QED
    BY <2>1 DEF AbsStep, Lifecycle!Next
<1> QED
    BY <1>3, <1>4, <1>5

(* What a row shows depends on four of its fields. *)
LEMMA UntouchedIsStill ==
    ASSUME NEW q \in Rows, grab'[q] = grab[q], status'[q] = status[q],
           events'[q] = events[q], blocklist'[q] = blocklist[q]
    PROVE  Still(q)
BY DEF Still, Life, Verdict

LEMMA SameLife ==
    ASSUME NEW q \in Rows, grab'[q] = grab[q], status'[q] = status[q]
    PROVE  Life(q)' = Life(q)
BY DEF Life

LEMMA SameVerdict ==
    ASSUME NEW q \in Rows, blocklist'[q] = blocklist[q],
           "download_imported" \in events'[q] <=> "download_imported" \in events[q]
    PROVE  Verdict(q)' = Verdict(q)
BY DEF Verdict

(* A row that is inserted lives as its status says, and one with no record   *)
(* has no verdict.                                                           *)
LEMMA LifeOf ==
    ASSUME NEW r \in Rows, grab[r] = "inserted"
    PROVE  /\ status[r] = "absent" => Life(r) = "gone"
           /\ status[r] = "completed" => Life(r) = "ready"
           /\ status[r] = "importing" => Life(r) = "importing"
           /\ status[r] = "failed" => Life(r) = "failed"
           /\ status[r] \in Active => Life(r) = "active"
BY DEF Life, Active

LEMMA LifeOfNext ==
    ASSUME NEW r \in Rows, grab'[r] = "inserted"
    PROVE  /\ status'[r] = "absent" => Life(r)' = "gone"
           /\ status'[r] = "completed" => Life(r)' = "ready"
           /\ status'[r] = "importing" => Life(r)' = "importing"
           /\ status'[r] = "failed" => Life(r)' = "failed"
           /\ status'[r] \in Active => Life(r)' = "active"
BY DEF Life, Active

LEMMA OpenIffNotSettled ==
    ASSUME IInv, NEW r \in Rows
    PROVE  Verdict(r) = "open" <=> ~Settled(r)
BY DEF IInv, TypeOK, Verdict, Settled

-----------------------------------------------------------------------------
(* The actions, one by one. *)

LEMMA GrabAddRefines ==
    ASSUME IInv, NEW r \in Rows, NEW c \in Clients, GrabAdd(r, c)
    PROVE  AbsStep
<1>1. UNCHANGED <<status, events, blocklist>> /\ grab[r] = "free" /\ grab'[r] = "adding"
      /\ \A q \in Rows \ {r} : grab'[q] = grab[q]
    BY DEF GrabAdd, IInv, TypeOK
<1>2. Still(r)
    BY <1>1 DEF Still, Life, Verdict
<1> QED
    BY <1>1, <1>2, UntouchedIsStill, NothingShows

LEMMA GrabInsertRefines ==
    ASSUME IInv, NEW r \in Rows, GrabInsert(r)
    PROVE  AbsStep
<1>1. /\ UNCHANGED <<events, blocklist>> /\ grab[r] = "adding"
      /\ \/ grab'[r] = "inserted" /\ status'[r] = "queued"
         \/ grab'[r] = "lost"
      /\ \A q \in Rows \ {r} : grab'[q] = grab[q] /\ status'[q] = status[q]
    BY DEF GrabInsert, IInv, TypeOK
<1>2. \A q \in Rows \ {r} : Still(q)
    BY <1>1, UntouchedIsStill
<1>3. Verdict(r)' = Verdict(r)
    BY <1>1, SameVerdict
<1>4. Life(r) = "unborn" /\ Life(r)' \in {"unborn", "active"}
  <2>1. Life(r) = "unborn"
    BY <1>1 DEF Life
  <2>2. CASE grab'[r] = "inserted" /\ status'[r] = "queued"
    BY <2>1, <2>2, LifeOfNext DEF Active
  <2>3. CASE grab'[r] = "lost"
    BY <2>1, <2>3 DEF Life
  <2> QED
    BY <1>1, <2>2, <2>3
<1> QED
    BY <1>2, <1>3, <1>4, LifeStep

LEMMA UserDeleteRefines ==
    ASSUME IInv, NEW r \in Rows, UserDelete(r)
    PROVE  AbsStep
<1>1. /\ UNCHANGED <<grab, events, blocklist>> /\ status'[r] = "absent"
      /\ \A q \in Rows \ {r} : status'[q] = status[q]
    BY DeleteRowEffect DEF UserDelete, IInv
<1>2. grab[r] = "inserted"
    BY DEF UserDelete, Present, IInv, Core, RowInv, RowOK
<1>3. \A q \in Rows \ {r} : Still(q)
    BY <1>1, UntouchedIsStill
<1>4. Verdict(r)' = Verdict(r) /\ Life(r) # "unborn" /\ Life(r)' = "gone"
    BY <1>1, <1>2, SameVerdict, LifeOfNext DEF Life
<1> QED
    BY <1>3, <1>4, LifeStep

(* A row of a sync pass is active or was deleted, and no record exists of it.*)
LEMMA SyncRowRefines ==
    ASSUME IInv, NEW r \in Rows, SyncRow(r)
    PROVE  AbsStep
<1>1. SyncRowFrame(r) /\ TodoOK(r)
    BY SyncRowEffect DEF IInv, Core, TodoInv, SyncRowFrame
<1>2. /\ UNCHANGED <<grab, events, blocklist>> /\ grab[r] = "inserted"
      /\ events[r] = {} /\ blocklist[r] = 0
      /\ \A q \in Rows \ {r} : status'[q] = status[q]
    BY <1>1 DEF SyncRowFrame, TodoOK
<1>3. status[r] \in Active \cup {"absent"}
    BY <1>1, RowsAssumption DEF SyncRowFrame, TodoOK
<1>4. status'[r] \in Active \cup {"completed", "failed", "absent"}
    BY <1>1 DEF SyncRowFrame
<1>5. status[r] = "absent" => status'[r] = "absent"
    BY DEF SyncRow, SyncMove, SyncSame, SyncTrustDisk, SyncStale, SyncDrop,
           SyncUnreachable, UpdateRow, DeleteRow, Present, rowVars, dbVars, IInv, TypeOK
<1>6. \A q \in Rows \ {r} : Still(q)
    BY <1>2, UntouchedIsStill
<1>7. Verdict(r)' = Verdict(r) /\ Verdict(r) = "open"
    BY <1>2, SameVerdict DEF Verdict
<1>8. CASE status[r] = "absent"
  <2>1. Life(r)' = Life(r)
    BY <1>2, <1>5, <1>8, SameLife
  <2> QED
    BY <1>6, <1>7, <2>1, LifeStep
<1>9. CASE status[r] \in Active
  <2>1. Life(r) = "active" /\ Life(r)' \in {"active", "ready", "failed", "gone"}
    BY <1>2, <1>4, <1>9, LifeOf, LifeOfNext
  <2> QED
    BY <1>6, <1>7, <2>1, LifeStep
<1> QED
    BY <1>3, <1>8, <1>9

LEMMA SyncRecordRefines ==
    ASSUME IInv, SyncRecord
    PROVE  AbsStep
<1>0. PICK r \in Rows : r = syncRow
    BY DEF SyncRecord, IInv, TypeOK
<1>1. /\ r \in Rows /\ TodoOK(r) /\ status[r] \in {"failed", "absent"}
    BY <1>0 DEF IInv, Core, TypeOK, SyncRecord, SyncOK, TodoInv
<1>2. /\ grab[r] = "inserted" /\ events[r] = {} /\ blocklist[r] = 0
      /\ events[r] \in SUBSET Events /\ UNCHANGED <<grab, status>>
    BY <1>1 DEF TodoOK, SyncRecord
<1>3. /\ blocklist'[r] \in {0, 1} /\ "download_imported" \notin events'[r]
      /\ \A q \in Rows \ {r} : blocklist'[q] = blocklist[q] /\ events'[q] = events[q]
    BY <1>0, <1>1, <1>2, RecordFailureEffect DEF IInv, SyncRecord
<1>4. \A q \in Rows \ {r} : Still(q)
    BY <1>2, <1>3, UntouchedIsStill
<1>5. Life(r)' = Life(r) /\ Life(r) \in {"failed", "gone"}
    BY <1>1, <1>2, LifeOf, SameLife
<1>6. Verdict(r) = "open" /\ Verdict(r)' \in {"open", "blocklisted"}
    BY <1>2, <1>3 DEF Verdict
<1> QED
    BY <1>1, <1>4, <1>5, <1>6, VerdictStep

LEMMA SyncPurgeRefines ==
    ASSUME IInv, SyncPurge
    PROVE  AbsStep
<1> DEFINE old == {q \in aged : status[q] = "failed"}
<1>1. /\ UNCHANGED <<grab, events, blocklist>> /\ old \subseteq Rows
      /\ \A q \in Rows : status'[q] = IF q \in old THEN "absent" ELSE status[q]
    BY DEF SyncPurge, IInv, TypeOK
<1>2. \A q \in old : Life(q) = "failed" /\ Life(q)' = "gone"
  <2> SUFFICES ASSUME NEW q \in old PROVE Life(q) = "failed" /\ Life(q)' = "gone"
    OBVIOUS
  <2>1. q \in Rows /\ status[q] = "failed" /\ status'[q] = "absent"
    BY <1>1
  <2>2. grab[q] = "inserted" /\ grab'[q] = "inserted"
    BY <1>1, <2>1 DEF IInv, Core, RowInv, RowOK
  <2> QED
    BY <2>1, <2>2, LifeOf, LifeOfNext
<1>3. \A q \in Rows \ old : Life(q)' = Life(q)
    BY <1>1, SameLife
<1>4. verdicts' = verdicts
    BY <1>1, SameVerdict DEF verdicts
<1>5. /\ lives' = [q \in Rows |-> IF q \in old THEN "gone" ELSE lives[q]]
      /\ old \in SUBSET {q \in Rows : lives[q] = "failed"}
    BY <1>1, <1>2, <1>3 DEF lives
<1>6. Lifecycle!Purge
    BY <1>4, <1>5 DEF Lifecycle!Purge, lives, verdicts
<1> QED
    BY <1>6 DEF AbsStep, Lifecycle!Next

(* A row of the importer's batch is completed or was deleted.                *)
LEMMA ImpMarkRefines ==
    ASSUME IInv, NEW r \in Rows, ImpMark(r)
    PROVE  AbsStep
<1>1. BatchOK(r) /\ UNCHANGED <<grab, events, blocklist>>
    BY DEF IInv, Core, BatchInv, ImpMark
<1>2. /\ \A q \in Rows \ {r} : status'[q] = status[q]
      /\ status'[r] = IF status[r] = "absent" THEN "absent" ELSE "importing"
  <2>1. "importing" \in Statuses /\ stale[r] \in Nat /\ path[r] \in BOOLEAN
    BY DEF IInv, TypeOK, Statuses
  <2> QED
    BY <2>1, UpdateRowEffect DEF ImpMark, IInv
<1>3. \A q \in Rows \ {r} : Still(q)
    BY <1>1, <1>2, UntouchedIsStill
<1>4. Verdict(r)' = Verdict(r)
    BY <1>1, SameVerdict
<1>5. CASE status[r] = "absent"
  <2>1. Life(r)' = Life(r)
    BY <1>1, <1>2, <1>5, SameLife
  <2> QED
    BY <1>3, <1>4, <2>1, LifeStep
<1>6. CASE status[r] = "completed"
  <2>1. Life(r) = "ready" /\ Life(r)' = "importing"
    BY <1>1, <1>2, <1>6, LifeOf, LifeOfNext DEF BatchOK
  <2> QED
    BY <1>3, <1>4, <2>1, LifeStep
<1> QED
    BY <1>1, <1>5, <1>6 DEF BatchOK

LEMMA ImpActivityRefines ==
    ASSUME IInv, ImpActivity
    PROVE  AbsStep
<1>0. PICK r \in Rows : r = impRow
    BY CursorAtRow DEF ImpActivity
<1>1. /\ UNCHANGED <<grab, status, blocklist>>
      /\ events'[r] \in {events[r], events[r] \cup {"import_started"}}
      /\ \A q \in Rows \ {r} : events'[q] = events[q]
    BY <1>0 DEF ImpActivity, IInv, TypeOK
<1>2. \A q \in Rows \ {r} : Still(q)
    BY <1>1, UntouchedIsStill
<1>3. Still(r)
    BY <1>1, SameLife, SameVerdict DEF Still
<1> QED
    BY <1>2, <1>3, NothingShows

LEMMA ImpImportedRefines ==
    ASSUME IInv, ImpImported
    PROVE  AbsStep
<1>0. PICK r \in Rows : r = impRow
    BY CursorAtRow DEF ImpImported
<1>1. CursorOK(r) /\ impPc = "outcome" /\ UNCHANGED <<grab, status, blocklist>>
    BY <1>0, CursorAtRow DEF ImpImported
<1>2. \A q \in Rows \ {r} : events'[q] = events[q]
    BY <1>0 DEF ImpImported, IInv, TypeOK
<1>3. \A q \in Rows \ {r} : Still(q)
    BY <1>1, <1>2, UntouchedIsStill
<1>4. Life(r)' = Life(r) /\ Life(r) \in {"importing", "gone"}
    BY <1>1, SameLife, LifeOf DEF CursorOK
<1>5. Verdict(r) = "open" /\ blocklist[r] = 0
    BY <1>1 DEF CursorOK, Settled, Verdict, IInv, TypeOK
<1>6. Verdict(r)' \in {"open", "imported"}
    BY <1>1, <1>5 DEF Verdict
<1> QED
    BY <1>3, <1>4, <1>5, <1>6, VerdictStep

LEMMA ImpRemoveRefines ==
    ASSUME IInv, ImpRemove
    PROVE  AbsStep
<1>0. PICK r \in Rows : r = impRow
    BY CursorAtRow DEF ImpRemove
<1>1. /\ grab[r] = "inserted" /\ UNCHANGED <<grab, events, blocklist>>
      /\ status'[r] = "absent"
      /\ \A q \in Rows \ {r} : status'[q] = status[q]
    BY <1>0, CursorAtRow, DeleteRowEffect DEF ImpRemove, IInv, CursorOK
<1>2. \A q \in Rows \ {r} : Still(q)
    BY <1>1, UntouchedIsStill
<1>3. Verdict(r)' = Verdict(r) /\ Life(r) # "unborn" /\ Life(r)' = "gone"
    BY <1>1, SameVerdict, LifeOfNext DEF Life
<1> QED
    BY <1>2, <1>3, LifeStep

(* The importer ends an attempt: the row was importing or deleted, and has   *)
(* no verdict yet.                                                           *)
LEMMA AttemptEnds ==
    ASSUME IInv, impPc = "outcome", NEW st \in {"completed", "failed"},
           UNCHANGED <<grab, events, blocklist>>,
           \E n \in Nat : UpdateRow(impRow, st, n, path[impRow])
    PROVE  AbsStep
<1>0. PICK r \in Rows : r = impRow
    BY CursorAtRow
<1>1. CursorOK(r) /\ grab[r] = "inserted"
    BY <1>0, CursorAtRow DEF CursorOK
<1>2. /\ \A q \in Rows \ {r} : status'[q] = status[q]
      /\ status'[r] = IF status[r] = "absent" THEN "absent" ELSE st
  <2>1. st \in Statuses /\ path[r] \in BOOLEAN
    BY DEF IInv, TypeOK, Statuses
  <2> QED
    BY <1>0, <2>1, UpdateRowEffect DEF IInv
<1>3. \A q \in Rows \ {r} : Still(q)
    BY <1>2, UntouchedIsStill
<1>4. Verdict(r)' = Verdict(r) /\ Verdict(r) = "open"
    BY <1>1, SameVerdict, OpenIffNotSettled DEF CursorOK
<1>5. CASE status[r] = "absent"
  <2>1. Life(r)' = Life(r)
    BY <1>2, <1>5, SameLife
  <2> QED
    BY <1>3, <1>4, <2>1, LifeStep
<1>6. CASE status[r] = "importing"
  <2>1. Life(r) = "importing" /\ Life(r)' \in {"ready", "failed"}
    BY <1>1, <1>2, <1>6, LifeOf, LifeOfNext
  <2> QED
    BY <1>3, <1>4, <2>1, LifeStep
<1> QED
    BY <1>1, <1>5, <1>6 DEF CursorOK

LEMMA ImpRetryRefines ==
    ASSUME IInv, ImpRetry
    PROVE  AbsStep
<1>1. impSnap[impRow].stale + 1 \in Nat
    BY CursorAtRow DEF ImpRetry, IInv, TypeOK, Snapshot
<1> QED
    BY <1>1, AttemptEnds DEF ImpRetry

LEMMA ImpFailRefines ==
    ASSUME IInv, ImpFail
    PROVE  AbsStep
<1>1. impSnap[impRow].stale + 1 \in Nat /\ stale[impRow] \in Nat
    BY CursorAtRow DEF ImpFail, IInv, TypeOK, Snapshot
<1> QED
    BY <1>1, AttemptEnds DEF ImpFail

LEMMA ImpRecordRefines ==
    ASSUME IInv, ImpRecord
    PROVE  AbsStep
<1>0. PICK r \in Rows : r = impRow
    BY CursorAtRow DEF ImpRecord
<1>1. CursorOK(r) /\ impPc = "record" /\ UNCHANGED <<grab, status>>
    BY <1>0, CursorAtRow DEF ImpRecord
<1>2. /\ "download_imported" \notin events[r] /\ blocklist[r] = 0
      /\ events[r] \in SUBSET Events
    BY <1>1 DEF CursorOK, Settled, IInv, TypeOK
<1>3. PICK E \in {events[r], Close(r, events[r], "download_failed")} : RecordFailure(r, E)
    BY <1>0 DEF ImpRecord
<1>4. E \in SUBSET Events /\ "download_imported" \notin E
    BY <1>2, CloseEffect DEF Events
<1>5. /\ \A q \in Rows \ {r} : blocklist'[q] = blocklist[q] /\ events'[q] = events[q]
      /\ blocklist'[r] \in {0, 1} /\ "download_imported" \notin events'[r]
    BY <1>2, <1>3, <1>4, RecordFailureEffect DEF IInv
<1>6. \A q \in Rows \ {r} : Still(q)
    BY <1>1, <1>5, UntouchedIsStill
<1>7. Life(r)' = Life(r) /\ Life(r) \in {"failed", "gone"}
    BY <1>1, SameLife, LifeOf DEF CursorOK
<1>8. Verdict(r) = "open" /\ Verdict(r)' \in {"open", "blocklisted"}
    BY <1>2, <1>5 DEF Verdict
<1> QED
    BY <1>6, <1>7, <1>8, VerdictStep

(* A grab between its two steps never becomes a row: no life begins.         *)
LEMMA CrashRefines ==
    ASSUME IInv, Crash
    PROVE  AbsStep
<1>1. /\ UNCHANGED <<status, events, blocklist>>
      /\ \A q \in Rows : grab'[q] = IF grab[q] = "adding" THEN "lost" ELSE grab[q]
    BY DEF Crash
<1>2. \A q \in Rows : Still(q)
    BY <1>1 DEF Still, Life, Verdict
<1> QED
    BY <1>2, NothingShows

(* Everything else happens in the tasks, the clients or on the disk.         *)
LEMMA UnseenRefines ==
    ASSUME UNCHANGED <<grab, status, events, blocklist>>
    PROVE  AbsStep
BY UntouchedIsStill, NothingShows

-----------------------------------------------------------------------------
LEMMA StepRefines == IInv /\ [Next]_vars => AbsStep
<1> SUFFICES ASSUME IInv, [Next]_vars PROVE AbsStep
    OBVIOUS
<1> USE DEF dbVars, rowVars
<1>1. CASE UNCHANGED vars
    BY <1>1, UnseenRefines DEF vars
<1>2. CASE Sync
  <2>1. CASE SyncSelect \/ SyncNothing \/ SyncPoll
    BY <2>1, UnseenRefines DEF SyncSelect, SyncNothing, SyncPoll, vars
  <2> QED
    BY <1>2, <2>1, SyncRowRefines, SyncRecordRefines, SyncPurgeRefines DEF Sync
<1>3. CASE Import
  <2>1. ASSUME NEW r \in Rows, ImpSkip(r) PROVE AbsStep
    BY <2>1, UnseenRefines DEF ImpSkip
  <2>2. CASE ImpSelect \/ ImpRun \/ ImpEnd
    BY <2>2, UnseenRefines DEF ImpSelect, ImpRun, ImpEnd
  <2> QED
    BY <1>3, <2>1, <2>2, ImpMarkRefines, ImpActivityRefines, ImpImportedRefines,
       ImpRemoveRefines, ImpRetryRefines, ImpFailRefines, ImpRecordRefines
    DEF Import
<1>4. CASE Others
  <2>1. ASSUME NEW r \in Rows, Age(r) \/ ClientForget(r) PROVE AbsStep
    BY <2>1, UnseenRefines DEF Age, ClientForget
  <2>2. ASSUME NEW r \in Rows, NEW s \in ItemStatuses, ClientProgress(r, s) PROVE AbsStep
    BY <2>2, UnseenRefines DEF ClientProgress
  <2>3. CASE SyncAbort \/ ImpAbort
    BY <2>3, UnseenRefines DEF SyncAbort, ImpAbort
  <2> QED
    BY <1>4, <2>1, <2>2, <2>3, GrabAddRefines, GrabInsertRefines, UserDeleteRefines,
       CrashRefines
    DEF Others
<1> QED
    BY <1>1, <1>2, <1>3, <1>4 DEF Next

LEMMA InitRefines == Init => Lifecycle!Init
BY DEF Init, Lifecycle!Init, Life, Verdict

(* download_sync_task, importer_task, the grabs and the queue page together  *)
(* give every download the life that QueueLifecycle describes, whatever      *)
(* crashes and whatever fails: none goes back from completed to the client,  *)
(* and each gets at most one verdict.                                        *)
THEOREM QueueKeepsItsPromise == Spec => LifecycleSpec
<1>1. IInv /\ [Next]_vars => [Lifecycle!Next]_<<[r \in Rows |-> Life(r)], [r \in Rows |-> Verdict(r)]>>
    BY StepRefines DEF AbsStep, lives, verdicts
<1> QED
    BY <1>1, InitRefines, Inductive, PTL DEF Spec, LifecycleSpec, Lifecycle!Spec
=============================================================================
