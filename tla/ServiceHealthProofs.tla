------------------------- MODULE ServiceHealthProofs -------------------------
(***************************************************************************)
(* Proofs about ServiceHealth, for any services, requests, threshold and   *)
(* number of mishaps.  The counters are safe because only the health      *)
(* check writes them: what it read before a test still stands for every    *)
(* row it has not done yet, unless that row was deleted (SnapInv).         *)
(***************************************************************************)
EXTENDS ServiceHealth, SequenceTheorems, TLAPS

(* A request in flight is about an indexer. *)
ReqInv == \A q \in Requests : req[q].pc # "idle" => req[q].on \in Indexers

(* The row in hand is one of those still to do, and has not been reused. *)
HandInv ==
    /\ hcTodo \subseteq used
    /\ hcPc \in {"select", "row"} => hcRow = NoService
    /\ hcPc \notin {"select", "row"} => hcRow \in hcTodo

(* What was read of a row still to do is what its row says. *)
SnapInv ==
    \A s \in hcTodo \cap rows : snap[s].auto = auto[s] /\ snap[s].failures = failures[s]

(* Which branch the failed test took. *)
BranchInv ==
    /\ hcPc = "count" => ~KeepsFailing(hcRow)
    /\ hcPc \in {"failing", "disabling"} => KeepsFailing(hcRow)
    /\ hcPc = "rebuilding" => hcRow \in Downloaders /\ live[hcRow] = <<>>

(* As many tests in a row have failed as the table says, and one more while  *)
(* the result is being written, unless a test that passed was not written.   *)
StreakInv ==
    \A s \in rows :
        \/ s \in unwritten
        \/ /\ streak[s] >= failures[s]
           /\ s = hcRow /\ hcPc \in {"count", "failing", "disabling"}
                 => streak[s] >= Capped(snap[s].failures + 1)

IInv == /\ TypeOK /\ ReqInv /\ HandInv /\ SnapInv /\ BranchInv /\ StreakInv
        /\ FailingIsDisabled /\ OneClientEach

-----------------------------------------------------------------------------
(* The lists of entries. *)

(* An entry that is switched stays the only one, and one more is one more. *)
LEMMA Entries ==
  ASSUME NEW e \in Seq(BOOLEAN), NEW b \in BOOLEAN
  PROVE  /\ Switched(e, b) \in Seq(BOOLEAN) /\ Len(Switched(e, b)) = Len(e)
         /\ Registered(e) \in Seq(BOOLEAN) /\ Len(Registered(e)) = Len(e) + 1
<1>1. Registered(e) \in Seq(BOOLEAN) /\ Len(Registered(e)) = Len(e) + 1
  BY DEF Registered
<1>2. CASE e = <<>>
  BY <1>1, <1>2 DEF Switched
<1>3. CASE e # <<>>
  <2>1. 1 \in 1..Len(e)
    BY <1>3
  <2>2. Switched(e, b) = [e EXCEPT ![1] = b]
    BY <1>3 DEF Switched
  <2> QED BY <1>1, <2>1, <2>2
<1> QED BY <1>2, <1>3

(* A counter that is cut off at the cap stays in its range and below what it *)
(* counts.                                                                   *)
LEMMA Caps ==
  ASSUME NEW n \in Nat
  PROVE  /\ Capped(n) \in 0..FailureCap /\ Capped(n) <= n
         /\ n >= Threshold => Capped(n) >= Threshold
BY ThresholdAssumption DEF Capped

-----------------------------------------------------------------------------
(* Init and the steps. *)

LEMMA InitInv == Init => IInv
<1> SUFFICES ASSUME Init PROVE IInv
  OBVIOUS
<1> USE ThresholdAssumption, ServicesAssumption DEF Init, Services
<1>1. TypeOK
  BY DEF TypeOK, Blank, NoReq, Kinds
<1>2. ReqInv /\ HandInv /\ SnapInv /\ BranchInv /\ StreakInv
  BY DEF ReqInv, HandInv, SnapInv, BranchInv, StreakInv, NoReq
<1>3. FailingIsDisabled /\ OneClientEach
  BY DEF FailingIsDisabled, OneClientEach
<1> QED BY <1>1, <1>2, <1>3 DEF IInv

(* A service comes or goes. *)
LEMMA FlipInv ==
  ASSUME NEW s \in Services, IInv, Flip(s)
  PROVE  IInv'
<1> USE DEF IInv, Flip, rowVars, hcVars, history, Services
<1>1. TypeOK'
  BY DEF TypeOK
<1>2. ReqInv' /\ HandInv'
  BY DEF ReqInv, HandInv
<1>3. SnapInv'
  BY DEF SnapInv
<1>4. BranchInv'
  BY DEF BranchInv, KeepsFailing
<1>5. StreakInv'
  BY DEF StreakInv
<1>6. FailingIsDisabled'
  BY DEF FailingIsDisabled
<1>7. OneClientEach'
  BY DEF OneClientEach
<1> QED BY <1>1, <1>2, <1>3, <1>4, <1>5, <1>6, <1>7

(* A download client is created. *)
LEMMA CreateDownloaderInv ==
  ASSUME NEW s \in Downloaders, NEW e \in BOOLEAN, IInv, CreateDownloader(s, e)
  PROVE  IInv'
<1> USE DEF IInv, CreateDownloader, InsertRow, hcVars, history, Services
<1>1. TypeOK'
  BY DEF TypeOK
<1>2. ReqInv' /\ HandInv'
  BY DEF ReqInv, HandInv
<1>3. SnapInv'
  BY DEF HandInv, SnapInv
<1>4. BranchInv'
  BY DEF BranchInv, KeepsFailing
<1>5. StreakInv'
  BY DEF TypeOK, HandInv, StreakInv
<1>6. FailingIsDisabled'
  BY ThresholdAssumption DEF TypeOK, FailingIsDisabled
<1>7. OneClientEach'
  BY DEF OneClientEach
<1> QED BY <1>1, <1>2, <1>3, <1>4, <1>5, <1>6, <1>7

(* A download client is edited. *)
LEMMA UpdateDownloaderInv ==
  ASSUME NEW s \in Downloaders, NEW e \in BOOLEAN, IInv, UpdateDownloader(s, e)
  PROVE  IInv'
<1> USE DEF IInv, UpdateDownloader, EditRow, hcVars, history, Services
<1>1. TypeOK'
  BY DEF TypeOK
<1>2. ReqInv' /\ HandInv'
  BY DEF ReqInv, HandInv
<1>3. SnapInv'
  BY DEF SnapInv
<1>4. BranchInv'
  BY DEF BranchInv, KeepsFailing
<1>5. StreakInv'
  BY DEF StreakInv
<1>6. FailingIsDisabled'
  BY DEF FailingIsDisabled
<1>7. OneClientEach'
  BY DEF OneClientEach
<1> QED BY <1>1, <1>2, <1>3, <1>4, <1>5, <1>6, <1>7

(* A download client is deleted. *)
LEMMA DeleteDownloaderInv ==
  ASSUME NEW s \in Downloaders, IInv, DeleteDownloader(s)
  PROVE  IInv'
<1> USE DEF IInv, DeleteDownloader, DropRow, hcVars, history, Services
<1>1. TypeOK'
  BY ThresholdAssumption DEF TypeOK
<1>2. ReqInv' /\ HandInv'
  BY DEF ReqInv, HandInv
<1>3. SnapInv'
  BY DEF SnapInv
<1>4. BranchInv'
  BY DEF BranchInv, KeepsFailing
<1>5. StreakInv'
  BY DEF StreakInv
<1>6. FailingIsDisabled'
  BY DEF FailingIsDisabled
<1>7. OneClientEach'
  BY DEF OneClientEach
<1> QED BY <1>1, <1>2, <1>3, <1>4, <1>5, <1>6, <1>7

(* An indexer is created. *)
LEMMA CreateIndexerInv ==
  ASSUME NEW q \in Requests, NEW s \in Indexers, NEW e \in BOOLEAN, IInv, CreateIndexer(q, s, e)
  PROVE  IInv'
<1> USE DEF IInv, CreateIndexer, InsertRow, Begin, NoReq, hcVars, history, Services
<1>1. TypeOK'
  BY DEF TypeOK
<1>2. ReqInv' /\ HandInv'
  BY DEF ReqInv, HandInv
<1>3. SnapInv'
  BY DEF HandInv, SnapInv
<1>4. BranchInv'
  BY DEF BranchInv, KeepsFailing
<1>5. StreakInv'
  BY DEF TypeOK, HandInv, StreakInv
<1>6. FailingIsDisabled'
  BY ThresholdAssumption DEF TypeOK, FailingIsDisabled
<1>7. OneClientEach'
  BY DEF OneClientEach
<1> QED BY <1>1, <1>2, <1>3, <1>4, <1>5, <1>6, <1>7

(* An indexer is edited. *)
LEMMA UpdateIndexerInv ==
  ASSUME NEW q \in Requests, NEW s \in Indexers, NEW e \in BOOLEAN, IInv, UpdateIndexer(q, s, e)
  PROVE  IInv'
<1> USE DEF IInv, UpdateIndexer, EditRow, Begin, NoReq, hcVars, history, Services
<1>1. TypeOK'
  BY DEF TypeOK
<1>2. ReqInv' /\ HandInv'
  BY DEF ReqInv, HandInv
<1>3. SnapInv'
  BY DEF SnapInv
<1>4. BranchInv'
  BY DEF BranchInv, KeepsFailing
<1>5. StreakInv'
  BY DEF StreakInv
<1>6. FailingIsDisabled'
  BY DEF FailingIsDisabled
<1>7. OneClientEach'
  BY DEF OneClientEach
<1> QED BY <1>1, <1>2, <1>3, <1>4, <1>5, <1>6, <1>7

(* An indexer is deleted. *)
LEMMA DeleteIndexerInv ==
  ASSUME NEW q \in Requests, NEW s \in Indexers, IInv, DeleteIndexer(q, s)
  PROVE  IInv'
<1> USE DEF IInv, DeleteIndexer, DropRow, Begin, NoReq, hcVars, history, Services
<1>1. TypeOK'
  BY ThresholdAssumption DEF TypeOK
<1>2. ReqInv' /\ HandInv'
  BY DEF ReqInv, HandInv
<1>3. SnapInv'
  BY DEF SnapInv
<1>4. BranchInv'
  BY DEF BranchInv, KeepsFailing
<1>5. StreakInv'
  BY DEF StreakInv
<1>6. FailingIsDisabled'
  BY DEF FailingIsDisabled
<1>7. OneClientEach'
  BY DEF OneClientEach
<1> QED BY <1>1, <1>2, <1>3, <1>4, <1>5, <1>6, <1>7

(* A request removes an entry. *)
LEMMA RemoveEntryInv ==
  ASSUME NEW q \in Requests, IInv, RemoveEntry(q)
  PROVE  IInv'
<1> USE DEF IInv, RemoveEntry, NoReq, rowVars, hcVars, history, Services
<1>1. TypeOK'
  <2>1. req[q].on \in Services \cup {NoService} /\ req[q].flag \in BOOLEAN
    BY DEF TypeOK
  <2>2. req' \in [Requests -> [pc : {"idle", "remove", "register", "unlink"},
                             on : Services \cup {NoService}, flag : BOOLEAN]]
    <3>1. CASE req[q].pc = "remove"
      BY <2>1, <3>1 DEF TypeOK
    <3>2. CASE req[q].pc # "remove"
      BY <2>1, <3>2 DEF TypeOK
    <3> QED BY <3>1, <3>2
  <2>3. live' \in [Services -> Seq(BOOLEAN)]
    <3>1. <<>> \in Seq(BOOLEAN)
      OBVIOUS
    <3> QED BY <3>1 DEF TypeOK
  <2> QED BY <2>2, <2>3 DEF TypeOK
<1>2. ReqInv' /\ HandInv'
  BY DEF ReqInv, HandInv
<1>3. SnapInv'
  BY DEF SnapInv
<1>4. BranchInv'
  BY DEF BranchInv, KeepsFailing
<1>5. StreakInv'
  BY DEF StreakInv
<1>6. FailingIsDisabled'
  BY DEF FailingIsDisabled
<1>7. OneClientEach'
  BY DEF OneClientEach
<1> QED BY <1>1, <1>2, <1>3, <1>4, <1>5, <1>6, <1>7

(* A request registers an entry. *)
LEMMA RegisterEntryInv ==
  ASSUME NEW q \in Requests, IInv, RegisterEntry(q)
  PROVE  IInv'
<1> USE DEF IInv, RegisterEntry, NoReq, rowVars, hcVars, history, Services
<1>1. TypeOK'
  BY Entries DEF TypeOK
<1>2. ReqInv' /\ HandInv'
  BY DEF ReqInv, HandInv
<1>3. SnapInv'
  BY DEF SnapInv
<1>4. BranchInv'
  BY ServicesAssumption DEF TypeOK, ReqInv, BranchInv, KeepsFailing
<1>5. StreakInv'
  BY DEF StreakInv
<1>6. FailingIsDisabled'
  BY DEF FailingIsDisabled
<1>7. OneClientEach'
  BY ServicesAssumption DEF TypeOK, ReqInv, OneClientEach
<1> QED BY <1>1, <1>2, <1>3, <1>4, <1>5, <1>6, <1>7

(* The task reads the rows. *)
LEMMA HealthSelectInv ==
  ASSUME IInv, HealthSelect
  PROVE  IInv'
<1> USE DEF IInv, HealthSelect, OfKind, Blank, rowVars, history, Services
<1>1. TypeOK'
  BY ThresholdAssumption DEF TypeOK
<1>2. ReqInv' /\ HandInv'
  BY DEF TypeOK, ReqInv, HandInv
<1>3. SnapInv'
  BY DEF SnapInv
<1>4. BranchInv'
  BY DEF BranchInv
<1>5. StreakInv'
  BY DEF StreakInv
<1>6. FailingIsDisabled'
  BY DEF FailingIsDisabled
<1>7. OneClientEach'
  BY DEF OneClientEach
<1> QED BY <1>1, <1>2, <1>3, <1>4, <1>5, <1>6, <1>7

(* The task goes on to the other table. *)
LEMMA HealthNextInv ==
  ASSUME IInv, HealthNext
  PROVE  IInv'
<1> USE DEF IInv, HealthNext, rowVars, Kinds, history, Services
<1>1. TypeOK'
  BY DEF TypeOK
<1>2. ReqInv' /\ HandInv'
  BY DEF ReqInv, HandInv
<1>3. SnapInv'
  BY DEF SnapInv
<1>4. BranchInv'
  BY DEF BranchInv
<1>5. StreakInv'
  BY DEF StreakInv
<1>6. FailingIsDisabled'
  BY DEF FailingIsDisabled
<1>7. OneClientEach'
  BY DEF OneClientEach
<1> QED BY <1>1, <1>2, <1>3, <1>4, <1>5, <1>6, <1>7

(* The task skips a row. *)
LEMMA HealthSkipInv ==
  ASSUME NEW s \in Services, IInv, HealthSkip(s)
  PROVE  IInv'
<1> USE DEF IInv, HealthSkip, Leave, Blank, rowVars, history, Services
<1>1. TypeOK'
  BY ThresholdAssumption DEF TypeOK
<1>2. ReqInv' /\ HandInv'
  BY DEF ReqInv, HandInv
<1>3. SnapInv'
  BY DEF SnapInv
<1>4. BranchInv'
  BY DEF BranchInv
<1>5. StreakInv'
  BY DEF StreakInv
<1>6. FailingIsDisabled'
  BY DEF FailingIsDisabled
<1>7. OneClientEach'
  BY DEF OneClientEach
<1> QED BY <1>1, <1>2, <1>3, <1>4, <1>5, <1>6, <1>7

(* The task tests a service. *)
LEMMA HealthTestInv ==
  ASSUME NEW s \in Services, IInv, HealthTest(s)
  PROVE  IInv'
<1> USE DEF IInv, HealthTest, rowVars, history, Services
<1>1. TypeOK'
  BY DEF TypeOK
<1>2. ReqInv' /\ HandInv'
  BY DEF ReqInv, HandInv
<1>3. SnapInv'
  BY DEF SnapInv
<1>4. BranchInv'
  BY DEF BranchInv
<1>5. StreakInv'
  BY DEF StreakInv
<1>6. FailingIsDisabled'
  BY DEF FailingIsDisabled
<1>7. OneClientEach'
  BY DEF OneClientEach
<1> QED BY <1>1, <1>2, <1>3, <1>4, <1>5, <1>6, <1>7

(* The task builds a client. *)
LEMMA HealthRebuildInv ==
  ASSUME NEW s \in Services, IInv, HealthRebuild(s)
  PROVE  IInv'
<1> USE DEF IInv, HealthRebuild, rowVars, history, Services
<1>1. TypeOK'
  BY DEF TypeOK
<1>2. ReqInv' /\ HandInv'
  BY DEF ReqInv, HandInv
<1>3. SnapInv'
  BY DEF SnapInv
<1>4. BranchInv'
  BY DEF BranchInv, Unregistered
<1>5. StreakInv'
  BY DEF StreakInv
<1>6. FailingIsDisabled'
  BY DEF FailingIsDisabled
<1>7. OneClientEach'
  BY DEF OneClientEach
<1> QED BY <1>1, <1>2, <1>3, <1>4, <1>5, <1>6, <1>7

(* The test passed. *)
LEMMA HealthPassedInv ==
  ASSUME IInv, HealthPassed
  PROVE  IInv'
<1> USE DEF IInv, HealthPassed, Leave, Blank, rowVars, history, Services
<1>0. hcRow \in Services /\ hcRow \in hcTodo
  BY DEF TypeOK, HandInv
<1>1. TypeOK'
  <2>1. streak' \in [Services -> 0..FailureCap]
    BY <1>0, ThresholdAssumption DEF TypeOK
  <2>2. snap' \in [Services -> [enabled : BOOLEAN, auto : BOOLEAN, failures : 0..FailureCap]]
    <3>1. 0 \in 0..FailureCap
      BY ThresholdAssumption
    <3>2. \/ snap' = snap
          \/ snap' = [snap EXCEPT ![hcRow] = [enabled |-> FALSE, auto |-> FALSE, failures |-> 0]]
      OBVIOUS
    <3>3. snap \in [Services -> [enabled : BOOLEAN, auto : BOOLEAN, failures : 0..FailureCap]]
      BY DEF TypeOK
    <3>4. CASE snap' = snap
      BY <3>3, <3>4
    <3>5. CASE snap' = [snap EXCEPT ![hcRow] = [enabled |-> FALSE, auto |-> FALSE, failures |-> 0]]
      BY <3>1, <3>3, <3>5
    <3> QED BY <3>2, <3>4, <3>5
  <2>3. /\ hcTodo' \subseteq Services /\ hcRow' \in Services \cup {NoService}
        /\ hcPc' \in {"recovered", "reset", "row"} /\ hcKind' = hcKind
    BY <1>0 DEF TypeOK
  <2> QED BY <2>1, <2>2, <2>3 DEF TypeOK
<1>2. ReqInv' /\ HandInv'
  BY DEF ReqInv, HandInv
<1>3. SnapInv'
  BY DEF TypeOK, SnapInv
<1>4. BranchInv'
  BY DEF BranchInv
<1>5. StreakInv'
  BY DEF TypeOK, HandInv, SnapInv, StreakInv
<1>6. FailingIsDisabled'
  BY DEF FailingIsDisabled
<1>7. OneClientEach'
  BY DEF OneClientEach
<1> QED BY <1>1, <1>2, <1>3, <1>4, <1>5, <1>6, <1>7

(* The test failed. *)
LEMMA HealthFailedInv ==
  ASSUME IInv, HealthFailed
  PROVE  IInv'
<1> USE DEF IInv, HealthFailed, rowVars, history, Services
<1>0. hcRow \in Services /\ hcRow \in hcTodo
  BY DEF TypeOK, HandInv
<1>a. streak[hcRow] + 1 \in Nat /\ Capped(streak[hcRow] + 1) \in 0..FailureCap
  <2>1. streak[hcRow] + 1 \in Nat
    BY <1>0 DEF TypeOK
  <2> QED BY <2>1, Caps
<1>1. TypeOK'
  BY <1>0, <1>a DEF TypeOK
<1>2. ReqInv' /\ HandInv'
  BY <1>0, <1>a DEF ReqInv, HandInv
<1>3. SnapInv'
  BY <1>0, <1>a DEF SnapInv
<1>4. BranchInv'
  BY <1>0, <1>a DEF BranchInv, KeepsFailing
<1>5. StreakInv'
  <2> SUFFICES ASSUME NEW s \in rows, s \notin unwritten
               PROVE  /\ streak'[s] >= failures[s]
                      /\ s = hcRow => streak'[s] >= Capped(snap[s].failures + 1)
    BY DEF StreakInv
  <2>1. s \in Services /\ streak[s] >= failures[s]
    BY DEF TypeOK, StreakInv
  <2>2. CASE s # hcRow
    BY <1>0, <2>1, <2>2
  <2>3. CASE s = hcRow
    <3>1. streak'[s] = Capped(streak[s] + 1)
      BY <1>0, <2>3 DEF TypeOK
    <3>2. snap[s].failures = failures[s]
      BY <1>0, <2>3 DEF SnapInv
    <3>3. failures[s] \in 0..FailureCap /\ streak[s] \in 0..FailureCap
      BY <2>1 DEF TypeOK
    <3> QED BY <2>1, <2>3, <3>1, <3>2, <3>3, ThresholdAssumption DEF Capped
  <2> QED BY <2>2, <2>3
<1>6. FailingIsDisabled'
  BY <1>0, <1>a DEF FailingIsDisabled
<1>7. OneClientEach'
  BY <1>0, <1>a DEF OneClientEach
<1> QED BY <1>1, <1>2, <1>3, <1>4, <1>5, <1>6, <1>7

(* The entry is enabled. *)
LEMMA HealthEnableInv ==
  ASSUME IInv, HealthEnable
  PROVE  IInv'
<1> USE DEF IInv, HealthEnable, rowVars, history, Services
<1>1. TypeOK'
  BY Entries DEF TypeOK
<1>2. ReqInv' /\ HandInv'
  BY DEF ReqInv, HandInv
<1>3. SnapInv'
  BY DEF SnapInv
<1>4. BranchInv'
  BY DEF BranchInv
<1>5. StreakInv'
  BY DEF StreakInv
<1>6. FailingIsDisabled'
  BY DEF FailingIsDisabled
<1>7. OneClientEach'
  BY Entries DEF TypeOK, OneClientEach
<1> QED BY <1>1, <1>2, <1>3, <1>4, <1>5, <1>6, <1>7

(* The row is written as healthy. *)
LEMMA HealthResetInv ==
  ASSUME IInv, HealthReset
  PROVE  IInv'
<1> USE DEF IInv, HealthReset, Leave, Blank, SaveRow, NewFailures, rowVars, history, Services
<1>0. hcRow \in Services /\ hcRow \in hcTodo
  BY DEF TypeOK, HandInv
<1>a. Capped(0) = 0 /\ 0 \in 0..FailureCap
  BY ThresholdAssumption DEF Capped
<1>1. TypeOK'
  <2>1. /\ enabled' \in [Services -> BOOLEAN] /\ auto' \in [Services -> BOOLEAN]
        /\ failures' \in [Services -> 0..FailureCap]
    BY <1>0, <1>a DEF TypeOK
  <2>2. \A s \in Services \ rows' : ~enabled'[s] /\ ~auto'[s] /\ failures'[s] = 0
    BY <1>0 DEF TypeOK
  <2>3. snap' \in [Services -> [enabled : BOOLEAN, auto : BOOLEAN, failures : 0..FailureCap]]
    BY <1>0, ThresholdAssumption DEF TypeOK
  <2>4. /\ rows' = rows /\ used' = used /\ hcTodo' \subseteq Services
        /\ hcRow' = NoService /\ hcPc' = "row"
    BY DEF TypeOK
  <2> QED BY <2>1, <2>2, <2>3, <2>4 DEF TypeOK
<1>2. ReqInv' /\ HandInv'
  BY <1>0, <1>a DEF ReqInv, HandInv
<1>3. SnapInv'
  BY <1>0, <1>a DEF TypeOK, SnapInv
<1>4. BranchInv'
  BY <1>0, <1>a DEF BranchInv
<1>5. StreakInv'
  <2>1. CASE hcRow \in rows
    BY <1>0, <1>a, <2>1, ThresholdAssumption, ServicesAssumption DEF TypeOK,
       SnapInv, StreakInv
  <2>2. CASE hcRow \notin rows
    BY <1>0, <1>a, <2>2 DEF StreakInv
  <2> QED BY <2>1, <2>2
<1>6. FailingIsDisabled'
  <2> SUFFICES ASSUME NEW s \in rows, ~auto'[s] PROVE failures'[s] < Threshold
    BY DEF FailingIsDisabled
  <2>0. s \in Services
    BY DEF TypeOK
  <2>1. CASE s = hcRow
    BY <1>0, <1>a, <2>0, <2>1, ThresholdAssumption DEF TypeOK
  <2>2. CASE s # hcRow
    BY <1>0, <2>0, <2>2 DEF TypeOK, FailingIsDisabled
  <2> QED BY <2>1, <2>2
<1>7. OneClientEach'
  BY <1>0, <1>a DEF OneClientEach
<1> QED BY <1>1, <1>2, <1>3, <1>4, <1>5, <1>6, <1>7

(* The failure is counted. *)
LEMMA HealthCountInv ==
  ASSUME IInv, HealthCount
  PROVE  IInv'
<1> USE DEF IInv, HealthCount, Leave, Blank, SaveRow, NewFailures, rowVars, history, Services
<1>0. hcRow \in Services /\ hcRow \in hcTodo
  BY DEF TypeOK, HandInv
<1>a. /\ snap[hcRow].failures \in 0..FailureCap
      /\ Capped(snap[hcRow].failures + 1) \in 0..FailureCap
      /\ Capped(snap[hcRow].failures + 1) <= snap[hcRow].failures + 1
      /\ snap[hcRow].failures + 1 >= Threshold
            => Capped(snap[hcRow].failures + 1) >= Threshold
  <2>1. snap[hcRow].failures \in 0..FailureCap
    BY <1>0 DEF TypeOK
  <2>2. snap[hcRow].failures + 1 \in Nat
    BY <2>1
  <2> QED BY <2>1, <2>2, Caps
<1>1. TypeOK'
  <2>1. /\ enabled' \in [Services -> BOOLEAN] /\ auto' \in [Services -> BOOLEAN]
        /\ failures' \in [Services -> 0..FailureCap]
    BY <1>0, <1>a DEF TypeOK
  <2>2. \A s \in Services \ rows' : ~enabled'[s] /\ ~auto'[s] /\ failures'[s] = 0
    BY <1>0 DEF TypeOK
  <2>3. snap' \in [Services -> [enabled : BOOLEAN, auto : BOOLEAN, failures : 0..FailureCap]]
    BY <1>0, ThresholdAssumption DEF TypeOK
  <2>4. /\ rows' = rows /\ used' = used /\ hcTodo' \subseteq Services
        /\ hcRow' = NoService /\ hcPc' = "row"
    BY DEF TypeOK
  <2> QED BY <2>1, <2>2, <2>3, <2>4 DEF TypeOK
<1>2. ReqInv' /\ HandInv'
  BY <1>0, <1>a DEF ReqInv, HandInv
<1>3. SnapInv'
  BY <1>0, <1>a DEF TypeOK, SnapInv
<1>4. BranchInv'
  BY <1>0, <1>a DEF BranchInv
<1>5. StreakInv'
  <2>1. CASE hcRow \in rows
    <3> SUFFICES ASSUME NEW s \in rows, s \notin unwritten PROVE streak[s] >= failures'[s]
      BY ServicesAssumption DEF HandInv, TypeOK, StreakInv
    <3>1. s \in Services
      BY DEF TypeOK
    <3>2. CASE s = hcRow
      <4>1. streak[s] >= Capped(snap[s].failures + 1)
        BY <3>2 DEF StreakInv
      <4>2. failures'[s] = Capped(snap[s].failures + 1)
        BY <2>1, <3>1, <3>2 DEF TypeOK
      <4> QED BY <4>1, <4>2
    <3>3. CASE s # hcRow
      BY <1>0, <2>1, <3>1, <3>3 DEF TypeOK, StreakInv
    <3> QED BY <3>2, <3>3
  <2>2. CASE hcRow \notin rows
    BY <1>0, <1>a, <2>2 DEF StreakInv
  <2> QED BY <2>1, <2>2
<1>6. FailingIsDisabled'
  <2> SUFFICES ASSUME NEW s \in rows, ~auto'[s] PROVE failures'[s] < Threshold
    BY DEF FailingIsDisabled
  <2>0. s \in Services
    BY DEF TypeOK
  <2>1. CASE s = hcRow
    BY <1>0, <1>a, <2>0, <2>1, ThresholdAssumption DEF TypeOK, SnapInv, BranchInv,
       KeepsFailing
  <2>2. CASE s # hcRow
    BY <1>0, <2>0, <2>2 DEF TypeOK, FailingIsDisabled
  <2> QED BY <2>1, <2>2
<1>7. OneClientEach'
  BY <1>0, <1>a DEF OneClientEach
<1> QED BY <1>1, <1>2, <1>3, <1>4, <1>5, <1>6, <1>7

(* The entry is disabled. *)
LEMMA HealthDisableInv ==
  ASSUME IInv, HealthDisable
  PROVE  IInv'
<1> USE DEF IInv, HealthDisable, rowVars, history, Services
<1>1. TypeOK'
  BY Entries DEF TypeOK
<1>2. ReqInv' /\ HandInv'
  BY DEF ReqInv, HandInv
<1>3. SnapInv'
  BY DEF SnapInv
<1>4. BranchInv'
  BY DEF BranchInv, KeepsFailing
<1>5. StreakInv'
  BY DEF StreakInv
<1>6. FailingIsDisabled'
  BY DEF FailingIsDisabled
<1>7. OneClientEach'
  BY Entries DEF TypeOK, OneClientEach
<1> QED BY <1>1, <1>2, <1>3, <1>4, <1>5, <1>6, <1>7

(* The row is disabled. *)
LEMMA HealthDisabledInv ==
  ASSUME IInv, HealthDisabled
  PROVE  IInv'
<1> USE DEF IInv, HealthDisabled, Leave, Blank, SaveRow, NewFailures, rowVars, history, Services
<1>0. hcRow \in Services /\ hcRow \in hcTodo
  BY DEF TypeOK, HandInv
<1>a. /\ snap[hcRow].failures \in 0..FailureCap
      /\ Capped(snap[hcRow].failures + 1) \in 0..FailureCap
      /\ Capped(snap[hcRow].failures + 1) <= snap[hcRow].failures + 1
      /\ snap[hcRow].failures + 1 >= Threshold
            => Capped(snap[hcRow].failures + 1) >= Threshold
  <2>1. snap[hcRow].failures \in 0..FailureCap
    BY <1>0 DEF TypeOK
  <2>2. snap[hcRow].failures + 1 \in Nat
    BY <2>1
  <2> QED BY <2>1, <2>2, Caps
<1>1. TypeOK'
  <2>1. /\ enabled' \in [Services -> BOOLEAN] /\ auto' \in [Services -> BOOLEAN]
        /\ failures' \in [Services -> 0..FailureCap]
    BY <1>0, <1>a DEF TypeOK
  <2>2. \A s \in Services \ rows' : ~enabled'[s] /\ ~auto'[s] /\ failures'[s] = 0
    BY <1>0 DEF TypeOK
  <2>3. snap' \in [Services -> [enabled : BOOLEAN, auto : BOOLEAN, failures : 0..FailureCap]]
    BY <1>0, ThresholdAssumption DEF TypeOK
  <2>4. /\ rows' = rows /\ used' = used /\ hcTodo' \subseteq Services
        /\ hcRow' = NoService /\ hcPc' = "row"
    BY DEF TypeOK
  <2> QED BY <2>1, <2>2, <2>3, <2>4 DEF TypeOK
<1>2. ReqInv' /\ HandInv'
  BY <1>0, <1>a DEF ReqInv, HandInv
<1>3. SnapInv'
  BY <1>0, <1>a DEF TypeOK, SnapInv
<1>4. BranchInv'
  BY <1>0, <1>a DEF BranchInv
<1>5. StreakInv'
  <2>1. CASE hcRow \in rows
    <3> SUFFICES ASSUME NEW s \in rows, s \notin unwritten PROVE streak[s] >= failures'[s]
      BY ServicesAssumption DEF HandInv, TypeOK, StreakInv
    <3>1. s \in Services
      BY DEF TypeOK
    <3>2. CASE s = hcRow
      <4>1. streak[s] >= Capped(snap[s].failures + 1)
        BY <3>2 DEF StreakInv
      <4>2. failures'[s] = Capped(snap[s].failures + 1)
        BY <2>1, <3>1, <3>2 DEF TypeOK
      <4> QED BY <4>1, <4>2
    <3>3. CASE s # hcRow
      BY <1>0, <2>1, <3>1, <3>3 DEF TypeOK, StreakInv
    <3> QED BY <3>2, <3>3
  <2>2. CASE hcRow \notin rows
    BY <1>0, <1>a, <2>2 DEF StreakInv
  <2> QED BY <2>1, <2>2
<1>6. FailingIsDisabled'
  <2> SUFFICES ASSUME NEW s \in rows, ~auto'[s] PROVE failures'[s] < Threshold
    BY DEF FailingIsDisabled
  <2>0. s \in Services
    BY DEF TypeOK
  <2>1. CASE s = hcRow
    BY <1>0, <1>a, <2>0, <2>1 DEF TypeOK
  <2>2. CASE s # hcRow
    BY <1>0, <2>0, <2>2 DEF TypeOK, FailingIsDisabled
  <2> QED BY <2>1, <2>2
<1>7. OneClientEach'
  BY <1>0, <1>a DEF OneClientEach
<1> QED BY <1>1, <1>2, <1>3, <1>4, <1>5, <1>6, <1>7

(* The client is not built. *)
LEMMA HealthNotRebuiltInv ==
  ASSUME IInv, HealthNotRebuilt
  PROVE  IInv'
<1> USE DEF IInv, HealthNotRebuilt, Leave, Blank, rowVars, history, Services
<1>0. hcRow \in Services /\ hcRow \in hcTodo
  BY DEF TypeOK, HandInv
<1>1. TypeOK'
  BY <1>0, ThresholdAssumption DEF TypeOK
<1>2. ReqInv' /\ HandInv'
  BY DEF ReqInv, HandInv
<1>3. SnapInv'
  BY DEF SnapInv
<1>4. BranchInv'
  BY DEF BranchInv
<1>5. StreakInv'
  BY DEF StreakInv
<1>6. FailingIsDisabled'
  BY DEF FailingIsDisabled
<1>7. OneClientEach'
  BY DEF OneClientEach
<1> QED BY <1>1, <1>2, <1>3, <1>4, <1>5, <1>6, <1>7

(* The client is built. *)
LEMMA HealthRebuiltInv ==
  ASSUME IInv, HealthRebuilt
  PROVE  IInv'
<1> USE DEF IInv, HealthRebuilt, rowVars, history, Services
<1>0. hcRow \in Services /\ hcRow \in hcTodo
  BY DEF TypeOK, HandInv
<1>1. TypeOK'
  <2>1. Registered(live[hcRow]) \in Seq(BOOLEAN)
    BY <1>0, Entries DEF TypeOK
  <2>2. live' \in [Services -> Seq(BOOLEAN)]
    BY <1>0, <2>1 DEF TypeOK
  <2> QED BY <1>0, <2>2, ThresholdAssumption DEF TypeOK
<1>2. ReqInv' /\ HandInv'
  BY DEF ReqInv, HandInv
<1>3. SnapInv'
  BY DEF SnapInv
<1>4. BranchInv'
  BY DEF BranchInv
<1>5. StreakInv'
  BY DEF StreakInv
<1>6. FailingIsDisabled'
  BY DEF FailingIsDisabled
<1>7. OneClientEach'
  BY Entries DEF TypeOK, BranchInv, OneClientEach
<1> QED BY <1>1, <1>2, <1>3, <1>4, <1>5, <1>6, <1>7

(* The rows of a kind cannot be read. *)
LEMMA HealthUnreadInv ==
  ASSUME IInv, HealthUnread
  PROVE  IInv'
<1> USE DEF IInv, HealthUnread, Mishap, rowVars, Kinds, history, Services
<1>1. TypeOK'
  BY ThresholdAssumption DEF TypeOK
<1>2. ReqInv' /\ HandInv'
  BY DEF ReqInv, HandInv
<1>3. SnapInv'
  BY DEF SnapInv
<1>4. BranchInv'
  BY DEF BranchInv
<1>5. StreakInv'
  BY DEF StreakInv
<1>6. FailingIsDisabled'
  BY DEF FailingIsDisabled
<1>7. OneClientEach'
  BY DEF OneClientEach
<1> QED BY <1>1, <1>2, <1>3, <1>4, <1>5, <1>6, <1>7

(* A row cannot be written. *)
LEMMA HealthUnwrittenInv ==
  ASSUME IInv, HealthUnwritten
  PROVE  IInv'
<1> USE DEF IInv, HealthUnwritten, Mishap, Leave, Blank, rowVars, history, Services
<1>0. hcRow \in Services /\ hcRow \in hcTodo
  BY DEF TypeOK, HandInv
<1>1. TypeOK'
  BY <1>0, ThresholdAssumption DEF TypeOK
<1>2. ReqInv' /\ HandInv'
  BY DEF ReqInv, HandInv
<1>3. SnapInv'
  BY DEF TypeOK, SnapInv
<1>4. BranchInv'
  BY DEF BranchInv
<1>5. StreakInv'
  BY DEF StreakInv
<1>6. FailingIsDisabled'
  BY DEF FailingIsDisabled
<1>7. OneClientEach'
  BY DEF OneClientEach
<1> QED BY <1>1, <1>2, <1>3, <1>4, <1>5, <1>6, <1>7

(* The process restarts. *)
LEMMA RestartInv ==
  ASSUME IInv, Restart
  PROVE  IInv'
<1> USE DEF IInv, Restart, Mishap, Blank, NoReq, rowVars, history, Services
<1>1. TypeOK'
  <2>1. live' \in [Services -> Seq(BOOLEAN)]
    <3>1. \A b \in BOOLEAN : <<b>> \in Seq(BOOLEAN)
      OBVIOUS
    <3>2. <<>> \in Seq(BOOLEAN)
      OBVIOUS
    <3>3. \A s \in Services : enabled[s] \in BOOLEAN
      BY DEF TypeOK
    <3> QED BY <3>1, <3>2, <3>3
  <2>2. mishaps' \in 0..MaxMishaps
    BY ThresholdAssumption DEF TypeOK
  <2>3. snap' \in [Services -> [enabled : BOOLEAN, auto : BOOLEAN, failures : 0..FailureCap]]
    BY ThresholdAssumption
  <2> QED BY <2>1, <2>2, <2>3 DEF TypeOK, Kinds
<1>2. ReqInv' /\ HandInv'
  BY DEF ReqInv, HandInv
<1>3. SnapInv'
  BY DEF SnapInv
<1>4. BranchInv'
  BY DEF BranchInv
<1>5. StreakInv'
  BY DEF TypeOK, StreakInv
<1>6. FailingIsDisabled'
  BY DEF FailingIsDisabled
<1>7. OneClientEach'
  BY DEF OneClientEach
<1> QED BY <1>1, <1>2, <1>3, <1>4, <1>5, <1>6, <1>7

(* Nothing changes. *)
LEMMA StutterInv ==
  ASSUME IInv, UNCHANGED vars
  PROVE  IInv'
<1> USE DEF IInv, vars, rowVars, hcVars, history, Services
<1>1. TypeOK'
  BY DEF TypeOK
<1>2. ReqInv' /\ HandInv'
  BY DEF ReqInv, HandInv
<1>3. SnapInv'
  BY DEF SnapInv
<1>4. BranchInv'
  BY DEF BranchInv, KeepsFailing
<1>5. StreakInv'
  BY DEF StreakInv
<1>6. FailingIsDisabled'
  BY DEF FailingIsDisabled
<1>7. OneClientEach'
  BY DEF OneClientEach
<1> QED BY <1>1, <1>2, <1>3, <1>4, <1>5, <1>6, <1>7

-----------------------------------------------------------------------------
LEMMA InvStep == IInv /\ [Next]_vars => IInv'
<1> SUFFICES ASSUME IInv, [Next]_vars PROVE IInv'
  OBVIOUS
<1>1. CASE \E s \in Services : Flip(s)
  BY <1>1, FlipInv
<1>2. CASE \E s \in Downloaders, e \in BOOLEAN : CreateDownloader(s, e)
  BY <1>2, CreateDownloaderInv
<1>3. CASE \E s \in Downloaders, e \in BOOLEAN : UpdateDownloader(s, e)
  BY <1>3, UpdateDownloaderInv
<1>4. CASE \E s \in Downloaders : DeleteDownloader(s)
  BY <1>4, DeleteDownloaderInv
<1>5. CASE \E q \in Requests, s \in Indexers, e \in BOOLEAN : CreateIndexer(q, s, e)
  BY <1>5, CreateIndexerInv
<1>6. CASE \E q \in Requests, s \in Indexers, e \in BOOLEAN : UpdateIndexer(q, s, e)
  BY <1>6, UpdateIndexerInv
<1>7. CASE \E q \in Requests, s \in Indexers : DeleteIndexer(q, s)
  BY <1>7, DeleteIndexerInv
<1>8. CASE \E q \in Requests : RemoveEntry(q)
  BY <1>8, RemoveEntryInv
<1>9. CASE \E q \in Requests : RegisterEntry(q)
  BY <1>9, RegisterEntryInv
<1>10. CASE HealthSelect
  BY <1>10, HealthSelectInv
<1>11. CASE HealthNext
  BY <1>11, HealthNextInv
<1>12. CASE \E s \in Services : HealthSkip(s)
  BY <1>12, HealthSkipInv
<1>13. CASE \E s \in Services : HealthTest(s)
  BY <1>13, HealthTestInv
<1>14. CASE \E s \in Services : HealthRebuild(s)
  BY <1>14, HealthRebuildInv
<1>15. CASE HealthPassed
  BY <1>15, HealthPassedInv
<1>16. CASE HealthFailed
  BY <1>16, HealthFailedInv
<1>17. CASE HealthEnable
  BY <1>17, HealthEnableInv
<1>18. CASE HealthReset
  BY <1>18, HealthResetInv
<1>19. CASE HealthCount
  BY <1>19, HealthCountInv
<1>20. CASE HealthDisable
  BY <1>20, HealthDisableInv
<1>21. CASE HealthDisabled
  BY <1>21, HealthDisabledInv
<1>22. CASE HealthNotRebuilt
  BY <1>22, HealthNotRebuiltInv
<1>23. CASE HealthRebuilt
  BY <1>23, HealthRebuiltInv
<1>24. CASE Restart
  BY <1>24, RestartInv
<1>25. CASE HealthUnread
  BY <1>25, HealthUnreadInv
<1>26. CASE HealthUnwritten
  BY <1>26, HealthUnwrittenInv
<1>27. CASE UNCHANGED vars
  BY <1>27, StutterInv
<1> QED
  BY <1>1, <1>2, <1>3, <1>4, <1>5, <1>6, <1>7, <1>8, <1>9, <1>10, <1>11, <1>12,
     <1>13, <1>14, <1>15, <1>16, <1>17, <1>18, <1>19, <1>20, <1>21, <1>22, <1>23,
     <1>24, <1>25, <1>26, <1>27 DEF Next, Health, Users, Request

THEOREM Inductive == Spec => []IInv
BY InitInv, InvStep, PTL DEF Spec

(* Only the end of a failed test that reached the threshold sets the flag. *)
LEMMA AutoWrites ==
  ASSUME TypeOK, [Next]_vars
  PROVE  HealthDisabled \/ \A s \in Services : auto'[s] => auto[s]
<1> USE DEF Services, rowVars
<1>1. CASE \/ HealthSelect \/ HealthNext
           \/ \E s \in Services : HealthSkip(s) \/ HealthTest(s) \/ HealthRebuild(s)
  BY <1>1 DEF HealthSelect, HealthNext, HealthSkip, HealthTest, HealthRebuild
<1>2. CASE HealthPassed \/ HealthFailed \/ HealthEnable \/ HealthDisable
  BY <1>2 DEF HealthPassed, HealthFailed, HealthEnable, HealthDisable
<1>3. CASE HealthNotRebuilt \/ HealthRebuilt \/ HealthUnread \/ HealthUnwritten \/ Restart
  BY <1>3 DEF HealthNotRebuilt, HealthRebuilt, HealthUnread, HealthUnwritten, Restart
<1>4. CASE HealthReset \/ HealthCount
  BY <1>4 DEF HealthReset, HealthCount, SaveRow, TypeOK
<1>5. CASE \E s \in Downloaders :
              \/ \E e \in BOOLEAN : CreateDownloader(s, e) \/ UpdateDownloader(s, e)
              \/ DeleteDownloader(s)
  BY <1>5 DEF CreateDownloader, UpdateDownloader, DeleteDownloader, InsertRow,
     EditRow, DropRow, TypeOK
<1>6. CASE \E q \in Requests, s \in Indexers :
              \/ \E e \in BOOLEAN : CreateIndexer(q, s, e) \/ UpdateIndexer(q, s, e)
              \/ DeleteIndexer(q, s)
  BY <1>6 DEF CreateIndexer, UpdateIndexer, DeleteIndexer, InsertRow, EditRow,
     DropRow, TypeOK
<1>7. CASE \E q \in Requests : Request(q)
  BY <1>7 DEF Request, RemoveEntry, RegisterEntry
<1>8. CASE \E s \in Services : Flip(s)
  BY <1>8 DEF Flip
<1>9. CASE UNCHANGED vars
  BY <1>9 DEF vars
<1> QED
  BY <1>1, <1>2, <1>3, <1>4, <1>5, <1>6, <1>7, <1>8, <1>9 DEF Next, Health, Users

(* A service the task auto-disables has really failed its last Threshold     *)
(* tests, whatever restarts and failing statements come between them, unless *)
(* it passed one and the UPDATE that says so was never carried out.          *)
THEOREM DisabledOnlyAfterFailures == Spec => DisabledAfterFailures
<1>1. ASSUME IInv, [Next]_vars, NEW s \in Services, ~auto[s], auto'[s], s \notin unwritten
      PROVE  streak[s] >= Threshold
  <2>1. HealthDisabled
    BY <1>1, AutoWrites DEF IInv
  <2>2. s = hcRow /\ hcRow \in rows
    BY <1>1, <2>1 DEF IInv, TypeOK, HealthDisabled, SaveRow, rowVars
  <2>3. streak[s] >= Capped(snap[s].failures + 1)
    BY <1>1, <2>1, <2>2 DEF HealthDisabled, StreakInv, IInv
  <2>4. snap[s].failures \in 0..FailureCap /\ snap[s].failures + 1 >= Threshold
    BY <1>1, <2>1, <2>2 DEF HealthDisabled, IInv, BranchInv, KeepsFailing, TypeOK
  <2>5. streak[s] \in 0..FailureCap
    BY <1>1 DEF IInv, TypeOK
  <2> QED BY <2>3, <2>4, <2>5, ThresholdAssumption DEF Capped
<1>2. IInv /\ [Next]_vars =>
        [\A s \in Services :
            ~auto[s] /\ auto'[s] => streak[s] >= Threshold \/ s \in unwritten]_vars
  BY <1>1
<1> QED BY <1>2, Inductive, PTL DEF Spec, DisabledAfterFailures

(* Every variable keeps its type; a row that is gone has no flag set. *)
THEOREM TypeCorrect == Spec => []TypeOK
<1>1. IInv => TypeOK
  BY DEF IInv
<1> QED BY <1>1, Inductive, PTL

(* No interleaving of users, restarts and tests lets a count reach the       *)
(* threshold in a service that is not auto-disabled.                         *)
THEOREM FailingServicesAreDisabled == Spec => []FailingIsDisabled
<1>1. IInv => FailingIsDisabled
  BY DEF IInv
<1> QED BY <1>1, Inductive, PTL

(* The manager has at most one entry of a download client. *)
THEOREM OneEntryPerClient == Spec => []OneClientEach
<1>1. IInv => OneClientEach
  BY DEF IInv
<1> QED BY <1>1, Inductive, PTL
=============================================================================
