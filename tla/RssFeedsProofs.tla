--------------------------- MODULE RssFeedsProofs ---------------------------
(***************************************************************************)
(* Proofs about RssFeeds for any feeds, items, rules, listings, number of  *)
(* checks and faults.                                                      *)
(***************************************************************************)
EXTENDS RssFeeds, TLAPS

CheckStep(c) == \/ Fetch(c) \/ InsertItem(c) \/ LoadRules(c) \/ Judge(c)
                \/ Grab(c) \/ Mark(c) \/ CheckDone(c)

-----------------------------------------------------------------------------
(* Types *)

LEMMA Constants ==
    /\ Sync \in Checkers /\ Checks \subseteq Checkers
    /\ NoFeed \in AnySetting /\ Unread \in [Feeds -> AnySetting]
    /\ \A f \in Feeds : Listings[f] \subseteq Seq(Items) /\ Settings[f] \subseteq AnySetting
BY FeedAssumption DEF Checkers, NoFeed, AnySetting, Unread

LEMMA TypeInit == Init => TypeOK
BY Constants, FeedAssumption DEF Init, TypeOK, Kinds, Stands, NRows

(* The removal of rows, by itself. *)
LEMMA RemoveType ==
    ASSUME TypeOK, NEW S, Remove(S)
    PROVE  /\ rows' \in [Items -> live \cup {None}]
           /\ marked' \subseteq {i \in Items : rows'[i] # None}
           /\ settled' \subseteq {i \in Items : rows'[i] # None}
BY DEF TypeOK, Kinds, Remove

LEMMA OverType ==
    ASSUME TypeOK, NEW c \in Checkers, Over(c)
    PROVE  /\ pc' \in [Checkers -> {"idle", "next", "insert", "judge", "grab", "mark"}]
           /\ cur' \in [Checkers -> Feeds \cup {None}]
           /\ pending' \in [Checkers -> Seq(Items)]
           /\ at' \in [Checkers -> Nat]
           /\ new' \in [Checkers -> SUBSET NRows]
           /\ applied' \in [Checkers -> SUBSET Rules]
           /\ \A d \in Checkers : Stands(d)'
<1>1. Len(<<>>) = 0 /\ <<>> \in Seq(Items)
  OBVIOUS
<1> QED
  BY <1>1 DEF TypeOK, Kinds, Over, Stands

(* A step of one checker leaves where the others stand. *)
LEMMA OthersStand ==
    ASSUME TypeOK, NEW c \in Checkers, CheckStep(c), NEW d \in Checkers, d # c
    PROVE  /\ pc'[d] = pc[d] /\ cur'[d] = cur[d] /\ pending'[d] = pending[d]
           /\ at'[d] = at[d] /\ new'[d] = new[d] /\ applied'[d] = applied[d]
<1>1. CASE Fetch(c)
  BY <1>1 DEF TypeOK, Kinds, Fetch
<1>2. CASE InsertItem(c)
  BY <1>2 DEF TypeOK, Kinds, InsertItem, CutShort, Over, Goes
<1>3. CASE LoadRules(c)
  BY <1>3 DEF TypeOK, Kinds, LoadRules, CutShort, Over
<1>4. CASE Judge(c)
  BY <1>4 DEF TypeOK, Kinds, Judge, Goes
<1>5. CASE Grab(c)
  BY <1>5 DEF TypeOK, Kinds, Grab, Goes
<1>6. CASE Mark(c)
  BY <1>6 DEF TypeOK, Kinds, Mark, Goes
<1>7. CASE CheckDone(c)
  BY <1>7 DEF TypeOK, Kinds, CheckDone, Over
<1> QED
  BY <1>1, <1>2, <1>3, <1>4, <1>5, <1>6, <1>7 DEF CheckStep

LEMMA KindsStep ==
    ASSUME TypeOK, NEW c \in Checkers, CheckStep(c) PROVE Kinds'
<1> USE Constants
<1> DEFINE i == Item(c)
<1>0. pc[c] \in {"insert", "judge", "grab", "mark"} /\ at[c] <= Len(pending[c]) => i \in Items
  BY DEF TypeOK, Kinds, Stands, Item
<1>a. /\ at \in [Checkers -> Nat] /\ todo \in [Checkers -> SUBSET Feeds]
      /\ cur \in [Checkers -> Feeds \cup {None}]
      /\ pc \in [Checkers -> {"idle", "next", "insert", "judge", "grab", "mark"}]
  BY DEF TypeOK, Kinds
<1>1. CASE Fetch(c)
  <2>1. PICK f \in todo[c] :
           /\ todo' = [todo EXCEPT ![c] = @ \ {f}]
           /\ \/ /\ cur' = [cur EXCEPT ![c] = f]
                 /\ \E p \in Listings[f] : pending' = [pending EXCEPT ![c] = p]
                 /\ pc' = [pc EXCEPT ![c] = "insert"]
              \/ UNCHANGED <<cur, pending, pc>>
    BY <1>1 DEF Fetch
  <2>2. f \in Feeds /\ Listings[f] \subseteq Seq(Items)
    BY <2>1 DEF TypeOK, Kinds
  <2>3. /\ todo' \in [Checkers -> SUBSET Feeds]
        /\ cur' \in [Checkers -> Feeds \cup {None}]
        /\ pc' \in [Checkers -> {"idle", "next", "insert", "judge", "grab", "mark"}]
    BY <1>a, <2>1, <2>2
  <2>4. pending' \in [Checkers -> Seq(Items)]
    <3>1. pending \in [Checkers -> Seq(Items)]
      BY DEF TypeOK, Kinds
    <3>2. CASE \E p \in Listings[f] : pending' = [pending EXCEPT ![c] = p]
      <4>1. PICK p \in Seq(Items) : pending' = [pending EXCEPT ![c] = p]
        BY <3>2, <2>2
      <4> QED
        BY <3>1, <4>1
    <3>3. CASE UNCHANGED pending
      BY <3>1, <3>3
    <3> QED
      BY <2>1, <3>2, <3>3
  <2> QED
    BY <1>1, <2>3, <2>4 DEF TypeOK, Kinds, Fetch, feedVars, history
<1>2. CASE InsertItem(c)
  <2>0. i \in Items /\ cur[c] \in Feeds
    BY <1>2, <1>0 DEF TypeOK, InsertItem, Stands
  <2>1. CASE rows[i] # None /\ Goes(c)
             /\ UNCHANGED <<pc, cur, pending, new, applied, rows, made, settled, todo, snap>>
    BY <1>2, <2>1 DEF TypeOK, Kinds, InsertItem, Goes, feedVars
  <2>2. CASE /\ rows[i] = None /\ cur[c] \in live
             /\ rows' = [rows EXCEPT ![i] = cur[c]]
             /\ made' = [made EXCEPT ![i] = @ + 1]
             /\ new' = [new EXCEPT ![c] = @ \cup {<<i, made[i] + 1>>}]
             /\ Goes(c)
             /\ UNCHANGED <<pc, cur, pending, applied, settled, todo, snap>>
    <3>1. <<i, made[i] + 1>> \in NRows
      BY <2>0 DEF TypeOK, Kinds, NRows
    <3>2. new' \in [Checkers -> SUBSET NRows]
      BY <2>2, <3>1 DEF TypeOK, Kinds
    <3>3. /\ rows' \in [Items -> live \cup {None}] /\ made' \in [Items -> Nat]
          /\ at' \in [Checkers -> Nat]
      BY <2>0, <2>2 DEF TypeOK, Kinds, Goes
    <3>4. \A j \in Items : rows[j] # None => rows'[j] # None
      BY <2>0, <2>2, FeedAssumption DEF TypeOK, Kinds
    <3> QED
      BY <1>2, <2>2, <3>2, <3>3, <3>4 DEF TypeOK, Kinds, InsertItem, feedVars
  <2>3. CASE CutShort(c) /\ UNCHANGED <<rows, made>>
    BY <1>2, <2>3, OverType DEF TypeOK, Kinds, InsertItem, CutShort, Present, feedVars
  <2> QED
    BY <1>2, <2>1, <2>2, <2>3 DEF InsertItem
<1>3. CASE LoadRules(c)
  <2>1. CASE Over(c) /\ (UNCHANGED <<settled, todo, snap>> \/ CutShort(c))
    BY <1>3, <2>1, OverType DEF TypeOK, Kinds, LoadRules, CutShort, Present, feedVars
  <2>2. CASE /\ pc' = [pc EXCEPT ![c] = "judge"]
             /\ at' = [at EXCEPT ![c] = 1]
             /\ applied' = [applied EXCEPT ![c] = {r \in rules : cur[c] \in RuleFeeds[r]}]
             /\ UNCHANGED <<cur, pending, new, settled, todo, snap>>
    BY <1>3, <2>2 DEF TypeOK, Kinds, LoadRules, feedVars
  <2> QED
    BY <1>3, <2>1, <2>2 DEF LoadRules, CutShort
<1>4. CASE Judge(c)
  <2>1. \/ pc' = [pc EXCEPT ![c] = "grab"] /\ at' = at
        \/ at' = [at EXCEPT ![c] = @ + 1] /\ pc' = pc
    BY <1>4 DEF Judge, Goes
  <2>2. settled' \subseteq {j \in Items : rows[j] # None}
    BY <1>4 DEF TypeOK, Kinds, Judge, Present
  <2>3. /\ at' \in [Checkers -> Nat]
        /\ pc' \in [Checkers -> {"idle", "next", "insert", "judge", "grab", "mark"}]
    BY <1>a, <2>1
  <2> QED
    BY <1>4, <2>2, <2>3 DEF TypeOK, Kinds, Judge, feedVars
<1>5. CASE Grab(c)
  <2>0. i \in Items
    BY <1>5, <1>0 DEF TypeOK, Grab, Stands
  <2>1. NewRows(c, i) \subseteq NRows
    BY DEF TypeOK, Kinds, NewRows
  <2>2. \/ /\ pc' = [pc EXCEPT ![c] = "mark"]
           /\ handed' = handed \cup NewRows(c, i)
           /\ again' = again \cup {j \in {i} : NewRows(c, i) \subseteq handed}
           /\ accepted' = accepted \cup {i}
           /\ at' = at
        \/ /\ pc' = [pc EXCEPT ![c] = "judge"]
           /\ at' = [at EXCEPT ![c] = @ + 1]
           /\ handed' = handed /\ again' = again /\ accepted' = accepted
    BY <1>5 DEF Grab, Goes
  <2>3. handed' \subseteq NRows /\ again' \subseteq Items /\ accepted' \subseteq Items
    BY <2>0, <2>1, <2>2 DEF TypeOK, Kinds
  <2>4. /\ at' \in [Checkers -> Nat]
        /\ pc' \in [Checkers -> {"idle", "next", "insert", "judge", "grab", "mark"}]
    BY <1>a, <2>2
  <2> QED
    BY <1>5, <2>3, <2>4 DEF TypeOK, Kinds, Grab, feedVars
<1>6. CASE Mark(c)
  BY <1>6, <1>0 DEF TypeOK, Kinds, Stands, Mark, Marks, Goes, feedVars, history
<1>7. CASE CheckDone(c)
  BY <1>7, OverType DEF TypeOK, Kinds, CheckDone, feedVars, history
<1> QED
  BY <1>1, <1>2, <1>3, <1>4, <1>5, <1>6, <1>7 DEF CheckStep

LEMMA StandsStep ==
    ASSUME TypeOK, NEW c \in Checkers, CheckStep(c) PROVE \A d \in Checkers : Stands(d)'
<1>1. ASSUME NEW d \in Checkers, d # c PROVE Stands(d)'
  BY <1>1, OthersStand DEF TypeOK, Stands
<1>2. /\ at[c] \in 1..(Len(pending[c]) + 1)
      /\ pc[c] \in {"insert", "judge", "grab", "mark"} => cur[c] \in Feeds
      /\ Stands(c) /\ at[c] \in Nat /\ Len(pending[c]) \in Nat
  BY DEF TypeOK, Kinds, Stands
<1> SUFFICES Stands(c)'
  BY <1>1
<1>3. CASE Over(c)
  BY <1>3, OverType
<1>4. CASE Fetch(c)
  BY <1>2, <1>4 DEF TypeOK, Kinds, Fetch, Stands
<1>5. CASE InsertItem(c) /\ ~Over(c)
  <2>1. /\ pc[c] = "insert" /\ at[c] <= Len(pending[c])
        /\ at' = [at EXCEPT ![c] = @ + 1] /\ pc' = pc /\ cur' = cur /\ pending' = pending
    BY <1>5 DEF InsertItem, CutShort, Goes
  <2>2. pc'[c] = "insert" /\ at'[c] = at[c] + 1 /\ cur'[c] = cur[c] /\ pending'[c] = pending[c]
    BY <2>1 DEF TypeOK, Kinds
  <2> QED
    BY <1>2, <2>1, <2>2 DEF Stands
<1>6. CASE LoadRules(c) /\ ~Over(c)
  <2>1. /\ pc[c] = "insert" /\ at' = [at EXCEPT ![c] = 1]
        /\ pc' = [pc EXCEPT ![c] = "judge"] /\ cur' = cur /\ pending' = pending
    BY <1>6 DEF LoadRules, CutShort
  <2>2. pc'[c] = "judge" /\ at'[c] = 1 /\ cur'[c] = cur[c] /\ pending'[c] = pending[c]
    BY <2>1 DEF TypeOK, Kinds
  <2> QED
    BY <1>2, <2>1, <2>2 DEF Stands
<1>7. CASE Judge(c)
  <2>1. /\ pc[c] = "judge" /\ at[c] <= Len(pending[c]) /\ cur' = cur /\ pending' = pending
        /\ \/ pc' = [pc EXCEPT ![c] = "grab"] /\ at' = at
           \/ at' = [at EXCEPT ![c] = @ + 1] /\ pc' = pc
    BY <1>7 DEF Judge, Goes
  <2>2. /\ cur'[c] = cur[c] /\ pending'[c] = pending[c]
        /\ \/ pc'[c] = "grab" /\ at'[c] = at[c]
           \/ pc'[c] = "judge" /\ at'[c] = at[c] + 1
    BY <2>1 DEF TypeOK, Kinds
  <2> QED
    BY <1>2, <2>1, <2>2 DEF Stands
<1>8. CASE Grab(c)
  BY <1>2, <1>8 DEF TypeOK, Kinds, Grab, Goes, Stands
<1>9. CASE Mark(c)
  BY <1>2, <1>9 DEF TypeOK, Kinds, Mark, Goes, Stands
<1> QED
  BY <1>3, <1>4, <1>5, <1>6, <1>7, <1>8, <1>9 DEF CheckStep, CheckDone

LEMMA TypeStep == TypeOK /\ [Next]_vars => TypeOK'
<1> SUFFICES ASSUME TypeOK, [Next]_vars PROVE TypeOK'
  OBVIOUS
<1> USE Constants DEF TypeOK
<1>1. ASSUME NEW f \in Feeds, CreateFeed(f) \/ UpdateFeed(f) PROVE TypeOK'
  <2>1. setting' \in [Feeds -> AnySetting] /\ rows' = rows /\ rules' = rules
    BY <1>1 DEF Kinds, CreateFeed, UpdateFeed
  <2>2. live' \subseteq Feeds /\ live \subseteq live' /\ fresh' \subseteq Feeds \ live'
    BY <1>1 DEF Kinds, CreateFeed, UpdateFeed
  <2> QED
    BY <1>1, <2>1, <2>2 DEF Kinds, Stands, CreateFeed, UpdateFeed, checkVars, history
<1>2. ASSUME NEW f \in Feeds, DeleteFeed(f) PROVE TypeOK'
  <2>1. /\ rows' \in [Items -> live' \cup {None}]
        /\ marked' \subseteq {i \in Items : rows'[i] # None}
        /\ settled' \subseteq {i \in Items : rows'[i] # None}
    BY <1>2, RemoveType DEF DeleteFeed, Remove, RowsOf, Kinds
  <2> QED
    BY <1>2, <2>1 DEF Kinds, Stands, DeleteFeed, checkVars
<1>3. CASE EditRules
  BY <1>3 DEF Kinds, Stands, EditRules, checkVars, history
<1>4. CASE SyncBegin
  BY <1>4 DEF Kinds, Stands, SyncBegin, feedVars, history
<1>5. ASSUME NEW c \in Checks, CheckBegin(c) PROVE TypeOK'
  <2>1. PICK f \in live : /\ todo' = [todo EXCEPT ![c] = {f}]
                          /\ snap' = [snap EXCEPT ![c] = [Unread EXCEPT ![f] = setting[f]]]
    BY <1>5 DEF CheckBegin
  <2>2. f \in Feeds /\ [Unread EXCEPT ![f] = setting[f]] \in [Feeds -> AnySetting]
    BY <2>1 DEF Kinds
  <2>3. todo' \in [Checkers -> SUBSET Feeds] /\ snap' \in [Checkers -> [Feeds -> AnySetting]]
    BY <2>1, <2>2 DEF Kinds
  <2> QED
    BY <1>5, <2>3 DEF Kinds, Stands, CheckBegin, feedVars, history
<1>6. CASE SyncEnd
  <2>1. (rows' = rows /\ marked' = marked /\ settled' = settled) \/ \E S : Remove(S)
    BY <1>6 DEF SyncEnd
  <2>2. /\ rows' \in [Items -> live \cup {None}]
        /\ marked' \subseteq {i \in Items : rows'[i] # None}
        /\ settled' \subseteq {i \in Items : rows'[i] # None}
    BY <2>1, RemoveType DEF Kinds
  <2> QED
    BY <1>6, <2>2 DEF Kinds, Stands, SyncEnd, Idle, feedVars
<1>7. ASSUME NEW c \in Checks, CheckEnd(c) PROVE TypeOK'
  BY <1>7 DEF Kinds, Stands, CheckEnd, Idle, feedVars
<1>8. ASSUME NEW c \in Checks, HangUp(c) PROVE TypeOK'
  BY <1>8 DEF Kinds, Stands, HangUp, Present, feedVars
<1>9. CASE Crash
  BY <1>9 DEF Kinds, Stands, Crash, Present, feedVars
<1>10. ASSUME NEW c \in Checkers, CheckStep(c) PROVE TypeOK'
  BY <1>10, KindsStep, StandsStep
<1>11. ASSUME NEW i \in Asked, DownloadItem(i) \/ DownloadGrab(i) \/ DownloadMark(i)
                               \/ DownloadCut(i)
       PROVE  TypeOK'
  <2>1. i \in Items
    BY FeedAssumption
  <2> QED
    BY <1>11, <2>1 DEF Kinds, Stands, DownloadItem, DownloadGrab, DownloadMark, DownloadCut,
                       Request, Marks, feedVars, checkVars
<1>12. CASE UNCHANGED vars
  BY <1>12 DEF Kinds, Stands, vars, feedVars, checkVars, history
<1> QED
  BY <1>1, <1>2, <1>3, <1>4, <1>5, <1>6, <1>7, <1>8, <1>9, <1>10, <1>11, <1>12
     DEF Next, CheckStep

THEOREM TypeCorrect == Spec => []TypeOK
BY TypeInit, TypeStep, PTL DEF Spec

-----------------------------------------------------------------------------
(* What a step does to a checker *)

(* The document and the feed stay. *)
Holds(c) == pending'[c] = pending[c] /\ cur'[c] = cur[c]

Cleared(c) == pc'[c] \in {"idle", "next"} /\ pending'[c] = <<>> /\ at'[c] = 1 /\ new'[c] = {}

Unmoved(c) == Holds(c) /\ at'[c] = at[c] /\ new'[c] = new[c]

Rests(c) == Unmoved(c) /\ (pc'[c] = pc[c] \/ {pc[c], pc'[c]} \subseteq {"idle", "next"})

Fetched(c) == /\ pc[c] = "next" /\ pc'[c] = "insert" /\ pending'[c] \in Listings[cur'[c]]
              /\ cur'[c] \in Feeds /\ at'[c] = 1 /\ new'[c] = {} /\ new[c] = {}

Known(c) == /\ pc[c] = "insert" /\ pc'[c] = "insert" /\ at[c] <= Len(pending[c])
            /\ Holds(c) /\ at'[c] = at[c] + 1 /\ new'[c] = new[c]

Inserted(c) == /\ pc[c] = "insert" /\ pc'[c] = "insert" /\ at[c] <= Len(pending[c])
               /\ Holds(c) /\ at'[c] = at[c] + 1
               /\ new'[c] = new[c] \cup {<<Item(c), made[Item(c)] + 1>>}

Loaded(c) == /\ pc[c] = "insert" /\ pc'[c] = "judge"
             /\ Holds(c) /\ at'[c] = 1 /\ new'[c] = new[c]

Taken(c) == /\ pc[c] = "judge" /\ pc'[c] = "grab" /\ at[c] <= Len(pending[c])
            /\ Unmoved(c) /\ Item(c) \in NewIds(c)

Skipped(c) == /\ pc[c] = "judge" /\ pc'[c] = "judge" /\ at[c] <= Len(pending[c])
              /\ Holds(c) /\ at'[c] = at[c] + 1 /\ new'[c] = new[c]

HandedOver(c) == pc[c] = "grab" /\ pc'[c] = "mark" /\ Unmoved(c)

Left(c) == /\ pc[c] \in {"grab", "mark"} /\ pc'[c] = "judge"
           /\ Holds(c) /\ at'[c] = at[c] + 1 /\ new'[c] = new[c]

LEMMA Effects ==
    ASSUME TypeOK, NEW c \in Checkers, CheckStep(c)
    PROVE  \/ Rests(c) \/ Cleared(c) \/ Fetched(c) \/ Known(c)
           \/ InsertItem(c) /\ Inserted(c) /\ made' = [made EXCEPT ![Item(c)] = @ + 1]
           \/ Loaded(c) \/ (Judge(c) /\ (Taken(c) \/ Skipped(c)))
           \/ (Grab(c) /\ HandedOver(c)) \/ Left(c)
<1>0. DOMAIN pc = Checkers /\ DOMAIN at = Checkers /\ at[c] \in Nat
  BY DEF TypeOK, Kinds
<1>1. CASE Fetch(c)
  <2>1. PICK f \in todo[c] :
           \/ /\ cur' = [cur EXCEPT ![c] = f]
              /\ \E p \in Listings[f] : pending' = [pending EXCEPT ![c] = p]
              /\ pc' = [pc EXCEPT ![c] = "insert"]
           \/ UNCHANGED <<cur, pending, pc>>
    BY <1>1 DEF TypeOK, Kinds, Fetch
  <2>2. f \in Feeds /\ pc[c] = "next" /\ at' = at /\ new' = new
    BY <1>1, <2>1 DEF TypeOK, Kinds, Fetch
  <2>3. at[c] = 1 /\ new[c] = {}
    <3>1. pending[c] = <<>> /\ new[c] = {} /\ at[c] \in 1..(Len(pending[c]) + 1)
      BY <2>2 DEF TypeOK, Kinds, Stands
    <3> QED
      BY <3>1
  <2> QED
    BY <2>1, <2>2, <2>3 DEF TypeOK, Kinds, Rests, Unmoved, Holds, Fetched
<1>2. CASE InsertItem(c)
  <2>1. CASE CutShort(c)
    BY <2>1 DEF TypeOK, Kinds, CutShort, Over, Cleared
  <2>2. CASE ~CutShort(c)
    BY <1>2, <2>2 DEF TypeOK, Kinds, InsertItem, Goes, Known, Inserted, Holds
  <2> QED
    BY <2>1, <2>2
<1>3. CASE LoadRules(c)
  <2>1. CASE Over(c)
    BY <2>1 DEF TypeOK, Kinds, Over, Cleared
  <2>2. CASE ~Over(c)
    <3>1. /\ pc[c] = "insert" /\ pc' = [pc EXCEPT ![c] = "judge"]
          /\ at' = [at EXCEPT ![c] = 1] /\ cur' = cur /\ pending' = pending /\ new' = new
      BY <1>3, <2>2 DEF TypeOK, Kinds, LoadRules, CutShort
    <3>2. Loaded(c)
      BY <1>0, <3>1 DEF TypeOK, Kinds, Loaded, Holds
    <3> QED
      BY <3>2
  <2> QED
    BY <2>1, <2>2
<1>4. CASE Judge(c)
  <2>1. /\ pc[c] = "judge" /\ at[c] <= Len(pending[c])
        /\ cur' = cur /\ pending' = pending /\ new' = new
    BY <1>4 DEF TypeOK, Kinds, Judge
  <2>2. \/ /\ Item(c) \in NewIds(c) /\ at' = at
           /\ pc' = [pc EXCEPT ![c] = "grab"]
        \/ at' = [at EXCEPT ![c] = @ + 1] /\ pc' = pc
    BY <1>4 DEF TypeOK, Kinds, Judge, Goes, IsNew
  <2>3. Taken(c) \/ Skipped(c)
    BY <1>0, <2>1, <2>2 DEF TypeOK, Kinds, Taken, Skipped, Unmoved, Holds
  <2> QED
    BY <1>4, <2>3
<1>5. CASE Grab(c)
  BY <1>5 DEF TypeOK, Kinds, Grab, Goes, HandedOver, Left, Unmoved, Holds
<1>6. CASE Mark(c)
  BY <1>6 DEF TypeOK, Kinds, Mark, Goes, Left, Holds
<1>7. CASE CheckDone(c)
  BY <1>7 DEF TypeOK, Kinds, CheckDone, Over, Cleared
<1> QED
  BY <1>1, <1>2, <1>3, <1>4, <1>5, <1>6, <1>7 DEF TypeOK, Kinds, CheckStep

(* Whatever else happens moves no checker, or ends it. *)
LEMMA OtherSteps ==
    ASSUME TypeOK, [Next]_vars
    PROVE  \/ \E c \in Checkers : CheckStep(c)
           \/ /\ made' = made /\ handed' = handed /\ again' = again
              /\ accepted \subseteq accepted'
              /\ \A c \in Checkers : Rests(c) \/ Cleared(c)
<1> SUFFICES ASSUME ~\E c \in Checkers : CheckStep(c)
             PROVE  /\ made' = made /\ handed' = handed /\ again' = again
                    /\ accepted \subseteq accepted'
                    /\ \A c \in Checkers : Rests(c) \/ Cleared(c)
  OBVIOUS
<1> USE Constants DEF TypeOK, Kinds, Rests, Unmoved, Holds
<1>1. CASE \E f \in Feeds : CreateFeed(f) \/ UpdateFeed(f) \/ DeleteFeed(f)
  BY <1>1 DEF CreateFeed, UpdateFeed, DeleteFeed, checkVars, history
<1>2. CASE EditRules \/ UNCHANGED vars
  BY <1>2 DEF EditRules, vars, checkVars, history
<1>3. CASE SyncBegin
  BY <1>3 DEF SyncBegin, history
<1>4. CASE \E c \in Checks : CheckBegin(c)
  BY <1>4 DEF CheckBegin, history
<1>5. CASE SyncEnd \/ \E c \in Checks : CheckEnd(c)
  BY <1>5 DEF SyncEnd, CheckEnd, Idle
<1>6. CASE \E c \in Checks : HangUp(c)
  BY <1>6 DEF HangUp, Cleared
<1>7. CASE Crash
  BY <1>7 DEF Crash, Cleared
<1>8. CASE \E i \in Asked : DownloadItem(i) \/ DownloadGrab(i) \/ DownloadMark(i) \/ DownloadCut(i)
  BY <1>8 DEF DownloadItem, DownloadGrab, DownloadMark, DownloadCut, Request, checkVars
<1> QED
  BY <1>1, <1>2, <1>3, <1>4, <1>5, <1>6, <1>7, <1>8 DEF Next, CheckStep

LEMMA OthersRest ==
    ASSUME TypeOK, NEW c \in Checkers, CheckStep(c), NEW d \in Checkers, d # c
    PROVE  Rests(d)
BY OthersStand DEF Rests, Unmoved, Holds

(* The rows that are known stay within what was made. *)
LEMMA MadeGrows ==
    ASSUME TypeOK, [Next]_vars
    PROVE  \A i \in Items : made[i] <= made'[i] /\ made[i] \in Nat /\ made'[i] \in Nat
<1>1. CASE \E c \in Checkers : CheckStep(c)
  <2>1. PICK c \in Checkers : CheckStep(c)
    BY <1>1
  <2>2. made' = made \/ made' = [made EXCEPT ![Item(c)] = @ + 1]
    BY <2>1 DEF CheckStep, Fetch, InsertItem, LoadRules, Judge, Grab, Mark, CheckDone, CutShort,
                history
  <2>3. made \in [Items -> Nat]
    BY DEF TypeOK, Kinds
  <2>4. \A i \in Items : made'[i] = made[i] \/ made'[i] = made[i] + 1
    BY <2>2, <2>3
  <2> QED
    BY <2>3, <2>4
<1>2. CASE made' = made
  BY <1>2 DEF TypeOK, Kinds
<1> QED
  BY <1>1, <1>2, OtherSteps

-----------------------------------------------------------------------------
(* Every row has one check that made it *)

Owned ==
    /\ \A c \in Checkers : \A r \in new[c] : r[2] <= made[r[1]]
    /\ \A c, d \in Checkers : c # d => new[c] \cap new[d] = {}
    /\ \A r \in handed : r[2] <= made[r[1]]

LEMMA OwnedStep == TypeOK /\ Owned /\ [Next]_vars => Owned'
<1> SUFFICES ASSUME TypeOK, Owned, [Next]_vars PROVE Owned'
  OBVIOUS
<1>0. /\ \A i \in Items : made[i] <= made'[i] /\ made[i] \in Nat /\ made'[i] \in Nat
      /\ handed \subseteq NRows /\ \A c \in Checkers : new[c] \subseteq NRows
  BY MadeGrows DEF TypeOK, Kinds
<1>1. CASE \E c \in Checkers : CheckStep(c)
  <2>1. PICK c \in Checkers : CheckStep(c)
    BY <1>1
  <2>2. \A d \in Checkers : d # c => new'[d] = new[d]
    BY <2>1, OthersStand
  <2>3. CASE new'[c] \subseteq new[c]
    <3>1. handed' \subseteq handed \cup new[c]
      BY <2>1 DEF CheckStep, Fetch, InsertItem, LoadRules, Judge, Grab, Mark, CheckDone, CutShort,
                  history, NewRows
    <3>2. \A d \in Checkers : new'[d] \subseteq new[d]
      BY <2>2, <2>3
    <3> QED
      BY <1>0, <3>1, <3>2 DEF Owned, NRows
  <2>4. CASE InsertItem(c) /\ Inserted(c) /\ made' = [made EXCEPT ![Item(c)] = @ + 1]
    <3> DEFINE i == Item(c)
    <3>1. i \in Items
      BY <2>4 DEF TypeOK, Kinds, Stands, InsertItem, Item
    <3>2. made'[i] = made[i] + 1 /\ new'[c] = new[c] \cup {<<i, made[i] + 1>>}
      BY <2>4, <3>1 DEF Inserted, TypeOK, Kinds
    <3>3. \A d \in Checkers : <<i, made[i] + 1>> \notin new[d]
      BY <1>0, <3>1 DEF Owned
    <3>4. handed' = handed
      BY <2>4 DEF InsertItem
    <3> QED
      BY <1>0, <2>2, <3>1, <3>2, <3>3, <3>4 DEF Owned, NRows
  <2> QED
    BY <2>1, <2>3, <2>4, Effects DEF Rests, Unmoved, Cleared, Fetched, Known, Loaded, Taken,
       Skipped, HandedOver, Left
<1>2. CASE /\ handed' = handed
           /\ \A c \in Checkers : Rests(c) \/ Cleared(c)
  <2>1. \A c \in Checkers : new'[c] \subseteq new[c]
    BY <1>2 DEF Rests, Unmoved, Cleared
  <2> QED
    BY <1>0, <1>2, <2>1 DEF Owned, NRows
<1> QED
  BY <1>1, <1>2, OtherSteps

-----------------------------------------------------------------------------
(* What is new is on the list *)

Listed ==
    \A c \in Checkers :
       /\ pc[c] \notin {"idle", "next"} => pending[c] \in Listings[cur[c]]
       /\ \A r \in new[c] : \E k \in 1..Len(pending[c]) :
             pending[c][k] = r[1] /\ (pc[c] = "insert" => k < at[c])

LEMMA ListedStep == TypeOK /\ Listed /\ [Next]_vars => Listed'
<1> SUFFICES ASSUME TypeOK, Listed, [Next]_vars, NEW c \in Checkers
             PROVE  /\ pc'[c] \notin {"idle", "next"} => pending'[c] \in Listings[cur'[c]]
                    /\ \A r \in new'[c] : \E k \in 1..Len(pending'[c]) :
                          pending'[c][k] = r[1] /\ (pc'[c] = "insert" => k < at'[c])
  BY DEF Listed
<1>0. /\ pc[c] \notin {"idle", "next"} => pending[c] \in Listings[cur[c]]
      /\ \A r \in new[c] : \E k \in 1..Len(pending[c]) :
            pending[c][k] = r[1] /\ (pc[c] = "insert" => k < at[c])
      /\ at[c] \in Nat /\ at[c] >= 1 /\ Len(pending[c]) \in Nat
  BY DEF Listed, TypeOK, Kinds, Stands
<1>1. CASE Rests(c)
  BY <1>0, <1>1 DEF Rests, Unmoved, Holds
<1>2. CASE Cleared(c) \/ Fetched(c)
  BY <1>2 DEF Cleared, Fetched
<1>3. CASE Known(c) \/ Loaded(c) \/ Taken(c) \/ Skipped(c) \/ HandedOver(c) \/ Left(c)
  BY <1>0, <1>3 DEF Known, Loaded, Taken, Skipped, HandedOver, Left, Unmoved, Holds
<1>4. CASE Inserted(c)
  <2>1. pending[c][at[c]] = Item(c) /\ at[c] \in 1..Len(pending[c])
    BY <1>0, <1>4 DEF Inserted, Item
  <2> QED
    BY <1>0, <1>4, <2>1 DEF Inserted, Holds
<1> QED
  BY <1>1, <1>2, <1>3, <1>4, Effects, OtherSteps, OthersRest

-----------------------------------------------------------------------------
(* A check hands over what is its own, once *)

(* What was handed over for a row of a check lies behind it on its list. *)
Behind ==
    \A c \in Checkers :
       /\ pc[c] \in {"grab", "mark"} => Item(c) \in NewIds(c)
       /\ \A r \in new[c] \cap handed : r[1] \in Repeated
             \/ /\ pc[c] \in {"judge", "grab", "mark"}
                /\ \E k \in 1..Len(pending[c]) :
                      /\ pending[c][k] = r[1]
                      /\ k < at[c] \/ (k = at[c] /\ pc[c] = "mark")

(* Only a grab that succeeds adds to the history. *)
LEMMA HandedBy ==
    ASSUME TypeOK, NEW c \in Checkers, CheckStep(c)
    PROVE  \/ handed' = handed /\ again' = again
           \/ /\ Grab(c) /\ HandedOver(c)
              /\ handed' = handed \cup NewRows(c, Item(c))
              /\ again' = again \cup {j \in {Item(c)} : NewRows(c, Item(c)) \subseteq handed}
              /\ accepted' = accepted \cup {Item(c)}
<1>1. CASE Grab(c)
  BY <1>1 DEF TypeOK, Kinds, Grab, HandedOver, Unmoved, Holds
<1>2. CASE ~Grab(c)
  BY <1>2 DEF CheckStep, Fetch, InsertItem, LoadRules, Judge, Mark, CheckDone, history
<1> QED
  BY <1>1, <1>2

LEMMA BehindStep == TypeOK /\ Owned /\ Listed /\ Behind /\ [Next]_vars => Behind'
<1> SUFFICES ASSUME TypeOK, Owned, Listed, Behind, [Next]_vars, NEW c \in Checkers
             PROVE  /\ pc'[c] \in {"grab", "mark"} => Item(c)' \in NewIds(c)'
                    /\ \A r \in new'[c] \cap handed' : r[1] \in Repeated
                          \/ /\ pc'[c] \in {"judge", "grab", "mark"}
                             /\ \E k \in 1..Len(pending'[c]) :
                                   /\ pending'[c][k] = r[1]
                                   /\ k < at'[c] \/ (k = at'[c] /\ pc'[c] = "mark")
  BY DEF Behind
<1>0. /\ at[c] \in Nat /\ at[c] >= 1 /\ Len(pending[c]) \in Nat
      /\ pc[c] \in {"grab", "mark"} => Item(c) \in NewIds(c) /\ at[c] <= Len(pending[c])
      /\ \A r \in new[c] \cap handed : r[1] \in Repeated
            \/ /\ pc[c] \in {"judge", "grab", "mark"}
               /\ \E k \in 1..Len(pending[c]) :
                     /\ pending[c][k] = r[1]
                     /\ k < at[c] \/ (k = at[c] /\ pc[c] = "mark")
  BY DEF Behind, TypeOK, Kinds, Stands
<1>1. CASE handed' \cap new'[c] = handed \cap new'[c]
  <2>1. CASE Rests(c)
    BY <1>0, <1>1, <2>1 DEF Rests, Unmoved, Holds, Item, NewIds
  <2>2. CASE Cleared(c) \/ Fetched(c)
    BY <2>2 DEF Cleared, Fetched
  <2>3. CASE Known(c) \/ Loaded(c)
    BY <1>0, <1>1, <2>3 DEF Known, Loaded
  <2>4. CASE Inserted(c) /\ InsertItem(c)
    <3>1. Item(c) \in Items
      BY <2>4 DEF TypeOK, Kinds, Stands, InsertItem, Item
    <3>2. <<Item(c), made[Item(c)] + 1>> \notin handed
      BY <3>1 DEF Owned, TypeOK, Kinds
    <3> QED
      BY <1>0, <1>1, <2>4, <3>2 DEF Inserted
  <2>5. CASE Taken(c)
    BY <1>0, <1>1, <2>5 DEF Taken, Unmoved, Holds, Item, NewIds
  <2>6. CASE Skipped(c) \/ Left(c)
    BY <1>0, <1>1, <2>6 DEF Skipped, Left, Holds
  <2>7. CASE HandedOver(c)
    BY <1>0, <1>1, <2>7 DEF HandedOver, Unmoved, Holds, Item, NewIds
  <2> QED
    BY <2>1, <2>2, <2>3, <2>4, <2>5, <2>6, <2>7, Effects, OtherSteps, OthersRest
<1>2. CASE Grab(c) /\ HandedOver(c) /\ handed' = handed \cup NewRows(c, Item(c))
  <2>1. \A r \in NewRows(c, Item(c)) : pending[c][at[c]] = r[1]
    BY DEF NewRows, Item
  <2> QED
    BY <1>0, <1>2, <2>1 DEF HandedOver, Unmoved, Holds, Item, NewIds
<1>3. CASE handed' = handed
  BY <1>1, <1>3
<1>4. ASSUME NEW d \in Checkers, d # c, CheckStep(d), handed' = handed \cup NewRows(d, Item(d))
      PROVE  handed' \cap new'[c] = handed \cap new'[c]
  <2>1. new'[c] = new[c] /\ NewRows(d, Item(d)) \subseteq new[d]
    BY <1>4, OthersStand DEF NewRows
  <2> QED
    BY <1>4, <2>1 DEF Owned
<1> QED
  BY <1>1, <1>2, <1>3, <1>4, HandedBy, OtherSteps

LEMMA HandedOnceStep ==
    TypeOK /\ Listed /\ Behind /\ HandedOnce /\ [Next]_vars => HandedOnce'
<1> SUFFICES ASSUME TypeOK, Listed, Behind, HandedOnce, [Next]_vars PROVE again' \subseteq Repeated
  BY DEF HandedOnce
<1>1. CASE again' = again
  BY <1>1 DEF HandedOnce
<1>2. ASSUME NEW c \in Checkers, Grab(c), NewRows(c, Item(c)) \subseteq handed
      PROVE  Item(c) \in Repeated
  <2>1. PICK r \in new[c] : r[1] = Item(c) /\ r \in handed
    BY <1>2 DEF Behind, NewIds, NewRows, Grab
  <2>2. SUFFICES ASSUME Item(c) \notin Repeated PROVE FALSE
    OBVIOUS
  <2>3. PICK k \in 1..Len(pending[c]) : pending[c][k] = Item(c) /\ k < at[c]
    BY <1>2, <2>1, <2>2 DEF Behind, Grab
  <2>4. at[c] \in 1..Len(pending[c]) /\ pending[c][at[c]] = Item(c) /\ at[c] # k
    BY <1>2, <2>3 DEF TypeOK, Kinds, Stands, Grab, Item
  <2>5. pending[c] \in Listings[cur[c]] /\ cur[c] \in Feeds /\ Item(c) \in Items
    BY <1>2, <2>4 DEF Listed, TypeOK, Kinds, Stands, Grab
  <2> QED
    BY <2>2, <2>3, <2>4, <2>5 DEF Repeated
<1>3. ASSUME NEW c \in Checkers, CheckStep(c) PROVE again' \subseteq Repeated
  BY <1>2, <1>3, HandedBy DEF HandedOnce
<1> QED
  BY <1>1, <1>3, OtherSteps

-----------------------------------------------------------------------------
(* What is marked was accepted *)

Answered ==
    /\ \A c \in Checkers : pc[c] = "mark" => Item(c) \in accepted
    /\ \A i \in Asked : request[i] = "mark" => i \in accepted
    /\ marked \subseteq accepted

LEMMA AnsweredStep == TypeOK /\ Answered /\ [Next]_vars => Answered'
<1> SUFFICES ASSUME TypeOK, Answered, [Next]_vars PROVE Answered'
  OBVIOUS
<1>1. accepted \subseteq accepted'
  <2>1. ASSUME NEW c \in Checkers, CheckStep(c) PROVE accepted \subseteq accepted'
    BY <2>1 DEF CheckStep, Fetch, InsertItem, LoadRules, Judge, Grab, Mark, CheckDone, history
  <2> QED
    BY <2>1, OtherSteps
<1>2. \A c \in Checkers : pc'[c] = "mark" => Item(c)' \in accepted'
  <2> SUFFICES ASSUME NEW c \in Checkers, pc'[c] = "mark" PROVE Item(c)' \in accepted'
    OBVIOUS
  <2>1. CASE Rests(c)
    BY <1>1, <2>1 DEF Rests, Unmoved, Holds, Item, Answered
  <2>2. CASE Grab(c) /\ HandedOver(c)
    BY <2>2 DEF Grab, HandedOver, Unmoved, Holds, Item, TypeOK, Kinds
  <2> QED
    BY <2>1, <2>2, Effects, OtherSteps, OthersRest DEF Cleared, Fetched, Known, Inserted, Loaded,
       Taken, Skipped, Left
<1>3. CASE \E c \in Checkers : CheckStep(c)
  <2>1. PICK c \in Checkers : CheckStep(c)
    BY <1>3
  <2>2. request' = request
    BY <2>1 DEF CheckStep, Fetch, InsertItem, LoadRules, Judge, Grab, Mark, CheckDone
  <2>3. marked' \subseteq marked \/ (pc[c] = "mark" /\ marked' \subseteq marked \cup {Item(c)})
    BY <2>1 DEF CheckStep, Fetch, InsertItem, LoadRules, Judge, Grab, Mark, Marks, CheckDone
  <2> QED
    BY <1>1, <1>2, <2>1, <2>2, <2>3 DEF Answered
<1>4. CASE \E i \in Asked : DownloadItem(i) \/ DownloadGrab(i) \/ DownloadMark(i) \/ DownloadCut(i)
  <2>1. PICK i \in Asked : DownloadItem(i) \/ DownloadGrab(i) \/ DownloadMark(i) \/ DownloadCut(i)
    BY <1>4
  <2>2. \A j \in Asked : request'[j] = "mark" => j \in accepted'
    BY <1>1, <2>1 DEF TypeOK, Kinds, Answered, DownloadItem, DownloadGrab, DownloadMark,
                      DownloadCut, Request
  <2>3. marked' \subseteq accepted'
    BY <1>1, <2>1 DEF Answered, DownloadItem, DownloadGrab, DownloadMark, DownloadCut, Request,
                      Marks
  <2> QED
    BY <1>2, <2>2, <2>3 DEF Answered
<1>5. CASE Crash
  BY <1>1, <1>2, <1>5 DEF Crash, Answered
<1>6. CASE request' = request /\ marked' \subseteq marked
  BY <1>1, <1>2, <1>6 DEF Answered
<1> QED
  BY <1>3, <1>4, <1>5, <1>6 DEF Next, CheckStep, CreateFeed, UpdateFeed, DeleteFeed, EditRules,
     SyncBegin, SyncEnd, Idle, CheckBegin, CheckEnd, HangUp, Remove, vars

-----------------------------------------------------------------------------
(* What is new is judged *)

(* An item is judged before it is handed over. *)
JudgedFirst ==
    \A c \in Checkers : pc[c] \in {"grab", "mark"} /\ Item(c) \in Present(new[c])
                            => Item(c) \in settled

Awaits(c, i) ==
    /\ <<i, made[i]>> \in new[c]
    /\ pc[c] = "insert" \/ \E k \in at[c]..Len(pending[c]) : pending[c][k] = i

Seen == \A i \in Items : rows[i] # None => i \in settled \/ \E c \in Checkers : Awaits(c, i)

LEMMA SeenIsNothingOverlooked == Seen <=> NothingOverlooked
BY DEF Seen, Awaits, NothingOverlooked

(* A row is made by the check that inserts it, and by nothing else. *)
MadeBy(c, i) == InsertItem(c) /\ Inserted(c) /\ i = Item(c) /\ made'[i] = made[i] + 1

LEMMA RowsAndMade ==
    ASSUME TypeOK, [Next]_vars, NEW i \in Items, rows'[i] # None
    PROVE  \/ \E c \in Checkers : MadeBy(c, i)
           \/ /\ rows[i] # None /\ made'[i] = made[i]
              /\ i \in settled => i \in settled'
<1>0. rows \in [Items -> live \cup {None}] /\ made \in [Items -> Nat]
  BY DEF TypeOK, Kinds
<1>1. ASSUME NEW c \in Checkers, InsertItem(c) PROVE \/ MadeBy(c, i)
                \/ /\ rows[i] # None /\ made'[i] = made[i]
                   /\ (i \in settled => i \in settled')
  <2>1. CASE rows' = rows /\ made' = made
    BY <1>1, <2>1 DEF InsertItem, CutShort
  <2>2. CASE ~(rows' = rows /\ made' = made)
    <3>1. /\ rows' = [rows EXCEPT ![Item(c)] = cur[c]] /\ made' = [made EXCEPT ![Item(c)] = @ + 1]
          /\ settled' = settled /\ at' = [at EXCEPT ![c] = @ + 1]
          /\ new' = [new EXCEPT ![c] = @ \cup {<<Item(c), made[Item(c)] + 1>>}]
          /\ pc[c] = "insert" /\ pc' = pc /\ cur' = cur /\ pending' = pending
          /\ at[c] <= Len(pending[c])
      BY <1>1, <2>2 DEF InsertItem, CutShort, Goes
    <3>2. CASE i = Item(c)
      <4>1. Inserted(c)
        BY <3>1 DEF Inserted, Holds, TypeOK, Kinds
      <4>2. made'[i] = made[i] + 1
        BY <1>0, <3>1, <3>2
      <4> QED
        BY <1>1, <3>2, <4>1, <4>2 DEF MadeBy
    <3>3. CASE i # Item(c)
      BY <1>0, <3>1, <3>3
    <3> QED
      BY <3>2, <3>3
  <2> QED
    BY <2>1, <2>2
<1>2. CASE rows' = rows /\ made' = made /\ settled \subseteq settled'
  BY <1>2
<1>3. CASE made' = made /\ \E S : Remove(S)
  BY <1>0, <1>3 DEF Remove
<1>4. ASSUME NEW c \in Checkers, CheckStep(c), ~InsertItem(c)
      PROVE  rows' = rows /\ made' = made /\ settled \subseteq settled'
  BY <1>4 DEF CheckStep, Fetch, LoadRules, Judge, Grab, Mark, CheckDone, CutShort, history
<1>5. CASE SyncEnd
  <2>1. made' = made
    BY <1>5 DEF SyncEnd, Idle
  <2>2. (rows' = rows /\ settled' = settled) \/ \E S : Remove(S)
    BY <1>5 DEF SyncEnd
  <2> QED
    BY <1>2, <1>3, <2>1, <2>2
<1>6. CASE \E f \in Feeds : CreateFeed(f) \/ UpdateFeed(f) \/ DeleteFeed(f)
  BY <1>2, <1>3, <1>6 DEF CreateFeed, UpdateFeed, DeleteFeed, history
<1>7. CASE \/ EditRules \/ SyncBegin \/ Crash \/ UNCHANGED vars
           \/ \E c \in Checks : CheckBegin(c) \/ CheckEnd(c) \/ HangUp(c)
  BY <1>2, <1>7 DEF EditRules, SyncBegin, Crash, CheckBegin, CheckEnd, Idle, HangUp, history, vars
<1>8. CASE \E j \in Asked : DownloadItem(j) \/ DownloadGrab(j) \/ DownloadMark(j) \/ DownloadCut(j)
  BY <1>2, <1>8 DEF DownloadItem, DownloadGrab, DownloadMark, DownloadCut, Request
<1> QED
  BY <1>1, <1>2, <1>4, <1>5, <1>6, <1>7, <1>8 DEF Next, CheckStep

(* A check that ends early settles what it had; one that ends has nothing   *)
(* before it.                                                               *)
LEMMA EndsSettled ==
    ASSUME TypeOK, [Next]_vars, NEW c \in Checkers, Cleared(c), ~Rests(c),
           NEW i \in Present(new[c]), Awaits(c, i)
    PROVE  i \in settled'
<1>1. CASE CheckStep(c)
  <2>1. CASE CutShort(c)
    BY <1>1, <2>1 DEF CutShort
  <2>2. CASE LoadRules(c) /\ ~CutShort(c)
    BY <2>2 DEF LoadRules, Cleared, Awaits, TypeOK, Kinds
  <2>3. CASE CheckDone(c)
    BY <2>3 DEF CheckDone, Awaits, TypeOK, Kinds
  <2>4. CASE ~CutShort(c) /\ ~LoadRules(c) /\ ~CheckDone(c)
    BY <1>1, <2>4 DEF CheckStep, Fetch, InsertItem, Judge, Grab, Mark, Goes, Cleared, Rests, Unmoved,
                Holds, TypeOK, Kinds
  <2> QED
    BY <2>1, <2>2, <2>3, <2>4
<1>2. ASSUME NEW d \in Checkers, CheckStep(d) PROVE d = c
  BY <1>2, OthersRest
<1>3. CASE \E d \in Checks : HangUp(d)
  <2>1. PICK d \in Checks : HangUp(d)
    BY <1>3
  <2>2. d = c
    BY <2>1 DEF HangUp, Rests, Unmoved, Holds, TypeOK, Kinds
  <2> QED
    BY <2>1, <2>2 DEF HangUp
<1>4. CASE Crash
  BY <1>4 DEF Crash, Present
<1>5. CASE cur' = cur /\ pending' = pending /\ at' = at /\ new' = new
           /\ (pc'[c] = pc[c] \/ {pc[c], pc'[c]} \subseteq {"idle", "next"})
  BY <1>5 DEF Rests, Unmoved, Holds
<1>6. CASE SyncBegin \/ SyncEnd \/ \E d \in Checks : CheckBegin(d) \/ CheckEnd(d)
  BY <1>5, <1>6 DEF SyncBegin, SyncEnd, CheckBegin, CheckEnd, Idle, TypeOK, Kinds
<1> QED
  BY <1>1, <1>2, <1>3, <1>4, <1>5, <1>6 DEF Next, CheckStep, CreateFeed, UpdateFeed, DeleteFeed,
     EditRules, DownloadItem, DownloadGrab, DownloadMark, DownloadCut, Request, checkVars, vars

LEMMA JudgedFirstStep ==
    TypeOK /\ Owned /\ JudgedFirst /\ [Next]_vars => JudgedFirst'
<1> SUFFICES ASSUME TypeOK, Owned, JudgedFirst, [Next]_vars, NEW c \in Checkers,
                    pc'[c] \in {"grab", "mark"}, Item(c)' \in Present(new[c])'
             PROVE  Item(c)' \in settled'
  BY DEF JudgedFirst
<1>1. CASE pc[c] \in {"grab", "mark"} /\ Unmoved(c)
  <2> DEFINE i == Item(c)
  <2>1. Item(c)' = i /\ new'[c] = new[c]
    BY <1>1 DEF Unmoved, Holds, Item
  <2>2. i \in Items /\ rows'[i] # None /\ <<i, made'[i]>> \in new[c]
    BY <2>1 DEF Present
  <2>3. made[i] \in Nat /\ made'[i] # made[i] + 1
    BY <2>2 DEF Owned, TypeOK, Kinds
  <2>4. rows[i] # None /\ made'[i] = made[i] /\ (i \in settled => i \in settled')
    BY <2>2, <2>3, RowsAndMade DEF MadeBy
  <2> QED
    BY <1>1, <2>1, <2>2, <2>4 DEF JudgedFirst, Present
<1>2. CASE Judge(c) /\ Taken(c)
  BY <1>2 DEF Judge, Taken, Unmoved, Holds, Item, Present, NewRows
<1> QED
  BY <1>1, <1>2, Effects, OtherSteps, OthersRest
     DEF Rests, Cleared, Fetched, Known, Inserted, Loaded, Skipped, HandedOver, Left

LEMMA SeenStep ==
    TypeOK /\ Listed /\ JudgedFirst /\ Seen /\ [Next]_vars => Seen'
<1> SUFFICES ASSUME TypeOK, Listed, JudgedFirst, Seen, [Next]_vars, NEW i \in Items, rows'[i] # None
             PROVE  i \in settled' \/ \E c \in Checkers : Awaits(c, i)'
  BY DEF Seen
<1>1. CASE \E c \in Checkers : MadeBy(c, i)
  BY <1>1 DEF MadeBy, Inserted, Awaits
<1>2. CASE rows[i] # None /\ made'[i] = made[i] /\ (i \in settled => i \in settled')
  <2>1. SUFFICES ASSUME NEW c \in Checkers, Awaits(c, i) PROVE i \in settled' \/ Awaits(c, i)'
    BY <1>2 DEF Seen
  <2>2. /\ <<i, made[i]>> \in new[c] /\ i \in Present(new[c])
        /\ at[c] \in Nat /\ at[c] >= 1 /\ Len(pending[c]) \in Nat
    BY <1>2, <2>1 DEF Awaits, Present, TypeOK, Kinds, Stands
  <2>3. CASE Rests(c)
    BY <1>2, <2>1, <2>2, <2>3 DEF Rests, Unmoved, Holds, Awaits, TypeOK, Stands
  <2>4. CASE Cleared(c) /\ ~Rests(c)
    BY <2>1, <2>2, <2>4, EndsSettled
  <2>5. CASE Fetched(c)
    BY <2>2, <2>5 DEF Fetched
  <2>6. CASE Known(c) \/ Inserted(c)
    BY <1>2, <2>2, <2>6 DEF Known, Inserted, Awaits
  <2>7. CASE Loaded(c)
    <3>1. PICK k \in 1..Len(pending[c]) : pending[c][k] = i
      BY <2>2 DEF Listed
    <3> QED
      BY <1>2, <2>2, <2>7, <3>1 DEF Loaded, Holds, Awaits
  <2>8. CASE Taken(c) \/ HandedOver(c)
    BY <1>2, <2>1, <2>2, <2>8 DEF Taken, HandedOver, Unmoved, Holds, Awaits
  <2>9. CASE (Judge(c) /\ Skipped(c)) \/ Left(c)
    <3>1. PICK k \in at[c]..Len(pending[c]) : pending[c][k] = i
      BY <2>1, <2>9 DEF Awaits, Skipped, Left
    <3>2. CASE k = at[c]
      <4>1. Item(c) = i
        BY <3>1, <3>2 DEF Item
      <4>2. CASE Judge(c)
        BY <2>2, <4>1, <4>2 DEF Judge, Present, NewRows
      <4>3. CASE Left(c)
        BY <1>2, <2>2, <4>1, <4>3 DEF Left, JudgedFirst
      <4> QED
        BY <2>9, <4>2, <4>3
    <3>3. CASE k # at[c]
      BY <1>2, <2>2, <2>9, <3>1, <3>3 DEF Skipped, Left, Holds, Awaits
    <3> QED
      BY <3>2, <3>3
  <2> QED
    BY <2>3, <2>4, <2>5, <2>6, <2>7, <2>8, <2>9, Effects, OtherSteps, OthersRest
<1> QED
  BY <1>1, <1>2, RowsAndMade

-----------------------------------------------------------------------------
IInv == /\ TypeOK /\ Owned /\ Listed /\ Behind /\ HandedOnce /\ Answered /\ JudgedFirst /\ Seen

LEMMA Inductive == Spec => []IInv
<1>1. Init => IInv
  BY TypeInit DEF Init, IInv, Owned, Listed, Behind, HandedOnce, Answered, JudgedFirst, Seen
<1>2. IInv /\ [Next]_vars => IInv'
  BY TypeStep, OwnedStep, ListedStep, BehindStep, HandedOnceStep, AnsweredStep, JudgedFirstStep,
     SeenStep DEF IInv
<1> QED
  BY <1>1, <1>2, PTL DEF Spec

(* A row has one check that made it, and that check comes to it once: so no *)
(* item is handed over twice for one row, however many checks overlap and   *)
(* rows come and go, unless one document lists it twice.                    *)
THEOREM RowsAreHandedOnce == Spec => []HandedOnce
<1>1. IInv => HandedOnce
  BY DEF IInv
<1> QED
  BY <1>1, Inductive, PTL

(* A row that says 'downloaded' is of an item a client accepted. *)
THEOREM MarkedIsAccepted == Spec => []MarkedWasAccepted
<1>1. IInv => MarkedWasAccepted
  BY DEF IInv, Answered, MarkedWasAccepted
<1> QED
  BY <1>1, Inductive, PTL

(* Every row is judged, awaits its judgement by the check that made it, or  *)
(* was left by a check that was cut short.                                  *)
THEOREM NothingIsOverlooked == Spec => []NothingOverlooked
<1>1. IInv => NothingOverlooked
  BY SeenIsNothingOverlooked DEF IInv
<1> QED
  BY <1>1, Inductive, PTL
=============================================================================
