------------------------------ MODULE RssFeeds ------------------------------
(***************************************************************************)
(* RSS feeds: the scheduler's sync over all enabled feeds, the check of one *)
(* feed a user asks for, the download of one item, and the edits of feeds  *)
(* and rules beside them.  An item is downloaded by the check whose INSERT  *)
(* made its row in rss_items, and by no other.                             *)
(*                                                                         *)
(* A row is known in the histories by its item and its number: the n-th    *)
(* row that was made for the item.                                         *)
(***************************************************************************)
EXTENDS Integers, Sequences, FiniteSets

CONSTANTS
    Feeds,     \* ids of rss_feeds
    Items,     \* entry ids, the key of rss_items
    Rules,     \* rss_rules
    Sync,      \* the scheduler's task
    Checks,    \* checks of one feed that users ask for
    None,      \* no feed
    Listings,  \* [Feeds -> set of sequences of items]: what a feed may list
    NoUrl,     \* the items without a download URL
    Settings,  \* [Feeds -> values of [enabled, auto, filter] a user gives it]
    Asked,     \* the items a user downloads himself
    NoFilter,
    BadFilter, \* a filter that is no regular expression: nobody looks at it before
    Passes,    \* the items each other filter matches
    RuleFeeds, \* the feeds a rule is for
    Hits,      \* the items a rule matches
    Kept,      \* items kept for each feed: 5000
    MaxRemoved, \* bound on the rows that are removed
    Faults     \* subset of {"fetch", "db", "grab", "cut", "crash"}

Checkers == Checks \cup {Sync}
AnySetting == [enabled : BOOLEAN, auto : BOOLEAN,
               filter : DOMAIN Passes \cup {NoFilter, BadFilter}]
NoFeed   == [enabled |-> FALSE, auto |-> FALSE, filter |-> NoFilter]

Unread == [f \in Feeds |-> NoFeed]

ASSUME FeedAssumption ==
    /\ Sync \notin Checks /\ None \notin Feeds
    /\ Listings \in [Feeds -> SUBSET Seq(Items)]
    /\ Settings \in [Feeds -> SUBSET AnySetting]
    /\ Asked \subseteq Items
    /\ RuleFeeds \in [Rules -> SUBSET Feeds] /\ Hits \in [Rules -> SUBSET Items]
    /\ Kept \in Nat /\ MaxRemoved \in Nat

VARIABLES
    live,     \* the feeds there are
    fresh,    \* the feed ids not given yet
    setting,  \* the settings of each feed
    rules,    \* the rules that are enabled
    rows,     \* rss_items: the feed of each item's row, None if it has none
    marked,   \* the rows that say 'downloaded'
    pc,       \* where each checker is
    todo,     \* the feeds it has still to check
    snap,     \* the settings it read
    cur,      \* the feed it checks
    pending,  \* pending_items
    at,       \* the position in it
    new,      \* new_ids, each with the number of its row
    applied,  \* the rules it loaded
    request,  \* where the user's download of each item is
    made,     \* history: how many rows were made for each item
    handed,   \* history: the rows whose check handed them to a client
    again,    \* history: the items a check handed over with no row of its own for it left
    settled,  \* history: the items whose row its check judged, or was cut short with
    accepted  \* history: the items a client accepted, from whomever

feedVars  == <<live, fresh, setting, rules>>
checkVars == <<pc, todo, snap, cur, pending, at, new, applied>>
history   == <<made, handed, again, settled, accepted>>
vars      == <<feedVars, rows, marked, checkVars, request, history>>

Init ==
    /\ live = {} /\ fresh = Feeds
    /\ setting = Unread
    /\ rules = {}
    /\ rows = [i \in Items |-> None] /\ marked = {}
    /\ pc = [c \in Checkers |-> "idle"]
    /\ todo = [c \in Checkers |-> {}]
    /\ snap = [c \in Checkers |-> Unread]
    /\ cur = [c \in Checkers |-> None]
    /\ pending = [c \in Checkers |-> <<>>]
    /\ at = [c \in Checkers |-> 1]
    /\ new = [c \in Checkers |-> {}]
    /\ applied = [c \in Checkers |-> {}]
    /\ request = [i \in Asked |-> "none"]
    /\ made = [i \in Items |-> 0]
    /\ handed = {} /\ again = {} /\ settled = {} /\ accepted = {}

-----------------------------------------------------------------------------
(* Feeds, rules and rows *)

(* Mutant: what was downloaded is kept when its feed goes. *)
NotMarkedOf(f) == {i \in Items : rows[i] = f} \ marked

RowsOf(f) == {i \in Items : rows[i] = f}

CreateFeed(f) ==
    /\ f \in fresh
    /\ live' = live \cup {f} /\ fresh' = fresh \ {f}
    /\ \E s \in Settings[f] : setting' = [setting EXCEPT ![f] = s]
    /\ UNCHANGED <<rules, rows, marked, checkVars, request, history>>

UpdateFeed(f) ==
    /\ f \in live
    /\ \E s \in Settings[f] : setting' = [setting EXCEPT ![f] = s]
    /\ UNCHANGED <<live, fresh, rules, rows, marked, checkVars, request, history>>

Removed == UNION {{i} \X {n \in 1..made[i] : n < made[i] \/ rows[i] = None} : i \in Items}

(* Rows that go, and what they say with them. *)
Remove(S) ==
    /\ Cardinality(Removed \cup {<<i, made[i]>> : i \in S}) <= MaxRemoved
    /\ rows' = [i \in Items |-> IF i \in S THEN None ELSE rows[i]]
    /\ marked' = marked \ S
    /\ settled' = settled \ S

(* The rows go with their feed (ON DELETE CASCADE). *)
DeleteFeed(f) ==
    /\ f \in live
    /\ live' = live \ {f}
    /\ setting' = [setting EXCEPT ![f] = NoFeed]
    /\ Remove(RowsOf(f))
    /\ UNCHANGED <<fresh, rules, checkVars, request, made, handed, again, accepted>>

(* Rules are added, disabled and deleted; an edited rule is another rule.   *)
EditRules ==
    /\ rules' \in SUBSET Rules
    /\ UNCHANGED <<live, fresh, setting, rows, marked, checkVars, request, history>>

-----------------------------------------------------------------------------
(* A check *)

(* The sync reads all enabled feeds at once and works from what it read.    *)
SyncBegin ==
    /\ pc[Sync] = "idle"
    /\ LET enabled == {f \in live : setting[f].enabled} IN
       /\ enabled # {}
       /\ todo' = [todo EXCEPT ![Sync] = enabled]
       /\ snap' = [snap EXCEPT ![Sync] =
                      [f \in Feeds |-> IF f \in enabled THEN setting[f] ELSE NoFeed]]
    /\ pc' = [pc EXCEPT ![Sync] = "next"]
    /\ UNCHANGED <<feedVars, rows, marked, cur, pending, at, new, applied, request, history>>

(* A user has any feed checked, enabled or not. *)
CheckBegin(c) ==
    /\ pc[c] = "idle"
    /\ \E f \in live :
          /\ todo' = [todo EXCEPT ![c] = {f}]
          /\ snap' = [snap EXCEPT ![c] = [Unread EXCEPT ![f] = setting[f]]]
    /\ pc' = [pc EXCEPT ![c] = "next"]
    /\ UNCHANGED <<feedVars, rows, marked, cur, pending, at, new, applied, request, history>>

(* The feed is fetched and parsed, and its filter compiled. *)
Fetch(c) ==
    /\ pc[c] = "next"
    /\ \E f \in todo[c] :
          /\ todo' = [todo EXCEPT ![c] = @ \ {f}]
          /\ \/ /\ snap[c][f].filter # BadFilter
                /\ cur' = [cur EXCEPT ![c] = f]
                /\ \E p \in Listings[f] : pending' = [pending EXCEPT ![c] = p]
                /\ pc' = [pc EXCEPT ![c] = "insert"]
             \/ /\ snap[c][f].filter = BadFilter \/ "fetch" \in Faults
                /\ UNCHANGED <<cur, pending, pc>>
    /\ UNCHANGED <<feedVars, rows, marked, snap, at, new, applied, request, history>>

(* The check of this feed is over, however it came to that. *)
Over(c) ==
    /\ pc' = [pc EXCEPT ![c] = "next"]
    /\ cur' = [cur EXCEPT ![c] = None]
    /\ pending' = [pending EXCEPT ![c] = <<>>]
    /\ at' = [at EXCEPT ![c] = 1]
    /\ new' = [new EXCEPT ![c] = {}]
    /\ applied' = [applied EXCEPT ![c] = {}]

(* The items whose rows there are still those of R. *)
Present(R) == {i \in Items : rows[i] # None /\ <<i, made[i]>> \in R}

(* A statement fails: what was inserted before stays. *)
CutShort(c) ==
    /\ Over(c)
    /\ settled' = settled \cup Present(new[c])
    /\ UNCHANGED <<todo, snap>>

Item(c)   == pending[c][at[c]]
NewIds(c) == {r[1] : r \in new[c]}
Goes(c)   == at' = [at EXCEPT ![c] = @ + 1]

(* ON CONFLICT (id) DO NOTHING: a row there is, of whatever feed, stays; a  *)
(* feed that is gone meanwhile can have none.                               *)
InsertItem(c) ==
    /\ pc[c] = "insert" /\ at[c] <= Len(pending[c])
    /\ LET i == Item(c) IN
       \/ /\ rows[i] # None
          /\ Goes(c)
          /\ UNCHANGED <<pc, cur, pending, new, applied, rows, made, settled, todo, snap>>
       \/ /\ rows[i] = None /\ cur[c] \in live
          /\ rows' = [rows EXCEPT ![i] = cur[c]]
          /\ made' = [made EXCEPT ![i] = @ + 1]
          /\ new' = [new EXCEPT ![c] = @ \cup {<<i, made[i] + 1>>}]
          /\ Goes(c)
          /\ UNCHANGED <<pc, cur, pending, applied, settled, todo, snap>>
       \/ /\ (rows[i] = None /\ cur[c] \notin live) \/ "db" \in Faults
          /\ CutShort(c)
          /\ UNCHANGED <<rows, made>>
    /\ UNCHANGED <<feedVars, marked, handed, again, accepted, request>>

(* The rules of the feed are read after the insert, and only if something   *)
(* is new.                                                                  *)
LoadRules(c) ==
    /\ pc[c] = "insert" /\ at[c] > Len(pending[c])
    /\ \/ /\ new[c] = {}
          /\ Over(c)
          /\ UNCHANGED <<settled, todo, snap>>
       \/ /\ new[c] # {}
          /\ pc' = [pc EXCEPT ![c] = "judge"]
          /\ at' = [at EXCEPT ![c] = 1]
          /\ applied' = [applied EXCEPT ![c] = {r \in rules : cur[c] \in RuleFeeds[r]}]
          /\ UNCHANGED <<cur, pending, new, settled, todo, snap>>
       \/ /\ new[c] # {} /\ "db" \in Faults
          /\ CutShort(c)
    /\ UNCHANGED <<feedVars, rows, marked, made, handed, again, accepted, request>>

(* The feed's filter excludes what it does not match; what is left is       *)
(* wanted by a rule, or by auto_download in a feed without a filter.        *)
Wanted(c, i) ==
    LET s == snap[c][cur[c]] IN
    /\ s.filter = NoFilter \/ i \in Passes[s.filter]
    /\ (\E r \in applied[c] : i \in Hits[r]) \/ (s.auto /\ s.filter = NoFilter)
    /\ i \notin NoUrl

(* Mutant: all that the feed lists is looked at, new or not. *)
IsListed(c, i) == TRUE

(* Only what this check inserted is looked at. *)
IsNew(c, i) == i \in NewIds(c)

NewRows(c, i) == {r \in new[c] : r[1] = i}

(* One item is skipped, or found worth a download. *)
Judge(c) ==
    /\ pc[c] = "judge" /\ at[c] <= Len(pending[c])
    /\ LET i == Item(c) IN
       /\ IF IsNew(c, i) /\ Wanted(c, i)
          THEN pc' = [pc EXCEPT ![c] = "grab"] /\ UNCHANGED at
          ELSE Goes(c) /\ UNCHANGED pc
       /\ settled' = settled \cup Present(NewRows(c, i))
    /\ UNCHANGED <<feedVars, rows, marked, todo, snap, cur, pending, new, applied, request,
                   made, handed, again, accepted>>

(* Mutant: a grab that fails ends the check. *)
GrabOrLeave(c) ==
    /\ pc[c] = "grab"
    /\ LET i == Item(c) IN
       \/ /\ pc' = [pc EXCEPT ![c] = "mark"]
          /\ handed' = handed \cup NewRows(c, i)
          /\ again' = again \cup {j \in {i} : NewRows(c, i) \subseteq handed}
          /\ accepted' = accepted \cup {i}
          /\ UNCHANGED <<at, cur, pending, new, applied>>
       \/ /\ "grab" \in Faults
          /\ Over(c)
          /\ UNCHANGED <<handed, again, accepted>>
    /\ UNCHANGED <<feedVars, rows, marked, todo, snap, request, made, settled>>

(* The client that takes it is asked outside every lock. A grab that fails  *)
(* is not tried again.                                                      *)
Grab(c) ==
    /\ pc[c] = "grab"
    /\ LET i == Item(c) IN
       \/ /\ pc' = [pc EXCEPT ![c] = "mark"]
          /\ handed' = handed \cup NewRows(c, i)
          /\ again' = again \cup {j \in {i} : NewRows(c, i) \subseteq handed}
          /\ accepted' = accepted \cup {i}
          /\ UNCHANGED at
       \/ /\ "grab" \in Faults
          /\ pc' = [pc EXCEPT ![c] = "judge"]
          /\ Goes(c)
          /\ UNCHANGED <<handed, again, accepted>>
    /\ UNCHANGED <<feedVars, rows, marked, todo, snap, cur, pending, new, applied, request,
                   made, settled>>

(* UPDATE by id: it finds the row there is now, or none. *)
Marks(i) == marked' = marked \cup {j \in {i} : rows[j] # None}

Mark(c) ==
    /\ pc[c] = "mark"
    /\ Marks(Item(c)) \/ ("db" \in Faults /\ UNCHANGED marked)
    /\ pc' = [pc EXCEPT ![c] = "judge"]
    /\ Goes(c)
    /\ UNCHANGED <<feedVars, rows, todo, snap, cur, pending, new, applied, request, history>>

CheckDone(c) ==
    /\ pc[c] = "judge" /\ at[c] > Len(pending[c])
    /\ Over(c)
    /\ UNCHANGED <<feedVars, rows, marked, todo, snap, request, history>>

(* The newest rows of each feed are kept.  Their time is when the feed was   *)
(* read, so which those are two overlapping checks may settle either way.   *)
Surplus == {S \in SUBSET Items :
               \A f \in Feeds : Cardinality(RowsOf(f) \ S) =
                    IF Cardinality(RowsOf(f)) > Kept THEN Kept ELSE Cardinality(RowsOf(f))}

Idle(c) ==
    /\ pc[c] = "next" /\ todo[c] = {}
    /\ pc' = [pc EXCEPT ![c] = "idle"]
    /\ snap' = [snap EXCEPT ![c] = Unread]
    /\ UNCHANGED <<feedVars, todo, cur, pending, at, new, applied, request, made, handed, again, accepted>>

SyncEnd ==
    /\ Idle(Sync)
    /\ \/ \E S \in Surplus : S \subseteq {i \in Items : rows[i] # None} /\ Remove(S)
       \/ "db" \in Faults /\ UNCHANGED <<rows, marked, settled>>

CheckEnd(c) == c \in Checks /\ Idle(c) /\ UNCHANGED <<rows, marked, settled>>

(* A user's check runs in the request handler: it ends where it stands when *)
(* the client hangs up.                                                     *)
HangUp(c) ==
    /\ "cut" \in Faults /\ pc[c] # "idle"
    /\ pc' = [pc EXCEPT ![c] = "idle"]
    /\ todo' = [todo EXCEPT ![c] = {}]
    /\ snap' = [snap EXCEPT ![c] = Unread]
    /\ cur' = [cur EXCEPT ![c] = None]
    /\ pending' = [pending EXCEPT ![c] = <<>>]
    /\ at' = [at EXCEPT ![c] = 1]
    /\ new' = [new EXCEPT ![c] = {}]
    /\ applied' = [applied EXCEPT ![c] = {}]
    /\ settled' = settled \cup Present(new[c])
    /\ UNCHANGED <<feedVars, rows, marked, request, made, handed, again, accepted>>

Crash ==
    /\ "crash" \in Faults
    /\ pc' = [c \in Checkers |-> "idle"]
    /\ todo' = [c \in Checkers |-> {}]
    /\ snap' = [c \in Checkers |-> Unread]
    /\ cur' = [c \in Checkers |-> None]
    /\ pending' = [c \in Checkers |-> <<>>]
    /\ at' = [c \in Checkers |-> 1]
    /\ new' = [c \in Checkers |-> {}]
    /\ applied' = [c \in Checkers |-> {}]
    /\ request' = [i \in Asked |-> "none"]
    /\ settled' = settled \cup Present(UNION {new[c] : c \in Checkers})
    /\ UNCHANGED <<feedVars, rows, marked, made, handed, again, accepted>>

-----------------------------------------------------------------------------
(* The user's download of one item *)

Request(i, from, to) ==
    /\ request[i] = from
    /\ request' = [request EXCEPT ![i] = to]
    /\ UNCHANGED <<feedVars, rows, checkVars, made, handed, again, settled>>

(* The item and its feed are read; one that was downloaded is not refused.  *)
DownloadItem(i) ==
    /\ rows[i] # None /\ i \notin NoUrl
    /\ Request(i, "none", "grab")
    /\ UNCHANGED <<marked, accepted>>

DownloadGrab(i) ==
    /\ \/ Request(i, "grab", "mark") /\ accepted' = accepted \cup {i}
       \/ "grab" \in Faults /\ Request(i, "grab", "none") /\ UNCHANGED accepted
    /\ UNCHANGED marked

DownloadMark(i) ==
    /\ Request(i, "mark", "none")
    /\ Marks(i) \/ ("db" \in Faults /\ UNCHANGED marked)
    /\ UNCHANGED accepted

(* The client hangs up. *)
DownloadCut(i) ==
    /\ "cut" \in Faults
    /\ Request(i, "grab", "none") \/ Request(i, "mark", "none")
    /\ UNCHANGED <<marked, accepted>>

-----------------------------------------------------------------------------
Next ==
    \/ \E f \in Feeds : CreateFeed(f) \/ UpdateFeed(f) \/ DeleteFeed(f)
    \/ EditRules \/ SyncBegin \/ SyncEnd \/ Crash
    \/ \E c \in Checks : CheckBegin(c) \/ CheckEnd(c) \/ HangUp(c)
    \/ \E c \in Checkers : \/ Fetch(c) \/ InsertItem(c) \/ LoadRules(c) \/ Judge(c)
                           \/ Grab(c) \/ Mark(c) \/ CheckDone(c)
    \/ \E i \in Asked : DownloadItem(i) \/ DownloadGrab(i) \/ DownloadMark(i)
                         \/ DownloadCut(i)

Spec == Init /\ [][Next]_vars

-----------------------------------------------------------------------------
(* Properties *)

NRows == Items \X (Nat \ {0})

(* Where a checker stands, its own variables are as they should be. *)
Stands(c) ==
    /\ pc[c] \in {"insert", "judge", "grab", "mark"} => cur[c] \in Feeds
    /\ pc[c] \in {"idle", "next"} => pending[c] = <<>> /\ new[c] = {}
    /\ at[c] \in 1..(Len(pending[c]) + 1)
    /\ pc[c] \in {"grab", "mark"} => at[c] <= Len(pending[c])

Kinds ==
    /\ live \subseteq Feeds /\ fresh \subseteq Feeds \ live
    /\ setting \in [Feeds -> AnySetting]
    /\ rules \subseteq Rules
    /\ rows \in [Items -> live \cup {None}]
    /\ marked \subseteq {i \in Items : rows[i] # None}
    /\ pc \in [Checkers -> {"idle", "next", "insert", "judge", "grab", "mark"}]
    /\ todo \in [Checkers -> SUBSET Feeds]
    /\ snap \in [Checkers -> [Feeds -> AnySetting]]
    /\ cur \in [Checkers -> Feeds \cup {None}]
    /\ pending \in [Checkers -> Seq(Items)]
    /\ at \in [Checkers -> Nat]
    /\ new \in [Checkers -> SUBSET NRows]
    /\ applied \in [Checkers -> SUBSET Rules]
    /\ request \in [Asked -> {"none", "grab", "mark"}]
    /\ made \in [Items -> Nat]
    /\ handed \subseteq NRows /\ settled \subseteq {i \in Items : rows[i] # None}
    /\ again \subseteq Items /\ accepted \subseteq Items

TypeOK == Kinds /\ \A c \in Checkers : Stands(c)

(* The items a feed may list twice in one document. *)
Repeated == {i \in Items : \E f \in Feeds : \E p \in Listings[f] :
                \E j, k \in 1..Len(p) : j # k /\ p[j] = i /\ p[k] = i}

(* "deduped by feed entry GUID": however checks of the same and of other     *)
(* feeds overlap, fail and start again, a row in rss_items has its item      *)
(* handed to a client at most once without a user's hand; unless one         *)
(* document lists the entry twice: then both entries are new.                *)
HandedOnce == again \subseteq Repeated

(* A row that says 'downloaded' is of an item a client accepted.             *)
MarkedWasAccepted == marked \subseteq accepted

(* A row is made before it is judged, and no later check looks at it: so     *)
(* the check that made it must come to it, unless it is cut short.           *)
NothingOverlooked ==
    \A i \in Items : rows[i] # None =>
        \/ i \in settled
        \/ \E c \in Checkers : \E k \in at[c]..Len(pending[c]) :
              pending[c][k] = i /\ <<i, made[i]>> \in new[c]
        \/ \E c \in Checkers : pc[c] = "insert" /\ <<i, made[i]>> \in new[c]
=============================================================================
