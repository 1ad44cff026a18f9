----------------------------- MODULE SearchGrab -----------------------------
(***************************************************************************)
(* From a wanted item to a row of the queue and back: search_and_grab asks *)
(* the indexers for an item, judges what they offer, hands the best        *)
(* release to a download client and inserts the row; the queue, here what  *)
(* QueueLifecycle promises of it, ends each download as imported or        *)
(* blocklisted; the import decides again whether the file replaces the one *)
(* there is, and takes that one away before its own is in place.  Several  *)
(* searches and a user's own grabs run at once, and each reads the tables  *)
(* at different moments.                                                   *)
(***************************************************************************)
EXTENDS ReleaseDecision

CONSTANTS
    Rows,       \* ids of downloads: a bound on the grabs
    Items,      \* the episodes and movies
    Movies,     \* those that are movies
    Listing,    \* the releases in the order the indexers list them:
                \* [title, guid, quality, fileName, fileQuality, languages,
                \*  size, protocol, seeders, age, priority, covers, lead];
                \* its file holds the items it covers and is named after the
                \* first of them, its lead
    Formats,    \* the custom formats
    ProfileOf,  \* the quality profile of each item
    Original,   \* the original language of each item, or NoQuality
    Strategy,   \* app_config.grab_strategy
    Searchers,  \* the tasks that search: the scheduler's and the commands'
    Faults,     \* "db": a statement fails
    Nothing     \* no release, no row, no file

ASSUME NamesAssumption ==
    /\ Rows \subseteq Nat /\ Movies \subseteq Items
    /\ Nothing \notin Items \cup Rows
    /\ \A i \in Items, n \in DOMAIN Listing, o \in Rows \cup {Nothing}, b \in BOOLEAN :
          Nothing # [item |-> i, rel |-> Listing[n], over |-> o, noted |-> b]

(* The quality of a release is parsed from its title.                       *)
ASSUME ListingAssumption ==
    /\ Listing \in Seq([title : STRING, guid : Nat, quality : Nat, fileName : STRING,
                        fileQuality : Nat, languages : SUBSET Int, size : Int,
                        protocol : STRING, seeders : Nat, age : Nat, priority : Int,
                        covers : SUBSET Items, lead : Items])
    /\ \A n \in DOMAIN Listing : Listing[n] # Nothing
    /\ \A m, n \in DOMAIN Listing :
          Listing[m].title = Listing[n].title => Listing[m].quality = Listing[n].quality

(* The items of a profile are a list, in the order the user gave them.      *)
ASSUME ProfilesAssumption ==
    \A i \in Items :
        ProfileOf[i].items \in Seq([of : SUBSET Nat, group : Int, allowed : BOOLEAN])

ASSUME ScoreAssumption == MaxScore \in Nat

(* A profile counts whole numbers for the formats it names. *)
ASSUME FormatsAssumption ==
    /\ Len(Formats) \in Nat
    /\ \A i \in Items : LET scores == ProfileOf[i].scores
                       IN  \A f \in DOMAIN scores : scores[f] \in Int

VARIABLES
    life, verdict,  \* the queue, as QueueLifecycle keeps it
    of,      \* what each download is: [item, rel, over, noted]
    file,    \* the download each item's file came from, or Nothing
    transfer,   \* the file of a download: "whole" in its folder, "replacing" when the
             \* one it is to replace is gone, "moved" into the library
    bared,   \* history: the items an import left without the file they had
    pc,      \* where each search is
    item,    \* the item it is searching
    offers,  \* places in the listing of what the indexers answered
    read,    \* the titles it found queued, grabbed or blocklisted
    pick,    \* the release it chose
    row,     \* the download its client accepted
    known    \* history: the titles that had ended when it passed the guard, and
             \* the file it has judged its choice against

fileVars   == <<file, transfer, bared>>
queueVars  == <<life, verdict, of, fileVars>>
searchVars == <<pc, item, offers, read, pick, row, known>>
vars == <<queueVars, searchVars>>

Queue == INSTANCE QueueLifecycle

Offered == {Listing[n] : n \in DOMAIN Listing}
Titles  == {rel.title : rel \in Offered}

(* What media_files tells of a file. *)
QualityOf(f) == IF f = Nothing THEN NoQuality ELSE of[f].rel.fileQuality

Quality(i) == QualityOf(file[i])

Grabs(i)        == {r \in Rows : of[r] # Nothing /\ of[r].item = i}
InQueue(r)      == life[r] \notin {"unborn", "gone"}
Ended(i, v)     == {of[r].rel.title : r \in {x \in Grabs(i) : verdict[x] = v}}
Blocklisted     == UNION {Ended(i, "blocklisted") : i \in Items}

Unread    == [queued |-> {}, grabbed |-> {}, blocked |-> {}]
Unknowing == [imported |-> {}, failed |-> {}, over |-> Nothing]

Init ==
    /\ Queue!Init
    /\ of = [r \in Rows |-> Nothing]
    /\ file = [i \in Items |-> Nothing]
    /\ transfer = [r \in Rows |-> "whole"]
    /\ bared = {}
    /\ pc = [w \in Searchers |-> "idle"]
    /\ item = [w \in Searchers |-> Nothing]
    /\ offers = [w \in Searchers |-> {}]
    /\ read = [w \in Searchers |-> Unread]
    /\ pick = [w \in Searchers |-> Nothing]
    /\ row = [w \in Searchers |-> Nothing]
    /\ known = [w \in Searchers |-> Unknowing]

-----------------------------------------------------------------------------
(* The searches *)

(* Mutant: the item is tried once more, its name already forgotten. *)
ItemAgain(w) ==
    /\ pc' = [pc EXCEPT ![w] = "search"]
    /\ item' = [item EXCEPT ![w] = Nothing]
    /\ UNCHANGED <<offers, read, known>>

(* The search of an item is over, with or without a grab.                   *)
ItemDone(w) ==
    /\ pc' = [pc EXCEPT ![w] = "idle"]
    /\ item' = [item EXCEPT ![w] = Nothing]
    /\ offers' = [offers EXCEPT ![w] = {}]
    /\ read' = [read EXCEPT ![w] = Unread]
    /\ known' = [known EXCEPT ![w] = Unknowing]

(* Any row that names the item, but a completed one. *)
AlreadyQueued(i) ==
    \E r \in Grabs(i) : of[r].noted /\ InQueue(r) /\ life[r] # "ready"

(* The search of an item begins.  Nothing is asked again of the list that    *)
(* named it: an item may have a file by now, or another search at work on    *)
(* it, as one that a command names may.                                      *)
Guard(w) ==
    /\ pc[w] = "idle"
    /\ \E i \in Items :
          /\ ~AlreadyQueued(i)
          /\ pc' = [pc EXCEPT ![w] = "search"]
          /\ item' = [item EXCEPT ![w] = i]
          /\ known' = [known EXCEPT ![w] =
                 [imported |-> Ended(i, "imported"), failed |-> Blocklisted,
                  over |-> Nothing]]
    /\ UNCHANGED <<queueVars, offers, read, pick, row>>

(* Mutant: the blocklist is not read. *)
NoTitles(titles) == {}

(* The titles of the blocklist among those offered. *)
BlockedAmong(titles) == titles \cap Blocklisted

(* The indexers answer with some of the releases of the item, or nothing;   *)
(* then the queue and the history are asked for their guids, and the        *)
(* blocklist for their titles.                                              *)
Search(w) ==
    /\ pc[w] = "search"
    /\ \E A \in SUBSET {n \in DOMAIN Listing : item[w] \in Listing[n].covers} :
          IF A = {}
          THEN ItemDone(w)
          ELSE LET rels == {Listing[n] : n \in A} IN
               /\ offers' = [offers EXCEPT ![w] = A]
               /\ read' = [read EXCEPT ![w] =
                     [queued  |-> {x.title : x \in {y \in rels : \E r \in Rows :
                                      InQueue(r) /\ r = y.guid}},
                      grabbed |-> {x.title : x \in {y \in rels : \E r \in Rows :
                                      of[r] # Nothing /\ r = y.guid}},
                      blocked |-> BlockedAmong({x.title : x \in rels})]]
               /\ pc' = [pc EXCEPT ![w] = "judge"]
               /\ UNCHANGED <<item, known>>
    /\ UNCHANGED <<queueVars, pick, row>>

(* Every insert of a row writes an empty quality. *)
QueuedQuality(i) == NoQuality

ScoreOf(i, name) == Score(Formats, ProfileOf[i].scores, name)

(* f is the file the search has read, or Nothing. *)
Context(w, rel, f) ==
    LET i == item[w] IN
    [have      |-> QualityOf(f),
     haveScore |-> IF f = Nothing THEN NoScore ELSE ScoreOf(i, of[f].rel.fileName),
     score     |-> ScoreOf(i, rel.title),
     queued    |-> QueuedQuality(i),
     original  |-> IF i \in Movies THEN Original[i] ELSE NoQuality,
     inQueue   |-> rel.title \in read[w].queued,
     grabbed   |-> rel.title \in read[w].grabbed,
     blocked   |-> rel.title \in read[w].blocked]

(* What the profile lets through of the answers, and how it is ranked.      *)
Fit(w, f) == {n \in offers[w] :
                 Approved(ProfileOf[item[w]], Listing[n], Context(w, Listing[n], f))}
Keys(w) == [n \in offers[w] |->
               SortKey(Listing[n], ScoreOf(item[w], Listing[n].title), Strategy)]

(* The file there is, is read now: a SELECT that fails reads as no file.    *)
SeenFiles(i) == {file[i]} \cup (IF "db" \in Faults THEN {Nothing} ELSE {})

(* The best of what is fit is chosen. *)
Judge(w) ==
    /\ pc[w] = "judge"
    /\ \E f \in SeenFiles(item[w]) :
          \/ Fit(w, f) = {} /\ ItemDone(w) /\ UNCHANGED pick
          \/ /\ \E n \in Best(Fit(w, f), Keys(w)) :
                    pick' = [pick EXCEPT ![w] = Listing[n]]
             /\ pc' = [pc EXCEPT ![w] = "add"]
             /\ known' = [known EXCEPT ![w].over = f]
             /\ UNCHANGED <<item, offers, read>>
    /\ UNCHANGED <<queueVars, row>>

(* A fresh id: nothing depends on which. *)
Unused == {r \in Rows : of[r] = Nothing}
NewId  == CHOOSE r \in Unused : TRUE

(* grab_with_candidates: a client accepts the release, or all refuse it.    *)
Add(w) ==
    /\ pc[w] = "add"
    /\ \/ /\ Unused # {}
          /\ LET r == NewId IN
                /\ of' = [of EXCEPT ![r] = [item |-> item[w], rel |-> pick[w],
                                            over |-> known[w].over, noted |-> TRUE]]
                /\ row' = [row EXCEPT ![w] = r]
          /\ pc' = [pc EXCEPT ![w] = "insert"]
          /\ UNCHANGED <<item, offers, read, known>>
       \/ ItemDone(w) /\ UNCHANGED <<of, row>>
    /\ pick' = [pick EXCEPT ![w] = Nothing]
    /\ UNCHANGED <<life, verdict, fileVars>>

(* The row; the error of an insert that fails is dropped.                   *)
Insert(w) ==
    /\ pc[w] = "insert"
    /\ \/ Queue!Enqueue(row[w])
       \/ "db" \in Faults /\ UNCHANGED <<life, verdict>>
    /\ row' = [row EXCEPT ![w] = Nothing]
    /\ ItemDone(w)
    /\ UNCHANGED <<of, fileVars, pick>>

SearchStep(w) == Guard(w) \/ Search(w) \/ Judge(w) \/ Add(w) \/ Insert(w)

(* grab_release: the user's choice is handed over unjudged and unguarded;   *)
(* nothing else can see the row between the client's answer and its insert. *)
(* The request may leave the episode out: then the name of the file tells   *)
(* which it is, and the guard of a search does not see the row.             *)
UserGrab(i, rel, noted) ==
    /\ Unused # {}
    /\ i \in rel.covers
    /\ noted \/ (i = rel.lead /\ i \notin Movies)
    /\ LET r == NewId IN
          /\ of' = [of EXCEPT ![r] = [item |-> i, rel |-> rel,
                                      over |-> Nothing, noted |-> noted]]
          /\ Queue!Enqueue(r)
    /\ UNCHANGED <<fileVars, searchVars>>

-----------------------------------------------------------------------------
(* The import, one download at a time.  One without an error leaves the      *)
(* queue, whether its file replaced the one there was or was skipped.  (The  *)
(* import of a row that its user removed before is left to DownloadQueue.)   *)

Upgrades(i, rel) == ImportAccepts(ProfileOf[i], rel.fileQuality, Quality(i))

Replacing(r) == transfer[r] = "replacing"

Begins(r) ==
    /\ life[r] = "importing" /\ transfer[r] = "whole"
    /\ \A x \in Rows : ~Replacing(x)

Skip(r) ==
    /\ Begins(r)
    /\ ~Upgrades(of[r].item, of[r].rel)
    /\ Queue!Accept(r)
    /\ UNCHANGED <<of, fileVars, searchVars>>

(* The old file goes, and every link to it; the other items it held lose it. *)
TakeOld(r) ==
    LET i == of[r].item IN
    /\ Begins(r) /\ verdict[r] = "open"
    /\ file[i] # Nothing /\ Upgrades(i, of[r].rel)
    /\ file' = [j \in Items |-> IF file[j] = file[i] THEN Nothing ELSE file[j]]
    /\ transfer' = [transfer EXCEPT ![r] = "replacing"]
    /\ bared' = bared \cup {j \in Items \ {i} : file[j] = file[i]}
    /\ UNCHANGED <<life, verdict, of, searchVars>>

(* The item gets the file, and the other episodes its name lists after the   *)
(* first, if they have none.                                                 *)
Linked(r) ==
    LET rel == of[r].rel IN
    [j \in Items |-> IF \/ j = of[r].item
                       \/ (j \in rel.covers \ {rel.lead} /\ file[j] = Nothing)
                    THEN r ELSE file[j]]

(* Nobody asks again whether the item has a file. *)
PlacesNew(r) ==
    \/ Replacing(r)
    \/ Begins(r) /\ verdict[r] = "open" /\ file[of[r].item] = Nothing

Place(r) ==
    /\ PlacesNew(r)
    /\ Queue!Accept(r)
    /\ file' = Linked(r)
    /\ transfer' = [transfer EXCEPT ![r] = "moved"]
    /\ UNCHANGED <<of, bared, searchVars>>

(* The file has been moved, but a statement after it fails: the import has   *)
(* failed, and finds nothing in the folder when it is tried again.           *)
Misplace(r) ==
    /\ PlacesNew(r) /\ "db" \in Faults
    /\ file' \in {file, Linked(r)}
    /\ transfer' = [transfer EXCEPT ![r] = "moved"]
    /\ bared' = bared \cup {j \in {of[r].item} : file'[j] = Nothing}
    /\ UNCHANGED <<life, verdict, of, searchVars>>

(* The old file is gone and the new one could not be moved: the destination  *)
(* cannot be made, the disk is full, or the process ends.                    *)
GiveUp(r) ==
    /\ Replacing(r)
    /\ Queue!Retry(r) \/ Queue!Fail(r) \/ (life[r] = "gone" /\ UNCHANGED <<life, verdict>>)
    /\ transfer' = [transfer EXCEPT ![r] = "whole"]
    /\ bared' = bared \cup {of[r].item}
    /\ UNCHANGED <<of, file, searchVars>>

ImportStep(r) == Skip(r) \/ TakeOld(r) \/ Place(r) \/ Misplace(r) \/ GiveUp(r)

-----------------------------------------------------------------------------
(* The queue otherwise.                                                      *)
QueueStep ==
    /\ \/ Queue!Purge
       \/ \E r \in Rows :
             /\ of[r] # Nothing
             /\ \/ Queue!Finish(r) \/ Queue!Import(r)
                \/ Queue!Lose(r) \/ Queue!Reject(r) \/ Queue!Cancel(r)
                \/ ~Replacing(r) /\ (Queue!Retry(r) \/ Queue!Fail(r) \/ Queue!Leave(r))
    /\ UNCHANGED <<of, fileVars, searchVars>>

Next ==
    \/ \E w \in Searchers : SearchStep(w)
    \/ \E i \in Items, rel \in Offered, noted \in BOOLEAN : UserGrab(i, rel, noted)
    \/ \E r \in Rows : of[r] # Nothing /\ ImportStep(r)
    \/ QueueStep

Spec == Init /\ [][Next]_vars

-----------------------------------------------------------------------------
(* Properties *)

(* Type invariant of the searches and of what they hand to the queue.       *)
TypeOK ==
    /\ Queue!TypeOK
    /\ of \in [Rows -> [item : Items, rel : Offered, over : Rows \cup {Nothing},
                        noted : BOOLEAN] \cup {Nothing}]
    /\ file \in [Items -> Rows \cup {Nothing}]
    /\ \A i \in Items : file[i] # Nothing => of[file[i]] # Nothing
    /\ transfer \in [Rows -> {"whole", "replacing", "moved"}]
    /\ \A r \in Rows : of[r] = Nothing => transfer[r] = "whole"
    /\ bared \subseteq Items
    /\ pc \in [Searchers -> {"idle", "search", "judge", "add", "insert"}]
    /\ item \in [Searchers -> Items \cup {Nothing}]
    /\ offers \in [Searchers -> SUBSET (DOMAIN Listing)]
    /\ read \in [Searchers -> [queued : SUBSET Titles, grabbed : SUBSET Titles,
                               blocked : SUBSET Titles]]
    /\ known \in [Searchers -> [imported : SUBSET Titles, failed : SUBSET Titles,
                                over : Rows \cup {Nothing}]]
    /\ pick \in [Searchers -> Offered \cup {Nothing}]
    /\ row \in [Searchers -> Rows \cup {Nothing}]
    /\ \A w \in Searchers :
          /\ pc[w] \in {"search", "judge", "add", "insert"} => item[w] # Nothing
          /\ pc[w] = "add" <=> pick[w] # Nothing
          /\ pc[w] = "insert" => row[w] # Nothing /\ of[row[w]] # Nothing

(* AlreadyImportedSpec: a release that was imported for an item is not      *)
(* grabbed for it again by a search that begins afterwards.  The guid the   *)
(* code compares never matches a download's id, so what keeps this is that  *)
(* the decision and the import agree about the file that is there.  They do *)
(* not in a profile that is not in the order of the numbers, and there must *)
(* be a file: the search has read it, and no import that failed has taken   *)
(* it away.                                                                 *)
ImportedNotGrabbedAgain ==
    \A w \in Searchers :
        /\ pc[w] = "add" /\ known[w].over # Nothing
        /\ Ordered(ProfileOf[item[w]]) /\ item[w] \notin bared
        => pick[w].title \notin known[w].imported

(* "so auto-search doesn't re-grab": a release whose failure was recorded   *)
(* before a search began is not grabbed by it, for this item or another.    *)
FailedNotGrabbedAgain ==
    \A w \in Searchers :
        pc[w] = "add" => pick[w].title \notin known[w].failed

(* A search has judged the download against this very file, and the name of *)
(* the download's file tells the quality that its title does.               *)
Vetted(r, f) ==
    /\ f # Nothing /\ of[r].over = f
    /\ of[r].rel.fileQuality = of[r].rel.quality

(* An item loses its file only to a download that is imported for it or for *)
(* another item of the same file, whoever grabbed it and in whichever order *)
(* the downloads end.  In the profile of that item the new file is at no    *)
(* lower a place, unless the profile is not in the order of the numbers and *)
(* no search has judged the two against each other.                         *)
RankNeverFalls ==
    [][\A j \in Items :
          file[j] # Nothing /\ file'[j] # file[j] =>
             \E r \in Rows :
                LET p == ProfileOf[of[r].item] IN
                /\ ~Replacing(r) /\ Replacing(r)' /\ file[of[r].item] = file[j]
                /\ Ordered(p) \/ Vetted(r, file[j]) =>
                      ~Improves(p, QualityOf(file[j]), of[r].rel.fileQuality)]_vars
=============================================================================
