---------------------------- MODULE LibraryFiles ----------------------------
(***************************************************************************)
(* The files of the library and the rows that follow them: the import      *)
(* pipeline (run by the importer task and by manual imports), the disk     *)
(* scan, and the recycle bin with its cleaner.  A file is named by the     *)
(* download it came with; it moves from the download folder into the       *)
(* library, perhaps into the bin, and out of existence.  Movies and        *)
(* episodes are both "items"; an episode file may cover more episodes.     *)
(***************************************************************************)
EXTENDS Naturals, FiniteSets

CONSTANTS
    Downloads,      \* files, one for each download
    Found,          \* those that were in the library folder before the program
    Items,          \* movies and episodes
    ItemOf,         \* [Downloads -> Items]: the item an import is for
    Extras,         \* [Downloads -> SUBSET Items]: further episodes in the file
    NameOf,         \* [Downloads -> name]: the file name the import builds
    QualityOf,      \* [Downloads -> Nat]: the rank parsed from the release name
    UpgradeAllowed, Cutoff, Allowed,  \* the quality profile
    BinSettings,    \* what recycle_bin_path may be while the program runs: set, or not
    Workers,        \* imports that may run at once
    Scanners,       \* the disk scans of the run, each made once, perhaps at once
    Cleaners,       \* requests and tasks that remove from the bin
    Faults,         \* which of "db", "fs" fail, and "crash"
    MaxFaults,      \* how often
    NoRow, NoDownload

ASSUME DownloadsAssumption ==
    /\ IsFiniteSet(Downloads) /\ Found \subseteq Downloads
    /\ ItemOf \in [Downloads -> Items]
    /\ Extras \in [Downloads -> SUBSET Items]
    /\ QualityOf \in [Downloads -> Nat]
    /\ NoDownload \notin Downloads

ASSUME ProfileAssumption ==
    /\ UpgradeAllowed \in BOOLEAN /\ BinSettings \subseteq BOOLEAN
    /\ Cutoff \in Nat /\ Allowed \subseteq Nat
    /\ MaxFaults \in Nat

(* The default formats put the quality into the file name, so that two files *)
(* of one item with one name have one quality.                               *)
ASSUME NamesAssumption ==
    \A d, e \in Downloads :
        ItemOf[d] = ItemOf[e] /\ NameOf[d] = NameOf[e] => QualityOf[d] = QualityOf[e]

(* A media_files row: who inserted it, for which file.  An import stores the *)
(* path relative to the item's folder, a scan relative to the library root.  *)
Rows == ({"import"} \cup Scanners) \X Downloads

ASSUME RowsAssumption == NoRow \notin Rows /\ "import" \notin Scanners

Names == {NameOf[d] : d \in Downloads}

(* Paths in the bin: the name itself, then with _2, _3, ... appended. *)
Slots == Names \X (1..Cardinality(Downloads))

(* The other places of a file; no slot has the number 0. *)
Source  == <<"source", 0>>
Library == <<"library", 0>>
Gone    == <<"gone", 0>>

VARIABLES
    place,    \* where each file is: Source, Library, a slot of the bin, or Gone
    media,    \* the media_files rows
    links,    \* movie_file_id, episode_file_id of each item
    entries,  \* the recycle_bin rows: the file and its recycle_path
    pc, job, old, slot,     \* each import: its step, file, replaced row, bin entry
    spc, sjob, seen,        \* each scan: its step, file, paths to pass over
    cpc, listing, taken,    \* each cleaner: its step, the entries it selected, the one it is at
    faulted,  \* the faults so far
    marred    \* history variable: items and files that an error left half-way, items
              \* whose file another import overwrote, another episode's upgrade took, or
              \* an upgrade found at the path of the one it replaces

importVars == <<pc, job, old, slot>>
scanVars == <<spc, sjob, seen>>
cleanVars == <<cpc, listing, taken>>
history == <<faulted, marred>>
vars == <<place, media, links, entries, importVars, scanVars, cleanVars, history>>

Path(d) == <<ItemOf[d], NameOf[d]>>
InBin(d) == place[d] \in Slots
OnDisk(p) == {d \in Downloads : place[d] = Library /\ Path(d) = p}
AtSlot(s) == {d \in Downloads : place[d] = s}

(* The row's path, joined to the folder of the item, names a file. *)
Resolves(r) == r[1] = "import" /\ OnDisk(Path(r[2])) # {}

(* A move onto a path replaces the file that is there. *)
Moved(d, to, over) ==
    [e \in Downloads |-> IF e = d THEN to ELSE IF e \in over THEN Gone ELSE place[e]]

-----------------------------------------------------------------------------
Init ==
    /\ place = [d \in Downloads |-> IF d \in Found THEN Library ELSE Source]
    /\ media = {}
    /\ links = [i \in Items |-> NoRow]
    /\ entries = {}
    /\ pc = [w \in Workers |-> "idle"]
    /\ job = [w \in Workers |-> NoDownload]
    /\ old = [w \in Workers |-> NoRow]
    /\ slot = [w \in Workers |-> NoRow]
    /\ spc = [s \in Scanners |-> "idle"]
    /\ sjob = [s \in Scanners |-> NoDownload]
    /\ seen = [s \in Scanners |-> {}]
    /\ cpc = [c \in Cleaners |-> "idle"]
    /\ listing = [c \in Cleaners |-> {}]
    /\ taken = [c \in Cleaners |-> {}]
    /\ faulted = 0 /\ marred = {}

-----------------------------------------------------------------------------
(* The import of one file.                                                  *)
Fault(kind) == kind \in Faults /\ faulted < MaxFaults /\ faulted' = faulted + 1

Go(w, to) == pc' = [pc EXCEPT ![w] = to]

(* The import returns, with or without an error. *)
Leave(w) ==
    /\ Go(w, "idle")
    /\ job' = [job EXCEPT ![w] = NoDownload]
    /\ old' = [old EXCEPT ![w] = NoRow]
    /\ slot' = [slot EXCEPT ![w] = NoRow]

Item(w) == ItemOf[job[w]]

(* A statement or file operation fails: everything done so far stays.        *)
Fails(w, fault) ==
    /\ Fault(fault)
    /\ Leave(w)
    /\ marred' = marred \cup {Item(w)}

(* Mutant: the two qualities are not compared. *)
IsUpgradeBack(new, cur) ==
    UpgradeAllowed /\ ~(Cutoff > 0 /\ cur >= Cutoff) /\ new \in Allowed

IsUpgrade(new, cur) ==
    /\ UpgradeAllowed
    /\ ~(Cutoff > 0 /\ cur >= Cutoff)
    /\ new > cur
    /\ new \in Allowed

(* The items that get their files only from imports of their own.            *)
Followed == {i \in Items : \A d \in Downloads : i \notin Extras[d] /\ (d \in Found => ItemOf[d] # i)}

(* The folder is scanned, the item and its current file are looked up, and    *)
(* the file is skipped, moved in as a first file, or as an upgrade.           *)
ImportStart(w, d) ==
    /\ pc[w] = "idle" /\ place[d] = Source
    /\ LET row == links[ItemOf[d]] IN
       \/ /\ row = NoRow
          /\ Go(w, "move")
          /\ UNCHANGED <<old, marred>>
       \/ /\ row # NoRow /\ IsUpgrade(QualityOf[d], QualityOf[row[2]])
          /\ Go(w, "recycle")
          /\ old' = [old EXCEPT ![w] = row]
          /\ marred' = marred \cup {i \in Followed \ {ItemOf[d]} : links[i] = row}
    /\ job' = [job EXCEPT ![w] = d]
    /\ UNCHANGED <<place, media, links, entries, slot, scanVars, cleanVars, faulted>>

(* What is at the path of the row to be replaced: its file, or one that came  *)
(* there after the row was read.                                             *)
OldFiles(w) == IF old[w][1] = "import" THEN OnDisk(Path(old[w][2])) ELSE {}
Mistaken(w) == {ItemOf[e] : e \in OldFiles(w) \ {old[w][2]}}

(* recycle_file, without a bin: the old file, if it is there, is removed.     *)
RemoveOld(w) ==
    /\ pc[w] = "recycle" /\ FALSE \in BinSettings
    /\ \/ /\ place' = [e \in Downloads |-> IF e \in OldFiles(w) THEN Gone ELSE place[e]]
          /\ marred' = marred \cup Mistaken(w)
          /\ Go(w, "unlink")
          /\ UNCHANGED <<job, old, slot, faulted>>
       \/ /\ Fails(w, "fs") /\ UNCHANGED place
    /\ UNCHANGED <<media, links, entries, scanVars, cleanVars>>

(* unique_recycle_path: the first path of the bin at which there is no file.  *)
FreeSlot(name) ==
    CHOOSE s \in Slots :
        /\ s[1] = name /\ AtSlot(s) = {}
        /\ \A t \in Slots : t[1] = name /\ AtSlot(t) = {} => s[2] <= t[2]

RecycleProbe(w) ==
    /\ pc[w] = "recycle" /\ TRUE \in BinSettings
    /\ Go(w, "binmove")
    /\ slot' = [slot EXCEPT ![w] = <<NoDownload, FreeSlot(NameOf[old[w][2]])>>]
    /\ UNCHANGED <<place, media, links, entries, job, old, scanVars, cleanVars, history>>

RecycleMove(w) ==
    /\ pc[w] = "binmove"
    /\ LET to == slot[w][2] IN
       \/ /\ \E d \in OldFiles(w) :
                /\ place' = Moved(d, to, AtSlot(to))
                /\ slot' = [slot EXCEPT ![w] = <<d, to>>]
          /\ marred' = marred \cup Mistaken(w)
          /\ Go(w, "binrow")
          /\ UNCHANGED <<job, old, faulted>>
       \/ /\ OldFiles(w) = {}    \* nothing to rename: the import ends with an error
          /\ Leave(w)
          /\ UNCHANGED <<place, history>>
       \/ /\ Fails(w, "fs") /\ UNCHANGED place
    /\ UNCHANGED <<media, links, entries, scanVars, cleanVars>>

RecycleRow(w) ==
    /\ pc[w] = "binrow"
    /\ \/ /\ entries' = entries \cup {slot[w]}
          /\ Go(w, "unlink")
          /\ slot' = [slot EXCEPT ![w] = NoRow]
          /\ UNCHANGED <<job, old, history>>
       \/ /\ Fault("db")
          /\ Leave(w)
          /\ marred' = marred \cup {Item(w), slot[w][1]}
          /\ UNCHANGED entries
    /\ UNCHANGED <<place, media, links, scanVars, cleanVars>>

(* Mutant: the links are left to the deletion of the row. *)
UnlinkedNone(r) == links

(* Mutant: the item's link is cleared, whichever row it is to. *)
UnlinkedItem(r) == [links EXCEPT ![ItemOf[r[2]]] = NoRow]

(* Every item linked to the replaced row loses its link, also an episode that *)
(* the new file does not cover.                                              *)
Unlinked(r) == [i \in Items |-> IF links[i] = r THEN NoRow ELSE links[i]]

Unlink(w) ==
    /\ pc[w] = "unlink"
    /\ \/ /\ links' = Unlinked(old[w])
          /\ Go(w, "delrow")
          /\ UNCHANGED <<job, old, slot, history>>
       \/ /\ Fails(w, "db") /\ UNCHANGED links
    /\ UNCHANGED <<place, media, entries, scanVars, cleanVars>>

(* ON DELETE SET NULL unlinks what was linked in between. *)
DeleteRow(w) ==
    /\ pc[w] = "delrow"
    /\ \/ /\ media' = media \ {old[w]}
          /\ links' = Unlinked(old[w])
          /\ Go(w, "move")
          /\ old' = [old EXCEPT ![w] = NoRow]
          /\ UNCHANGED <<job, slot, history>>
       \/ /\ Fails(w, "db") /\ UNCHANGED <<media, links>>
    /\ UNCHANGED <<place, entries, scanVars, cleanVars>>

(* Probe, naming, create_dir_all and move_file. *)
MoveIn(w) ==
    /\ pc[w] = "move"
    /\ \/ /\ place[job[w]] = Source
          /\ place' = Moved(job[w], Library, OnDisk(Path(job[w])))
          /\ marred' = IF OnDisk(Path(job[w])) = {} THEN marred ELSE marred \cup {Item(w)}
          /\ UNCHANGED faulted
          /\ Go(w, "insert")
          /\ UNCHANGED <<job, old, slot>>
       \/ /\ place[job[w]] # Source   \* another import has taken the file
          /\ Leave(w)
          /\ UNCHANGED <<place, history>>
       \/ /\ Fails(w, "fs") /\ UNCHANGED place
    /\ UNCHANGED <<media, links, entries, scanVars, cleanVars>>

InsertRow(w) ==
    /\ pc[w] = "insert"
    /\ \/ /\ media' = media \cup {<<"import", job[w]>>}
          /\ Go(w, "link")
          /\ UNCHANGED <<job, old, slot, history>>
       \/ /\ Fails(w, "db") /\ UNCHANGED media
    /\ UNCHANGED <<place, links, entries, scanVars, cleanVars>>

(* The item's own link is written whatever it was. *)
Link(w) ==
    /\ pc[w] = "link"
    /\ \/ /\ links' = [links EXCEPT ![Item(w)] = <<"import", job[w]>>]
          /\ IF Extras[job[w]] = {} THEN Leave(w)
                                    ELSE Go(w, "extras") /\ UNCHANGED <<job, old, slot>>
          /\ UNCHANGED history
       \/ /\ Fails(w, "db") /\ UNCHANGED links
    /\ UNCHANGED <<place, media, entries, scanVars, cleanVars>>

Filled(S, r) == [i \in Items |-> IF i \in S /\ links[i] = NoRow THEN r ELSE links[i]]

(* Further episodes of the file are linked where they have no file; the      *)
(* foreign key refuses a row that an upgrade has deleted meanwhile.          *)
LinkExtras(w) ==
    /\ pc[w] = "extras"
    /\ \/ /\ links' = IF <<"import", job[w]>> \in media
                       THEN Filled(Extras[job[w]], <<"import", job[w]>>) ELSE links
          /\ Leave(w)
          /\ UNCHANGED history
       \/ /\ Fails(w, "db") /\ UNCHANGED links
    /\ UNCHANGED <<place, media, entries, scanVars, cleanVars>>

ImportStep(w) ==
    \/ RemoveOld(w) \/ RecycleProbe(w) \/ RecycleMove(w) \/ RecycleRow(w)
    \/ Unlink(w) \/ DeleteRow(w) \/ MoveIn(w) \/ InsertRow(w) \/ Link(w) \/ LinkExtras(w)

-----------------------------------------------------------------------------
(* disk_scan: the tracked paths are read once, then each file of the walk is  *)
(* passed over, or inserted and linked.  Paths of imports are relative to     *)
(* another folder, so that they are never among the tracked ones.            *)
Tracked == {Path(r[2]) : r \in {q \in media : q[1] # "import"}}

ScanStart(s) ==
    /\ spc[s] = "idle"
    /\ spc' = [spc EXCEPT ![s] = "walk"]
    /\ seen' = [seen EXCEPT ![s] = Tracked]
    /\ UNCHANGED <<place, media, links, entries, importVars, sjob, cleanVars, history>>

ScanFile(s, d) ==
    /\ spc[s] = "walk"
    /\ place[d] = Library /\ Path(d) \notin seen[s]
    /\ spc' = [spc EXCEPT ![s] = "insert"]
    /\ sjob' = [sjob EXCEPT ![s] = d]
    /\ seen' = [seen EXCEPT ![s] = @ \cup {Path(d)}]
    /\ UNCHANGED <<place, media, links, entries, importVars, cleanVars, history>>

ScanInsert(s) ==
    /\ spc[s] = "insert"
    /\ spc' = [spc EXCEPT ![s] = "link"]
    /\ media' = media \cup {<<s, sjob[s]>>}
    /\ UNCHANGED <<place, links, entries, importVars, sjob, seen, cleanVars, history>>

ScanLink(s) ==
    /\ spc[s] = "link"
    /\ links' = Filled({ItemOf[sjob[s]]} \cup Extras[sjob[s]], <<s, sjob[s]>>)
    /\ spc' = [spc EXCEPT ![s] = "walk"]
    /\ sjob' = [sjob EXCEPT ![s] = NoDownload]
    /\ UNCHANGED <<place, media, entries, importVars, seen, cleanVars, history>>

(* The walk is over, or a statement failed: files not visited are left out.   *)
ScanEnd(s) ==
    /\ \/ spc[s] = "walk" /\ UNCHANGED faulted
       \/ spc[s] \in {"insert", "link"} /\ Fault("db")
    /\ spc' = [spc EXCEPT ![s] = "over"]
    /\ sjob' = [sjob EXCEPT ![s] = NoDownload]
    /\ seen' = [seen EXCEPT ![s] = {}]
    /\ UNCHANGED <<place, media, links, entries, importVars, cleanVars, marred>>

Scan(s) ==
    \/ ScanStart(s) \/ (\E d \in Downloads : ScanFile(s, d))
    \/ ScanInsert(s) \/ ScanLink(s) \/ ScanEnd(s)

-----------------------------------------------------------------------------
(* cleanup_expired and delete_entry: which rows are old enough, or which one  *)
(* the user picked, is left open.                                            *)
CleanSelect(c, S) ==
    /\ cpc[c] = "idle" /\ S # {} /\ S \subseteq entries
    /\ cpc' = [cpc EXCEPT ![c] = "file"]
    /\ listing' = [listing EXCEPT ![c] = S]
    /\ UNCHANGED <<place, media, links, entries, importVars, scanVars, taken, history>>

Removed(s) == [d \in Downloads |-> IF place[d] = s THEN Gone ELSE place[d]]

(* Mutant: the row goes even if the file could not be removed. *)
CleanFileAnyway(c, e) ==
    /\ cpc[c] = "file" /\ e \in listing[c]
    /\ listing' = [listing EXCEPT ![c] = @ \ {e}]
    /\ \/ place' = Removed(e[2]) /\ UNCHANGED faulted
       \/ Fault("fs") /\ UNCHANGED place
    /\ cpc' = [cpc EXCEPT ![c] = "row"]
    /\ taken' = [taken EXCEPT ![c] = {e}]
    /\ UNCHANGED <<media, links, entries, importVars, scanVars, marred>>

(* A file that cannot be removed keeps its row. *)
CleanFile(c, e) ==
    /\ cpc[c] = "file" /\ e \in listing[c]
    /\ listing' = [listing EXCEPT ![c] = @ \ {e}]
    /\ \/ /\ place' = Removed(e[2])
          /\ cpc' = [cpc EXCEPT ![c] = "row"]
          /\ taken' = [taken EXCEPT ![c] = {e}]
          /\ UNCHANGED faulted
       \/ Fault("fs") /\ UNCHANGED <<place, cpc, taken>>
    /\ UNCHANGED <<media, links, entries, importVars, scanVars, marred>>

CleanRow(c) ==
    /\ cpc[c] = "row"
    /\ cpc' = [cpc EXCEPT ![c] = "file"]
    /\ taken' = [taken EXCEPT ![c] = {}]
    /\ entries' = entries \ taken[c]
    /\ UNCHANGED <<place, media, links, importVars, scanVars, listing, history>>

CleanEnd(c) ==
    /\ \/ cpc[c] = "file" /\ listing[c] = {} /\ UNCHANGED faulted
       \/ cpc[c] = "row" /\ Fault("db")
    /\ cpc' = [cpc EXCEPT ![c] = "idle"]
    /\ listing' = [listing EXCEPT ![c] = {}]
    /\ taken' = [taken EXCEPT ![c] = {}]
    /\ UNCHANGED <<place, media, links, entries, importVars, scanVars, marred>>

(* empty_bin: the files of the rows it selected, then every row there is.     *)
EmptySelect(c) ==
    /\ cpc[c] = "idle"
    /\ cpc' = [cpc EXCEPT ![c] = "empty"]
    /\ listing' = [listing EXCEPT ![c] = entries]
    /\ UNCHANGED <<place, media, links, entries, importVars, scanVars, taken, history>>

EmptyFile(c, e) ==
    /\ cpc[c] = "empty" /\ e \in listing[c]
    /\ \/ place' = Removed(e[2]) /\ UNCHANGED faulted
       \/ Fault("fs") /\ UNCHANGED place
    /\ listing' = [listing EXCEPT ![c] = @ \ {e}]
    /\ UNCHANGED <<media, links, entries, importVars, scanVars, cpc, taken, marred>>

(* Files recycled since the SELECT, and files that were not removed, lose     *)
(* their rows.                                                               *)
EmptyRows(c) ==
    /\ cpc[c] = "empty" /\ listing[c] = {}
    /\ entries' = {}
    /\ marred' = marred \cup {d \in Downloads : <<d, place[d]>> \in entries}
    /\ cpc' = [cpc EXCEPT ![c] = "idle"]
    /\ UNCHANGED <<place, media, links, importVars, scanVars, listing, taken, faulted>>

Clean(c) ==
    \/ \E S \in SUBSET entries : CleanSelect(c, S)
    \/ \E e \in listing[c] : CleanFile(c, e) \/ EmptyFile(c, e)
    \/ CleanRow(c) \/ CleanEnd(c) \/ EmptySelect(c) \/ EmptyRows(c)

-----------------------------------------------------------------------------
(* The process dies: nothing resumes an import, a scan or a cleanup.         *)
Busy == {w \in Workers : pc[w] # "idle"}

Crash ==
    /\ Fault("crash")
    /\ marred' = marred \cup {Item(w) : w \in Busy}
                        \cup {slot[w][1] : w \in {v \in Busy : pc[v] = "binrow"}}
    /\ pc' = [w \in Workers |-> "idle"]
    /\ job' = [w \in Workers |-> NoDownload]
    /\ old' = [w \in Workers |-> NoRow] /\ slot' = [w \in Workers |-> NoRow]
    /\ spc' = [s \in Scanners |-> IF spc[s] = "idle" THEN "idle" ELSE "over"]
    /\ sjob' = [s \in Scanners |-> NoDownload] /\ seen' = [s \in Scanners |-> {}]
    /\ cpc' = [c \in Cleaners |-> "idle"]
    /\ listing' = [c \in Cleaners |-> {}] /\ taken' = [c \in Cleaners |-> {}]
    /\ UNCHANGED <<place, media, links, entries>>

Next ==
    \/ \E w \in Workers : ImportStep(w) \/ \E d \in Downloads : ImportStart(w, d)
    \/ \E s \in Scanners : Scan(s)
    \/ \E c \in Cleaners : Clean(c)
    \/ Crash

Spec == Init /\ [][Next]_vars

-----------------------------------------------------------------------------
Steps == {"idle", "recycle", "binmove", "binrow", "unlink", "delrow", "move", "insert",
          "link", "extras"}

TypeOK ==
    /\ place \in [Downloads -> {Source, Library, Gone} \cup Slots]
    /\ media \subseteq Rows
    /\ links \in [Items -> media \cup {NoRow}]
    /\ entries \subseteq Downloads \X Slots
    /\ pc \in [Workers -> Steps]
    /\ job \in [Workers -> Downloads \cup {NoDownload}]
    /\ old \in [Workers -> Rows \cup {NoRow}]
    /\ slot \in [Workers -> ((Downloads \cup {NoDownload}) \X Slots) \cup {NoRow}]
    /\ spc \in [Scanners -> {"idle", "walk", "insert", "link", "over"}]
    /\ sjob \in [Scanners -> Downloads \cup {NoDownload}]
    /\ seen \in [Scanners -> SUBSET (Items \X Names)]
    /\ cpc \in [Cleaners -> {"idle", "file", "row", "empty"}]
    /\ listing \in [Cleaners -> SUBSET (Downloads \X Slots)]
    /\ taken \in [Cleaners -> SUBSET (Downloads \X Slots)]
    /\ faulted \in 0..MaxFaults
    /\ marred \subseteq Items \cup Downloads

(* A file leaves the library only for a release that is at least as good, of *)
(* an item that a file of its path holds, whatever fails and however imports *)
(* and scans overlap.                                                        *)
Covers(d) == {ItemOf[d]} \cup Extras[d]

NeverDowngraded ==
    [][\A d \in Downloads : place[d] = Library /\ place'[d] # Library =>
         \E w \in Busy, e \in Downloads :
            /\ Path(e) = Path(d) /\ Item(w) \in Covers(e)
            /\ QualityOf[job[w]] >= QualityOf[d]]_vars

(* An item whose import moved a file in has a link to a file that is there,   *)
(* whenever no import of it is under way: two imports of one item, of one     *)
(* download even, and scans in between, do not leave it without.             *)
ItemKeepsFile ==
    \A i \in Followed \ marred :
        (/\ \A w \in Busy : Item(w) # i
         /\ \E d \in Downloads : ItemOf[d] = i /\ place[d] # Source)
        => links[i] # NoRow /\ Resolves(links[i])

(* A file in the bin can be found there: it has its entry, unless an error or *)
(* an emptying of the bin crossed it.                                        *)
BinIsListed ==
    \A d \in Downloads \ marred :
        InBin(d) => \/ <<d, place[d]>> \in entries
                    \/ \E w \in Workers : slot[w] = <<d, place[d]>>

-----------------------------------------------------------------------------
(* resolve_media_path: "Resolve the full filesystem path for a media file by  *)
(* joining the parent entity's directory path with the file's relative path". *)
LinkedResolves ==
    \A i \in Items : (links[i] # NoRow /\ Busy = {}) => Resolves(links[i])
=============================================================================
