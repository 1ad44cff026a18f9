------------------------- MODULE LibraryFilesProofs -------------------------
(***************************************************************************)
(* Proofs about LibraryFiles for any number of downloads, items, imports,  *)
(* scans, cleaners and faults.                                             *)
(***************************************************************************)
EXTENDS LibraryFiles, FiniteSetTheorems, FunctionTheorems, WellFoundedInduction,
        SequenceTheorems, TLAPS

Replacing == {"recycle", "binmove", "binrow", "unlink", "delrow"}
Cleared   == {"binrow", "unlink", "delrow", "move"}  \* the old file is out of the way
Landed    == {"insert", "link"}                      \* the new one is in, and not linked yet
Arrived   == Landed \cup {"extras"}

(* The types, without the foreign key of the links. *)
Typed ==
    /\ place \in [Downloads -> {Source, Library, Gone} \cup Slots]
    /\ media \subseteq Rows
    /\ links \in [Items -> Rows \cup {NoRow}]
    /\ entries \subseteq Downloads \X Slots
    /\ pc \in [Workers -> Steps]
    /\ job \in [Workers -> Downloads \cup {NoDownload}]
    /\ old \in [Workers -> Rows \cup {NoRow}]
    /\ slot \in [Workers -> ((Downloads \cup {NoDownload}) \X Slots) \cup {NoRow}]
    /\ spc \in [Scanners -> {"idle", "walk", "insert", "link", "over"}]
    /\ sjob \in [Scanners -> Downloads \cup {NoDownload}]
    /\ seen \in [Scanners -> SUBSET (Items \X Names)]
    /\ cpc \in [Cleaners -> {"idle", "file", "row", "empty"}]
    /\ listing \in [Cleaners -> SUBSET (Downloads \X Slots)]
    /\ taken \in [Cleaners -> SUBSET (Downloads \X Slots)]
    /\ faulted \in 0..MaxFaults
    /\ marred \subseteq Items \cup Downloads

(* What an import knows at each of its steps. *)
Ready(w) ==
    /\ pc[w] # "idle" => job[w] \in Downloads
    /\ pc[w] = "idle" => job[w] = NoDownload
    /\ pc[w] \in Replacing => /\ old[w] \in Rows
                              /\ Item(w) \in Covers(old[w][2])
                              /\ QualityOf[job[w]] > QualityOf[old[w][2]]
    /\ pc[w] = "binmove" => slot[w][2] \in Slots
    /\ pc[w] = "binrow" => slot[w] \in Downloads \X Slots
    /\ pc[w] \in Arrived => place[job[w]] # Source
    /\ pc[w] = "link" => <<"import", job[w]>> \in media

(* One import moves a download in. *)
OneMover ==
    \A w, v \in Workers :
        pc[w] \in Arrived /\ pc[v] \in Arrived /\ job[w] = job[v] => w = v

(* A scan remembers the paths of the rows it inserts. *)
Walking(s) ==
    /\ spc[s] \in {"idle", "over"} => seen[s] = {}
    /\ spc[s] \in Landed => sjob[s] \in Downloads /\ Path(sjob[s]) \in seen[s]
    /\ spc[s] = "link" => <<s, sjob[s]>> \in media

(* The import or the scan that inserted the row has linked its item, and so   *)
(* will not do so again.                                                     *)
Linked(r) ==
    IF r[1] = "import"
    THEN /\ place[r[2]] # Source
         /\ \A w \in Workers : job[w] = r[2] => pc[w] \notin Landed
    ELSE /\ Path(r[2]) \in seen[r[1]] \/ spc[r[1]] = "over"
         /\ sjob[r[1]] = r[2] => spc[r[1]] \notin Landed

LinkSound(i) ==
    links[i] # NoRow => /\ links[i] \in media
                        /\ i \in Covers(links[i][2])
                        /\ Linked(links[i])

OldLinked(w) == pc[w] \in Replacing => Linked(old[w])

(* A file that has been in the bin does not come back. *)
Settled(e) == place[e[1]] \in {e[2], Gone}

BinSettled ==
    /\ \A e \in entries : Settled(e)
    /\ \A w \in Workers : pc[w] = "binrow" => Settled(slot[w])
    /\ \A c \in Cleaners : \A e \in listing[c] : Settled(e)
    /\ \A c \in Cleaners : \A e \in taken[c] : place[e[1]] = Gone

(* The bin has room: the best file is not in it. *)
BinHasRoom == \A d \in Downloads : InBin(d) => \E e \in Downloads : QualityOf[e] > QualityOf[d]

BinTold ==
    \A d \in Downloads \ marred :
        InBin(d) => \/ <<d, place[d]>> \in entries
                    \/ \E w \in Workers : pc[w] = "binrow" /\ slot[w] = <<d, place[d]>>

(* Why an item has its file: it is linked, or an import is about to link it,  *)
(* or one has still to move its file in.                                     *)
HasFile(i)  == links[i] # NoRow /\ links[i][1] = "import" /\ place[links[i][2]] = Library
WillLink(i) == \E w \in Workers : pc[w] \in Landed /\ Item(w) = i
WillMove(i) == \E w \in Workers : pc[w] \in Cleared /\ Item(w) = i /\ place[job[w]] = Source

(* An import that replaces the link of i is one of i, and its file is still   *)
(* to come.                                                                  *)
Replaceable(i, w) ==
    pc[w] \in Replacing /\ old[w] = links[i] =>
        /\ Item(w) = i
        /\ \/ place[job[w]] = Source
           \/ \E v \in Workers : pc[v] \in Landed /\ job[v] = job[w]

FileStays(i, w) == pc[w] \in Landed /\ Item(w) = i => place[job[w]] = Library

Served(i) ==
    (\E d \in Downloads : ItemOf[d] = i /\ place[d] # Source) =>
        HasFile(i) \/ WillLink(i) \/ WillMove(i)

IInv ==
    /\ Typed
    /\ OneMover /\ BinSettled /\ BinHasRoom /\ BinTold
    /\ \A w \in Workers : Ready(w) /\ OldLinked(w)
    /\ \A s \in Scanners : Walking(s)
    /\ \A i \in Items : LinkSound(i)
    /\ \A i \in Followed \ marred :
          /\ Served(i)
          /\ \A w \in Workers : Replaceable(i, w) /\ FileStays(i, w)

-----------------------------------------------------------------------------
(* The places of files, and the paths of the library *)

LEMMA PlacesApart ==
    /\ Source # Library /\ Source # Gone /\ Library # Gone
    /\ Source \notin Slots /\ Library \notin Slots /\ Gone \notin Slots
BY FS_CardinalityType, DownloadsAssumption DEF Source, Library, Gone, Slots

LEMMA SamePath ==
    ASSUME NEW d \in Downloads, NEW e \in Downloads, Path(d) = Path(e)
    PROVE  ItemOf[d] = ItemOf[e] /\ QualityOf[d] = QualityOf[e]
BY NamesAssumption DEF Path

LEMMA PathType == ASSUME NEW d \in Downloads PROVE Path(d) \in Items \X Names
BY DownloadsAssumption DEF Path, Names

(* Every nonempty set of numbers has a least element. *)
LEMMA LeastNumber ==
    ASSUME NEW S, S \subseteq Nat, S # {}
    PROVE  \E n \in S : \A m \in S : n <= m
<1> DEFINE R == {p \in Nat \X Nat : p[1] < p[2]}
<1>1. \E n \in S : \A m \in S : ~(<<m, n>> \in R)
  <2>1. IsWellFoundedOn(R, Nat)
    BY NatLessThanWellFounded DEF OpToRel
  <2> HIDE DEF R
  <2> QED
    BY <2>1, WFMin
<1>2. PICK n \in S : \A m \in S : ~(<<m, n>> \in R)
  BY <1>1
<1>3. ASSUME NEW m \in S PROVE n <= m
  <2>1. m \in Nat /\ n \in Nat /\ ~(<<m, n>> \in R)
    BY <1>2
  <2> QED
    BY <2>1
<1> QED
  BY <1>3

Better(d) == {e \in Downloads : QualityOf[e] > QualityOf[d]}

(* Of finitely many files one is best: it has the fewest better ones. *)
LEMMA BestFile ==
    ASSUME Downloads # {}
    PROVE  \E d \in Downloads : Better(d) = {}
<1> DEFINE S == {Cardinality(Better(d)) : d \in Downloads}
<1>1. \A d \in Downloads : IsFiniteSet(Better(d)) /\ Cardinality(Better(d)) \in Nat
  BY FS_Subset, FS_CardinalityType, DownloadsAssumption DEF Better
<1>2. \E n \in S : \A m \in S : n <= m
  <2>1. S \subseteq Nat /\ S # {}
    BY <1>1
  <2> HIDE DEF S
  <2> QED
    BY <2>1, LeastNumber
<1>3. PICK d \in Downloads : \A e \in Downloads : Cardinality(Better(d)) <= Cardinality(Better(e))
  BY <1>2
<1>4. ASSUME NEW e \in Better(d) PROVE FALSE
  <2>1. e \in Downloads /\ Better(e) \subseteq Better(d) /\ e \notin Better(e)
    BY DownloadsAssumption DEF Better
  <2>2. Cardinality(Better(e)) < Cardinality(Better(d))
    BY <1>1, <2>1, FS_Subset, FS_CardinalityType
  <2> QED
    BY <1>1, <1>3, <2>1, <2>2
<1> QED
  BY <1>4

(* Not every path of a name in the bin is taken. *)
LEMMA RoomForOne ==
    ASSUME IInv, NEW n \in Names
    PROVE  \E s \in Slots : s[1] = n /\ AtSlot(s) = {}
<1> DEFINE N == Cardinality(Downloads)
<1>1. SUFFICES ASSUME \A s \in Slots : s[1] = n => AtSlot(s) # {}
               PROVE  FALSE
  OBVIOUS
<1>2. N \in Nat /\ Downloads # {}
  BY FS_CardinalityType, DownloadsAssumption DEF Names
<1>3. PICK b \in Downloads : Better(b) = {}
  BY <1>2, BestFile
<1>4. ~InBin(b)
  BY <1>3 DEF IInv, BinHasRoom, Better
<1> DEFINE f == [k \in 1..N |-> CHOOSE d \in Downloads : place[d] = <<n, k>>]
<1>5. ASSUME NEW k \in 1..N PROVE f[k] \in Downloads \ {b} /\ place[f[k]] = <<n, k>>
  <2>1. <<n, k>> \in Slots
    BY DEF Slots
  <2>2. \E d \in Downloads : place[d] = <<n, k>>
    BY <1>1, <2>1 DEF AtSlot
  <2>3. f[k] \in Downloads /\ place[f[k]] = <<n, k>>
    BY <2>2
  <2> QED
    BY <1>4, <2>1, <2>3 DEF InBin
<1>6. f \in [1..N -> Downloads \ {b}]
  BY <1>5
<1>7. IsFiniteSet(1..N) /\ Cardinality(1..N) = N
  BY <1>2, FS_Interval
<1>8. IsFiniteSet(Downloads \ {b}) /\ Cardinality(Downloads \ {b}) = N - 1
  BY FS_RemoveElement, DownloadsAssumption
<1>9. PICK k \in 1..N, l \in 1..N : k # l /\ f[k] = f[l]
  <2> HIDE DEF f, N
  <2> QED
    BY <1>2, <1>6, <1>7, <1>8, FS_PigeonHole
<1> QED
  BY <1>5, <1>9, SMTT(40)

LEMMA FreeSlotType ==
    ASSUME IInv, NEW n \in Names
    PROVE  FreeSlot(n) \in Slots
<1> DEFINE S == {k \in 1..Cardinality(Downloads) : AtSlot(<<n, k>>) = {}}
<1>1. \A s \in Slots : s = <<s[1], s[2]>> /\ s[2] \in 1..Cardinality(Downloads)
  BY DEF Slots
<1>2. S # {} /\ S \subseteq Nat
  BY <1>1, RoomForOne
<1>3. PICK k \in S : \A l \in S : k <= l
  <2> HIDE DEF S
  <2> QED
    BY <1>2, LeastNumber
<1>4. <<n, k>> \in Slots
  BY DEF Slots
<1>5. \A t \in Slots : t[1] = n /\ AtSlot(t) = {} => k <= t[2]
  BY <1>1, <1>3
<1> QED
  BY <1>3, <1>4, <1>5 DEF FreeSlot

-----------------------------------------------------------------------------
(* The initial state *)

LEMMA InitInv == Init => IInv
<1> SUFFICES ASSUME Init PROVE IInv
  OBVIOUS
<1>1. Typed
  BY ProfileAssumption, DownloadsAssumption DEF Init, Typed, Steps
<1>2. OneMover /\ BinSettled /\ BinHasRoom /\ BinTold
  BY PlacesApart DEF Init, OneMover, BinSettled, BinHasRoom, BinTold, Arrived, Landed, InBin
<1>3. \A w \in Workers : Ready(w) /\ OldLinked(w)
  BY DEF Init, Ready, OldLinked, Replacing, Arrived, Landed
<1>4. \A s \in Scanners : Walking(s)
  BY DEF Init, Walking, Landed
<1>5. \A i \in Items : LinkSound(i)
  BY DEF Init, LinkSound
<1>6. ASSUME NEW i \in Followed
      PROVE  Served(i) /\ \A w \in Workers : Replaceable(i, w) /\ FileStays(i, w)
  BY DEF Init, Served, Followed, Replaceable, FileStays, Replacing, Landed
<1> QED
  BY <1>1, <1>2, <1>3, <1>4, <1>5, <1>6 DEF IInv

-----------------------------------------------------------------------------
(* What steps of one kind leave as it is *)

ItemsServed ==
    \A i \in Followed \ marred :
        Served(i) /\ \A w \in Workers : Replaceable(i, w) /\ FileStays(i, w)

ImportsReady == \A w \in Workers : Ready(w) /\ OldLinked(w)

LinksSound == \A i \in Items : LinkSound(i)

ScansWalk == \A s \in Scanners : Walking(s)

(* The steps of the cleaners: files leave the bin, and nothing else moves.   *)
LEMMA CleanFrame ==
    ASSUME IInv, UNCHANGED <<media, links, importVars, scanVars>>, marred \subseteq marred',
           Typed', \A d \in Downloads : place'[d] = place[d] \/ (InBin(d) /\ place'[d] = Gone)
    PROVE  ImportsReady' /\ OneMover' /\ ScansWalk' /\ LinksSound' /\ ItemsServed' /\ BinHasRoom'
<1> USE PlacesApart
<1>1. UNCHANGED <<pc, job, old, slot, spc, sjob, seen>>
  BY DEF importVars, scanVars
<1>2. \A d \in Downloads :
         /\ place'[d] = Source <=> place[d] = Source
         /\ place'[d] = Library <=> place[d] = Library
         /\ place'[d] \in Slots => place'[d] = place[d]
  BY DEF InBin
<1>3. \A r \in Rows : Linked(r) => Linked(r)'
  BY <1>1, <1>2 DEF Linked, Rows
<1>4. ImportsReady'
  BY <1>1, <1>2, <1>3 DEF IInv, ImportsReady, Ready, OldLinked, Item, Arrived, Landed
<1>5. OneMover' /\ ScansWalk'
  BY <1>1 DEF IInv, OneMover, ScansWalk, Walking
<1>6. LinksSound'
  BY <1>1, <1>3 DEF IInv, Typed, LinksSound, LinkSound
<1>7. ItemsServed'
  <2> SUFFICES ASSUME NEW i \in Followed \ marred'
               PROVE  (Served(i) /\ \A w \in Workers : Replaceable(i, w) /\ FileStays(i, w))'
    BY DEF ItemsServed, Followed
  <2>1. i \in Items /\ Served(i) /\ \A w \in Workers : Replaceable(i, w) /\ FileStays(i, w)
    BY DEF IInv, Followed
  <2>2. \A w \in Workers : pc[w] # "idle" => job[w] \in Downloads
    BY DEF IInv, Ready
  <2>3. Served(i)'
    BY <1>1, <1>2, <2>1, <2>2 DEF IInv, Typed, Served, HasFile, WillLink, WillMove, Item, Cleared, Rows
  <2>4. \A w \in Workers : (Replaceable(i, w) /\ FileStays(i, w))'
    BY <1>1, <1>2, <2>1, <2>2 DEF Replaceable, FileStays, Item, Replacing, Landed
  <2> QED
    BY <2>3, <2>4
<1>8. BinHasRoom'
  BY <1>2 DEF IInv, BinHasRoom, InBin
<1> QED
  BY <1>4, <1>5, <1>6, <1>7, <1>8

(* The steps of the scans, but for the links they make. *)
LEMMA ScanFrame ==
    ASSUME IInv, UNCHANGED <<place, entries, importVars, cleanVars>>,
           marred' = marred, media \subseteq media', Typed',
           ScansWalk', LinksSound',
           \A w \in Workers : OldLinked(w)',
           ItemsServed'
    PROVE  IInv'
<1>1. UNCHANGED <<pc, job, old, slot, cpc, listing, taken>>
  BY DEF importVars, cleanVars
<1>2. \A w \in Workers : Ready(w)'
  BY <1>1 DEF IInv, Ready, Item
<1>3. OneMover' /\ BinSettled' /\ BinHasRoom' /\ BinTold'
  BY <1>1 DEF IInv, OneMover, BinSettled, BinHasRoom, BinTold, Settled, InBin
<1> QED
  BY <1>2, <1>3 DEF IInv, ScansWalk, LinksSound, ItemsServed

-----------------------------------------------------------------------------
(* The steps of the cleaners *)

LEMMA CleanStands ==
    ASSUME IInv, UNCHANGED <<media, links, importVars, scanVars>>, marred \subseteq marred',
           \A d \in Downloads : place'[d] = place[d] \/ (InBin(d) /\ place'[d] = Gone),
           Typed', BinSettled', BinTold'
    PROVE  IInv'
<1>1. ImportsReady' /\ OneMover' /\ ScansWalk' /\ LinksSound' /\ ItemsServed' /\ BinHasRoom'
  BY CleanFrame
<1> QED
  BY <1>1 DEF IInv, ImportsReady, ScansWalk, LinksSound, ItemsServed

(* The files of a path leave the bin with it. *)
LEMMA RemovedFacts ==
    ASSUME IInv, NEW e \in Downloads \X Slots, place' = Removed(e[2])
    PROVE  /\ place' \in [Downloads -> {Source, Library, Gone} \cup Slots]
           /\ \A d \in Downloads : place'[d] = place[d] \/ (InBin(d) /\ place'[d] = Gone)
           /\ \A b \in Downloads \X Slots : Settled(b) => Settled(b)'
           /\ \A b \in Downloads \X Slots : place[b[1]] = Gone => place'[b[1]] = Gone
           /\ Settled(e) => place'[e[1]] = Gone
BY PlacesApart DEF Removed, IInv, Typed, InBin, Settled

LEMMA SelectStep ==
    ASSUME IInv, NEW c \in Cleaners,
           (\E S \in SUBSET entries : CleanSelect(c, S)) \/ EmptySelect(c)
    PROVE  IInv'
<1>1. UNCHANGED <<place, media, links, entries, importVars, scanVars, taken, history>>
  BY DEF CleanSelect, EmptySelect
<1>2. PICK S \in SUBSET entries : listing' = [listing EXCEPT ![c] = S]
  BY DEF CleanSelect, EmptySelect
<1>3. UNCHANGED <<pc, job, old, slot, spc, sjob, seen, marred, faulted>>
  BY <1>1 DEF importVars, scanVars, history
<1>4. Typed'
  BY <1>1, <1>2, <1>3 DEF IInv, Typed, CleanSelect, EmptySelect
<1>5. BinSettled' /\ BinTold'
  BY <1>1, <1>2, <1>3 DEF IInv, Typed, BinSettled, BinTold, Settled, InBin
<1> QED
  BY <1>1, <1>3, <1>4, <1>5, CleanStands

LEMMA RemoveStep ==
    ASSUME IInv, NEW c \in Cleaners, NEW e \in listing[c], CleanFile(c, e) \/ EmptyFile(c, e)
    PROVE  IInv'
<1>1. e \in Downloads \X Slots
  BY DEF IInv, Typed
<1>2. UNCHANGED <<media, links, entries, importVars, scanVars, marred>>
  BY DEF CleanFile, EmptyFile
<1>3. UNCHANGED <<pc, job, old, slot, spc, sjob, seen>>
  BY <1>2 DEF importVars, scanVars
<1>4. listing' = [listing EXCEPT ![c] = @ \ {e}]
  BY DEF CleanFile, EmptyFile
<1>5. faulted' \in 0..MaxFaults
  BY ProfileAssumption DEF CleanFile, EmptyFile, Fault, IInv, Typed
<1>6. \/ place' = Removed(e[2]) /\ taken' \in {taken, [taken EXCEPT ![c] = {e}]}
      \/ UNCHANGED <<place, taken>>
  BY DEF CleanFile, EmptyFile
<1>7. cpc' \in [Cleaners -> {"idle", "file", "row", "empty"}]
  BY DEF CleanFile, EmptyFile, IInv, Typed
<1>8. CASE UNCHANGED <<place, taken>>
  <2>1. Typed'
    BY <1>2, <1>3, <1>4, <1>5, <1>7, <1>8 DEF IInv, Typed
  <2>2. BinSettled' /\ BinTold'
    BY <1>2, <1>3, <1>4, <1>8 DEF IInv, Typed, BinSettled, BinTold, Settled, InBin
  <2> QED
    BY <1>2, <1>8, <2>1, <2>2, CleanStands
<1>9. CASE place' = Removed(e[2]) /\ taken' \in {taken, [taken EXCEPT ![c] = {e}]}
  <2>1. Typed'
    <3>1. place' \in [Downloads -> {Source, Library, Gone} \cup Slots]
      BY <1>1, <1>9, RemovedFacts
    <3>2. listing' \in [Cleaners -> SUBSET (Downloads \X Slots)]
      BY <1>4 DEF IInv, Typed
    <3>3. taken' \in [Cleaners -> SUBSET (Downloads \X Slots)]
      BY <1>1, <1>9 DEF IInv, Typed
    <3> QED
      BY <1>2, <1>3, <1>5, <1>7, <3>1, <3>2, <3>3 DEF IInv, Typed
  <2>2. Settled(e)
    BY DEF IInv, BinSettled
  <2>3. BinSettled'
    <3>1. \A b \in entries : Settled(b)'
      BY <1>1, <1>9, RemovedFacts DEF IInv, Typed, BinSettled
    <3>2. \A w \in Workers : pc[w] = "binrow" => place'[slot[w][1]] \in {slot[w][2], Gone}
      BY <1>1, <1>9, RemovedFacts DEF IInv, Ready, BinSettled, Settled
    <3>3. \A k \in Cleaners : \A b \in listing'[k] : Settled(b)'
      BY <1>1, <1>4, <1>9, RemovedFacts DEF IInv, Typed, BinSettled
    <3>4. \A k \in Cleaners : \A b \in taken'[k] : place'[b[1]] = Gone
      BY <1>1, <1>9, <2>2, RemovedFacts, SMTT(40) DEF IInv, Typed, BinSettled
    <3> QED
      BY <1>2, <1>3, <3>1, <3>2, <3>3, <3>4 DEF BinSettled, Settled
  <2>4. BinTold'
    BY <1>1, <1>2, <1>3, <1>9, RemovedFacts, PlacesApart DEF IInv, BinTold, InBin
  <2> QED
    BY <1>1, <1>2, <1>9, <2>1, <2>3, <2>4, RemovedFacts, CleanStands
<1> QED
  BY <1>6, <1>8, <1>9

(* The row that goes is that of a file that is gone. *)
LEMMA CleanRowStep == ASSUME IInv, NEW c \in Cleaners, CleanRow(c) PROVE IInv'
<1>1. UNCHANGED <<place, media, links, importVars, scanVars, listing, history>>
  BY DEF CleanRow
<1>2. UNCHANGED <<pc, job, old, slot, spc, sjob, seen, marred, faulted>>
  BY <1>1 DEF importVars, scanVars, history
<1>3. Typed'
  BY <1>1, <1>2 DEF IInv, Typed, CleanRow
<1>4. BinSettled'
  BY <1>1, <1>2 DEF IInv, Typed, BinSettled, Settled, CleanRow
<1>5. BinTold'
  <2>1. \A d \in Downloads : InBin(d) => <<d, place[d]>> \notin taken[c]
    BY PlacesApart DEF IInv, BinSettled, InBin
  <2> QED
    BY <1>1, <1>2, <2>1 DEF IInv, BinTold, InBin, CleanRow
<1> QED
  BY <1>1, <1>2, <1>3, <1>4, <1>5, CleanStands

LEMMA CleanEndStep == ASSUME IInv, NEW c \in Cleaners, CleanEnd(c) PROVE IInv'
<1>1. UNCHANGED <<place, media, links, entries, importVars, scanVars, marred>>
  BY DEF CleanEnd
<1>2. UNCHANGED <<pc, job, old, slot, spc, sjob, seen>>
  BY <1>1 DEF importVars, scanVars
<1>3. Typed'
  BY <1>1, <1>2, ProfileAssumption DEF IInv, Typed, CleanEnd, Fault
<1>4. BinSettled' /\ BinTold'
  BY <1>1, <1>2 DEF IInv, Typed, BinSettled, BinTold, Settled, InBin, CleanEnd
<1> QED
  BY <1>1, <1>3, <1>4, CleanStands

LEMMA EmptyRowsStep == ASSUME IInv, NEW c \in Cleaners, EmptyRows(c) PROVE IInv'
<1>1. UNCHANGED <<place, media, links, importVars, scanVars, listing, taken, faulted>>
  BY DEF EmptyRows
<1>2. UNCHANGED <<pc, job, old, slot, spc, sjob, seen>>
  BY <1>1 DEF importVars, scanVars
<1>3. Typed'
  BY <1>1, <1>2 DEF IInv, Typed, EmptyRows
<1>4. BinSettled' /\ BinTold'
  BY <1>1, <1>2 DEF IInv, Typed, BinSettled, BinTold, Settled, InBin, EmptyRows
<1>5. marred \subseteq marred'
  BY DEF EmptyRows
<1> QED
  BY <1>1, <1>3, <1>4, <1>5, CleanStands

LEMMA CleanStep == ASSUME IInv, NEW c \in Cleaners, Clean(c) PROVE IInv'
BY SelectStep, RemoveStep, CleanRowStep, CleanEndStep, EmptyRowsStep DEF Clean

-----------------------------------------------------------------------------
(* The steps of the scans *)

LEMMA ScanStands ==
    ASSUME IInv, UNCHANGED <<place, entries, links, importVars, cleanVars, marred>>,
           media \subseteq media', Typed', ScansWalk',
           \A r \in Rows : Linked(r) => Linked(r)'
    PROVE  IInv'
<1>1. UNCHANGED <<pc, job, old, slot>>
  BY DEF importVars
<1>2. LinksSound'
  BY DEF IInv, Typed, LinksSound, LinkSound
<1>3. \A w \in Workers : OldLinked(w)'
  BY <1>1 DEF IInv, Ready, OldLinked
<1>4. ItemsServed'
  BY <1>1 DEF IInv, ItemsServed, Followed, Served, HasFile, WillLink, WillMove, Replaceable,
              FileStays, Item
<1> QED
  BY <1>2, <1>3, <1>4, ScanFrame

LEMMA ScanStartStep == ASSUME IInv, NEW s \in Scanners, ScanStart(s) PROVE IInv'
<1>1. UNCHANGED <<place, media, links, entries, importVars, sjob, cleanVars, history>>
  BY DEF ScanStart
<1>2. UNCHANGED <<pc, job, old, slot, cpc, listing, taken, marred, faulted>>
  BY <1>1 DEF importVars, cleanVars, history
<1>3. Tracked \in SUBSET (Items \X Names)
  BY PathType DEF Tracked, IInv, Typed, Rows
<1>4. Typed'
  BY <1>1, <1>2, <1>3 DEF ScanStart, IInv, Typed
<1>5. ScansWalk'
  BY <1>1, <1>3 DEF ScanStart, IInv, Typed, ScansWalk, Walking, Landed
<1>6. \A r \in Rows : Linked(r) => Linked(r)'
  BY <1>1, <1>2, <1>3, RowsAssumption
     DEF ScanStart, IInv, Typed, Walking, Linked, Rows, Landed
<1> QED
  BY <1>1, <1>2, <1>4, <1>5, <1>6, ScanStands

LEMMA ScanFileStep ==
    ASSUME IInv, NEW s \in Scanners, NEW d \in Downloads, ScanFile(s, d)
    PROVE  IInv'
<1>1. UNCHANGED <<place, media, links, entries, importVars, cleanVars, history>>
  BY DEF ScanFile
<1>2. UNCHANGED <<pc, job, old, slot, cpc, listing, taken, marred, faulted>>
  BY <1>1 DEF importVars, cleanVars, history
<1>3. Typed'
  BY <1>1, <1>2, PathType DEF ScanFile, IInv, Typed
<1>4. ScansWalk'
  BY <1>1 DEF ScanFile, IInv, Typed, ScansWalk, Walking, Landed
<1>5. \A r \in Rows : Linked(r) => Linked(r)'
  BY <1>1, <1>2, RowsAssumption DEF ScanFile, IInv, Typed, Linked, Rows, Landed
<1> QED
  BY <1>1, <1>2, <1>3, <1>4, <1>5, ScanStands

LEMMA ScanInsertStep == ASSUME IInv, NEW s \in Scanners, ScanInsert(s) PROVE IInv'
<1>1. UNCHANGED <<place, links, entries, importVars, sjob, seen, cleanVars, history>>
  BY DEF ScanInsert
<1>2. UNCHANGED <<pc, job, old, slot, cpc, listing, taken, marred, faulted>>
  BY <1>1 DEF importVars, cleanVars, history
<1>3. sjob[s] \in Downloads
  BY DEF ScanInsert, IInv, Walking, Landed
<1>4. Typed'
  BY <1>1, <1>2, <1>3 DEF ScanInsert, IInv, Typed, Rows
<1>5. ScansWalk'
  BY <1>1 DEF ScanInsert, IInv, Typed, ScansWalk, Walking, Landed
<1>6. \A r \in Rows : Linked(r) => Linked(r)'
  BY <1>1, <1>2 DEF ScanInsert, IInv, Typed, Linked, Rows, Landed
<1> QED
  BY <1>1, <1>2, <1>4, <1>5, <1>6, ScanStands DEF ScanInsert

(* A scan links where there is no link, with a row it has not linked before. *)
LEMMA ScanLinkStep == ASSUME IInv, NEW s \in Scanners, ScanLink(s) PROVE IInv'
<1> PICK d \in Downloads : d = sjob[s]
  BY DEF ScanLink, IInv, Walking, Landed
<1> DEFINE r == <<s, d>>
           S == Covers(d)
<1>1. UNCHANGED <<place, media, entries, importVars, seen, cleanVars, history>>
  BY DEF ScanLink
<1>2. UNCHANGED <<pc, job, old, slot, cpc, listing, taken, marred, faulted>>
  BY <1>1 DEF importVars, cleanVars, history
<1>3. /\ Path(d) \in seen[s]
      /\ r \in media /\ r \in Rows /\ r[1] = s /\ r[2] = d
  BY DEF ScanLink, IInv, Typed, Walking, Landed, Rows
<1>4. links' = [i \in Items |-> IF i \in S /\ links[i] = NoRow THEN r ELSE links[i]]
  BY DEF ScanLink, Filled, Covers
<1>5. Typed'
  BY <1>1, <1>2, <1>3, <1>4 DEF ScanLink, IInv, Typed
<1>6. ScansWalk'
  BY <1>1 DEF ScanLink, IInv, Typed, ScansWalk, Walking, Landed
<1>7. \A q \in Rows : Linked(q) => Linked(q)'
  BY <1>1, <1>2 DEF ScanLink, IInv, Typed, Linked, Rows, Landed
<1>8. Linked(r)' /\ ~Linked(r)
  BY <1>1, <1>3, RowsAssumption DEF ScanLink, IInv, Typed, Linked, Landed
<1>9. LinksSound'
  BY <1>1, <1>3, <1>4, <1>7, <1>8 DEF IInv, Typed, LinksSound, LinkSound
<1>10. \A w \in Workers : OldLinked(w)'
  BY <1>2, <1>7 DEF IInv, Ready, OldLinked
<1>11. ItemsServed'
  <2> SUFFICES ASSUME NEW i \in Followed \ marred
               PROVE  (Served(i) /\ \A w \in Workers : Replaceable(i, w) /\ FileStays(i, w))'
    BY <1>2 DEF ItemsServed, Followed
  <2>1. i \in Items /\ Served(i) /\ \A w \in Workers : Replaceable(i, w) /\ FileStays(i, w)
    BY DEF IInv, Followed
  <2>2. \A w \in Workers : pc[w] \in Replacing => old[w] # r
    BY <1>8 DEF IInv, OldLinked
  <2>3. Served(i)'
    BY <1>1, <1>2, <1>4, <2>1 DEF Served, HasFile, WillLink, WillMove, Item
  <2>4. \A w \in Workers : (Replaceable(i, w) /\ FileStays(i, w))'
    BY <1>1, <1>2, <1>4, <2>1, <2>2 DEF Replaceable, FileStays, Item
  <2> QED
    BY <2>3, <2>4
<1> QED
  BY <1>1, <1>2, <1>5, <1>6, <1>9, <1>10, <1>11, ScanFrame

LEMMA ScanEndStep == ASSUME IInv, NEW s \in Scanners, ScanEnd(s) PROVE IInv'
<1>1. UNCHANGED <<place, media, links, entries, importVars, cleanVars, marred>>
  BY DEF ScanEnd
<1>2. UNCHANGED <<pc, job, old, slot, cpc, listing, taken>>
  BY <1>1 DEF importVars, cleanVars
<1>3. Typed'
  BY <1>1, <1>2, ProfileAssumption DEF ScanEnd, Fault, IInv, Typed
<1>4. ScansWalk'
  BY <1>1 DEF ScanEnd, IInv, Typed, ScansWalk, Walking, Landed
<1>5. \A r \in Rows : Linked(r) => Linked(r)'
  BY <1>1, <1>2 DEF ScanEnd, IInv, Typed, Linked, Rows, Landed
<1> QED
  BY <1>1, <1>3, <1>4, <1>5, ScanStands

LEMMA ScanStep == ASSUME IInv, NEW s \in Scanners, Scan(s) PROVE IInv'
BY ScanStartStep, ScanFileStep, ScanInsertStep, ScanLinkStep, ScanEndStep DEF Scan

-----------------------------------------------------------------------------
(* What the steps of an import leave as it is *)

(* The import of w is the only one that goes on. *)
Alone(w) ==
    \A v \in Workers \ {w} :
        pc'[v] = pc[v] /\ job'[v] = job[v] /\ old'[v] = old[v] /\ slot'[v] = slot[v]

(* A row that goes is not one that an import or a scan is about to link.     *)
NoneAwaited(gone) ==
    /\ \A w \in Workers : pc[w] = "link" => <<"import", job[w]>> \notin gone
    /\ \A s \in Scanners : spc[s] = "link" => <<s, sjob[s]>> \notin gone

LEMMA ImportFrame ==
    ASSUME IInv, NEW w \in Workers, Alone(w), UNCHANGED scanVars, Typed', Ready(w)',
           \A d \in Downloads : place[d] # Source => place'[d] # Source,
           pc'[w] \in Arrived => /\ job'[w] = job[w]
                                 /\ pc[w] \in Arrived \/ place[job[w]] = Source,
           pc'[w] \in Landed => pc[w] \in Landed \/ place[job[w]] = Source,
           pc'[w] \in Replacing => /\ old'[w] \in Rows
                                   /\ Linked(old'[w])
                                   /\ pc'[w] \notin Landed,
           NEW gone, NoneAwaited(gone), media \subseteq media' \cup gone
    PROVE  /\ ImportsReady' /\ OneMover' /\ ScansWalk'
           /\ \A r \in Rows : Linked(r) => Linked(r)'
<1>1. UNCHANGED <<spc, sjob, seen>>
  BY DEF scanVars
<1>2. \A v \in Workers : pc'[v] \in Arrived => job[v] \in Downloads
  BY DEF IInv, Ready, Alone, Arrived, Landed, Typed
<1>3. \A r \in Rows : Linked(r) => Linked(r)'
  BY <1>1, <1>2 DEF Linked, Rows, Alone, Arrived
<1>4. ASSUME NEW v \in Workers \ {w} PROVE Ready(v)'
  <2>1. pc'[v] = pc[v] /\ job'[v] = job[v] /\ old'[v] = old[v] /\ slot'[v] = slot[v]
    BY DEF Alone
  <2>2. Ready(v)
    BY DEF IInv
  <2>3. pc[v] \in Arrived => place'[job[v]] # Source
    BY <2>2 DEF Ready, Arrived, Landed
  <2>4. pc[v] = "link" => <<"import", job[v]>> \in media'
    BY <2>2 DEF Ready, NoneAwaited
  <2> QED
    BY <2>1, <2>2, <2>3, <2>4 DEF Ready, Item
<1>5. ASSUME NEW v \in Workers PROVE OldLinked(v)'
  <2>1. CASE v = w
    BY <2>1, <1>3 DEF OldLinked
  <2>2. CASE v # w
    BY <2>2, <1>3 DEF IInv, Ready, OldLinked, Alone
  <2> QED
    BY <2>1, <2>2
<1>6. OneMover'
  BY DEF IInv, OneMover, Ready, Alone, Arrived
<1>7. ScansWalk'
  BY <1>1 DEF IInv, ScansWalk, Walking, NoneAwaited
<1> QED
  BY <1>3, <1>4, <1>5, <1>6, <1>7 DEF ImportsReady

(* Nothing enters the bin, and a file on its way to its entry is still on it. *)
LEMMA BinFrame ==
    ASSUME IInv, NEW w \in Workers, Alone(w), UNCHANGED <<entries, cleanVars>>,
           marred \subseteq marred',
           pc'[w] = "binrow" => pc[w] = "binrow" /\ slot'[w] = slot[w],
           pc[w] = "binrow" => pc'[w] = "binrow" \/ slot[w][1] \in marred',
           \A d \in Downloads :
               \/ place'[d] = place[d]
               \/ place[d] # Gone /\ place'[d] \notin Slots /\ (InBin(d) => place'[d] = Gone)
    PROVE  BinSettled' /\ BinHasRoom' /\ BinTold'
<1>1. UNCHANGED <<listing, taken>>
  BY DEF cleanVars
<1>2. \A v \in Workers : pc'[v] = "binrow" => pc[v] = "binrow" /\ slot'[v] = slot[v]
  BY DEF Alone
<1>3. \A e \in Downloads \X Slots : Settled(e) => place'[e[1]] \in {e[2], Gone}
  BY PlacesApart DEF Settled, InBin
<1>4. BinSettled'
  <2>1. \A e \in entries : place'[e[1]] \in {e[2], Gone}
    BY <1>3 DEF IInv, Typed, BinSettled
  <2>2. \A v \in Workers : pc'[v] = "binrow" => place'[slot'[v][1]] \in {slot'[v][2], Gone}
    BY <1>2, <1>3 DEF IInv, BinSettled, Ready
  <2>3. \A c \in Cleaners : \A e \in listing[c] : place'[e[1]] \in {e[2], Gone}
    BY <1>3 DEF IInv, Typed, BinSettled
  <2>4. \A c \in Cleaners : \A e \in taken[c] : place'[e[1]] = Gone
    <3>1. \A c \in Cleaners : \A e \in taken[c] : e[1] \in Downloads /\ place[e[1]] = Gone
      BY DEF IInv, Typed, BinSettled
    <3> QED
      BY <3>1
  <2> QED
    BY <1>1, <2>1, <2>2, <2>3, <2>4 DEF BinSettled, Settled
<1>5. \A d \in Downloads : InBin(d)' => InBin(d) /\ place'[d] = place[d]
  BY DEF InBin
<1>6. BinHasRoom'
  BY <1>5 DEF IInv, BinHasRoom
<1>7. BinTold'
  <2> SUFFICES ASSUME NEW d \in Downloads \ marred', InBin(d)',
                      <<d, place[d]>> \notin entries
               PROVE  \E v \in Workers : pc'[v] = "binrow" /\ slot'[v] = <<d, place[d]>>
    BY <1>5 DEF BinTold
  <2>1. PICK v \in Workers : pc[v] = "binrow" /\ slot[v] = <<d, place[d]>>
    BY <1>5 DEF IInv, BinTold
  <2>2. pc'[v] = "binrow"
    BY <2>1 DEF Alone
  <2> QED
    BY <1>2, <2>1, <2>2
<1> QED
  BY <1>4, <1>6, <1>7

(* The step puts no item in need of its file. *)
LEMMA ServedFrame ==
    ASSUME IInv, NEW w \in Workers, Alone(w), UNCHANGED <<place, links>>,
           marred \subseteq marred', job'[w] = job[w],
           pc'[w] \in Landed <=> pc[w] \in Landed,
           pc[w] \in Cleared => pc'[w] \in Cleared,
           pc'[w] \in Replacing => pc[w] \in Replacing /\ old'[w] = old[w]
    PROVE  ItemsServed'
<1> SUFFICES ASSUME NEW i \in Followed \ marred'
             PROVE  (Served(i) /\ \A v \in Workers : Replaceable(i, v) /\ FileStays(i, v))'
  BY DEF ItemsServed, Followed
<1>1. Served(i) /\ \A v \in Workers : Replaceable(i, v) /\ FileStays(i, v)
  BY DEF IInv
<1>2. \A v \in Workers : job'[v] = job[v] /\ (pc'[v] \in Landed <=> pc[v] \in Landed)
                         /\ (pc[v] \in Cleared => pc'[v] \in Cleared)
  BY DEF Alone
<1>3. Served(i)'
  BY <1>1, <1>2 DEF Served, HasFile, WillLink, WillMove, Item
<1>4. ASSUME NEW v \in Workers PROVE (Replaceable(i, v) /\ FileStays(i, v))'
  BY <1>1, <1>2 DEF Replaceable, FileStays, Item, Alone
<1> QED
  BY <1>3, <1>4

(* The links stand. *)
LEMMA LinksFrame ==
    ASSUME IInv, UNCHANGED links, media \subseteq media',
           \A r \in Rows : Linked(r) => Linked(r)'
    PROVE  LinksSound'
BY DEF IInv, Typed, LinksSound, LinkSound

(* An import returns: with an error that leaves its item marred, or before it *)
(* has touched anything, or because another import has its file.             *)
LEMMA LeaveStep ==
    ASSUME IInv, NEW w \in Workers, pc[w] # "idle", Leave(w),
           UNCHANGED <<place, media, links, entries, scanVars, cleanVars>>,
           faulted' \in 0..MaxFaults, marred \subseteq marred', marred' \subseteq Items \cup Downloads,
           \/ Item(w) \in marred'
           \/ pc[w] \in {"recycle", "binmove"}
           \/ pc[w] = "move" /\ place[job[w]] # Source,
           pc[w] = "binrow" => slot[w][1] \in marred'
    PROVE  IInv'
<1>1. /\ pc' = [pc EXCEPT ![w] = "idle"] /\ job' = [job EXCEPT ![w] = NoDownload]
      /\ old' = [old EXCEPT ![w] = NoRow] /\ slot' = [slot EXCEPT ![w] = NoRow]
  BY DEF Leave, Go
<1>2. /\ Alone(w) /\ pc'[w] = "idle" /\ job'[w] = NoDownload
      /\ pc' \in [Workers -> Steps] /\ job' \in [Workers -> Downloads \cup {NoDownload}]
  BY <1>1 DEF IInv, Typed, Alone, Steps
<1>3. UNCHANGED <<spc, sjob, seen, cpc, listing, taken>>
  BY DEF scanVars, cleanVars
<1>4. Typed'
  BY <1>1, <1>2, <1>3 DEF IInv, Typed
<1>5. ImportsReady' /\ OneMover' /\ ScansWalk' /\ \A r \in Rows : Linked(r) => Linked(r)'
  <2>1. Ready(w)'
    BY <1>2 DEF Ready, Replacing, Arrived, Landed
  <2>2. NoneAwaited({})
    BY DEF NoneAwaited
  <2> QED
    BY <1>2, <1>4, <2>1, <2>2, ImportFrame DEF Arrived, Landed, Replacing
<1>6. BinSettled' /\ BinHasRoom' /\ BinTold'
  BY <1>2, BinFrame
<1>7. LinksSound'
  BY <1>5, LinksFrame
<1>8. ItemsServed'
  <2> SUFFICES ASSUME NEW i \in Followed \ marred'
               PROVE  (Served(i) /\ \A v \in Workers : Replaceable(i, v) /\ FileStays(i, v))'
    BY DEF ItemsServed, Followed
  <2>1. Served(i) /\ \A v \in Workers : Replaceable(i, v) /\ FileStays(i, v)
    BY DEF IInv
  <2>2. pc[w] \in Landed \cup Cleared /\ Item(w) = i => pc[w] = "move" /\ place[job[w]] # Source
    BY DEF Landed, Cleared
  <2>3. Served(i)'
    BY <1>2, <2>1, <2>2 DEF Served, HasFile, WillLink, WillMove, Item, Alone, Landed, Cleared
  <2>4. ASSUME NEW v \in Workers PROVE Replaceable(i, v)'
    <3>1. pc[w] \in Landed /\ job[w] = job[v] => Item(v) # i
      BY <2>2 DEF Item, Landed, Cleared
    <3> QED
      BY <1>2, <2>1, <3>1 DEF Replaceable, Item, Alone, Replacing
  <2>5. ASSUME NEW v \in Workers PROVE FileStays(i, v)'
    BY <1>2, <2>1 DEF FileStays, Item, Alone, Landed
  <2> QED
    BY <2>3, <2>4, <2>5
<1> QED
  BY <1>4, <1>5, <1>6, <1>7, <1>8 DEF IInv, ImportsReady, ScansWalk, LinksSound, ItemsServed

(* What is left to show when the frames have been applied. *)
LEMMA ImportStands ==
    ASSUME Typed', ImportsReady', OneMover', ScansWalk', BinSettled', BinHasRoom', BinTold',
           LinksSound', ItemsServed'
    PROVE  IInv'
BY DEF IInv, ImportsReady, ScansWalk, LinksSound, ItemsServed

LEMMA FailsStep ==
    ASSUME IInv, NEW w \in Workers, pc[w] \notin {"idle", "binrow"}, NEW fault, Fails(w, fault),
           UNCHANGED <<place, media, links, entries, scanVars, cleanVars>>
    PROVE  IInv'
<1>1. faulted' \in 0..MaxFaults
  BY ProfileAssumption DEF Fails, Fault, IInv, Typed
<1>2. Item(w) \in Items
  BY DownloadsAssumption DEF IInv, Ready, Item
<1>3. /\ marred \subseteq marred' /\ marred' \subseteq Items \cup Downloads
      /\ Item(w) \in marred'
  BY <1>2 DEF Fails, IInv, Typed
<1> QED
  BY <1>1, <1>3, LeaveStep DEF Fails

(* An import moves on, and its other variables stand. *)
LEMMA GoFacts ==
    ASSUME IInv, NEW w \in Workers, NEW to \in Steps, Go(w, to)
    PROVE  /\ pc' \in [Workers -> Steps] /\ pc'[w] = to
           /\ \A v \in Workers \ {w} : pc'[v] = pc[v]
BY DEF Go, IInv, Typed

-----------------------------------------------------------------------------
(* The steps of an import *)

LEMMA ImportStartStep ==
    ASSUME IInv, NEW w \in Workers, NEW d \in Downloads, ImportStart(w, d)
    PROVE  IInv'
<1> DEFINE row == links[ItemOf[d]]
<1>1. /\ pc[w] = "idle" /\ place[d] = Source /\ job' = [job EXCEPT ![w] = d]
      /\ UNCHANGED <<place, media, links, entries, slot, scanVars, cleanVars, faulted>>
  BY DEF ImportStart
<1>2. UNCHANGED <<spc, sjob, seen, cpc, listing, taken>>
  BY <1>1 DEF scanVars, cleanVars
<1>3. \/ Go(w, "move") /\ UNCHANGED <<old, marred>>
      \/ /\ Go(w, "recycle") /\ row # NoRow
         /\ QualityOf[d] > QualityOf[row[2]]
         /\ old' = [old EXCEPT ![w] = row]
         /\ marred' = marred \cup {i \in Followed \ {ItemOf[d]} : links[i] = row}
  BY DEF ImportStart, IsUpgrade
<1>4. ItemOf[d] \in Items
  BY DownloadsAssumption
<1>5. pc' \in [Workers -> Steps] /\ pc'[w] \in {"move", "recycle"}
      /\ \A v \in Workers \ {w} : pc'[v] = pc[v]
  BY <1>3, GoFacts DEF Steps
<1>6. /\ row \in Rows \cup {NoRow}
      /\ row # NoRow => row \in Rows /\ ItemOf[d] \in Covers(row[2]) /\ Linked(row)
  BY <1>4 DEF IInv, Typed, LinkSound
<1>7. job'[w] = d /\ Alone(w)
  BY <1>1, <1>3, <1>5, <1>6 DEF IInv, Typed, Alone
<1>8. marred \subseteq marred' /\ marred' \subseteq Items \cup Downloads
  BY <1>3 DEF IInv, Typed, Followed
<1>9. Typed'
  BY <1>1, <1>2, <1>3, <1>5, <1>6, <1>8 DEF IInv, Typed
<1>10. /\ pc'[w] = "recycle" => /\ old'[w] = row /\ row # NoRow
                                /\ QualityOf[d] > QualityOf[row[2]]
                                /\ marred' = marred \cup {i \in Followed \ {ItemOf[d]} : links[i] = row}
  BY <1>3, GoFacts DEF Steps, IInv, Typed
<1>11. Ready(w)'
  BY <1>5, <1>6, <1>7, <1>10 DEF Ready, Item, Replacing, Arrived, Landed
<1>12. ImportsReady' /\ OneMover' /\ ScansWalk' /\ \A r \in Rows : Linked(r) => Linked(r)'
  <2>1. NoneAwaited({})
    BY DEF NoneAwaited
  <2>2. pc'[w] \notin Arrived /\ pc'[w] \notin Landed
    BY <1>5 DEF Arrived, Landed
  <2>3. pc'[w] \in Replacing => old'[w] \in Rows /\ Linked(old'[w])
    BY <1>5, <1>6, <1>10 DEF Replacing
  <2> QED
    BY <1>1, <1>7, <1>9, <1>11, <2>1, <2>2, <2>3, ImportFrame
<1>13. BinSettled' /\ BinHasRoom' /\ BinTold'
  BY <1>1, <1>5, <1>7, <1>8, BinFrame
<1>14. LinksSound'
  BY <1>1, <1>12, LinksFrame
<1>15. ItemsServed'
  <2> SUFFICES ASSUME NEW i \in Followed \ marred'
               PROVE  (Served(i) /\ \A v \in Workers : Replaceable(i, v) /\ FileStays(i, v))'
    BY DEF ItemsServed, Followed
  <2>1. Served(i) /\ \A v \in Workers : Replaceable(i, v) /\ FileStays(i, v)
    BY <1>8 DEF IInv
  <2>2. Served(i)'
    BY <1>1, <1>7, <2>1 DEF Served, HasFile, WillLink, WillMove, Item, Alone, Landed, Cleared
  <2>3. Replaceable(i, w)'
    BY <1>1, <1>5, <1>7, <1>10 DEF Replaceable, Item, Replacing
  <2>4. ASSUME NEW v \in Workers \ {w} PROVE Replaceable(i, v)'
    BY <1>1, <1>7, <2>1 DEF Replaceable, Item, Alone, Landed
  <2>5. ASSUME NEW v \in Workers PROVE FileStays(i, v)'
    BY <1>1, <1>5, <1>7, <2>1 DEF FileStays, Item, Alone, Landed
  <2> QED
    BY <2>2, <2>3, <2>4, <2>5
<1> QED
  BY <1>9, <1>12, <1>13, <1>14, <1>15, ImportStands

LEMMA RecycleProbeStep == ASSUME IInv, NEW w \in Workers, RecycleProbe(w) PROVE IInv'
<1>1. /\ pc[w] = "recycle" /\ Go(w, "binmove")
      /\ slot' = [slot EXCEPT ![w] = <<NoDownload, FreeSlot(NameOf[old[w][2]])>>]
      /\ UNCHANGED <<place, media, links, entries, job, old, scanVars, cleanVars, history>>
  BY DEF RecycleProbe
<1>2. UNCHANGED <<spc, sjob, seen, cpc, listing, taken, faulted, marred>>
  BY <1>1 DEF scanVars, cleanVars, history
<1>3. pc' \in [Workers -> Steps] /\ pc'[w] = "binmove" /\ \A v \in Workers \ {w} : pc'[v] = pc[v]
  BY <1>1, GoFacts DEF Steps
<1>4. FreeSlot(NameOf[old[w][2]]) \in Slots
  <2>1. old[w] \in Rows
    BY <1>1 DEF IInv, Ready, Replacing
  <2>2. NameOf[old[w][2]] \in Names
    BY <2>1 DEF Rows, Names
  <2> QED
    BY <2>2, FreeSlotType
<1>5. Typed' /\ Alone(w)
  BY <1>1, <1>2, <1>3, <1>4 DEF IInv, Typed, Alone
<1>6. Ready(w)'
  <2>1. slot'[w][2] \in Slots
    BY <1>1, <1>4 DEF IInv, Typed
  <2> QED
    BY <1>1, <1>3, <2>1 DEF IInv, Ready, Item, Replacing, Arrived, Landed
<1>7. ImportsReady' /\ OneMover' /\ ScansWalk' /\ \A r \in Rows : Linked(r) => Linked(r)'
  <2>1. NoneAwaited({})
    BY DEF NoneAwaited
  <2>2. old'[w] \in Rows /\ Linked(old'[w])
    BY <1>1 DEF IInv, Ready, OldLinked, Replacing
  <2> QED
    BY <1>1, <1>3, <1>5, <1>6, <2>1, <2>2, ImportFrame DEF Arrived, Landed
<1>8. BinSettled' /\ BinHasRoom' /\ BinTold'
  BY <1>1, <1>2, <1>3, <1>5, BinFrame
<1>9. LinksSound'
  BY <1>1, <1>7, LinksFrame
<1>10. ItemsServed'
  BY <1>1, <1>2, <1>3, <1>5, ServedFrame DEF Replacing, Landed, Cleared
<1> QED
  BY <1>5, <1>7, <1>8, <1>9, <1>10, ImportStands

(* The old file is taken out of the library, perhaps with one that an import  *)
(* has put in its place.                                                     *)
LEMMA OldFileFacts ==
    ASSUME IInv, NEW w \in Workers, pc[w] \in Replacing, NEW e \in OldFiles(w)
    PROVE  /\ e \in Downloads /\ place[e] = Library
           /\ Path(e) = Path(old[w][2]) /\ QualityOf[e] < QualityOf[job[w]]
           /\ e # old[w][2] => ItemOf[e] \in Mistaken(w)
           /\ e = old[w][2] => old[w] = <<"import", e>>
           /\ Item(w) \in Covers(old[w][2])
<1>1. e \in Downloads /\ place[e] = Library /\ Path(e) = Path(old[w][2]) /\ old[w][1] = "import"
  BY DEF OldFiles, OnDisk
<1>2. old[w] \in Rows /\ Item(w) \in Covers(old[w][2]) /\ QualityOf[job[w]] > QualityOf[old[w][2]]
  BY DEF IInv, Ready
<1>3. old[w][2] \in Downloads
  BY <1>2 DEF Rows
<1>4. QualityOf[e] = QualityOf[old[w][2]]
  BY <1>1, <1>3, SamePath
<1>5. old[w] = <<old[w][1], old[w][2]>>
  BY <1>2 DEF Rows
<1> QED
  BY <1>1, <1>2, <1>4, <1>5 DEF Mistaken

LEMMA MistakenType ==
    ASSUME NEW w \in Workers PROVE Mistaken(w) \subseteq Items
BY DownloadsAssumption DEF Mistaken, OldFiles, OnDisk

LEMMA RemovalServed ==
    ASSUME IInv, NEW w \in Workers, Alone(w), UNCHANGED links,
           pc[w] \in {"recycle", "binmove"}, pc'[w] \in {"unlink", "binrow"},
           job'[w] = job[w], old'[w] = old[w], marred' = marred \cup Mistaken(w),
           \A d \in Downloads : \/ place'[d] = place[d]
                                \/ d \in OldFiles(w) /\ place'[d] # Source
                                \/ InBin(d) /\ place'[d] = Gone
    PROVE  ItemsServed'
<1> SUFFICES ASSUME NEW i \in Followed \ marred'
             PROVE  (Served(i) /\ \A v \in Workers : Replaceable(i, v) /\ FileStays(i, v))'
  BY DEF ItemsServed, Followed
<1> USE PlacesApart
<1>1. i \in Items /\ Served(i) /\ \A v \in Workers : Replaceable(i, v) /\ FileStays(i, v)
  BY DEF IInv, Followed
<1>2. \A v \in Workers : job'[v] = job[v] /\ old'[v] = old[v] /\ (pc'[v] \in Landed <=> pc[v] \in Landed)
                         /\ (pc'[v] \in Replacing <=> pc[v] \in Replacing)
                         /\ (pc[v] \in Cleared => pc'[v] \in Cleared)
  BY DEF Alone, Landed, Replacing, Cleared
<1>3. \A d \in Downloads : place'[d] = Source <=> place[d] = Source
  BY OldFileFacts DEF InBin, Replacing
<1>4. \A d \in Downloads : place[d] = Library /\ place'[d] # Library /\ ItemOf[d] = i
                            => old[w] = <<"import", d>>
  BY OldFileFacts DEF InBin, Replacing
<1>5. \A v \in Workers : pc[v] \in Landed \cup Replacing => job[v] \in Downloads
  BY DEF IInv, Ready, Landed, Replacing
<1>6. ASSUME NEW v \in Workers PROVE Replaceable(i, v)'
  BY <1>1, <1>2, <1>3, <1>5 DEF Replaceable, Item
<1>7. ASSUME NEW v \in Workers PROVE FileStays(i, v)'
  <2> SUFFICES ASSUME pc[v] \in Landed, Item(v) = i PROVE place'[job[v]] = Library
    BY <1>2 DEF FileStays, Item
  <2>1. place[job[v]] = Library /\ job[v] \in Downloads /\ ItemOf[job[v]] = i
    BY <1>1, <1>5 DEF FileStays, Item
  <2>2. old[w] # <<"import", job[v]>>
    BY DEF IInv, OldLinked, Linked, Replacing
  <2> QED
    BY <1>4, <2>1, <2>2
<1>8. Served(i)'
  <2>1. CASE WillLink(i) \/ WillMove(i)
    <3>1. \A v \in Workers : pc[v] \in Cleared => job[v] \in Downloads
      BY DEF IInv, Ready, Cleared
    <3> QED
      BY <1>2, <1>3, <2>1, <3>1 DEF Served, WillLink, WillMove, Item
  <2>2. CASE HasFile(i)
    <3>1. links[i] \in Rows /\ i \in Covers(links[i][2])
      BY <1>1, <2>2 DEF IInv, Typed, LinkSound, HasFile
    <3>2. /\ links[i] = <<"import", links[i][2]>> /\ links[i][2] \in Downloads
          /\ ItemOf[links[i][2]] = i
      BY <2>2, <3>1 DEF HasFile, Rows, Covers, Followed
    <3>3. CASE place'[links[i][2]] = Library
      BY <2>2, <3>3 DEF Served, HasFile
    <3>4. CASE place'[links[i][2]] # Library
      <4>1. old[w] = links[i] /\ place[links[i][2]] = Library
        BY <1>4, <2>2, <3>2, <3>4 DEF HasFile
      <4>2. Item(w) = i /\ \/ place[job[w]] = Source
                           \/ \E v \in Workers : pc[v] \in Landed /\ job[v] = job[w]
        BY <1>1, <4>1 DEF Replaceable, Replacing
      <4>3. job[w] \in Downloads /\ pc'[w] \in Cleared
        BY <1>5 DEF Replacing, Cleared
      <4> QED
        BY <1>2, <1>3, <4>2, <4>3 DEF Served, WillLink, WillMove, Item
    <3> QED
      BY <3>3, <3>4
  <2>3. CASE ~\E d \in Downloads : ItemOf[d] = i /\ place[d] # Source
    BY <1>3, <2>3 DEF Served
  <2> QED
    BY <1>1, <2>1, <2>2, <2>3 DEF Served
<1> QED
  BY <1>6, <1>7, <1>8

LEMMA RemoveOldStep == ASSUME IInv, NEW w \in Workers, RemoveOld(w) PROVE IInv'
<1> USE PlacesApart
<1>1. pc[w] = "recycle" /\ UNCHANGED <<media, links, entries, scanVars, cleanVars>>
  BY DEF RemoveOld
<1>2. CASE Fails(w, "fs") /\ UNCHANGED place
  BY <1>1, <1>2, FailsStep
<1>3. CASE /\ place' = [e \in Downloads |-> IF e \in OldFiles(w) THEN Gone ELSE place[e]]
           /\ marred' = marred \cup Mistaken(w)
           /\ Go(w, "unlink")
           /\ UNCHANGED <<job, old, slot, faulted>>
  <2>1. UNCHANGED <<spc, sjob, seen, cpc, listing, taken>>
    BY <1>1 DEF scanVars, cleanVars
  <2>2. pc' \in [Workers -> Steps] /\ pc'[w] = "unlink" /\ \A v \in Workers \ {w} : pc'[v] = pc[v]
    BY <1>3, GoFacts DEF Steps
  <2>3. /\ place' \in [Downloads -> {Source, Library, Gone} \cup Slots]
        /\ \A d \in Downloads : place'[d] = place[d] \/ (d \in OldFiles(w) /\ place'[d] = Gone)
    BY <1>3 DEF IInv, Typed
  <2>4. \A d \in OldFiles(w) : place[d] = Library
    BY <1>1, OldFileFacts DEF Replacing
  <2>5. Typed' /\ Alone(w)
    BY <1>1, <1>3, <2>1, <2>2, <2>3, MistakenType DEF IInv, Typed, Alone
  <2>6. Ready(w)'
    BY <1>1, <1>3, <2>2 DEF IInv, Ready, Item, Replacing, Arrived, Landed
  <2>7. ImportsReady' /\ OneMover' /\ ScansWalk' /\ \A r \in Rows : Linked(r) => Linked(r)'
    <3>1. NoneAwaited({})
      BY DEF NoneAwaited
    <3>2. old'[w] \in Rows /\ Linked(old'[w])
      BY <1>1, <1>3 DEF IInv, Ready, OldLinked, Replacing
    <3> QED
      BY <1>1, <2>2, <2>3, <2>5, <2>6, <3>1, <3>2, ImportFrame DEF Arrived, Landed
  <2>8. BinSettled' /\ BinHasRoom' /\ BinTold'
    BY <1>1, <1>3, <2>2, <2>3, <2>4, <2>5, BinFrame DEF InBin
  <2>9. LinksSound'
    BY <1>1, <2>7, LinksFrame
  <2>10. ItemsServed'
    BY <1>1, <1>3, <2>2, <2>3, <2>5, RemovalServed
  <2> QED
    BY <2>5, <2>7, <2>8, <2>9, <2>10, ImportStands
<1> QED
  BY <1>1, <1>2, <1>3 DEF RemoveOld

(* The file that is moved into the bin was not there before, and is worse     *)
(* than the one to come.                                                     *)
LEMMA RecycleMoveStep == ASSUME IInv, NEW w \in Workers, RecycleMove(w) PROVE IInv'
<1> USE PlacesApart
<1>1. pc[w] = "binmove" /\ UNCHANGED <<media, links, entries, scanVars, cleanVars>>
  BY DEF RecycleMove
<1>2. CASE Fails(w, "fs") /\ UNCHANGED place
  BY <1>1, <1>2, FailsStep
<1>3. CASE Leave(w) /\ UNCHANGED <<place, history>>
  <2>1. UNCHANGED <<faulted, marred>>
    BY <1>3 DEF history
  <2>2. faulted' \in 0..MaxFaults /\ marred' \subseteq Items \cup Downloads
    BY <2>1 DEF IInv, Typed
  <2> QED
    BY <1>1, <1>3, <2>1, <2>2, LeaveStep
<1>4. ASSUME NEW d \in OldFiles(w), place' = Moved(d, slot[w][2], AtSlot(slot[w][2])),
             slot' = [slot EXCEPT ![w] = <<d, slot[w][2]>>],
             marred' = marred \cup Mistaken(w), Go(w, "binrow"),
             UNCHANGED <<job, old, faulted>>
      PROVE  IInv'
  <2>1. UNCHANGED <<spc, sjob, seen, cpc, listing, taken>>
    BY <1>1 DEF scanVars, cleanVars
  <2>2. pc' \in [Workers -> Steps] /\ pc'[w] = "binrow" /\ \A v \in Workers \ {w} : pc'[v] = pc[v]
    BY <1>4, GoFacts DEF Steps
  <2>3. PICK to \in Slots : to = slot[w][2]
    BY <1>1 DEF IInv, Ready
  <2>4. d \in Downloads /\ place[d] = Library /\ QualityOf[d] < QualityOf[job[w]]
    BY <1>1, OldFileFacts DEF Replacing
  <2>5. /\ place' \in [Downloads -> {Source, Library, Gone} \cup Slots]
        /\ place'[d] = to
        /\ \A e \in Downloads \ {d} : place'[e] = place[e] \/ (place[e] = to /\ place'[e] = Gone)
    BY <1>4, <2>3, <2>4 DEF IInv, Typed, Moved, AtSlot
  <2>6. slot'[w] = <<d, to>>
    BY <1>4, <2>3 DEF IInv, Typed
  <2>7. Typed' /\ Alone(w)
    <3>1. slot' \in [Workers -> ((Downloads \cup {NoDownload}) \X Slots) \cup {NoRow}]
      BY <1>4, <2>3, <2>4 DEF IInv, Typed
    <3> QED
      BY <1>1, <1>4, <2>1, <2>2, <2>5, <3>1, MistakenType DEF IInv, Typed, Alone
  <2>8. Ready(w)'
    <3>1. slot'[w] \in Downloads \X Slots
      BY <2>4, <2>6
    <3> QED
      BY <1>1, <1>4, <2>2, <3>1 DEF IInv, Ready, Item, Replacing, Arrived, Landed
  <2>9. ImportsReady' /\ OneMover' /\ ScansWalk' /\ \A r \in Rows : Linked(r) => Linked(r)'
    <3>1. NoneAwaited({})
      BY DEF NoneAwaited
    <3>2. old'[w] \in Rows /\ Linked(old'[w])
      BY <1>1, <1>4 DEF IInv, Ready, OldLinked, Replacing
    <3>3. \A e \in Downloads : place[e] # Source => place'[e] # Source
      BY <2>5
    <3> QED
      BY <1>1, <2>2, <2>7, <2>8, <3>1, <3>2, <3>3, ImportFrame DEF Arrived, Landed
  <2>10. BinSettled'
    <3>1. \A e \in Downloads \X Slots : Settled(e) => place'[e[1]] \in {e[2], Gone}
      BY <2>4, <2>5 DEF Settled
    <3>2. \A e \in entries : place'[e[1]] \in {e[2], Gone}
      BY <3>1 DEF IInv, Typed, BinSettled
    <3>3. \A v \in Workers : pc'[v] = "binrow" => place'[slot'[v][1]] \in {slot'[v][2], Gone}
      <4>1. ASSUME NEW v \in Workers \ {w}, pc[v] = "binrow"
            PROVE  place'[slot[v][1]] \in {slot[v][2], Gone}
        BY <3>1, <4>1 DEF IInv, BinSettled, Ready
      <4> QED
        BY <2>2, <2>5, <2>6, <2>7, <4>1 DEF Alone
    <3>4. \A c \in Cleaners : \A e \in listing[c] : place'[e[1]] \in {e[2], Gone}
      BY <3>1 DEF IInv, Typed, BinSettled
    <3>5. \A c \in Cleaners : \A e \in taken[c] : place'[e[1]] = Gone
      <4>1. \A c \in Cleaners : \A e \in taken[c] : e[1] \in Downloads /\ place[e[1]] = Gone
        BY DEF IInv, Typed, BinSettled
      <4> QED
        BY <2>3, <2>4, <2>5, <4>1
    <3> QED
      BY <1>1, <2>1, <3>2, <3>3, <3>4, <3>5 DEF BinSettled, Settled
  <2>11. BinHasRoom'
    <3>1. job[w] \in Downloads
      BY <1>1 DEF IInv, Ready
    <3> QED
      BY <2>4, <2>5, <3>1, DownloadsAssumption DEF IInv, BinHasRoom, InBin
  <2>12. BinTold'
    <3> SUFFICES ASSUME NEW e \in Downloads \ marred', place'[e] \in Slots
                 PROVE  \/ <<e, place'[e]>> \in entries
                        \/ \E v \in Workers : pc'[v] = "binrow" /\ slot'[v] = <<e, place'[e]>>
      BY <1>1 DEF BinTold, InBin
    <3>1. CASE e = d
      BY <2>2, <2>5, <2>6, <3>1
    <3>2. CASE e # d
      <4>1. place'[e] = place[e] /\ e \notin marred
        BY <1>4, <2>5, <3>2
      <4>2. \/ <<e, place[e]>> \in entries
            \/ \E v \in Workers : pc[v] = "binrow" /\ slot[v] = <<e, place[e]>>
        BY <4>1 DEF IInv, BinTold, InBin
      <4> QED
        BY <1>1, <2>7, <4>1, <4>2 DEF Alone
    <3> QED
      BY <3>1, <3>2
  <2>13. LinksSound'
    BY <1>1, <2>9, LinksFrame
  <2>14. ItemsServed'
    <3>1. \A e \in Downloads : \/ place'[e] = place[e]
                               \/ e \in OldFiles(w) /\ place'[e] # Source
                               \/ InBin(e) /\ place'[e] = Gone
      BY <1>4, <2>3, <2>5 DEF InBin
    <3> QED
      BY <1>1, <1>4, <2>2, <2>7, <3>1, RemovalServed
  <2> QED
    BY <2>7, <2>9, <2>10, <2>11, <2>12, <2>13, <2>14, ImportStands
<1> QED
  BY <1>1, <1>2, <1>3, <1>4 DEF RecycleMove

LEMMA RecycleRowStep == ASSUME IInv, NEW w \in Workers, RecycleRow(w) PROVE IInv'
<1>1. pc[w] = "binrow" /\ UNCHANGED <<place, media, links, scanVars, cleanVars>>
  BY DEF RecycleRow
<1>2. UNCHANGED <<spc, sjob, seen, cpc, listing, taken>>
  BY <1>1 DEF scanVars, cleanVars
<1>3. slot[w] \in Downloads \X Slots /\ Settled(slot[w])
  BY <1>1 DEF IInv, Ready, BinSettled
<1>4. CASE /\ Fault("db") /\ Leave(w) /\ UNCHANGED entries
           /\ marred' = marred \cup {Item(w), slot[w][1]}
  <2>1. faulted' \in 0..MaxFaults
    BY <1>4, ProfileAssumption DEF Fault, IInv, Typed
  <2>2. Item(w) \in Items
    BY <1>1, DownloadsAssumption DEF IInv, Ready, Item
  <2>3. marred' \subseteq Items \cup Downloads
    BY <1>3, <1>4, <2>2 DEF IInv, Typed
  <2> QED
    BY <1>1, <1>4, <2>1, <2>3, LeaveStep
<1>5. CASE /\ entries' = entries \cup {slot[w]} /\ Go(w, "unlink")
           /\ slot' = [slot EXCEPT ![w] = NoRow]
           /\ UNCHANGED <<job, old, history>>
  <2>1. pc' \in [Workers -> Steps] /\ pc'[w] = "unlink" /\ \A v \in Workers \ {w} : pc'[v] = pc[v]
    BY <1>5, GoFacts DEF Steps
  <2>2. UNCHANGED <<faulted, marred>>
    BY <1>5 DEF history
  <2>3. Typed' /\ Alone(w)
    BY <1>1, <1>2, <1>3, <1>5, <2>1, <2>2 DEF IInv, Typed, Alone
  <2>4. Ready(w)'
    BY <1>1, <1>5, <2>1 DEF IInv, Ready, Item, Replacing, Arrived, Landed
  <2>5. ImportsReady' /\ OneMover' /\ ScansWalk' /\ \A r \in Rows : Linked(r) => Linked(r)'
    <3>1. NoneAwaited({})
      BY DEF NoneAwaited
    <3>2. old'[w] \in Rows /\ Linked(old'[w])
      BY <1>1, <1>5 DEF IInv, Ready, OldLinked, Replacing
    <3> QED
      BY <1>1, <2>1, <2>3, <2>4, <3>1, <3>2, ImportFrame DEF Arrived, Landed
  <2>6. BinSettled'
    <3>1. \A v \in Workers : pc'[v] = "binrow" => pc[v] = "binrow" /\ slot'[v] = slot[v]
      BY <2>1, <2>3 DEF Alone
    <3> QED
      BY <1>1, <1>2, <1>3, <1>5, <3>1 DEF IInv, BinSettled, Settled
  <2>7. BinHasRoom'
    BY <1>1 DEF IInv, BinHasRoom, InBin
  <2>8. BinTold'
    <3> SUFFICES ASSUME NEW e \in Downloads \ marred, place[e] \in Slots
                 PROVE  \/ <<e, place[e]>> \in entries'
                        \/ \E v \in Workers : pc'[v] = "binrow" /\ slot'[v] = <<e, place[e]>>
      BY <1>1, <2>2 DEF BinTold, InBin
    <3>1. \/ <<e, place[e]>> \in entries
          \/ \E v \in Workers : pc[v] = "binrow" /\ slot[v] = <<e, place[e]>>
      BY DEF IInv, BinTold, InBin
    <3> QED
      BY <1>5, <2>3, <3>1 DEF Alone
  <2>9. LinksSound'
    BY <1>1, <2>5, LinksFrame
  <2>10. ItemsServed'
    BY <1>1, <1>5, <2>1, <2>2, <2>3, ServedFrame DEF Replacing, Landed, Cleared
  <2> QED
    BY <2>3, <2>5, <2>6, <2>7, <2>8, <2>9, <2>10, ImportStands
<1> QED
  BY <1>1, <1>4, <1>5 DEF RecycleRow

(* Whom an import takes its link from gets another one: its file is to come,  *)
(* or it is in and about to be linked.                                       *)
LEMMA UnlinkServed ==
    ASSUME IInv, NEW w \in Workers, Alone(w), UNCHANGED <<place, marred>>,
           pc[w] \in {"unlink", "delrow"}, pc'[w] \in {"delrow", "move"},
           job'[w] = job[w], pc'[w] \in Replacing => old'[w] = old[w],
           links' = Unlinked(old[w])
    PROVE  ItemsServed'
<1> SUFFICES ASSUME NEW i \in Followed \ marred
             PROVE  (Served(i) /\ \A v \in Workers : Replaceable(i, v) /\ FileStays(i, v))'
  BY DEF ItemsServed, Followed
<1>1. i \in Items /\ Served(i) /\ \A v \in Workers : Replaceable(i, v) /\ FileStays(i, v)
  BY DEF IInv, Followed
<1>2. \A v \in Workers : /\ job'[v] = job[v] /\ (pc'[v] \in Landed <=> pc[v] \in Landed)
                         /\ pc[v] \in Cleared => pc'[v] \in Cleared
                         /\ pc'[v] \in Replacing => pc[v] \in Replacing /\ old'[v] = old[v]
  BY DEF Alone, Landed, Replacing, Cleared
<1>3. links'[i] = IF links[i] = old[w] THEN NoRow ELSE links[i]
  BY <1>1 DEF Unlinked
<1>4. ASSUME NEW v \in Workers PROVE Replaceable(i, v)'
  <2>1. pc[v] \in Replacing => old[v] # NoRow
    BY RowsAssumption DEF IInv, Ready
  <2> QED
    BY <1>1, <1>2, <1>3, <2>1 DEF Replaceable, Item
<1>5. ASSUME NEW v \in Workers PROVE FileStays(i, v)'
  BY <1>1, <1>2 DEF FileStays, Item
<1>6. Served(i)'
  <2>1. CASE links[i] = old[w]
    <3>1. Item(w) = i /\ \/ place[job[w]] = Source
                         \/ \E v \in Workers : pc[v] \in Landed /\ job[v] = job[w]
      BY <1>1, <2>1 DEF Replaceable, Replacing
    <3>2. pc'[w] \in Cleared
      BY DEF Cleared
    <3> QED
      BY <1>2, <3>1, <3>2 DEF Served, WillLink, WillMove, Item
  <2>2. CASE links[i] # old[w]
    BY <1>1, <1>2, <1>3, <2>2 DEF Served, HasFile, WillLink, WillMove, Item
  <2> QED
    BY <2>1, <2>2
<1> QED
  BY <1>4, <1>5, <1>6

LEMMA UnlinkStep == ASSUME IInv, NEW w \in Workers, Unlink(w) PROVE IInv'
<1>1. pc[w] = "unlink" /\ UNCHANGED <<place, media, entries, scanVars, cleanVars>>
  BY DEF Unlink
<1>2. CASE Fails(w, "db") /\ UNCHANGED links
  BY <1>1, <1>2, FailsStep
<1>3. CASE links' = Unlinked(old[w]) /\ Go(w, "delrow") /\ UNCHANGED <<job, old, slot, history>>
  <2>1. UNCHANGED <<spc, sjob, seen, cpc, listing, taken, faulted, marred>>
    BY <1>1, <1>3 DEF scanVars, cleanVars, history
  <2>2. pc' \in [Workers -> Steps] /\ pc'[w] = "delrow" /\ \A v \in Workers \ {w} : pc'[v] = pc[v]
    BY <1>3, GoFacts DEF Steps
  <2>3. Typed' /\ Alone(w)
    BY <1>1, <1>3, <2>1, <2>2 DEF IInv, Typed, Alone, Unlinked
  <2>4. Ready(w)'
    BY <1>1, <1>3, <2>2 DEF IInv, Ready, Item, Replacing, Arrived, Landed
  <2>5. ImportsReady' /\ OneMover' /\ ScansWalk' /\ \A r \in Rows : Linked(r) => Linked(r)'
    <3>1. NoneAwaited({})
      BY DEF NoneAwaited
    <3>2. old'[w] \in Rows /\ Linked(old'[w])
      BY <1>1, <1>3 DEF IInv, Ready, OldLinked, Replacing
    <3> QED
      BY <1>1, <2>2, <2>3, <2>4, <3>1, <3>2, ImportFrame DEF Arrived, Landed
  <2>6. BinSettled' /\ BinHasRoom' /\ BinTold'
    BY <1>1, <2>1, <2>2, <2>3, BinFrame
  <2>7. LinksSound'
    BY <1>1, <1>3, <2>5 DEF IInv, Typed, LinksSound, LinkSound, Unlinked
  <2>8. ItemsServed'
    BY <1>1, <1>3, <2>1, <2>2, <2>3, UnlinkServed
  <2> QED
    BY <2>3, <2>5, <2>6, <2>7, <2>8, ImportStands
<1> QED
  BY <1>1, <1>2, <1>3 DEF Unlink

(* Nobody is about to link the row that is deleted: it was linked before.    *)
LEMMA DeleteRowStep == ASSUME IInv, NEW w \in Workers, DeleteRow(w) PROVE IInv'
<1>1. pc[w] = "delrow" /\ UNCHANGED <<place, entries, scanVars, cleanVars>>
  BY DEF DeleteRow
<1>2. CASE Fails(w, "db") /\ UNCHANGED <<media, links>>
  BY <1>1, <1>2, FailsStep
<1>3. CASE /\ media' = media \ {old[w]} /\ links' = Unlinked(old[w]) /\ Go(w, "move")
           /\ old' = [old EXCEPT ![w] = NoRow] /\ UNCHANGED <<job, slot, history>>
  <2>1. UNCHANGED <<spc, sjob, seen, cpc, listing, taken, faulted, marred>>
    BY <1>1, <1>3 DEF scanVars, cleanVars, history
  <2>2. pc' \in [Workers -> Steps] /\ pc'[w] = "move" /\ \A v \in Workers \ {w} : pc'[v] = pc[v]
    BY <1>3, GoFacts DEF Steps
  <2>3. PICK r \in Rows : r = old[w] /\ Linked(r)
    BY <1>1 DEF IInv, Ready, OldLinked, Replacing
  <2>4. Typed' /\ Alone(w)
    BY <1>1, <1>3, <2>1, <2>2 DEF IInv, Typed, Alone, Unlinked
  <2>5. Ready(w)'
    BY <1>1, <1>3, <2>2 DEF IInv, Ready, Item, Replacing, Arrived, Landed
  <2>6. NoneAwaited({r})
    BY <2>3, RowsAssumption DEF NoneAwaited, Linked, Landed
  <2>7. ImportsReady' /\ OneMover' /\ ScansWalk' /\ \A q \in Rows : Linked(q) => Linked(q)'
    BY <1>1, <1>3, <2>2, <2>3, <2>4, <2>5, <2>6, ImportFrame DEF Arrived, Landed, Replacing
  <2>8. BinSettled' /\ BinHasRoom' /\ BinTold'
    BY <1>1, <2>1, <2>2, <2>4, BinFrame
  <2>9. LinksSound'
    BY <1>3, <2>7 DEF IInv, Typed, LinksSound, LinkSound, Unlinked
  <2>10. ItemsServed'
    BY <1>1, <1>3, <2>1, <2>2, <2>4, UnlinkServed DEF Replacing
  <2> QED
    BY <2>4, <2>7, <2>8, <2>9, <2>10, ImportStands
<1> QED
  BY <1>1, <1>2, <1>3 DEF DeleteRow

LEMMA MoveInStep == ASSUME IInv, NEW w \in Workers, MoveIn(w) PROVE IInv'
<1> USE PlacesApart
<1>1. pc[w] = "move" /\ UNCHANGED <<media, links, entries, scanVars, cleanVars>>
  BY DEF MoveIn
<1>2. CASE Fails(w, "fs") /\ UNCHANGED place
  BY <1>1, <1>2, FailsStep
<1>3. CASE place[job[w]] # Source /\ Leave(w) /\ UNCHANGED <<place, history>>
  <2>1. UNCHANGED <<faulted, marred>>
    BY <1>3 DEF history
  <2>2. faulted' \in 0..MaxFaults /\ marred' \subseteq Items \cup Downloads
    BY <2>1 DEF IInv, Typed
  <2> QED
    BY <1>1, <1>3, <2>1, <2>2, LeaveStep
<1>4. CASE /\ place[job[w]] = Source
           /\ place' = Moved(job[w], Library, OnDisk(Path(job[w])))
           /\ marred' = IF OnDisk(Path(job[w])) = {} THEN marred ELSE marred \cup {Item(w)}
           /\ Go(w, "insert") /\ UNCHANGED <<faulted, job, old, slot>>
  <2>1. UNCHANGED <<spc, sjob, seen, cpc, listing, taken>>
    BY <1>1 DEF scanVars, cleanVars
  <2>2. pc' \in [Workers -> Steps] /\ pc'[w] = "insert" /\ \A v \in Workers \ {w} : pc'[v] = pc[v]
    BY <1>4, GoFacts DEF Steps
  <2>3. PICK d \in Downloads : d = job[w]
    BY <1>1 DEF IInv, Ready
  <2>4. /\ place' \in [Downloads -> {Source, Library, Gone} \cup Slots]
        /\ place[d] = Source /\ place'[d] = Library
        /\ \A e \in Downloads \ {d} :
              place'[e] = place[e] \/ (e \in OnDisk(Path(d)) /\ place'[e] = Gone)
    BY <1>4, <2>3 DEF IInv, Typed, Moved
  <2>5. \A e \in OnDisk(Path(d)) : /\ e \in Downloads /\ place[e] = Library
                                   /\ ItemOf[e] = ItemOf[d] /\ ItemOf[e] \in marred'
    BY <1>4, <2>3, SamePath DEF OnDisk, Item
  <2>6. Item(w) = ItemOf[d] /\ ItemOf[d] \in Items
    BY <2>3, DownloadsAssumption DEF Item
  <2>7. marred \subseteq marred' /\ marred' \subseteq Items \cup Downloads
    BY <1>4, <2>6 DEF IInv, Typed
  <2>8. Typed' /\ Alone(w)
    BY <1>1, <1>4, <2>1, <2>2, <2>4, <2>7 DEF IInv, Typed, Alone
  <2>9. Ready(w)'
    BY <1>1, <1>4, <2>2, <2>3, <2>4 DEF IInv, Ready, Item, Replacing, Arrived, Landed
  <2>10. ImportsReady' /\ OneMover' /\ ScansWalk' /\ \A r \in Rows : Linked(r) => Linked(r)'
    <3>1. NoneAwaited({})
      BY DEF NoneAwaited
    <3>2. \A e \in Downloads : place[e] # Source => place'[e] # Source
      BY <2>4
    <3> QED
      BY <1>1, <1>4, <2>2, <2>8, <2>9, <3>1, <3>2, ImportFrame DEF Replacing
  <2>11. BinSettled' /\ BinHasRoom' /\ BinTold'
    <3>1. \A e \in Downloads :
             \/ place'[e] = place[e]
             \/ place[e] # Gone /\ place'[e] \notin Slots /\ (InBin(e) => place'[e] = Gone)
      BY <2>4, <2>5 DEF InBin
    <3> QED
      BY <1>1, <2>2, <2>7, <2>8, <3>1, BinFrame
  <2>12. LinksSound'
    BY <1>1, <2>10, LinksFrame
  <2>13. ItemsServed'
    <3> SUFFICES ASSUME NEW i \in Followed \ marred'
                 PROVE  (Served(i) /\ \A v \in Workers : Replaceable(i, v) /\ FileStays(i, v))'
      BY DEF ItemsServed, Followed
    <3>1. i \in Items /\ Served(i) /\ \A v \in Workers : Replaceable(i, v) /\ FileStays(i, v)
      BY <2>7 DEF IInv, Followed
    <3>2. \A v \in Workers : /\ job'[v] = job[v]
                             /\ pc'[v] \in Landed <=> (pc[v] \in Landed \/ v = w)
                             /\ pc'[v] \in Replacing => pc[v] \in Replacing /\ old'[v] = old[v]
      BY <1>1, <1>4, <2>2 DEF Landed, Replacing
    <3>3. \A e \in Downloads : ItemOf[e] = i /\ place[e] = Library => place'[e] = Library
      BY <2>4, <2>5
    <3>4. \A e \in Downloads \ {d} : place[e] = Source <=> place'[e] = Source
      BY <2>4, <2>5
    <3>5. \A v \in Workers : pc[v] # "idle" => job[v] \in Downloads
      BY DEF IInv, Ready
    <3>6. ASSUME NEW v \in Workers PROVE Replaceable(i, v)'
      <4> SUFFICES ASSUME pc[v] \in Replacing, old[v] = links[i]
                   PROVE  /\ Item(v) = i
                          /\ \/ place'[job[v]] = Source
                             \/ \E u \in Workers : pc'[u] \in Landed /\ job'[u] = job[v]
        BY <1>1, <3>2 DEF Replaceable, Item
      <4>1. job[v] \in Downloads
        BY <3>5 DEF Replacing
      <4> QED
        BY <2>3, <3>1, <3>2, <3>4, <4>1 DEF Replaceable
    <3>7. ASSUME NEW v \in Workers PROVE FileStays(i, v)'
      <4>1. pc[v] \in Landed => job[v] \in Downloads
        BY <3>5 DEF Landed
      <4> QED
        BY <2>3, <2>4, <3>1, <3>2, <3>3, <4>1 DEF FileStays, Item
    <3>8. Served(i)'
      <4>1. CASE Item(w) = i
        BY <2>2, <3>2, <4>1 DEF Served, WillLink, Item, Landed
      <4>2. CASE Item(w) # i
        <5>1. WillLink(i) => WillLink(i)'
          BY <3>2 DEF WillLink, Item
        <5>2. WillMove(i) => WillMove(i)'
          <6> SUFFICES ASSUME NEW v \in Workers, pc[v] \in Cleared, Item(v) = i,
                              place[job[v]] = Source
                       PROVE  pc'[v] \in Cleared /\ place'[job[v]] = Source
            BY <3>2 DEF WillMove, Item
          <6>1. job[v] \in Downloads \ {d} /\ v # w
            BY <2>3, <3>5, <4>2 DEF Item, Cleared
          <6> QED
            BY <2>2, <3>4, <6>1
        <5>3. HasFile(i) => HasFile(i)'
          <6>1. HasFile(i) => links[i][2] \in Downloads /\ ItemOf[links[i][2]] = i
            BY <3>1 DEF IInv, Typed, LinkSound, HasFile, Rows, Covers, Followed
          <6> QED
            BY <1>1, <3>3, <6>1 DEF HasFile
        <5>4. \A e \in Downloads : ItemOf[e] = i /\ place'[e] # Source => place[e] # Source
          BY <2>6, <3>4, <4>2
        <5> QED
          BY <3>1, <5>1, <5>2, <5>3, <5>4 DEF Served
      <4> QED
        BY <4>1, <4>2
    <3> QED
      BY <3>6, <3>7, <3>8
  <2> QED
    BY <2>8, <2>10, <2>11, <2>12, <2>13, ImportStands
<1> QED
  BY <1>1, <1>2, <1>3, <1>4 DEF MoveIn

LEMMA InsertRowStep == ASSUME IInv, NEW w \in Workers, InsertRow(w) PROVE IInv'
<1>1. pc[w] = "insert" /\ UNCHANGED <<place, links, entries, scanVars, cleanVars>>
  BY DEF InsertRow
<1>2. CASE Fails(w, "db") /\ UNCHANGED media
  BY <1>1, <1>2, FailsStep
<1>3. CASE /\ media' = media \cup {<<"import", job[w]>>} /\ Go(w, "link")
           /\ UNCHANGED <<job, old, slot, history>>
  <2>1. UNCHANGED <<spc, sjob, seen, cpc, listing, taken, faulted, marred>>
    BY <1>1, <1>3 DEF scanVars, cleanVars, history
  <2>2. pc' \in [Workers -> Steps] /\ pc'[w] = "link" /\ \A v \in Workers \ {w} : pc'[v] = pc[v]
    BY <1>3, GoFacts DEF Steps
  <2>3. PICK d \in Downloads : d = job[w]
    BY <1>1 DEF IInv, Ready
  <2>4. media' \subseteq Rows /\ media \subseteq media' /\ <<"import", d>> \in media'
    BY <1>3, <2>3 DEF IInv, Typed, Rows
  <2>5. Typed' /\ Alone(w)
    BY <1>1, <1>3, <2>1, <2>2, <2>4 DEF IInv, Typed, Alone
  <2>6. Ready(w)'
    BY <1>1, <1>3, <2>2, <2>3, <2>4 DEF IInv, Ready, Replacing, Arrived, Landed
  <2>7. ImportsReady' /\ OneMover' /\ ScansWalk' /\ \A r \in Rows : Linked(r) => Linked(r)'
    <3>1. NoneAwaited({})
      BY DEF NoneAwaited
    <3> QED
      BY <1>1, <1>3, <2>2, <2>4, <2>5, <2>6, <3>1, ImportFrame DEF Arrived, Landed, Replacing
  <2>8. BinSettled' /\ BinHasRoom' /\ BinTold'
    BY <1>1, <2>1, <2>2, <2>5, BinFrame
  <2>9. LinksSound'
    BY <1>1, <2>4, <2>7, LinksFrame
  <2>10. ItemsServed'
    BY <1>1, <1>3, <2>1, <2>2, <2>5, ServedFrame DEF Replacing, Landed, Cleared
  <2> QED
    BY <2>5, <2>7, <2>8, <2>9, <2>10, ImportStands
<1> QED
  BY <1>1, <1>2, <1>3 DEF InsertRow

(* The item gets a row that nobody has seen in a link before, and that no     *)
(* import can be about to replace.                                           *)
LEMMA LinkStep == ASSUME IInv, NEW w \in Workers, Link(w) PROVE IInv'
<1>1. pc[w] = "link" /\ UNCHANGED <<place, media, entries, scanVars, cleanVars>>
  BY DEF Link
<1>2. CASE Fails(w, "db") /\ UNCHANGED links
  BY <1>1, <1>2, FailsStep
<1>3. CASE /\ links' = [links EXCEPT ![Item(w)] = <<"import", job[w]>>]
           /\ IF Extras[job[w]] = {} THEN Leave(w)
                                     ELSE Go(w, "extras") /\ UNCHANGED <<job, old, slot>>
           /\ UNCHANGED history
  <2>1. UNCHANGED <<spc, sjob, seen, cpc, listing, taken, faulted, marred>>
    BY <1>1, <1>3 DEF scanVars, cleanVars, history
  <2>2. PICK d \in Downloads : d = job[w]
    BY <1>1 DEF IInv, Ready
  <2>3. PICK r \in Rows : r = <<"import", d>>
    BY DEF Rows
  <2>4. /\ pc' \in [Workers -> Steps] /\ pc'[w] \in {"extras", "idle"}
        /\ pc'[w] = "extras" => job'[w] = d
        /\ pc'[w] = "idle" => job'[w] = NoDownload
        /\ \A v \in Workers \ {w} : pc'[v] = pc[v]
    <3>1. CASE Leave(w)
      BY <3>1 DEF Leave, Go, IInv, Typed, Steps
    <3>2. CASE Go(w, "extras") /\ UNCHANGED <<job, old, slot>>
      BY <2>2, <3>2, GoFacts DEF Steps
    <3> QED
      BY <1>3, <3>1, <3>2
  <2>5. /\ \A v \in Workers \ {w} : job'[v] = job[v] /\ old'[v] = old[v] /\ slot'[v] = slot[v]
        /\ job' \in [Workers -> Downloads \cup {NoDownload}]
        /\ old' \in [Workers -> Rows \cup {NoRow}]
        /\ slot' \in [Workers -> ((Downloads \cup {NoDownload}) \X Slots) \cup {NoRow}]
    BY <1>3 DEF Leave, IInv, Typed
  <2>6. Item(w) = ItemOf[d] /\ ItemOf[d] \in Items /\ ItemOf[d] \in Covers(d)
    BY <2>2, DownloadsAssumption DEF Item, Covers
  <2>7. /\ links' \in [Items -> Rows \cup {NoRow}] /\ links'[ItemOf[d]] = r
        /\ \A i \in Items \ {ItemOf[d]} : links'[i] = links[i]
    BY <1>3, <2>2, <2>3, <2>6 DEF IInv, Typed
  <2>8. r \in media /\ r[1] = "import" /\ r[2] = d /\ place[d] # Source
    BY <1>1, <2>2, <2>3 DEF IInv, Ready, Arrived, Landed
  <2>9. Typed' /\ Alone(w)
    BY <1>1, <2>1, <2>4, <2>5, <2>7 DEF IInv, Typed, Alone
  <2>10. Ready(w)'
    BY <1>1, <2>2, <2>4, <2>8 DEF Ready, Replacing, Arrived, Landed
  <2>11. ImportsReady' /\ OneMover' /\ ScansWalk' /\ \A q \in Rows : Linked(q) => Linked(q)'
    <3>1. NoneAwaited({})
      BY DEF NoneAwaited
    <3> QED
      BY <1>1, <2>2, <2>4, <2>9, <2>10, <3>1, ImportFrame DEF Arrived, Landed, Replacing
  <2>12. BinSettled' /\ BinHasRoom' /\ BinTold'
    BY <1>1, <2>1, <2>4, <2>9, BinFrame
  <2>13. ~Linked(r)
    BY <1>1, <2>2, <2>8 DEF Linked, Landed
  <2>14. Linked(r)'
    <3>1. \A v \in Workers \ {w} : pc[v] \in Landed => job[v] # d
      BY <1>1, <2>2 DEF IInv, OneMover, Arrived, Landed
    <3> QED
      BY <1>1, <2>4, <2>5, <2>8, <3>1 DEF Linked, Landed
  <2>15. LinksSound'
    BY <1>1, <2>3, <2>6, <2>7, <2>8, <2>11, <2>14 DEF IInv, Typed, LinksSound, LinkSound
  <2>16. ItemsServed'
    <3> SUFFICES ASSUME NEW i \in Followed \ marred
                 PROVE  (Served(i) /\ \A v \in Workers : Replaceable(i, v) /\ FileStays(i, v))'
      BY <2>1 DEF ItemsServed, Followed
    <3>1. i \in Items /\ Served(i) /\ \A v \in Workers : Replaceable(i, v) /\ FileStays(i, v)
      BY DEF IInv, Followed
    <3>2. /\ \A v \in Workers : pc'[v] \in Landed => v # w
          /\ \A v \in Workers : pc'[v] \in Replacing => v # w
          /\ \A v \in Workers : pc[v] \in Cleared => v # w
      BY <1>1, <2>4 DEF Landed, Replacing, Cleared
    <3>3. \A v \in Workers : FileStays(i, v)'
      BY <1>1, <2>4, <2>5, <3>1, <3>2 DEF FileStays, Item
    <3>4. CASE i = ItemOf[d]
      <4>1. place[d] = Library
        BY <1>1, <2>2, <2>6, <3>1, <3>4 DEF FileStays, Landed
      <4>2. Served(i)'
        BY <1>1, <2>7, <2>8, <3>4, <4>1, RowsAssumption DEF Served, HasFile
      <4>3. \A v \in Workers : Replaceable(i, v)'
        <5>1. \A v \in Workers : pc[v] \in Replacing => old[v] # r
          BY <2>13 DEF IInv, OldLinked
        <5> QED
          BY <2>4, <2>5, <2>7, <3>2, <3>4, <5>1 DEF Replaceable
      <4> QED
        BY <3>3, <4>2, <4>3
    <3>5. CASE i # ItemOf[d]
      <4>1. links'[i] = links[i]
        BY <2>7, <3>1, <3>5
      <4>2. \A v \in Workers : pc[v] \in Landed /\ Item(v) = i => v # w
        BY <2>6, <3>5
      <4>3. Served(i)'
        <5>1. HasFile(i) => HasFile(i)'
          BY <1>1, <4>1 DEF HasFile
        <5>2. WillLink(i) => WillLink(i)'
          BY <2>4, <2>5, <4>2 DEF WillLink, Item
        <5>3. WillMove(i) => WillMove(i)'
          BY <1>1, <2>4, <2>5, <3>2 DEF WillMove, Item
        <5> QED
          BY <1>1, <3>1, <5>1, <5>2, <5>3 DEF Served
      <4>4. ASSUME NEW v \in Workers PROVE Replaceable(i, v)'
        <5> SUFFICES ASSUME v # w, pc[v] \in Replacing, old[v] = links[i]
                     PROVE  /\ ItemOf[job[v]] = i
                            /\ \/ place[job[v]] = Source
                               \/ \E u \in Workers : pc'[u] \in Landed /\ job'[u] = job[v]
          BY <1>1, <2>4, <2>5, <3>2, <4>1 DEF Replaceable, Item
        <5> QED
          BY <2>4, <2>5, <3>1, <4>2 DEF Replaceable, Item
      <4> QED
        BY <3>3, <4>3, <4>4
    <3> QED
      BY <3>4, <3>5
  <2> QED
    BY <2>9, <2>11, <2>12, <2>15, <2>16, ImportStands
<1> QED
  BY <1>1, <1>2, <1>3 DEF Link

(* Followed items are not among the further episodes. *)
LEMMA LinkExtrasStep == ASSUME IInv, NEW w \in Workers, LinkExtras(w) PROVE IInv'
<1>1. pc[w] = "extras" /\ UNCHANGED <<place, media, entries, scanVars, cleanVars>>
  BY DEF LinkExtras
<1>2. CASE Fails(w, "db") /\ UNCHANGED links
  BY <1>1, <1>2, FailsStep
<1>3. CASE /\ links' = IF <<"import", job[w]>> \in media
                       THEN Filled(Extras[job[w]], <<"import", job[w]>>) ELSE links
           /\ Leave(w) /\ UNCHANGED history
  <2>1. UNCHANGED <<spc, sjob, seen, cpc, listing, taken, faulted, marred>>
    BY <1>1, <1>3 DEF scanVars, cleanVars, history
  <2>2. PICK d \in Downloads : d = job[w]
    BY <1>1 DEF IInv, Ready
  <2>3. PICK r \in Rows : r = <<"import", d>>
    BY DEF Rows
  <2>4. /\ pc' \in [Workers -> Steps] /\ pc'[w] = "idle" /\ job'[w] = NoDownload
        /\ \A v \in Workers \ {w} : pc'[v] = pc[v]
    BY <1>3 DEF Leave, Go, IInv, Typed, Steps
  <2>5. /\ \A v \in Workers \ {w} : job'[v] = job[v] /\ old'[v] = old[v] /\ slot'[v] = slot[v]
        /\ job' \in [Workers -> Downloads \cup {NoDownload}]
        /\ old' \in [Workers -> Rows \cup {NoRow}]
        /\ slot' \in [Workers -> ((Downloads \cup {NoDownload}) \X Slots) \cup {NoRow}]
    BY <1>3 DEF Leave, IInv, Typed
  <2>6. /\ links' \in [Items -> Rows \cup {NoRow}]
        /\ \A i \in Items : \/ links'[i] = links[i]
                            \/ i \in Extras[d] /\ links'[i] = r /\ r \in media
    BY <1>3, <2>2, <2>3 DEF IInv, Typed, Filled
  <2>7. Typed' /\ Alone(w)
    BY <1>1, <2>1, <2>4, <2>5, <2>6 DEF IInv, Typed, Alone
  <2>8. Ready(w)'
    BY <2>4 DEF Ready, Replacing, Arrived, Landed
  <2>9. ImportsReady' /\ OneMover' /\ ScansWalk' /\ \A q \in Rows : Linked(q) => Linked(q)'
    <3>1. NoneAwaited({})
      BY DEF NoneAwaited
    <3> QED
      BY <1>1, <2>4, <2>7, <2>8, <3>1, ImportFrame DEF Arrived, Landed, Replacing
  <2>10. BinSettled' /\ BinHasRoom' /\ BinTold'
    BY <1>1, <2>1, <2>4, <2>7, BinFrame
  <2>11. Linked(r)
    <3>1. \A v \in Workers : pc[v] \in Landed => job[v] # d
      BY <1>1, <2>2 DEF IInv, OneMover, Arrived, Landed
    <3>2. place[d] # Source
      BY <1>1, <2>2 DEF IInv, Ready, Arrived
    <3> QED
      BY <2>3, <3>1, <3>2 DEF Linked
  <2>12. LinksSound'
    <3> SUFFICES ASSUME NEW i \in Items
                 PROVE  LinkSound(i)'
      BY DEF LinksSound
    <3>1. CASE links'[i] = links[i]
      <4>1. LinkSound(i) /\ (links[i] # NoRow => links[i] \in Rows)
        BY DEF IInv, Typed
      <4> QED
        BY <1>1, <2>9, <3>1, <4>1 DEF LinkSound
    <3>2. CASE i \in Extras[d] /\ links'[i] = r /\ r \in media
      <4>1. Linked(r)' /\ r[2] = d
        BY <2>3, <2>9, <2>11
      <4> QED
        BY <1>1, <3>2, <4>1 DEF LinkSound, Covers
    <3> QED
      BY <2>6, <3>1, <3>2
  <2>13. ItemsServed'
    <3> SUFFICES ASSUME NEW i \in Followed \ marred
                 PROVE  (Served(i) /\ \A v \in Workers : Replaceable(i, v) /\ FileStays(i, v))'
      BY <2>1 DEF ItemsServed, Followed
    <3>1. i \in Items /\ Served(i) /\ \A v \in Workers : Replaceable(i, v) /\ FileStays(i, v)
      BY DEF IInv, Followed
    <3>2. links'[i] = links[i]
      BY <2>6 DEF Followed
    <3>3. \A v \in Workers : \/ pc'[v] = pc[v] /\ job'[v] = job[v] /\ old'[v] = old[v]
                             \/ v = w
      BY <2>4, <2>5
    <3>4. /\ pc[w] \notin Landed /\ pc[w] \notin Cleared /\ pc[w] \notin Replacing
          /\ pc'[w] \notin Landed /\ pc'[w] \notin Cleared /\ pc'[w] \notin Replacing
      BY <1>1, <2>4 DEF Landed, Cleared, Replacing
    <3>5. Served(i)'
      BY <1>1, <3>1, <3>2, <3>3, <3>4 DEF Served, HasFile, WillLink, WillMove, Item
    <3>6. ASSUME NEW v \in Workers PROVE (Replaceable(i, v) /\ FileStays(i, v))'
      BY <1>1, <3>1, <3>2, <3>3, <3>4 DEF Replaceable, FileStays, Item
    <3> QED
      BY <3>5, <3>6
  <2> QED
    BY <2>7, <2>9, <2>10, <2>12, <2>13, ImportStands
<1> QED
  BY <1>1, <1>2, <1>3 DEF LinkExtras

LEMMA ImportStepInv == ASSUME IInv, NEW w \in Workers, ImportStep(w) PROVE IInv'
BY RemoveOldStep, RecycleProbeStep, RecycleMoveStep, RecycleRowStep, UnlinkStep, DeleteRowStep,
   MoveInStep, InsertRowStep, LinkStep, LinkExtrasStep DEF ImportStep

-----------------------------------------------------------------------------
(* The process dies *)

(* The items of the imports that were under way are marred, and every other   *)
(* one has its file.                                                         *)
LEMMA CrashStep == ASSUME IInv, Crash PROVE IInv'
<1> USE PlacesApart
<1>1. /\ UNCHANGED <<place, media, links, entries>>
      /\ pc' = [w \in Workers |-> "idle"] /\ job' = [w \in Workers |-> NoDownload]
      /\ old' = [w \in Workers |-> NoRow] /\ slot' = [w \in Workers |-> NoRow]
      /\ spc' = [s \in Scanners |-> IF spc[s] = "idle" THEN "idle" ELSE "over"]
      /\ sjob' = [s \in Scanners |-> NoDownload] /\ seen' = [s \in Scanners |-> {}]
      /\ cpc' = [c \in Cleaners |-> "idle"]
      /\ listing' = [c \in Cleaners |-> {}] /\ taken' = [c \in Cleaners |-> {}]
  BY DEF Crash
<1>2. /\ marred' = marred \cup {Item(w) : w \in Busy}
                          \cup {slot[w][1] : w \in {v \in Busy : pc[v] = "binrow"}}
      /\ faulted' \in 0..MaxFaults
  BY ProfileAssumption DEF Crash, Fault, IInv, Typed
<1>3. marred' \subseteq Items \cup Downloads
  <2>1. \A w \in Busy : Item(w) \in Items
    BY DownloadsAssumption DEF Busy, Item, IInv, Ready
  <2>2. \A w \in Workers : pc[w] = "binrow" => slot[w][1] \in Downloads
    BY DEF IInv, Ready
  <2> QED
    BY <1>2, <2>1, <2>2 DEF IInv, Typed, Busy
<1>4. Typed'
  BY <1>1, <1>2, <1>3 DEF IInv, Typed, Steps
<1>5. \A w \in Workers : pc'[w] = "idle" /\ job'[w] = NoDownload
  BY <1>1
<1>6. ImportsReady' /\ OneMover'
  BY <1>5 DEF ImportsReady, Ready, OldLinked, OneMover, Replacing, Arrived, Landed
<1>7. \A s \in Scanners : /\ spc'[s] \in {"idle", "over"} /\ seen'[s] = {}
                          /\ spc[s] # "idle" => spc'[s] = "over"
  BY <1>1
<1>8. ScansWalk'
  BY <1>7 DEF ScansWalk, Walking, Landed
<1>9. ASSUME NEW r \in Rows, Linked(r) PROVE Linked(r)'
  <2>1. CASE r[1] = "import"
    BY <1>1, <1>5, <1>9, <2>1 DEF Linked, Landed
  <2>2. CASE r[1] # "import"
    <3>1. PICK s \in Scanners : s = r[1]
      BY <2>2 DEF Rows
    <3>2. spc[s] # "idle"
      BY <1>9, <2>2, <3>1 DEF Linked, IInv, Walking
    <3> QED
      BY <1>7, <2>2, <3>1, <3>2 DEF Linked, Landed
  <2> QED
    BY <2>1, <2>2
<1>10. LinksSound'
  BY <1>1, <1>9, LinksFrame
<1>11. BinSettled' /\ BinHasRoom'
  BY <1>1, <1>5 DEF IInv, BinSettled, BinHasRoom, InBin, Settled
<1>12. BinTold'
  <2> SUFFICES ASSUME NEW d \in Downloads \ marred', InBin(d)
               PROVE  <<d, place[d]>> \in entries
    BY <1>1 DEF BinTold, InBin
  <2>1. ASSUME NEW w \in Workers, pc[w] = "binrow", slot[w] = <<d, place[d]>> PROVE FALSE
    <3>1. w \in Busy /\ slot[w][1] = d
      BY <2>1 DEF Busy
    <3> QED
      BY <1>2, <2>1, <3>1
  <2> QED
    BY <1>2, <2>1 DEF IInv, BinTold
<1>13. ItemsServed'
  <2> SUFFICES ASSUME NEW i \in Followed \ marred'
               PROVE  (Served(i) /\ \A w \in Workers : Replaceable(i, w) /\ FileStays(i, w))'
    BY DEF ItemsServed, Followed
  <2>1. i \in Items /\ Served(i)
    BY <1>2 DEF IInv, Followed
  <2>2. \A w \in Workers : Item(w) = i => pc[w] = "idle"
    BY <1>2 DEF Busy
  <2>3. Served(i)'
    BY <1>1, <2>1, <2>2 DEF Served, HasFile, WillLink, WillMove, Landed, Cleared
  <2> QED
    BY <1>5, <2>3 DEF Replaceable, FileStays, Replacing, Landed
<1> QED
  BY <1>4, <1>6, <1>8, <1>10, <1>11, <1>12, <1>13, ImportStands

LEMMA StutterStep == ASSUME IInv, UNCHANGED vars PROVE IInv'
<1>1. UNCHANGED <<place, media, links, entries, importVars, scanVars, cleanVars, history>>
  BY DEF vars
<1>2. UNCHANGED <<pc, job, old, slot, spc, sjob, seen, cpc, listing, taken, faulted, marred>>
  BY <1>1 DEF importVars, scanVars, cleanVars, history
<1>3. Typed' /\ ScansWalk' /\ \A r \in Rows : Linked(r) => Linked(r)'
  BY <1>1, <1>2 DEF IInv, Typed, ScansWalk, Walking, Linked
<1> QED
  BY <1>1, <1>2, <1>3, ScanStands

LEMMA NextStep == ASSUME IInv, [Next]_vars PROVE IInv'
BY ImportStepInv, ImportStartStep, ScanStep, CleanStep, CrashStep, StutterStep DEF Next

LEMMA Inductive == Spec => []IInv
<1>1. IInv /\ [Next]_vars => IInv'
  BY NextStep
<1> QED
  BY InitInv, <1>1, PTL DEF Spec

-----------------------------------------------------------------------------
(* What follows from the invariant *)

(* The variables have their types, and a link names a row that is there: no   *)
(* link outlives the media_files row it refers to.                           *)
THEOREM TypeCorrect == Spec => []TypeOK
<1>1. ASSUME IInv PROVE TypeOK
  <2>1. links \in [Items -> media \cup {NoRow}]
    BY <1>1 DEF IInv, Typed, LinkSound
  <2> QED
    BY <1>1, <2>1 DEF IInv, Typed, TypeOK
<1> QED
  BY <1>1, Inductive, PTL

(* An item whose import moved a file in has a link to a file that is there    *)
(* once its imports are over, however many run at once and whatever the scans *)
(* and cleaners do meanwhile; those that an error or another import's file    *)
(* crossed are named in marred.                                              *)
THEOREM ItemsKeepFiles == Spec => []ItemKeepsFile
<1>1. ASSUME IInv PROVE ItemKeepsFile
  <2> SUFFICES ASSUME NEW i \in Followed \ marred, \A w \in Busy : Item(w) # i,
                      \E d \in Downloads : ItemOf[d] = i /\ place[d] # Source
               PROVE  links[i] # NoRow /\ Resolves(links[i])
    BY DEF ItemKeepsFile
  <2>1. i \in Items /\ Served(i)
    BY <1>1 DEF IInv, Followed
  <2>2. ~WillLink(i) /\ ~WillMove(i)
    BY DEF WillLink, WillMove, Busy, Landed, Cleared
  <2>3. HasFile(i)
    BY <2>1, <2>2 DEF Served
  <2>4. links[i][2] \in Downloads
    BY <1>1, <2>1, <2>3 DEF IInv, Typed, HasFile, Rows
  <2> QED
    BY <2>3, <2>4 DEF HasFile, Resolves, OnDisk
<1> QED
  BY <1>1, Inductive, PTL

(* A file in the bin has its recycle_bin row, or the import that moved it     *)
(* there is about to insert the row.                                         *)
THEOREM BinListed == Spec => []BinIsListed
<1>1. ASSUME IInv PROVE BinIsListed
  BY <1>1 DEF IInv, BinTold, BinIsListed
<1> QED
  BY <1>1, Inductive, PTL

(* An import that takes a file out of the library is one of an item of that    *)
(* file's path, for a release that is at least as good.                      *)
Superseded(d) ==
    \E w \in Busy, e \in Downloads :
        /\ Path(e) = Path(d) /\ Item(w) \in Covers(e)
        /\ QualityOf[job[w]] >= QualityOf[d]

LEMMA ReplacedIsWorse ==
    ASSUME IInv, NEW w \in Workers, pc[w] \in Replacing, NEW d \in OldFiles(w)
    PROVE  Superseded(d)
<1>1. /\ d \in Downloads /\ Path(d) = Path(old[w][2]) /\ QualityOf[d] < QualityOf[job[w]]
      /\ Item(w) \in Covers(old[w][2])
  BY OldFileFacts
<1>2. old[w][2] \in Downloads /\ job[w] \in Downloads /\ w \in Busy
  BY DEF IInv, Ready, Rows, Replacing, Busy
<1>3. QualityOf[d] \in Nat /\ QualityOf[job[w]] \in Nat
  BY <1>1, <1>2, DownloadsAssumption
<1> QED
  BY <1>1, <1>2, <1>3 DEF Superseded

LEMMA ImportSupersedes ==
    ASSUME IInv, NEW w \in Workers, ImportStep(w),
           NEW d \in Downloads, place[d] = Library, place'[d] # Library
    PROVE  Superseded(d)
<1> USE PlacesApart
<1>1. CASE RemoveOld(w)
  <2>1. d \in OldFiles(w)
    BY <1>1 DEF RemoveOld, Fails
  <2> QED
    BY <1>1, <2>1, ReplacedIsWorse DEF RemoveOld, Replacing
<1>2. CASE RecycleMove(w)
  <2>1. slot[w][2] \in Slots /\ pc[w] \in Replacing
    BY <1>2 DEF RecycleMove, IInv, Ready, Replacing
  <2>2. PICK e \in OldFiles(w) : place' = Moved(e, slot[w][2], AtSlot(slot[w][2]))
    BY <1>2 DEF RecycleMove, Fails, Leave
  <2>3. d = e
    BY <2>1, <2>2 DEF Moved, AtSlot
  <2> QED
    BY <2>1, <2>2, <2>3, ReplacedIsWorse
<1>3. CASE MoveIn(w)
  <2>1. PICK e \in Downloads : e = job[w]
    BY <1>3 DEF MoveIn, IInv, Ready
  <2>2. Path(d) = Path(e)
    BY <1>3, <2>1 DEF MoveIn, Moved, OnDisk
  <2>3. QualityOf[d] = QualityOf[e] /\ QualityOf[d] \in Nat
    BY <2>2, SamePath, DownloadsAssumption
  <2>4. w \in Busy /\ Item(w) \in Covers(e)
    BY <1>3, <2>1 DEF MoveIn, Busy, Item, Covers
  <2> QED
    BY <2>1, <2>2, <2>3, <2>4 DEF Superseded
<1> QED
  BY <1>1, <1>2, <1>3 DEF ImportStep, RecycleProbe, RecycleRow, Unlink, DeleteRow, InsertRow,
                          Link, LinkExtras

(* Whatever fails and however imports, scans and cleaners overlap, a file      *)
(* leaves the library only for a release that is at least as good: the old    *)
(* file of an upgrade is looked for at its row's path, and a file that is      *)
(* found there has the rank of that name.                                    *)
THEOREM OnlyUpgrades == Spec => NeverDowngraded
<1>1. ASSUME IInv, [Next]_vars, NEW d \in Downloads, place[d] = Library, place'[d] # Library
      PROVE  Superseded(d)
  <2> USE PlacesApart
  <2>1. CASE \E w \in Workers : ImportStep(w)
    BY <1>1, <2>1, ImportSupersedes
  <2>2. CASE \E w \in Workers, e \in Downloads : ImportStart(w, e)
    BY <1>1, <2>2 DEF ImportStart
  <2>3. CASE \E s \in Scanners : Scan(s)
    BY <1>1, <2>3 DEF Scan, ScanStart, ScanFile, ScanInsert, ScanLink, ScanEnd
  <2>4. CASE \E c \in Cleaners : Clean(c)
    <3>1. PICK c \in Cleaners : Clean(c)
      BY <2>4
    <3>2. \A e \in listing[c] : e[2] \in Slots
      BY <1>1 DEF IInv, Typed
    <3>3. \A s \in Slots : place' # Removed(s)
      BY <1>1 DEF Removed
    <3> QED
      BY <1>1, <3>1, <3>2, <3>3 DEF Clean, CleanSelect, CleanFile, EmptyFile, CleanRow, CleanEnd,
                                    EmptySelect, EmptyRows
  <2>5. CASE Crash \/ UNCHANGED vars
    BY <1>1, <2>5 DEF Crash, vars
  <2> QED
    BY <1>1, <2>1, <2>2, <2>3, <2>4, <2>5 DEF Next
<1>2. IInv /\ [Next]_vars =>
        [\A d \in Downloads : place[d] = Library /\ place'[d] # Library => Superseded(d)]_vars
  BY <1>1
<1>3. Spec => [][\A d \in Downloads : place[d] = Library /\ place'[d] # Library => Superseded(d)]_vars
  BY <1>2, Inductive, PTL DEF Spec
<1> QED
  BY <1>3 DEF NeverDowngraded, Superseded
=============================================================================
