---------------------------- MODULE SearchProofs ----------------------------
(***************************************************************************)
(* Proofs about searches.  SearchGrab, for any profiles and releases: a    *)
(* profile that is in the order of the quality numbers is one in which the *)
(* decision engine, which ranks, and the import, which compares numbers,   *)
(* agree.  In the second part SearchTasks, for any number of slots, kinds  *)
(* of command, items, panics and faults.                                   *)
(***************************************************************************)
EXTENDS SearchGrab, SearchTasks, FiniteSetTheorems, SequenceTheorems,
        WellFoundedInduction, TLAPS

(* The quality in the name of a release's file is the one in its title.     *)
HonestNames == \A rel \in Offered : rel.fileQuality = rel.quality

-----------------------------------------------------------------------------
(* Profiles *)

LEMMA LastOfOne ==
    ASSUME NEW S, NEW k \in S, k \in Int, \A j \in S : j = k
    PROVE  Last(S) = k
<1>1. \A j \in S : j <= k
  OBVIOUS
<1>2. \E i \in S : \A j \in S : j <= i
  BY <1>1
<1>3. Last(S) \in S
  BY <1>2, Zenon DEF Last
<1> QED
  BY <1>3

(* The rank of a quality is its place, and ranks follow the numbers.        *)
LEMMA RankIsPlace ==
    ASSUME NEW p, Ordered(p), NEW q \in Nat, Places(p, q) # {}
    PROVE  /\ Rank(p, q) \in DOMAIN p.items
           /\ q \in p.items[Rank(p, q)].of
<1>1. PICK k \in Places(p, q) : TRUE
  OBVIOUS
<1>2. k \in DOMAIN p.items /\ q \in p.items[k].of /\ DOMAIN p.items \subseteq Nat
  BY <1>1 DEF Places, Ordered
<1>3. \A j \in Places(p, q) : j = k
  <2> TAKE j \in Places(p, q)
  <2>1. j \in DOMAIN p.items /\ q \in p.items[j].of
    BY DEF Places
  <2>2. ~(j < k) /\ ~(k < j)
    BY <2>1, <1>2 DEF Ordered
  <2> QED
    BY <2>1, <2>2, <1>2
<1>4. Last(Places(p, q)) = k
  BY <1>1, <1>2, <1>3, LastOfOne
<1> QED
  BY <1>2, <1>4 DEF Rank

LEMMA RankIsInt ==
    ASSUME NEW p, Ordered(p), NEW q \in Nat, Places(p, q) # {}
    PROVE  Rank(p, q) \in Int
<1>1. DOMAIN p.items \subseteq Nat
  BY DEF Ordered
<1> QED
  BY <1>1, RankIsPlace

LEMMA RankFollowsNumber ==
    ASSUME NEW p, Ordered(p), NEW q \in Nat, NEW s \in Nat, q <= s,
           Places(p, q) # {}, Places(p, s) # {}
    PROVE  Rank(p, q) <= Rank(p, s)
<1>1. /\ Rank(p, q) \in DOMAIN p.items /\ q \in p.items[Rank(p, q)].of
      /\ Rank(p, s) \in DOMAIN p.items /\ s \in p.items[Rank(p, s)].of
  BY RankIsPlace
<1>2. DOMAIN p.items \subseteq Nat
  BY DEF Ordered
<1>3. ~(Rank(p, s) < Rank(p, q))
  BY <1>1 DEF Ordered
<1> QED
  BY <1>1, <1>2, <1>3

(* What is allowed has a place. *)
LEMMA AllowedIsRanked ==
    ASSUME NEW p, NEW q, Allowed(p, q)
    PROVE  Places(p, q) # {}
BY DEF Allowed, Places

(* The place of the cutoff, when it has one, is reached by every quality    *)
(* whose number reaches it.                                                 *)
LEMMA CutoffReached ==
    ASSUME NEW p, Ordered(p), NEW q \in Nat, q >= p.cutoff
    PROVE  CutoffMet(p, q)
<1>1. p.cutoff \in Nat
  BY DEF Ordered
<1>2. SUFFICES ASSUME Places(p, q) # {}, CutoffPlaces(p) # {}
               PROVE  Rank(p, q) >= Last(CutoffPlaces(p))
  BY DEF CutoffMet
<1>3. Rank(p, q) \in DOMAIN p.items /\ q \in p.items[Rank(p, q)].of
  BY <1>2, RankIsPlace
<1>4. GroupPlaces(p, p.cutoff) = {}
  BY <1>1, <1>3 DEF Ordered
<1>5. CutoffPlaces(p) = Places(p, p.cutoff)
  BY <1>4 DEF CutoffPlaces
<1>6. Rank(p, p.cutoff) <= Rank(p, q)
  BY <1>1, <1>2, <1>5, RankFollowsNumber
<1>7. Rank(p, p.cutoff) \in DOMAIN p.items /\ DOMAIN p.items \subseteq Nat
  BY <1>1, <1>2, <1>5, RankIsPlace DEF Ordered
<1> QED
  BY <1>3, <1>5, <1>6, <1>7 DEF Rank

LEMMA CutoffPlaceIsInt ==
    ASSUME NEW p, Ordered(p), CutoffPlaces(p) # {}
    PROVE  Last(CutoffPlaces(p)) \in Int
<1>1. DOMAIN p.items \subseteq Nat /\ p.cutoff \in Nat
  BY DEF Ordered
<1>2. CASE GroupPlaces(p, p.cutoff) # {}
  <2>1. PICK k \in GroupPlaces(p, p.cutoff) : TRUE
    BY <1>2
  <2>2. k \in Int
    BY <1>1, <2>1 DEF GroupPlaces
  <2>5. \A j \in GroupPlaces(p, p.cutoff) : j = k
    BY <2>1 DEF Ordered
  <2>3. Last(GroupPlaces(p, p.cutoff)) = k
    BY <2>1, <2>2, <2>5, LastOfOne
  <2>4. CutoffPlaces(p) = GroupPlaces(p, p.cutoff)
    BY <1>2 DEF CutoffPlaces
  <2> QED
    BY <2>2, <2>3, <2>4
<1>3. CASE GroupPlaces(p, p.cutoff) = {}
  <2>1. CutoffPlaces(p) = Places(p, p.cutoff)
    BY <1>3 DEF CutoffPlaces
  <2>2. Rank(p, p.cutoff) \in DOMAIN p.items
    BY <1>1, <2>1, RankIsPlace
  <2> QED
    BY <1>1, <2>1, <2>2 DEF Rank
<1> QED
  BY <1>2, <1>3

(* A better file still meets the cutoff. *)
LEMMA CutoffStaysMet ==
    ASSUME NEW p, Ordered(p), NEW q \in Nat, NEW s \in Nat, q <= s,
           CutoffMet(p, q), Places(p, s) # {}
    PROVE  CutoffMet(p, s)
<1>1. CASE q >= p.cutoff
  <2>1. s >= p.cutoff
    BY <1>1 DEF Ordered
  <2> QED
    BY <2>1, CutoffReached
<1>2. CASE ~(q >= p.cutoff)
  <2>1. Places(p, q) # {} /\ CutoffPlaces(p) # {} /\ Rank(p, q) >= Last(CutoffPlaces(p))
    BY <1>2 DEF CutoffMet
  <2>2. Rank(p, q) <= Rank(p, s)
    BY <2>1, RankFollowsNumber
  <2>3. Last(CutoffPlaces(p)) \in Int /\ Rank(p, q) \in Int /\ Rank(p, s) \in Int
    BY <2>1, CutoffPlaceIsInt, RankIsInt
  <2> QED
    BY <2>1, <2>2, <2>3 DEF CutoffMet
<1> QED
  BY <1>1, <1>2

(* A quality is settled when a file of quality `have` leaves no wish for it. *)
Settled(p, q, have) ==
    have # NoQuality /\ (Allowed(p, q) => ~(p.upgrade /\ ~CutoffMet(p, have)
                                                       /\ Improves(p, q, have)))

LEMMA NoImprovement ==
    ASSUME NEW p, Ordered(p), NEW q \in Nat, NEW s \in Nat, q <= s
    PROVE  ~Improves(p, q, s)
<1>1. CASE Places(p, q) # {} /\ Places(p, s) # {}
  <2>1. Rank(p, q) <= Rank(p, s)
    BY <1>1, RankFollowsNumber
  <2>2. Rank(p, q) \in Int /\ Rank(p, s) \in Int
    BY <1>1, RankIsInt
  <2>3. ~(Rank(p, q) > Rank(p, s))
    BY <2>1, <2>2
  <2> QED
    BY <1>1, <2>3 DEF Improves
<1>2. CASE ~(Places(p, q) # {} /\ Places(p, s) # {})
  BY <1>2 DEF Improves
<1> QED
  BY <1>1, <1>2

(* What the import took, or skipped, is settled. *)
LEMMA ImportSettles ==
    ASSUME NEW p, Ordered(p), NEW q \in Nat, NEW have \in Nat \cup {NoQuality}
    PROVE  Settled(p, q, IF ImportAccepts(p, q, have) THEN q ELSE have)
<1>1. CASE ImportAccepts(p, q, have)
  BY <1>1, NoImprovement DEF Settled, NoQuality
<1>2. CASE ~ImportAccepts(p, q, have)
  <2>1. have \in Nat
    BY <1>2 DEF ImportAccepts
  <2>2. \/ ~p.upgrade \/ have >= p.cutoff \/ q <= have \/ ~Allowed(p, q)
    BY <1>2, <2>1 DEF ImportAccepts
  <2>3. CASE have >= p.cutoff
    <3>1. CutoffMet(p, have)
      BY <2>1, <2>3, CutoffReached
    <3> QED
      BY <1>2, <2>1, <3>1 DEF Settled, NoQuality
  <2>4. CASE q <= have
    BY <2>1, <2>4, NoImprovement DEF Settled, NoQuality
  <2>5. CASE ~p.upgrade \/ ~Allowed(p, q)
    BY <1>2, <2>1, <2>5 DEF Settled, NoQuality
  <2> QED
    BY <2>2, <2>3, <2>4, <2>5
<1> QED
  BY <1>1, <1>2

(* What is settled stays settled when a better file comes in.               *)
LEMMA StaysSettled ==
    ASSUME NEW p, Ordered(p), NEW q \in Nat, NEW have \in Nat, NEW new \in Nat,
           Settled(p, q, have), ImportAccepts(p, new, have)
    PROVE  Settled(p, q, new)
<1>1. /\ p.upgrade /\ new > have /\ Allowed(p, new)
      /\ Places(p, new) # {}
  BY AllowedIsRanked DEF ImportAccepts, NoQuality
<1>2. SUFFICES ASSUME Allowed(p, q), ~CutoffMet(p, new), Improves(p, q, new)
               PROVE  FALSE
  BY DEF Settled, NoQuality
<1>3. Places(p, q) # {}
  BY <1>2, AllowedIsRanked
<1>4. q > new
  BY <1>2, NoImprovement
<1>5. ~CutoffMet(p, have)
  BY <1>1, <1>2, CutoffStaysMet
<1>6. ~Improves(p, q, have)
  BY <1>1, <1>2, <1>5 DEF Settled
<1>7. Places(p, have) # {} /\ ~(Rank(p, q) > Rank(p, have))
  BY <1>1, <1>3, <1>4, <1>6 DEF Improves
<1>8. Rank(p, have) <= Rank(p, new) /\ Rank(p, q) > Rank(p, new)
  BY <1>1, <1>2, <1>3, <1>7, RankFollowsNumber DEF Improves
<1>9. Rank(p, q) \in Int /\ Rank(p, have) \in Int /\ Rank(p, new) \in Int
  BY <1>1, <1>3, <1>7, RankIsInt
<1>10. Rank(p, q) <= Rank(p, have)
  BY <1>7, <1>9
<1>11. ~(Rank(p, q) > Rank(p, new))
  BY <1>8, <1>9, <1>10
<1> QED
  BY <1>8, <1>11

-----------------------------------------------------------------------------
(* Places in any profile *)

LEMMA LeastOf ==
    ASSUME NEW S, S \subseteq Nat, S # {}
    PROVE  \E n \in S : \A m \in S : n <= m
<1> DEFINE R == {p \in Nat \X Nat : p[1] < p[2]}
<1>1. IsWellFoundedOn(R, Nat)
  BY NatLessThanWellFounded DEF OpToRel
<1>2. PICK n \in S : \A m \in S : ~(<<m, n>> \in R)
  <2> HIDE DEF R
  <2> QED
    BY <1>1, WFMin
<1>3. ASSUME NEW m \in S PROVE n <= m
  <2>1. m \in Nat /\ n \in Nat /\ ~(<<m, n>> \in R)
    BY <1>2
  <2> QED
    BY <2>1
<1> QED
  BY <1>3

LEMMA LastOfSome ==
    ASSUME NEW n \in Nat, NEW S \in SUBSET (1..n), S # {}
    PROVE  Last(S) \in S
<1> DEFINE T == {n - k : k \in S}
<1>1. T \subseteq Nat /\ T # {}
  <2>1. \A k \in S : k \in 1..n /\ n - k \in Nat
    OBVIOUS
  <2> QED
    BY <2>1
<1>2. PICK t \in T : \A u \in T : t <= u
  <2> HIDE DEF T
  <2> QED
    BY <1>1, LeastOf
<1>3. PICK k \in S : t = n - k
  BY <1>2
<1>4. \A j \in S : j <= k
  <2> TAKE j \in S
  <2>1. n - j \in T
    OBVIOUS
  <2>2. n - k <= n - j
    BY <1>2, <1>3, <2>1
  <2>3. j \in 1..n /\ k \in 1..n
    OBVIOUS
  <2> QED
    BY <2>2, <2>3
<1> QED
  BY <1>4, Zenon DEF Last

(* No two qualities improve on each other, whatever the order of a profile. *)
LEMMA ImprovesOneWay ==
    ASSUME NEW i \in Items, NEW q \in Nat, NEW s \in Nat, Improves(ProfileOf[i], q, s)
    PROVE  ~Improves(ProfileOf[i], s, q)
<1> DEFINE p == ProfileOf[i]
           n == Len(p.items)
<1>1. n \in Nat /\ DOMAIN p.items = 1..n
  BY ProfilesAssumption
<1> HIDE DEF n
<1>2. CASE Places(p, q) # {} /\ Places(p, s) # {}
  <2>1. Places(p, q) \in SUBSET (1..n) /\ Places(p, s) \in SUBSET (1..n)
    BY <1>1 DEF Places
  <2>2. Rank(p, q) \in Int /\ Rank(p, s) \in Int
    <3>1. Last(Places(p, q)) \in 1..n
      BY <1>1, <1>2, <2>1, LastOfSome
    <3>2. Last(Places(p, s)) \in 1..n
      BY <1>1, <1>2, <2>1, LastOfSome
    <3> QED
      BY <1>1, <3>1, <3>2 DEF Rank
  <2>3. Rank(p, q) > Rank(p, s)
    BY <1>2 DEF Improves
  <2>4. ~(Rank(p, s) > Rank(p, q))
    BY <2>2, <2>3
  <2> QED
    BY <1>2, <2>4 DEF Improves
<1>3. CASE ~(Places(p, q) # {} /\ Places(p, s) # {})
  <2>1. q > s
    BY <1>3 DEF Improves
  <2> QED
    BY <1>3, <2>1 DEF Improves
<1> QED
  BY <1>2, <1>3

-----------------------------------------------------------------------------
(* Types *)

LEMMA OfferedType ==
    ASSUME NEW rel \in Offered
    PROVE  /\ rel.quality \in Nat /\ rel.fileQuality \in Nat
           /\ rel # Nothing /\ rel.title \in Titles
<1>1. PICK n \in DOMAIN Listing : rel = Listing[n]
  BY DEF Offered
<1>2. Listing[n].quality \in Nat /\ Listing[n].fileQuality \in Nat
  <2> DEFINE R == [title : STRING, guid : Nat, quality : Nat, fileName : STRING,
                   fileQuality : Nat, languages : SUBSET Int, size : Int,
                   protocol : STRING, seeders : Nat, age : Nat, priority : Int,
                   covers : SUBSET Items, lead : Items]
  <2>1. Listing \in Seq(R)
    BY ListingAssumption
  <2>2. \A x \in R : x.quality \in Nat /\ x.fileQuality \in Nat
    OBVIOUS
  <2> HIDE DEF R
  <2>3. Listing[n] \in R
    BY <2>1
  <2> QED
    BY <2>2, <2>3
<1> QED
  BY <1>1, <1>2, ListingAssumption DEF Titles

LEMMA SameTitleSameQuality ==
    ASSUME NEW a \in Offered, NEW b \in Offered, a.title = b.title
    PROVE  a.quality = b.quality
BY ListingAssumption DEF Offered

(* What a download is: an item, a release, and the file it was judged against. *)
Grab == [item : Items, rel : Offered, over : Rows \cup {Nothing}, noted : BOOLEAN]

LEMMA GrabIsSomething == \A g \in Grab : g # Nothing
<1> SUFFICES ASSUME NEW g \in Grab PROVE g # Nothing
  OBVIOUS
<1>1. /\ g.item \in Items /\ g.over \in Rows \cup {Nothing} /\ g.noted \in BOOLEAN
      /\ g = [item |-> g.item, rel |-> g.rel, over |-> g.over, noted |-> g.noted]
      /\ g.rel \in Offered
  BY DEF Grab
<1>2. PICK n \in DOMAIN Listing : g.rel = Listing[n]
  BY <1>1 DEF Offered
<1>3. Nothing # [item |-> g.item, rel |-> Listing[n], over |-> g.over, noted |-> g.noted]
  BY <1>1, NamesAssumption
<1> QED
  BY <1>1, <1>2, <1>3

LEMMA GrabType ==
    ASSUME TypeOK, NEW r \in Rows, of[r] # Nothing
    PROVE  /\ of[r] \in Grab /\ of[r].item \in Items /\ of[r].rel \in Offered
           /\ of[r].rel.quality \in Nat /\ of[r].rel.fileQuality \in Nat
<1>1. of[r] \in Grab
  BY DEF TypeOK, Grab
<1>2. of[r].item \in Items /\ of[r].rel \in Offered
  BY <1>1 DEF Grab
<1> QED
  BY <1>1, <1>2, OfferedType

(* The file there is came from a download. *)
LEMMA FileType ==
    ASSUME TypeOK, NEW i \in Items, file[i] # Nothing
    PROVE  /\ file[i] \in Rows /\ of[file[i]] # Nothing
           /\ Quality(i) = of[file[i]].rel.fileQuality /\ Quality(i) \in Nat
<1>1. file[i] \in Rows /\ of[file[i]] # Nothing
  BY DEF TypeOK
<1> QED
  BY <1>1, GrabType DEF Quality, QualityOf

LEMMA QualityType ==
    ASSUME TypeOK, NEW i \in Items
    PROVE  Quality(i) \in Nat \cup {NoQuality}
BY FileType DEF Quality, QualityOf

LEMMA FreshId ==
    ASSUME Unused # {}
    PROVE  NewId \in Rows /\ of[NewId] = Nothing
BY DEF Unused, NewId

LEMMA EndedTitles ==
    ASSUME TypeOK
    PROVE  /\ \A i \in Items : \A v : Ended(i, v) \in SUBSET Titles
           /\ Blocklisted \in SUBSET Titles
<1>1. \A r \in Rows : of[r] # Nothing => of[r].rel.title \in Titles
  BY GrabType, OfferedType
<1>2. \A i \in Items : \A v : Ended(i, v) \in SUBSET Titles
  BY <1>1 DEF Ended, Grabs
<1> QED
  BY <1>2 DEF Blocklisted

Stages == {"idle", "search", "judge", "add", "insert"}
Read   == [queued : SUBSET Titles, grabbed : SUBSET Titles, blocked : SUBSET Titles]
Known  == [imported : SUBSET Titles, failed : SUBSET Titles, over : Rows \cup {Nothing}]

(* TypeOK in three parts: of the queue and the files, of the searches, and   *)
(* of what a search holds in each of its steps.                              *)
FilesType ==
    /\ Queue!TypeOK
    /\ of \in [Rows -> Grab \cup {Nothing}]
    /\ file \in [Items -> Rows \cup {Nothing}]
    /\ \A i \in Items : file[i] # Nothing => of[file[i]] # Nothing
    /\ transfer \in [Rows -> {"whole", "replacing", "moved"}]
    /\ \A r \in Rows : of[r] = Nothing => transfer[r] = "whole"
    /\ bared \subseteq Items

SearchType ==
    /\ pc \in [Searchers -> Stages]
    /\ item \in [Searchers -> Items \cup {Nothing}]
    /\ offers \in [Searchers -> SUBSET (DOMAIN Listing)]
    /\ read \in [Searchers -> Read]
    /\ known \in [Searchers -> Known]
    /\ pick \in [Searchers -> Offered \cup {Nothing}]
    /\ row \in [Searchers -> Rows \cup {Nothing}]

Holds ==
    \A w \in Searchers :
       /\ pc[w] \in {"search", "judge", "add", "insert"} => item[w] # Nothing
       /\ pc[w] = "add" <=> pick[w] # Nothing
       /\ pc[w] = "insert" => row[w] # Nothing /\ of[row[w]] # Nothing

LEMMA TypeParts == TypeOK <=> FilesType /\ SearchType /\ Holds
BY DEF TypeOK, FilesType, SearchType, Holds, Grab, Stages, Read, Known

LEMMA TypePartsNext == TypeOK' <=> FilesType' /\ SearchType' /\ Holds'
BY DEF TypeOK, FilesType, SearchType, Holds, Grab, Stages, Read, Known

LEMMA TypeInit == Init => TypeOK
BY NamesAssumption
   DEF Init, TypeOK, Queue!Init, Queue!TypeOK, Queue!Lives, Queue!Verdicts, Unread, Unknowing

LEMMA ItemDoneType ==
    ASSUME TypeOK, NEW w \in Searchers, ItemDone(w), UNCHANGED <<of, row>>,
           \/ pick' = [pick EXCEPT ![w] = Nothing]
           \/ UNCHANGED pick /\ pc[w] # "add"
    PROVE  SearchType' /\ Holds'
<1>1. SearchType /\ Holds
  BY TypeParts
<1>2. Unread \in Read /\ Unknowing \in Known
  BY DEF Unread, Read, Unknowing, Known
<1>3. SearchType'
  BY <1>1, <1>2 DEF SearchType, ItemDone, Stages
<1>4. Holds'
  BY <1>1 DEF SearchType, Holds, ItemDone
<1> QED
  BY <1>3, <1>4

(* What a search settles on is one of the releases it has judged fit.       *)
Chooses(w, f, n) ==
    /\ pick' = [pick EXCEPT ![w] = Listing[n]]
    /\ known' = [known EXCEPT ![w].over = f]
    /\ Approved(ProfileOf[item[w]], Listing[n], Context(w, Listing[n], f))

LEMMA JudgeChooses ==
    ASSUME NEW w \in Searchers, Judge(w), ~(ItemDone(w) /\ UNCHANGED pick)
    PROVE  \E f \in SeenFiles(item[w]), n \in offers[w] : Chooses(w, f, n)
BY DEF Judge, Fit, Best, Chooses

LEMMA SeenFileType ==
    ASSUME TypeOK, NEW i \in Items, NEW f \in SeenFiles(i)
    PROVE  /\ f \in Rows \cup {Nothing}
           /\ f # Nothing => f = file[i] /\ of[f] # Nothing /\ QualityOf(f) \in Nat
<1>1. f = file[i] \/ f = Nothing
  BY DEF SeenFiles
<1>2. f # Nothing => /\ f \in Rows /\ of[f] # Nothing /\ QualityOf(f) \in Nat
  BY <1>1, FileType DEF Quality
<1> QED
  BY <1>1, <1>2

(* A step that grabs nothing and touches no file or search keeps the types. *)
LEMMA QueueTypes ==
    ASSUME TypeOK, Queue!TypeOK', UNCHANGED <<of, fileVars, searchVars>>
    PROVE  TypeOK'
BY DEF TypeOK, fileVars, searchVars

LEMMA TypeStep ==
    ASSUME TypeOK, [Next]_vars
    PROVE  TypeOK'
<1>0. FilesType /\ SearchType /\ Holds /\ Queue!TypeOK
  BY TypeParts DEF FilesType
<1>f. ASSUME UNCHANGED queueVars
      PROVE  FilesType'
  BY <1>0, <1>f DEF FilesType, queueVars, fileVars, Queue!TypeOK
<1>2. ASSUME NEW w \in Searchers, Guard(w)
      PROVE  TypeOK'
  <2>1. PICK i \in Items :
           /\ pc' = [pc EXCEPT ![w] = "search"]
           /\ item' = [item EXCEPT ![w] = i]
           /\ known' = [known EXCEPT ![w] =
                  [imported |-> Ended(i, "imported"), failed |-> Blocklisted,
                   over |-> Nothing]]
    BY <1>2 DEF Guard
  <2>2. [imported |-> Ended(i, "imported"), failed |-> Blocklisted, over |-> Nothing] \in Known
    BY EndedTitles DEF Known
  <2>3. pc[w] = "idle" /\ UNCHANGED <<queueVars, offers, read, pick, row>> /\ i # Nothing
    BY <1>2, NamesAssumption DEF Guard
  <2>4. SearchType'
    BY <1>0, <2>1, <2>2, <2>3 DEF SearchType, Stages
  <2>5. Holds'
    BY <1>0, <2>1, <2>3 DEF Holds, SearchType, queueVars
  <2> QED
    BY <1>f, <2>3, <2>4, <2>5, TypePartsNext
<1>3. ASSUME NEW w \in Searchers, Search(w)
      PROVE  TypeOK'
  <2>1. pc[w] = "search" /\ UNCHANGED <<queueVars, pick, row>>
    BY <1>3 DEF Search
  <2>2. FilesType' /\ UNCHANGED of
    BY <1>f, <2>1 DEF queueVars
  <2>3. CASE ItemDone(w)
    BY <2>1, <2>2, <2>3, ItemDoneType, TypePartsNext
  <2>4. CASE ~ItemDone(w)
    <3>1. PICK A \in SUBSET (DOMAIN Listing) :
             LET rels == {Listing[n] : n \in A} IN
             /\ offers' = [offers EXCEPT ![w] = A]
             /\ read' = [read EXCEPT ![w] =
                   [queued  |-> {x.title : x \in {y \in rels : \E r \in Rows :
                                    InQueue(r) /\ r = y.guid}},
                    grabbed |-> {x.title : x \in {y \in rels : \E r \in Rows :
                                    of[r] # Nothing /\ r = y.guid}},
                    blocked |-> BlockedAmong({x.title : x \in rels})]]
      BY <1>3, <2>4 DEF Search
    <3>2. pc' = [pc EXCEPT ![w] = "judge"] /\ UNCHANGED <<item, known>>
      BY <1>3, <2>4 DEF Search
    <3>3. {Listing[n] : n \in A} \subseteq Offered
      BY <3>1 DEF Offered
    <3>4. \A R \in SUBSET Offered : {x.title : x \in R} \subseteq Titles
      BY DEF Titles
    <3>5. read' \in [Searchers -> Read]
      <4> DEFINE rels == {Listing[n] : n \in A}
                 Q == {y \in rels : \E r \in Rows : InQueue(r) /\ r = y.guid}
                 G == {y \in rels : \E r \in Rows : of[r] # Nothing /\ r = y.guid}
      <4>1. Q \in SUBSET Offered /\ G \in SUBSET Offered /\ rels \in SUBSET Offered
        BY <3>3
      <4>2. /\ {x.title : x \in Q} \subseteq Titles
            /\ {x.title : x \in G} \subseteq Titles
            /\ BlockedAmong({x.title : x \in rels}) \subseteq Titles
        BY <4>1, <3>4 DEF BlockedAmong
      <4>3. read' = [read EXCEPT ![w] = [queued  |-> {x.title : x \in Q},
                                         grabbed |-> {x.title : x \in G},
                                         blocked |-> BlockedAmong({x.title : x \in rels})]]
        BY <3>1
      <4> HIDE DEF rels, Q, G
      <4> QED
        BY <1>0, <4>2, <4>3 DEF SearchType, Read
    <3>6. SearchType'
      BY <1>0, <2>1, <3>1, <3>2, <3>5 DEF SearchType, Stages
    <3>7. Holds'
      BY <1>0, <2>1, <2>2, <3>2 DEF Holds, SearchType
    <3> QED
      BY <2>2, <3>6, <3>7, TypePartsNext
  <2> QED
    BY <2>3, <2>4
<1>4. ASSUME NEW w \in Searchers, Judge(w)
      PROVE  TypeOK'
  <2>1. pc[w] = "judge" /\ UNCHANGED <<queueVars, row>>
    BY <1>4 DEF Judge
  <2>2. FilesType' /\ UNCHANGED of
    BY <1>f, <2>1 DEF queueVars
  <2>3. CASE ItemDone(w) /\ UNCHANGED pick
    BY <2>1, <2>2, <2>3, ItemDoneType, TypePartsNext
  <2>4. CASE ~(ItemDone(w) /\ UNCHANGED pick)
    <3>1. PICK f \in SeenFiles(item[w]), n \in offers[w] : Chooses(w, f, n)
      BY <1>4, <2>4, JudgeChooses
    <3>2. pc' = [pc EXCEPT ![w] = "add"] /\ UNCHANGED <<item, offers, read>>
      BY <1>4, <2>4 DEF Judge
    <3>3. Listing[n] \in Offered /\ Listing[n] # Nothing
      BY <1>0, <3>1, OfferedType DEF Offered, SearchType
    <3>4. f \in Rows \cup {Nothing}
      BY <1>0, <2>1, SeenFileType DEF Holds, SearchType
    <3>5. known' \in [Searchers -> Known]
      <4>1. known' = [known EXCEPT ![w] = [known[w] EXCEPT !.over = f]]
        BY <3>1 DEF Chooses
      <4>2. [known[w] EXCEPT !.over = f] \in Known
        BY <1>0, <3>4 DEF SearchType, Known
      <4> QED
        BY <1>0, <4>1, <4>2 DEF SearchType
    <3>6. SearchType'
      BY <1>0, <2>1, <3>1, <3>2, <3>3, <3>5 DEF SearchType, Stages, Chooses
    <3>7. Holds'
      BY <1>0, <2>1, <2>2, <3>1, <3>2, <3>3 DEF Holds, SearchType, Chooses
    <3> QED
      BY <2>2, <3>6, <3>7, TypePartsNext
  <2> QED
    BY <2>3, <2>4
<1>5. ASSUME NEW w \in Searchers, Add(w)
      PROVE  TypeOK'
  <2>1. /\ pc[w] = "add" /\ item[w] \in Items /\ pick[w] \in Offered
        /\ UNCHANGED <<life, verdict, fileVars>>
        /\ pick' = [pick EXCEPT ![w] = Nothing]
        /\ known[w].over \in Rows \cup {Nothing}
    BY <1>0, <1>5 DEF Add, Holds, SearchType, Known
  <2>2. CASE ItemDone(w) /\ UNCHANGED <<of, row>>
    <3>1. FilesType'
      BY <1>f, <2>1, <2>2 DEF queueVars
    <3> QED
      BY <2>1, <2>2, <3>1, ItemDoneType, TypePartsNext
  <2>3. CASE ~(ItemDone(w) /\ UNCHANGED <<of, row>>)
    <3> DEFINE r == NewId
               g == [item |-> item[w], rel |-> pick[w], over |-> known[w].over, noted |-> TRUE]
    <3>1. /\ of' = [of EXCEPT ![r] = g]
          /\ row' = [row EXCEPT ![w] = r]
          /\ pc' = [pc EXCEPT ![w] = "insert"]
          /\ UNCHANGED <<item, offers, read, known>>
          /\ Unused # {}
      BY <1>5, <2>3 DEF Add
    <3>2. r \in Rows /\ of[r] = Nothing /\ r # Nothing
      BY <3>1, FreshId, NamesAssumption
    <3>3. g \in Grab
      BY <2>1 DEF Grab
    <3>4. g # Nothing
      BY <3>3, GrabIsSomething
    <3> HIDE DEF r, g
    <3>5. FilesType'
      BY <1>0, <2>1, <3>1, <3>2, <3>3, <3>4 DEF FilesType, fileVars, Queue!TypeOK
    <3>6. SearchType'
      BY <1>0, <2>1, <3>1, <3>2 DEF SearchType, Stages
    <3>7. Holds'
      BY <1>0, <2>1, <3>1, <3>2, <3>4 DEF Holds, SearchType, FilesType
    <3> QED
      BY <3>5, <3>6, <3>7, TypePartsNext
  <2> QED
    BY <2>2, <2>3
<1>6. ASSUME NEW w \in Searchers, Insert(w)
      PROVE  TypeOK'
  <2>1. /\ pc[w] = "insert" /\ row[w] \in Rows /\ ItemDone(w)
        /\ row' = [row EXCEPT ![w] = Nothing]
        /\ UNCHANGED <<of, fileVars, pick>>
    BY <1>0, <1>6 DEF Insert, Holds, SearchType
  <2>2. Queue!TypeOK'
    BY <1>0, <1>6, <2>1 DEF Insert, Queue!TypeOK, Queue!Enqueue, Queue!Move, Queue!Lives
  <2>3. FilesType'
    BY <1>0, <2>1, <2>2 DEF FilesType, fileVars
  <2>4. SearchType'
    BY <1>0, <2>1 DEF SearchType, ItemDone, Stages, Unread, Read, Unknowing, Known
  <2>5. Holds'
    BY <1>0, <2>1 DEF Holds, SearchType, ItemDone
  <2> QED
    BY <2>3, <2>4, <2>5, TypePartsNext
<1>7. ASSUME NEW i \in Items, NEW rel \in Offered, NEW noted \in BOOLEAN, UserGrab(i, rel, noted)
      PROVE  TypeOK'
  <2> DEFINE r == NewId
             g == [item |-> i, rel |-> rel, over |-> Nothing, noted |-> noted]
  <2>1. /\ of' = [of EXCEPT ![r] = g] /\ Unused # {}
        /\ Queue!Enqueue(r) /\ UNCHANGED <<fileVars, searchVars>>
    BY <1>7 DEF UserGrab
  <2>2. r \in Rows /\ of[r] = Nothing
    BY <2>1, FreshId
  <2>3. g \in Grab
    BY DEF Grab
  <2>4. g # Nothing
    BY <2>3, GrabIsSomething
  <2> HIDE DEF r, g
  <2>5. Queue!TypeOK'
    BY <1>0, <2>1, <2>2 DEF Queue!TypeOK, Queue!Enqueue, Queue!Move, Queue!Lives
  <2>6. FilesType'
    BY <1>0, <2>1, <2>2, <2>3, <2>4, <2>5 DEF FilesType, fileVars
  <2>7. SearchType'
    BY <1>0, <2>1 DEF SearchType, searchVars
  <2>8. Holds'
    BY <1>0, <2>1, <2>2, <2>4 DEF Holds, SearchType, FilesType, searchVars
  <2> QED
    BY <2>6, <2>7, <2>8, TypePartsNext
<1>8. ASSUME NEW r \in Rows, of[r] # Nothing, ImportStep(r)
      PROVE  TypeOK'
  <2>1. UNCHANGED <<of, searchVars>>
    BY <1>8 DEF ImportStep, Skip, TakeOld, Place, Misplace, GiveUp
  <2>2. Queue!TypeOK'
    BY <1>0, <1>8 DEF ImportStep, Skip, TakeOld, Place, Misplace, GiveUp, Queue!TypeOK,
        Queue!Accept, Queue!Retry, Queue!Fail, Queue!Move, Queue!Lives, Queue!Verdicts
  <2>3. of[r].item \in Items
    BY <1>8, GrabType
  <2>4. /\ file' \in [Items -> Rows \cup {Nothing}]
        /\ \A i \in Items : file'[i] # Nothing => file'[i] = r \/ file'[i] = file[i]
    BY <1>0, <1>8, <2>3 DEF ImportStep, Skip, TakeOld, Place, Misplace, GiveUp, Linked,
                            FilesType, fileVars
  <2>5. /\ transfer' \in [Rows -> {"whole", "replacing", "moved"}]
        /\ \A q \in Rows : q # r => transfer'[q] = transfer[q]
    BY <1>0, <1>8 DEF ImportStep, Skip, TakeOld, Place, Misplace, GiveUp, FilesType, fileVars
  <2>6. bared' \subseteq Items
    BY <1>0, <1>8, <2>3 DEF ImportStep, Skip, TakeOld, Place, Misplace, GiveUp, FilesType, fileVars
  <2>7. FilesType'
    BY <1>0, <1>8, <2>1, <2>2, <2>4, <2>5, <2>6 DEF FilesType
  <2>8. SearchType' /\ Holds'
    BY <1>0, <2>1 DEF SearchType, Holds, searchVars
  <2> QED
    BY <2>7, <2>8, TypePartsNext
<1>9. ASSUME QueueStep
      PROVE  TypeOK'
  <2>1. Queue!TypeOK'
    BY <1>0, <1>9 DEF QueueStep, Queue!TypeOK, Queue!Lives, Queue!Verdicts, Queue!Move,
               Queue!Purge, Queue!Finish, Queue!Import, Queue!Retry, Queue!Fail,
               Queue!Lose, Queue!Reject, Queue!Leave, Queue!Cancel
  <2> QED
    BY <1>9, <2>1, QueueTypes DEF QueueStep
<1>10. CASE UNCHANGED vars
  <2>1. Queue!TypeOK' /\ UNCHANGED <<of, fileVars, searchVars>>
    BY <1>0, <1>10 DEF vars, queueVars, Queue!TypeOK
  <2> QED
    BY <2>1, QueueTypes
<1> QED
  BY <1>2, <1>3, <1>4, <1>5, <1>6, <1>7, <1>8, <1>9, <1>10 DEF Next, SearchStep

-----------------------------------------------------------------------------
(* What a step leaves alone *)

(* A search changes neither files nor the end of a download; nor does a     *)
(* user's grab.                                                             *)
LEMMA SearchLeaves ==
    ASSUME NEW w \in Searchers, SearchStep(w)
    PROVE  UNCHANGED <<verdict, fileVars>>
BY DEF SearchStep, Guard, Search, Judge, Add, Insert, queueVars, Queue!Enqueue, Queue!Move

LEMMA UserLeaves ==
    ASSUME NEW i, NEW rel, NEW noted, UserGrab(i, rel, noted)
    PROVE  UNCHANGED <<verdict, fileVars, searchVars>>
BY DEF UserGrab, Queue!Enqueue, Queue!Move

(* Neither the import nor the queue touches a search or a grab. *)
LEMMA ImportLeaves ==
    ASSUME NEW r, ImportStep(r)
    PROVE  UNCHANGED <<of, searchVars>>
BY DEF ImportStep, Skip, TakeOld, Place, Misplace, GiveUp

LEMMA QueueLeaves ==
    ASSUME TypeOK, QueueStep
    PROVE  /\ UNCHANGED <<of, fileVars, searchVars>>
           /\ \A r \in Rows : verdict[r] # "open" => verdict'[r] = verdict[r]
           /\ \A r \in Rows : verdict'[r] = "imported" => verdict[r] = "imported"
           /\ \A r \in Rows : of[r] = Nothing => verdict'[r] = verdict[r]
<1>1. verdict \in [Rows -> {"open", "imported", "blocklisted"}]
  BY DEF TypeOK, Queue!TypeOK, Queue!Verdicts
<1>2. \/ UNCHANGED verdict
      \/ \E r \in Rows : of[r] # Nothing /\ Queue!Reject(r)
  BY DEF QueueStep, Queue!Move, Queue!Purge, Queue!Finish, Queue!Import, Queue!Retry,
         Queue!Fail, Queue!Lose, Queue!Leave, Queue!Cancel
<1> QED
  BY <1>1, <1>2 DEF QueueStep, Queue!Reject

(* An import ends the download it has in hand, or none. *)
LEMMA ImportVerdict ==
    ASSUME TypeOK, NEW r \in Rows, ImportStep(r)
    PROVE  \/ UNCHANGED verdict
           \/ /\ Skip(r) \/ Place(r)
              /\ verdict[r] = "open" /\ verdict' = [verdict EXCEPT ![r] = "imported"]
BY DEF ImportStep, Skip, TakeOld, Place, Misplace, GiveUp, Queue!Accept, Queue!Retry,
       Queue!Fail, Queue!Move

(* A download keeps what it was grabbed for, and its end.                   *)
Lasting ==
    \A r \in Rows : of[r] # Nothing =>
        of'[r] = of[r] /\ (verdict[r] # "open" => verdict'[r] = verdict[r])

LEMMA StepLasts ==
    ASSUME TypeOK, [Next]_vars
    PROVE  Lasting
<1> USE DEF Lasting
<1>1. ASSUME NEW w \in Searchers, Add(w)
      PROVE  Lasting
  BY <1>1, FreshId DEF Add, TypeOK
<1>2. ASSUME NEW w \in Searchers, SearchStep(w), ~Add(w)
      PROVE  Lasting
  <2>1. UNCHANGED of
    BY <1>2 DEF SearchStep, Guard, Search, Judge, Insert, queueVars
  <2> QED
    BY <1>2, <2>1, SearchLeaves
<1>3. ASSUME NEW i \in Items, NEW rel \in Offered, NEW noted \in BOOLEAN, UserGrab(i, rel, noted)
      PROVE  Lasting
  BY <1>3, FreshId, UserLeaves DEF UserGrab, TypeOK
<1>4. ASSUME NEW r \in Rows, of[r] # Nothing, ImportStep(r)
      PROVE  Lasting
  BY <1>4, ImportLeaves, ImportVerdict DEF TypeOK, Queue!TypeOK
<1>5. ASSUME QueueStep
      PROVE  Lasting
  BY <1>5, QueueLeaves
<1>6. CASE UNCHANGED vars
  BY <1>6 DEF vars, queueVars
<1> QED
  BY <1>1, <1>2, <1>3, <1>4, <1>5, <1>6 DEF Next

LEMMA EndedGrows ==
    ASSUME Lasting
    PROVE  /\ \A i \in Items : \A v : v # "open" => Ended(i, v) \subseteq Ended(i, v)'
           /\ Blocklisted \subseteq Blocklisted'
<1>1. ASSUME NEW i \in Items, NEW v, v # "open"
      PROVE  Ended(i, v) \subseteq Ended(i, v)'
  BY <1>1 DEF Lasting, Ended, Grabs
<1> QED
  BY <1>1 DEF Blocklisted

-----------------------------------------------------------------------------
(* What failed: whatever a search knew to be blocklisted when it began is   *)
(* so still, and the search has read it.                                    *)
KnownHasEnded ==
    \A w \in Searchers :
        /\ known[w].imported # {} => item[w] # Nothing
        /\ item[w] # Nothing => known[w].imported \subseteq Ended(item[w], "imported")
        /\ known[w].failed \subseteq Blocklisted

BlockedIsRead ==
    \A w \in Searchers : pc[w] = "judge" =>
        \A n \in offers[w] :
            Listing[n].title \in known[w].failed => Listing[n].title \in read[w].blocked

FailedInv == TypeOK /\ KnownHasEnded /\ BlockedIsRead /\ FailedNotGrabbedAgain

LEMMA KnownStep ==
    ASSUME FailedInv, [Next]_vars
    PROVE  KnownHasEnded'
<1>1. TypeOK /\ KnownHasEnded
  BY DEF FailedInv
<1>2. /\ \A i \in Items : Ended(i, "imported") \subseteq Ended(i, "imported")'
      /\ Blocklisted \subseteq Blocklisted'
  BY <1>1, StepLasts, EndedGrows
<1>3. \A v \in Searchers : item[v] = Nothing \/ item[v] \in Items
  BY <1>1 DEF TypeOK
<1>4. ASSUME UNCHANGED <<item, known>>
      PROVE  KnownHasEnded'
  BY <1>1, <1>2, <1>3, <1>4 DEF KnownHasEnded
<1>5. ASSUME NEW w \in Searchers, ItemDone(w)
      PROVE  KnownHasEnded'
  BY <1>1, <1>2, <1>3, <1>5 DEF KnownHasEnded, ItemDone, TypeOK, Unknowing
<1>6. ASSUME NEW w \in Searchers, Guard(w)
      PROVE  KnownHasEnded'
  <2>1. PICK i \in Items :
           /\ item' = [item EXCEPT ![w] = i]
           /\ known' = [known EXCEPT ![w] =
                  [imported |-> Ended(i, "imported"), failed |-> Blocklisted,
                   over |-> Nothing]]
    BY <1>6 DEF Guard
  <2>2. i # Nothing
    BY NamesAssumption
  <2> QED
    BY <1>1, <1>2, <1>3, <2>1, <2>2 DEF KnownHasEnded, TypeOK
<1>7. ASSUME NEW w \in Searchers, Judge(w), ~(ItemDone(w) /\ UNCHANGED pick)
      PROVE  KnownHasEnded'
  <2>1. PICK f \in SeenFiles(item[w]), n \in offers[w] : Chooses(w, f, n)
    BY <1>7, JudgeChooses
  <2>2. UNCHANGED item
    BY <1>7 DEF Judge
  <2>3. \A v \in Searchers : /\ known'[v].imported = known[v].imported
                             /\ known'[v].failed = known[v].failed
    BY <1>1, <2>1 DEF Chooses, TypeOK
  <2> QED
    BY <1>1, <1>2, <1>3, <2>2, <2>3 DEF KnownHasEnded
<1>8. ASSUME UNCHANGED searchVars
      PROVE  KnownHasEnded'
  BY <1>4, <1>8 DEF searchVars
<1>9. ASSUME NEW w \in Searchers, Search(w) \/ Add(w) \/ Insert(w)
      PROVE  KnownHasEnded'
  BY <1>4, <1>5, <1>9 DEF Search, Add, Insert
<1> QED
  BY <1>5, <1>6, <1>7, <1>8, <1>9, ImportLeaves, UserLeaves
     DEF Next, SearchStep, QueueStep, vars

LEMMA ReadStep ==
    ASSUME FailedInv, [Next]_vars
    PROVE  BlockedIsRead'
<1>1. TypeOK /\ KnownHasEnded /\ BlockedIsRead
  BY DEF FailedInv
<1>2. ASSUME UNCHANGED searchVars
      PROVE  BlockedIsRead'
  BY <1>1, <1>2 DEF BlockedIsRead, searchVars
<1>3. ASSUME NEW w \in Searchers, pc'[w] # "judge",
             \A v \in Searchers \ {w} :
                /\ pc'[v] = pc[v] /\ offers'[v] = offers[v]
                /\ read'[v] = read[v] /\ known'[v] = known[v]
      PROVE  BlockedIsRead'
  BY <1>1, <1>3 DEF BlockedIsRead
<1>4. ASSUME NEW w \in Searchers, Guard(w) \/ Judge(w) \/ Add(w) \/ Insert(w) \/ ItemDone(w)
      PROVE  BlockedIsRead'
  <2>1. CASE ItemDone(w)
    BY <1>1, <1>3, <2>1 DEF ItemDone, TypeOK
  <2>2. CASE ~ItemDone(w) /\ Judge(w)
    <3>1. PICK f \in SeenFiles(item[w]), n \in offers[w] : Chooses(w, f, n)
      BY <2>2, JudgeChooses
    <3>2. pc' = [pc EXCEPT ![w] = "add"] /\ UNCHANGED <<offers, read>>
      BY <2>2 DEF Judge
    <3> QED
      BY <1>1, <1>3, <3>1, <3>2 DEF Chooses, TypeOK
  <2>3. CASE ~ItemDone(w) /\ Guard(w)
    BY <1>1, <1>3, <2>3 DEF Guard, TypeOK
  <2>4. CASE ~ItemDone(w) /\ (Add(w) \/ Insert(w))
    BY <1>1, <1>3, <2>4 DEF Add, Insert, TypeOK
  <2> QED
    BY <1>4, <2>1, <2>2, <2>3, <2>4
<1>5. ASSUME NEW w \in Searchers, Search(w), ~ItemDone(w)
      PROVE  BlockedIsRead'
  <2>1. PICK A \in SUBSET (DOMAIN Listing) :
           /\ offers' = [offers EXCEPT ![w] = A]
           /\ \E q, g : read' = [read EXCEPT ![w] =
                 [queued |-> q, grabbed |-> g,
                  blocked |-> BlockedAmong({x.title : x \in {Listing[n] : n \in A}})]]
    BY <1>5 DEF Search
  <2>2. pc' = [pc EXCEPT ![w] = "judge"] /\ known' = known
    BY <1>5 DEF Search
  <2>3. \A n \in A : Listing[n].title \in Blocklisted =>
           Listing[n].title \in BlockedAmong({x.title : x \in {Listing[k] : k \in A}})
    BY DEF BlockedAmong
  <2> QED
    BY <1>1, <2>1, <2>2, <2>3 DEF BlockedIsRead, KnownHasEnded, TypeOK
<1> QED
  BY <1>2, <1>4, <1>5, ImportLeaves, UserLeaves DEF Next, SearchStep, QueueStep, vars

(* A search finds what failed on the blocklist, and passes it over.         *)
LEMMA FailedStep ==
    ASSUME FailedInv, [Next]_vars
    PROVE  FailedNotGrabbedAgain'
<1>1. TypeOK /\ BlockedIsRead /\ FailedNotGrabbedAgain
  BY DEF FailedInv
<1>2. ASSUME UNCHANGED searchVars
      PROVE  FailedNotGrabbedAgain'
  BY <1>1, <1>2 DEF FailedNotGrabbedAgain, searchVars
<1>3. ASSUME NEW w \in Searchers, pc'[w] # "add",
             \A v \in Searchers \ {w} :
                pc'[v] = pc[v] /\ pick'[v] = pick[v] /\ known'[v] = known[v]
      PROVE  FailedNotGrabbedAgain'
  BY <1>1, <1>3 DEF FailedNotGrabbedAgain
<1>4. ASSUME NEW w \in Searchers, Judge(w), ~(ItemDone(w) /\ UNCHANGED pick)
      PROVE  FailedNotGrabbedAgain'
  <2>1. PICK f \in SeenFiles(item[w]), n \in offers[w] : Chooses(w, f, n)
    BY <1>4, JudgeChooses
  <2>2. pc[w] = "judge" /\ pc' = [pc EXCEPT ![w] = "add"]
    BY <1>4 DEF Judge
  <2>3. Listing[n].title \notin read[w].blocked
    BY <2>1 DEF Chooses, Approved, Context
  <2>4. Listing[n].title \notin known[w].failed
    BY <1>1, <2>2, <2>3 DEF BlockedIsRead
  <2>5. /\ pick'[w] = Listing[n] /\ known'[w].failed = known[w].failed
        /\ \A v \in Searchers \ {w} :
              pc'[v] = pc[v] /\ pick'[v] = pick[v] /\ known'[v] = known[v]
    BY <1>1, <2>1, <2>2 DEF Chooses, TypeOK
  <2> QED
    BY <1>1, <2>4, <2>5 DEF FailedNotGrabbedAgain
<1>5. ASSUME NEW w \in Searchers, Guard(w)
      PROVE  FailedNotGrabbedAgain'
  BY <1>1, <1>3, <1>5 DEF Guard, TypeOK
<1>6. ASSUME NEW w \in Searchers, Search(w)
      PROVE  FailedNotGrabbedAgain'
  BY <1>1, <1>3, <1>6 DEF Search, ItemDone, TypeOK
<1>7. ASSUME NEW w \in Searchers, Add(w) \/ Insert(w)
      PROVE  FailedNotGrabbedAgain'
  BY <1>1, <1>3, <1>7 DEF Add, Insert, ItemDone, TypeOK
<1>8. ASSUME NEW w \in Searchers, ItemDone(w), UNCHANGED pick
      PROVE  FailedNotGrabbedAgain'
  BY <1>1, <1>3, <1>8 DEF ItemDone, TypeOK
<1> QED
  BY <1>2, <1>4, <1>5, <1>6, <1>7, <1>8, ImportLeaves, UserLeaves
     DEF Next, SearchStep, QueueStep, vars

LEMMA FailedInductive == Spec => []FailedInv
<1>1. Init => FailedInv
  <2> SUFFICES ASSUME Init PROVE FailedInv
    OBVIOUS
  <2>1. TypeOK
    BY TypeInit
  <2> QED
    BY <2>1 DEF Init, FailedInv, KnownHasEnded, BlockedIsRead, FailedNotGrabbedAgain, Unknowing
<1>2. FailedInv /\ [Next]_vars => FailedInv'
  <2>1. FailedInv /\ [Next]_vars => TypeOK'
    BY TypeStep DEF FailedInv
  <2> QED
    BY <2>1, KnownStep, ReadStep, FailedStep DEF FailedInv
<1> QED
  BY <1>1, <1>2, PTL DEF Spec

-----------------------------------------------------------------------------
(* The file that is replaced.  One import is in hand at a time, and while it *)
(* has taken the old file away nobody gives the item another.                *)
OneReplacing ==
    /\ \A x, y \in Rows : Replacing(x) /\ Replacing(y) => x = y
    /\ \A r \in Rows : Replacing(r) => of[r] # Nothing /\ file[of[r].item] = Nothing

(* What a search has judged, it has judged to be an improvement.             *)
Judged(i, rel, f) ==
    f # Nothing => /\ of[f] # Nothing
                   /\ Improves(ProfileOf[i], rel.quality, of[f].rel.fileQuality)

JudgedRow(r)    == of[r] # Nothing => Judged(of[r].item, of[r].rel, of[r].over)
JudgedChoice(w) == pc[w] = "add" => Judged(item[w], pick[w], known[w].over)

JudgedToImprove ==
    (\A r \in Rows : JudgedRow(r)) /\ (\A w \in Searchers : JudgedChoice(w))

FilesInv == TypeOK /\ OneReplacing /\ JudgedToImprove

LEMMA ReplacingStep ==
    ASSUME FilesInv, [Next]_vars
    PROVE  OneReplacing'
<1>1. TypeOK /\ OneReplacing /\ Lasting
  BY StepLasts DEF FilesInv
<1>2. ASSUME UNCHANGED fileVars
      PROVE  OneReplacing'
  <2>1. \A r \in Rows : of[r] # Nothing => of'[r] = of[r]
    BY <1>1 DEF Lasting
  <2> QED
    BY <1>1, <1>2, <2>1 DEF OneReplacing, Replacing, fileVars
<1>3. ASSUME NEW r \in Rows, of[r] # Nothing, ImportStep(r)
      PROVE  OneReplacing'
  <2>1. UNCHANGED of /\ of[r].item \in Items
    BY <1>1, <1>3, ImportLeaves, GrabType
  <2>2. CASE Skip(r)
    BY <1>2, <2>2 DEF Skip
  <2>3. CASE TakeOld(r)
    <3>1. /\ \A x \in Rows : ~Replacing(x)
          /\ transfer' = [transfer EXCEPT ![r] = "replacing"]
          /\ file'[of[r].item] = Nothing
      BY <2>1, <2>3 DEF TakeOld, Begins
    <3> QED
      BY <1>1, <1>3, <2>1, <3>1 DEF OneReplacing, Replacing, TypeOK
  <2>4. CASE Place(r) \/ Misplace(r) \/ GiveUp(r)
    <3>1. \A x \in Rows : Replacing(x)' => x # r /\ Replacing(x)
      BY <1>1, <2>4 DEF Place, Misplace, GiveUp, Replacing, TypeOK
    <3>2. \A x \in Rows : ~Replacing(x)'
      <4>1. Replacing(r) \/ \A x \in Rows : ~Replacing(x)
        BY <2>4 DEF Place, Misplace, GiveUp, PlacesNew, Begins
      <4> QED
        BY <1>1, <3>1, <4>1 DEF OneReplacing
    <3> QED
      BY <3>2 DEF OneReplacing
  <2> QED
    BY <1>3, <2>2, <2>3, <2>4 DEF ImportStep
<1> QED
  BY <1>2, <1>3, SearchLeaves, UserLeaves DEF Next, QueueStep, vars, queueVars

LEMMA JudgedStep ==
    ASSUME FilesInv, [Next]_vars
    PROVE  JudgedToImprove'
<1>1. TypeOK /\ JudgedToImprove /\ Lasting
  BY StepLasts DEF FilesInv
<1>2. \A r \in Rows : of[r] # Nothing =>
         of[r].over \in Rows \cup {Nothing} /\ of'[r] = of[r]
  BY <1>1, GrabType DEF Grab, Lasting
<1>3. \A r \in Rows : of[r] # Nothing => JudgedRow(r)'
  <2> TAKE r \in Rows
  <2> HAVE of[r] # Nothing
  <2>1. Judged(of[r].item, of[r].rel, of[r].over) /\ of[r].over \in Rows \cup {Nothing}
    BY <1>1, <1>2 DEF JudgedToImprove, JudgedRow
  <2>2. of[r].over # Nothing => of'[of[r].over] = of[of[r].over]
    BY <1>1, <2>1 DEF Judged, Lasting
  <2> QED
    BY <1>2, <2>1, <2>2 DEF Judged, JudgedRow
<1>4. \A w \in Searchers : pc[w] = "add" =>
         /\ known[w].over \in Rows \cup {Nothing}
         /\ known[w].over # Nothing =>
               /\ of[known[w].over] # Nothing /\ of'[known[w].over] = of[known[w].over]
               /\ Improves(ProfileOf[item[w]], pick[w].quality,
                           of[known[w].over].rel.fileQuality)
  BY <1>1 DEF JudgedToImprove, JudgedChoice, Judged, Lasting, TypeOK
<1>5. ASSUME NEW w \in Searchers, pc'[w] # "add",
             \A v \in Searchers \ {w} :
                /\ pc'[v] = pc[v] /\ pick'[v] = pick[v]
                /\ known'[v] = known[v] /\ item'[v] = item[v]
      PROVE  \A v \in Searchers : JudgedChoice(v)'
  BY <1>4, <1>5 DEF Judged, JudgedChoice
<1>6. ASSUME UNCHANGED searchVars
      PROVE  \A v \in Searchers : JudgedChoice(v)'
  BY <1>4, <1>6 DEF Judged, JudgedChoice, searchVars
<1>7. ASSUME UNCHANGED of
      PROVE  \A r \in Rows : JudgedRow(r)'
  BY <1>3, <1>7 DEF JudgedRow
<1>8. ASSUME NEW w \in Searchers, Add(w)
      PROVE  JudgedToImprove'
  <2>1. /\ pc[w] = "add" /\ pc'[w] # "add"
        /\ \A v \in Searchers \ {w} :
                /\ pc'[v] = pc[v] /\ pick'[v] = pick[v]
                /\ known'[v] = known[v] /\ item'[v] = item[v]
    BY <1>1, <1>8 DEF Add, ItemDone, TypeOK
  <2>2. \/ UNCHANGED of
        \/ /\ Unused # {}
           /\ of' = [of EXCEPT ![NewId] = [item |-> item[w], rel |-> pick[w],
                                           over |-> known[w].over, noted |-> TRUE]]
    BY <1>8 DEF Add
  <2>3. \A r \in Rows : JudgedRow(r)'
    <3>1. CASE UNCHANGED of
      BY <1>7, <3>1
    <3>2. CASE ~UNCHANGED of
      <4>1. PICK x \in Rows :
               /\ of[x] = Nothing
               /\ of'[x] = [item |-> item[w], rel |-> pick[w], over |-> known[w].over, noted |-> TRUE]
               /\ \A r \in Rows \ {x} : of'[r] = of[r]
        BY <1>1, <2>2, <3>2, FreshId DEF TypeOK
      <4>2. JudgedRow(x)'
        BY <1>4, <2>1, <4>1 DEF Judged, JudgedRow
      <4>3. \A r \in Rows \ {x} : of[r] = Nothing => JudgedRow(r)'
        BY <4>1 DEF JudgedRow
      <4> QED
        BY <1>3, <4>1, <4>2, <4>3
    <3> QED
      BY <3>1, <3>2
  <2>4. \A v \in Searchers : JudgedChoice(v)'
    BY <1>5, <2>1
  <2> QED
    BY <2>3, <2>4 DEF JudgedToImprove
<1>9. ASSUME NEW w \in Searchers, Judge(w)
      PROVE  JudgedToImprove'
  <2>1. UNCHANGED of /\ pc[w] = "judge" /\ item[w] \in Items
    BY <1>1, <1>9 DEF Judge, queueVars, TypeOK
  <2>2. CASE ItemDone(w) /\ UNCHANGED pick
    <3>1. \A v \in Searchers : JudgedChoice(v)'
      BY <1>1, <1>5, <2>2 DEF ItemDone, TypeOK
    <3> QED
      BY <1>7, <2>1, <3>1 DEF JudgedToImprove
  <2>3. CASE ~(ItemDone(w) /\ UNCHANGED pick)
    <3>1. PICK f \in SeenFiles(item[w]), n \in offers[w] : Chooses(w, f, n)
      BY <1>9, <2>3, JudgeChooses
    <3>2. f \in Rows \cup {Nothing}
          /\ (f # Nothing => of[f] # Nothing /\ QualityOf(f) \in Nat)
      BY <1>1, <2>1, SeenFileType
    <3>3. QualityCutoffSpec(ProfileOf[item[w]], Listing[n], Context(w, Listing[n], f))
      BY <3>1 DEF Chooses, Approved
    <3>4. f # Nothing => Improves(ProfileOf[item[w]], Listing[n].quality, of[f].rel.fileQuality)
      <4>1. f # Nothing => QualityOf(f) # NoQuality /\ QualityOf(f) = of[f].rel.fileQuality
        BY <3>2 DEF NoQuality, QualityOf
      <4>2. Context(w, Listing[n], f).have = QualityOf(f)
        BY DEF Context
      <4> QED
        BY <3>3, <4>1, <4>2 DEF QualityCutoffSpec
    <3>5. /\ pick'[w] = Listing[n] /\ known'[w].over = f /\ item'[w] = item[w]
          /\ \A v \in Searchers \ {w} :
                /\ pc'[v] = pc[v] /\ pick'[v] = pick[v]
                /\ known'[v] = known[v] /\ item'[v] = item[v]
      <4>1. pc' = [pc EXCEPT ![w] = "add"] /\ UNCHANGED item
        BY <1>9, <2>3 DEF Judge
      <4> QED
        BY <1>1, <3>1, <4>1 DEF Chooses, TypeOK
    <3>6. JudgedChoice(w)'
      BY <2>1, <3>2, <3>4, <3>5 DEF Judged, JudgedChoice
    <3>7. \A v \in Searchers : JudgedChoice(v)'
      BY <1>4, <3>5, <3>6 DEF Judged, JudgedChoice
    <3> QED
      BY <1>7, <2>1, <3>7 DEF JudgedToImprove
  <2> QED
    BY <2>2, <2>3
<1>10. ASSUME NEW w \in Searchers, Guard(w) \/ Search(w) \/ Insert(w)
       PROVE  JudgedToImprove'
  <2>1. UNCHANGED of
    BY <1>10 DEF Guard, Search, Insert, queueVars
  <2>2. /\ pc'[w] # "add"
        /\ \A v \in Searchers \ {w} :
                /\ pc'[v] = pc[v] /\ pick'[v] = pick[v]
                /\ known'[v] = known[v] /\ item'[v] = item[v]
    BY <1>1, <1>10 DEF Guard, Search, Insert, ItemDone, TypeOK
  <2> QED
    BY <1>5, <1>7, <2>1, <2>2 DEF JudgedToImprove
<1>11. ASSUME NEW i \in Items, NEW rel \in Offered, NEW noted \in BOOLEAN, UserGrab(i, rel, noted)
       PROVE  JudgedToImprove'
  <2>1. PICK x \in Rows : of'[x].over = Nothing /\ \A r \in Rows \ {x} : of'[r] = of[r]
    BY <1>1, <1>11, FreshId DEF UserGrab, TypeOK
  <2>2. JudgedRow(x)'
    BY <2>1 DEF Judged, JudgedRow
  <2>3. \A r \in Rows \ {x} : of[r] = Nothing => JudgedRow(r)'
    BY <2>1 DEF JudgedRow
  <2>4. \A r \in Rows : JudgedRow(r)'
    BY <1>3, <2>1, <2>2, <2>3
  <2>5. \A v \in Searchers : JudgedChoice(v)'
    BY <1>6, <1>11, UserLeaves
  <2> QED
    BY <2>4, <2>5 DEF JudgedToImprove
<1>12. ASSUME UNCHANGED <<of, searchVars>>
       PROVE  JudgedToImprove'
  <2>1. \A v \in Searchers : JudgedChoice(v)'
    BY <1>6, <1>12
  <2> QED
    BY <1>7, <1>12, <2>1 DEF JudgedToImprove
<1> QED
  BY <1>8, <1>9, <1>10, <1>11, <1>12, ImportLeaves
     DEF Next, SearchStep, QueueStep, vars, queueVars

LEMMA FilesInductive == Spec => []FilesInv
<1>1. Init => FilesInv
  <2> SUFFICES ASSUME Init PROVE FilesInv
    OBVIOUS
  <2>1. TypeOK
    BY TypeInit
  <2> QED
    BY <2>1 DEF Init, FilesInv, OneReplacing, Replacing, JudgedToImprove,
               JudgedRow, JudgedChoice
<1>2. FilesInv /\ [Next]_vars => FilesInv'
  <2>1. FilesInv /\ [Next]_vars => TypeOK'
    BY TypeStep DEF FilesInv
  <2> QED
    BY <2>1, ReplacingStep, JudgedStep DEF FilesInv
<1> QED
  BY <1>1, <1>2, PTL DEF Spec

-----------------------------------------------------------------------------
(* What was imported, with honest names: the file that is there leaves no    *)
(* wish for it, nor does the file that is on its way into an item whose old  *)
(* one is gone.  An item that an import left bare, and a profile that is not *)
(* in the order of the numbers, promise nothing.                             *)
OpenUntilGrabbed == \A r \in Rows : of[r] = Nothing => verdict[r] = "open"

Promised(i) == Ordered(ProfileOf[i]) /\ i \notin bared

SettledBy(i, q) ==
    \/ file[i] # Nothing /\ Settled(ProfileOf[i], q, Quality(i))
    \/ /\ file[i] = Nothing
       /\ \E y \in Rows : /\ Replacing(y) /\ of[y].item = i
                          /\ Settled(ProfileOf[i], q, of[y].rel.fileQuality)

ImportedIsSettled ==
    \A r \in Rows : verdict[r] = "imported" /\ Promised(of[r].item) =>
        SettledBy(of[r].item, of[r].rel.quality)

IInv ==
    /\ FailedInv /\ FilesInv /\ OpenUntilGrabbed
    /\ ImportedIsSettled /\ ImportedNotGrabbedAgain

LEMMA OpenStep ==
    ASSUME TypeOK, OpenUntilGrabbed, [Next]_vars
    PROVE  OpenUntilGrabbed'
<1> USE DEF OpenUntilGrabbed
<1>1. \A r \in Rows : of[r] # Nothing => of'[r] # Nothing
  BY StepLasts DEF Lasting
<1>2. ASSUME UNCHANGED verdict
      PROVE  OpenUntilGrabbed'
  BY <1>1, <1>2
<1>3. ASSUME NEW r \in Rows, of[r] # Nothing, ImportStep(r)
      PROVE  OpenUntilGrabbed'
  BY <1>1, <1>3, ImportVerdict DEF TypeOK, Queue!TypeOK
<1>4. ASSUME QueueStep
      PROVE  OpenUntilGrabbed'
  BY <1>1, <1>4, QueueLeaves
<1> QED
  BY <1>2, <1>3, <1>4, SearchLeaves, UserLeaves DEF Next, vars, queueVars

LEMMA SettledStep ==
    ASSUME HonestNames, IInv, [Next]_vars
    PROVE  ImportedIsSettled'
<1>1. TypeOK /\ OneReplacing /\ OpenUntilGrabbed /\ ImportedIsSettled /\ Lasting
  BY StepLasts DEF IInv, FilesInv
<1>2. \A q \in Rows : verdict[q] = "imported" =>
         /\ of[q] # Nothing /\ of'[q] = of[q] /\ of[q].item \in Items
         /\ of[q].rel.quality \in Nat
  BY <1>1, GrabType DEF OpenUntilGrabbed, Lasting
<1>3. ASSUME UNCHANGED fileVars,
             \A q \in Rows : verdict'[q] = "imported" => verdict[q] = "imported"
      PROVE  ImportedIsSettled'
  <2> SUFFICES ASSUME NEW q \in Rows, verdict'[q] = "imported", Promised(of[q].item)'
               PROVE  SettledBy(of[q].item, of[q].rel.quality)'
    BY DEF ImportedIsSettled
  <2>1. /\ verdict[q] = "imported" /\ of[q] # Nothing /\ of'[q] = of[q] /\ of[q].item \in Items
        /\ UNCHANGED <<file, transfer, bared>>
    BY <1>2, <1>3 DEF fileVars
  <2>2. SettledBy(of[q].item, of[q].rel.quality)
    BY <1>1, <2>1 DEF ImportedIsSettled, Promised
  <2>3. CASE file[of[q].item] # Nothing
    <3>1. Quality(of[q].item)' = Quality(of[q].item)
      BY <1>1, <2>1, <2>3, FileType DEF Lasting, Quality, QualityOf
    <3> QED
      BY <2>1, <2>2, <2>3, <3>1 DEF SettledBy
  <2>4. CASE file[of[q].item] = Nothing
    <3>1. PICK y \in Rows : /\ Replacing(y) /\ of[y].item = of[q].item
                            /\ Settled(ProfileOf[of[q].item], of[q].rel.quality, of[y].rel.fileQuality)
      BY <2>2, <2>4 DEF SettledBy
    <3>2. of'[y] = of[y] /\ Replacing(y)'
      BY <1>1, <2>1, <3>1 DEF OneReplacing, Lasting, Replacing
    <3> QED
      BY <2>1, <2>4, <3>1, <3>2 DEF SettledBy
  <2> QED
    BY <2>3, <2>4
<1>4. ASSUME NEW r \in Rows, of[r] # Nothing, ImportStep(r)
      PROVE  ImportedIsSettled'
  <2> DEFINE i == of[r].item
             new == of[r].rel.fileQuality
             P == ProfileOf[i]
  <2>1. /\ UNCHANGED of /\ i \in Items /\ new \in Nat
        /\ of[r].rel.quality = new
    BY <1>1, <1>4, ImportLeaves, GrabType DEF HonestNames
  <2>2. verdict \in [Rows -> {"open", "imported", "blocklisted"}]
        /\ file \in [Items -> Rows \cup {Nothing}] /\ bared \subseteq Items
        /\ transfer \in [Rows -> {"whole", "replacing", "moved"}]
    BY <1>1 DEF TypeOK, Queue!TypeOK, Queue!Verdicts
  <2>3. SUFFICES ASSUME NEW q \in Rows, verdict'[q] = "imported", Promised(of[q].item)'
                 PROVE  SettledBy(of[q].item, of[q].rel.quality)'
    BY DEF ImportedIsSettled
  <2> DEFINE j == of[q].item
             s == of[q].rel.quality
  <2>4. q = r \/ (q # r /\ verdict[q] = "imported")
    BY <1>1, <1>4, <2>2, <2>3, ImportVerdict
  <2>5. of[q] # Nothing /\ j \in Items /\ s \in Nat
    BY <1>1, <1>4, <2>4, GrabType DEF OpenUntilGrabbed
  <2>6. Ordered(ProfileOf[j]) /\ j \notin bared' /\ j \notin bared
    BY <1>4, <2>1, <2>3
       DEF Promised, ImportStep, Skip, TakeOld, Place, Misplace, GiveUp, fileVars
  <2>7. verdict[q] = "imported" => SettledBy(j, s)
    BY <1>1, <2>6 DEF ImportedIsSettled, Promised
  <2>8. CASE Skip(r)
    <3>1. UNCHANGED <<file, transfer, of>> /\ ~ImportAccepts(P, new, Quality(i))
      BY <2>1, <2>8 DEF Skip, Upgrades, fileVars
    <3>2. file[i] # Nothing
      BY <3>1 DEF ImportAccepts, Quality, QualityOf
    <3>3. \A k \in Items : Quality(k)' = Quality(k)
      BY <3>1 DEF Quality, QualityOf
    <3>4. \A y \in Rows : Replacing(y)' <=> Replacing(y)
      BY <3>1 DEF Replacing
    <3>5. CASE q = r
      <4>1. Quality(i) \in Nat \cup {NoQuality}
        BY <1>1, <2>1, QualityType
      <4>2. Settled(P, new, Quality(i))
        BY <2>1, <2>6, <3>1, <3>5, <4>1, ImportSettles
      <4> QED
        BY <2>1, <3>1, <3>2, <3>3, <3>5, <4>2 DEF SettledBy
    <3>6. CASE q # r
      <4>1. SettledBy(j, s)
        BY <2>4, <2>7, <3>6
      <4> QED
        BY <2>5, <3>1, <3>3, <3>4, <4>1 DEF SettledBy
    <3> QED
      BY <3>5, <3>6
  <2>9. CASE TakeOld(r)
    <3>1. /\ file[i] # Nothing /\ ImportAccepts(P, new, Quality(i)) /\ UNCHANGED verdict
          /\ verdict[r] = "open"
          /\ file' = [k \in Items |-> IF file[k] = file[i] THEN Nothing ELSE file[k]]
          /\ transfer' = [transfer EXCEPT ![r] = "replacing"]
          /\ bared' = bared \cup {k \in Items \ {i} : file[k] = file[i]}
          /\ \A x \in Rows : ~Replacing(x)
      BY <2>9 DEF TakeOld, Upgrades, Begins
    <3>2. q # r /\ SettledBy(j, s)
      BY <2>3, <2>4, <2>7, <3>1
    <3>3. file[j] # Nothing /\ Settled(ProfileOf[j], s, Quality(j))
      BY <3>1, <3>2 DEF SettledBy
    <3>4. CASE j = i
      <4>1. Quality(i) \in Nat
        BY <1>1, <2>1, <3>1, FileType
      <4>2. Settled(P, s, new)
        BY <2>1, <2>5, <2>6, <3>1, <3>3, <3>4, <4>1, StaysSettled
      <4>3. Replacing(r)' /\ file'[i] = Nothing
        BY <2>1, <2>2, <3>1 DEF Replacing
      <4> QED
        BY <2>1, <3>4, <4>2, <4>3 DEF SettledBy
    <3>5. CASE j # i
      <4>1. file[j] # file[i]
        BY <2>5, <2>6, <3>1, <3>5
      <4>2. file'[j] = file[j]
        BY <2>5, <3>1, <4>1
      <4>3. Quality(j)' = Quality(j)
        BY <2>1, <4>2 DEF Quality, QualityOf
      <4> QED
        BY <2>1, <3>3, <4>2, <4>3 DEF SettledBy
    <3> QED
      BY <3>4, <3>5
  <2>10. CASE Place(r) \/ Misplace(r)
    <3>1. /\ PlacesNew(r) /\ transfer' = [transfer EXCEPT ![r] = "moved"]
          /\ file' = Linked(r) \/ (file' = file /\ Misplace(r))
      BY <2>10 DEF Place, Misplace
    <3>2. /\ file[i] = Nothing
          /\ \A y \in Rows : Replacing(y) => y = r
      BY <1>1, <1>4, <3>1 DEF PlacesNew, Begins, OneReplacing
    <3>3. \A k \in Items : file'[k] = file[k] \/ (file[k] = Nothing /\ file'[k] = r)
      BY <2>1, <3>1, <3>2 DEF Linked
    <3>4. CASE q = r
      <4>1. file'[i] = r
        <5>1. CASE file' = Linked(r)
          BY <2>1, <5>1 DEF Linked
        <5>2. CASE Misplace(r) /\ file' = file
          <6>1. i \in bared'
            BY <3>2, <5>2 DEF Misplace
          <6> QED
            BY <2>6, <3>4, <6>1
        <5> QED
          BY <3>1, <5>1, <5>2
      <4>2. Quality(i)' = new /\ r # Nothing
        BY <2>1, <4>1, NamesAssumption DEF Quality, QualityOf
      <4>3. Settled(P, new, new)
        BY <2>1, <2>6, <3>4, NoImprovement DEF Settled, NoQuality
      <4> QED
        BY <2>1, <3>4, <4>1, <4>2, <4>3 DEF SettledBy
    <3>5. CASE q # r /\ file[j] # Nothing
      <4>1. SettledBy(j, s) /\ file'[j] = file[j]
        BY <2>4, <2>5, <2>7, <3>3, <3>5
      <4>2. Quality(j)' = Quality(j)
        BY <2>1, <4>1 DEF Quality, QualityOf
      <4> QED
        BY <2>1, <3>5, <4>1, <4>2 DEF SettledBy
    <3>6. CASE q # r /\ file[j] = Nothing
      <4>1. SettledBy(j, s)
        BY <2>4, <2>7, <3>6
      <4>2. PICK y \in Rows : /\ Replacing(y) /\ of[y].item = j
                              /\ Settled(ProfileOf[j], s, of[y].rel.fileQuality)
        BY <3>6, <4>1 DEF SettledBy
      <4>3. y = r /\ j = i
        BY <3>2, <4>2
      <4>4. file'[i] = r
        <5>1. CASE file' = Linked(r)
          BY <2>1, <5>1 DEF Linked
        <5>2. CASE Misplace(r) /\ file' = file
          <6>1. i \in bared'
            BY <3>2, <5>2 DEF Misplace
          <6> QED
            BY <2>6, <4>3, <6>1
        <5> QED
          BY <3>1, <5>1, <5>2
      <4>5. Quality(i)' = new /\ r # Nothing
        BY <2>1, <4>4, NamesAssumption DEF Quality, QualityOf
      <4> QED
        BY <2>1, <4>2, <4>3, <4>4, <4>5 DEF SettledBy
    <3> QED
      BY <3>4, <3>5, <3>6
  <2>11. CASE GiveUp(r)
    <3>1. /\ Replacing(r) /\ UNCHANGED <<file, verdict>>
          /\ bared' = bared \cup {i} /\ transfer' = [transfer EXCEPT ![r] = "whole"]
      BY <2>11 DEF GiveUp, Queue!Retry, Queue!Fail, Queue!Move
    <3>2. j # i /\ q # r
      BY <2>6, <3>1
    <3>3. SettledBy(j, s)
      BY <2>4, <2>7, <3>2
    <3>4. \A y \in Rows : Replacing(y) => y = r
      BY <1>1, <3>1 DEF OneReplacing
    <3>5. file[j] # Nothing /\ Settled(ProfileOf[j], s, Quality(j))
      BY <3>2, <3>3, <3>4 DEF SettledBy
    <3>6. Quality(j)' = Quality(j)
      BY <2>1, <3>1 DEF Quality, QualityOf
    <3> QED
      BY <2>1, <3>1, <3>5, <3>6 DEF SettledBy
  <2> QED
    BY <1>4, <2>8, <2>9, <2>10, <2>11 DEF ImportStep
<1>5. ASSUME QueueStep
      PROVE  ImportedIsSettled'
  BY <1>1, <1>3, <1>5, QueueLeaves
<1>6. ASSUME UNCHANGED <<verdict, fileVars>>
      PROVE  ImportedIsSettled'
  BY <1>3, <1>6
<1> QED
  BY <1>4, <1>5, <1>6, SearchLeaves, UserLeaves DEF Next, vars, queueVars

(* What was imported for its item before a search began, the search does    *)
(* not choose when it has seen the file there is.                            *)
LEMMA ChoiceIsNew ==
    ASSUME IInv, NEW w \in Searchers, pc[w] = "judge", NEW f \in SeenFiles(item[w]), f # Nothing,
           NEW n \in offers[w], Promised(item[w]),
           Approved(ProfileOf[item[w]], Listing[n], Context(w, Listing[n], f))
    PROVE  Listing[n].title \notin known[w].imported
<1> DEFINE i == item[w]
           rel == Listing[n]
<1>1. TypeOK /\ KnownHasEnded /\ ImportedIsSettled
  BY DEF IInv, FailedInv
<1>2. i \in Items /\ rel \in Offered
  BY <1>1 DEF TypeOK, Offered
<1>3. f = file[i] /\ of[f] # Nothing
  BY <1>1, <1>2, SeenFileType
<1>4. /\ Allowed(ProfileOf[i], rel.quality)
      /\ QualityCutoffSpec(ProfileOf[i], rel, Context(w, rel, f))
      /\ Context(w, rel, f).have = Quality(i)
  BY <1>3 DEF Approved, Context, Quality
<1>5. ASSUME rel.title \in known[w].imported
      PROVE  FALSE
  <2>1. rel.title \in Ended(i, "imported")
    BY <1>1, <1>2, <1>5, NamesAssumption DEF KnownHasEnded
  <2>2. PICK r \in Rows : /\ of[r] # Nothing /\ of[r].item = i
                          /\ verdict[r] = "imported" /\ of[r].rel.title = rel.title
    BY <2>1 DEF Ended, Grabs
  <2>3. of[r].rel.quality = rel.quality
    BY <1>1, <1>2, <2>2, GrabType, SameTitleSameQuality
  <2>4. SettledBy(i, rel.quality)
    BY <1>1, <2>2, <2>3 DEF ImportedIsSettled
  <2>5. Settled(ProfileOf[i], rel.quality, Quality(i))
    BY <1>3, <2>4 DEF SettledBy
  <2> QED
    BY <1>4, <2>5 DEF Settled, QualityCutoffSpec
<1> QED
  BY <1>5

LEMMA ChoiceStep ==
    ASSUME IInv, [Next]_vars
    PROVE  ImportedNotGrabbedAgain'
<1>1. TypeOK /\ ImportedNotGrabbedAgain
  BY DEF IInv, FailedInv
<1>b. bared \subseteq bared'
  <2>1. \A r \in Rows : ImportStep(r) => bared \subseteq bared'
    BY DEF ImportStep, Skip, TakeOld, Place, Misplace, GiveUp, fileVars
  <2> QED
    BY <2>1, SearchLeaves, UserLeaves DEF Next, QueueStep, fileVars, vars, queueVars
<1>2. ASSUME UNCHANGED searchVars
      PROVE  ImportedNotGrabbedAgain'
  BY <1>1, <1>b, <1>2 DEF ImportedNotGrabbedAgain, searchVars
<1>3. ASSUME NEW w \in Searchers, pc'[w] # "add",
             \A v \in Searchers \ {w} :
                /\ pc'[v] = pc[v] /\ pick'[v] = pick[v]
                /\ known'[v] = known[v] /\ item'[v] = item[v]
      PROVE  ImportedNotGrabbedAgain'
  BY <1>1, <1>b, <1>3 DEF ImportedNotGrabbedAgain
<1>4. ASSUME NEW w \in Searchers, Judge(w), ~(ItemDone(w) /\ UNCHANGED pick)
      PROVE  ImportedNotGrabbedAgain'
  <2>1. PICK f \in SeenFiles(item[w]), n \in offers[w] : Chooses(w, f, n)
    BY <1>4, JudgeChooses
  <2>2. pc[w] = "judge" /\ pc' = [pc EXCEPT ![w] = "add"] /\ UNCHANGED item
    BY <1>4 DEF Judge
  <2>3. f # Nothing /\ Promised(item[w]) => Listing[n].title \notin known[w].imported
    BY <2>1, <2>2, ChoiceIsNew DEF Chooses
  <2>4. /\ pick'[w] = Listing[n] /\ known'[w].imported = known[w].imported
        /\ known'[w].over = f
        /\ \A v \in Searchers \ {w} :
              /\ pc'[v] = pc[v] /\ pick'[v] = pick[v]
              /\ known'[v] = known[v] /\ item'[v] = item[v]
    BY <1>1, <2>1, <2>2 DEF Chooses, TypeOK
  <2>5. known'[w].over # Nothing /\ Ordered(ProfileOf[item'[w]]) /\ item'[w] \notin bared'
           => pick'[w].title \notin known'[w].imported
    BY <1>b, <2>2, <2>3, <2>4 DEF Promised
  <2> QED
    BY <1>1, <1>b, <2>4, <2>5 DEF ImportedNotGrabbedAgain
<1>5. ASSUME NEW w \in Searchers, Guard(w)
      PROVE  ImportedNotGrabbedAgain'
  BY <1>1, <1>3, <1>5 DEF Guard, TypeOK
<1>6. ASSUME NEW w \in Searchers, Search(w)
      PROVE  ImportedNotGrabbedAgain'
  BY <1>1, <1>3, <1>6 DEF Search, ItemDone, TypeOK
<1>7. ASSUME NEW w \in Searchers, Add(w) \/ Insert(w)
      PROVE  ImportedNotGrabbedAgain'
  BY <1>1, <1>3, <1>7 DEF Add, Insert, ItemDone, TypeOK
<1>8. ASSUME NEW w \in Searchers, ItemDone(w), UNCHANGED pick
      PROVE  ImportedNotGrabbedAgain'
  BY <1>1, <1>3, <1>8 DEF ItemDone, TypeOK
<1> QED
  BY <1>2, <1>4, <1>5, <1>6, <1>7, <1>8, ImportLeaves, UserLeaves
     DEF Next, SearchStep, QueueStep, vars

-----------------------------------------------------------------------------
(* Theorems *)

(* Searches, users, imports and the queue keep every variable in its type: a *)
(* search past its guard has an item, and one past its client's answer a     *)
(* download.                                                                 *)
THEOREM TypeCorrect == Spec => []TypeOK
<1>1. TypeOK /\ [Next]_vars => TypeOK'
  BY TypeStep
<1> QED
  BY <1>1, TypeInit, PTL DEF Spec

(* If the name of every file tells the quality its title does, the decision  *)
(* engine never takes for an item what was imported for it before the search *)
(* began, however many searches, users and imports there are; but for the    *)
(* items and profiles the property exempts.                                  *)
THEOREM NoSecondImport ==
    ASSUME HonestNames PROVE Spec => []ImportedNotGrabbedAgain
<1>1. FailedInv /\ FilesInv /\ Init => IInv
  <2> SUFFICES ASSUME FailedInv, FilesInv, Init PROVE IInv
    OBVIOUS
  <2> QED
    BY DEF Init, IInv, Queue!Init, OpenUntilGrabbed, ImportedIsSettled,
           ImportedNotGrabbedAgain
<1>2. /\ IInv /\ [Next]_vars /\ FailedInv' /\ FilesInv' => IInv'
      /\ IInv => ImportedNotGrabbedAgain
  <2>1. IInv => TypeOK /\ OpenUntilGrabbed
    BY DEF IInv, FailedInv
  <2> QED
    BY <2>1, OpenStep, SettledStep, ChoiceStep DEF IInv
<1> QED
  BY <1>1, <1>2, FailedInductive, FilesInductive, PTL DEF Spec

(* Whatever the releases and profiles, no search takes what was on the       *)
(* blocklist when it began: it reads the list after that, and passes over    *)
(* what it finds there.                                                      *)
THEOREM NoSecondFailure == Spec => []FailedNotGrabbedAgain
<1>1. FailedInv => FailedNotGrabbedAgain
  BY DEF FailedInv
<1> QED
  BY <1>1, FailedInductive, PTL

(* Whatever the releases and profiles: an item loses its file only to one    *)
(* that the import has found better by number, which in an ordered profile   *)
(* is better by place; and what a search has judged against this very file   *)
(* is better by place in any profile.                                        *)
THEOREM FilesOnlyImprove == Spec => RankNeverFalls
<1>1. ASSUME FilesInv, [Next]_vars, NEW j \in Items, file[j] # Nothing, file'[j] # file[j]
      PROVE  \E r \in Rows :
                LET p == ProfileOf[of[r].item] IN
                /\ ~Replacing(r) /\ Replacing(r)' /\ file[of[r].item] = file[j]
                /\ Ordered(p) \/ Vetted(r, file[j]) =>
                      ~Improves(p, QualityOf(file[j]), of[r].rel.fileQuality)
  <2>1. TypeOK /\ OneReplacing /\ JudgedToImprove
    BY <1>1 DEF FilesInv
  <2>2. PICK r \in Rows : of[r] # Nothing /\ ImportStep(r)
    BY <1>1, <2>1, SearchLeaves, UserLeaves DEF Next, QueueStep, vars, queueVars, fileVars
  <2>3. of[r].item \in Items /\ of[r].rel.quality \in Nat /\ of[r].rel.fileQuality \in Nat
    BY <2>1, <2>2, GrabType
  <2>4. TakeOld(r)
    <3>1. PlacesNew(r) => file[of[r].item] = Nothing
      BY <2>1 DEF PlacesNew, OneReplacing
    <3>2. PlacesNew(r) => Linked(r)[j] = file[j]
      BY <1>1, <3>1 DEF Linked
    <3> QED
      BY <1>1, <2>2, <3>2 DEF ImportStep, Skip, Place, Misplace, GiveUp, fileVars
  <2> DEFINE i == of[r].item
             p == ProfileOf[i]
             new == of[r].rel.fileQuality
  <2>5. /\ ~Replacing(r) /\ Replacing(r)' /\ file[i] = file[j] /\ file[i] # Nothing
        /\ ImportAccepts(p, new, Quality(i))
    <3>1. transfer' = [transfer EXCEPT ![r] = "replacing"] /\ r \in DOMAIN transfer
      BY <2>1, <2>4 DEF TakeOld, TypeOK
    <3>2. Replacing(r)'
      BY <3>1 DEF Replacing
    <3> QED
      BY <1>1, <2>4, <3>2 DEF TakeOld, Begins, Upgrades
  <2>6. Quality(i) \in Nat /\ Quality(i) = QualityOf(file[j])
        /\ Quality(i) = of[file[j]].rel.fileQuality
    BY <2>1, <2>3, <2>5, FileType DEF Quality
  <2>7. CASE Ordered(p)
    <3>1. new > Quality(i)
      BY <2>5, <2>6 DEF ImportAccepts, NoQuality
    <3> QED
      BY <2>3, <2>5, <2>6, <2>7, <3>1, NoImprovement
  <2>8. CASE Vetted(r, file[j])
    <3>1. /\ of[r].over = file[j] /\ of[r].over # Nothing
          /\ new = of[r].rel.quality
      BY <2>8 DEF Vetted
    <3>2. Improves(p, of[r].rel.quality, of[file[j]].rel.fileQuality)
      BY <2>1, <2>2, <3>1 DEF JudgedToImprove, JudgedRow, Judged
    <3>3. ~Improves(p, Quality(i), new)
      BY <2>3, <2>6, <3>1, <3>2, ImprovesOneWay
    <3> QED
      BY <2>5, <2>6, <3>3
  <2>9. CASE ~Ordered(p) /\ ~Vetted(r, file[j])
    BY <2>5, <2>9
  <2> QED
    BY <2>7, <2>8, <2>9
<1>2. FilesInv /\ [Next]_vars =>
         [\A j \in Items :
          file[j] # Nothing /\ file'[j] # file[j] =>
             \E r \in Rows :
                LET p == ProfileOf[of[r].item] IN
                /\ ~Replacing(r) /\ Replacing(r)' /\ file[of[r].item] = file[j]
                /\ Ordered(p) \/ Vetted(r, file[j]) =>
                      ~Improves(p, QualityOf(file[j]), of[r].rel.fileQuality)]_vars
  BY <1>1
<1> QED
  BY <1>2, FilesInductive, PTL DEF Spec, RankNeverFalls

-----------------------------------------------------------------------------
(* The ranking *)

(* Keys are compared lexicographically: a strict order of keys of one       *)
(* length, in which two that differ come one after the other.               *)
LEMMA KeyOrder ==
    ASSUME NEW N \in Nat, NEW a \in [1..N -> Int], NEW b \in [1..N -> Int], NEW c \in [1..N -> Int]
    PROVE  /\ ~KeyLess(a, a)
           /\ KeyLess(a, b) /\ KeyLess(b, c) => KeyLess(a, c)
           /\ a # b => KeyLess(a, b) \/ KeyLess(b, a)
<1>1. ~KeyLess(a, a)
  BY DEF KeyLess
<1>2. ASSUME KeyLess(a, b), KeyLess(b, c) PROVE KeyLess(a, c)
  <2>1. PICK m \in 1..N : a[m] < b[m] /\ \A i \in 1..(m - 1) : a[i] = b[i]
    BY <1>2 DEF KeyLess
  <2>2. PICK n \in 1..N : b[n] < c[n] /\ \A i \in 1..(n - 1) : b[i] = c[i]
    BY <1>2 DEF KeyLess
  <2>3. CASE m <= n
    <3>1. a[m] < c[m]
      BY <2>1, <2>2, <2>3
    <3>2. \A i \in 1..(m - 1) : a[i] = c[i]
      BY <2>1, <2>2, <2>3
    <3> QED
      BY <3>1, <3>2 DEF KeyLess
  <2>4. CASE n < m
    <3>1. a[n] < c[n]
      BY <2>1, <2>2, <2>4
    <3>2. \A i \in 1..(n - 1) : a[i] = c[i]
      BY <2>1, <2>2, <2>4
    <3> QED
      BY <3>1, <3>2 DEF KeyLess
  <2> QED
    BY <2>3, <2>4
<1>3. ASSUME a # b PROVE KeyLess(a, b) \/ KeyLess(b, a)
  <2> DEFINE D == {n \in 1..N : a[n] # b[n]}
  <2>1. PICK i \in 1..N : a[i] # b[i]
    BY <1>3
  <2>a. D \subseteq Nat /\ i \in D
    BY <2>1
  <2>2. PICK n \in D : \A m \in D : n <= m
    <3> HIDE DEF D
    <3> QED
      BY <2>a, LeastOf
  <2>3. n \in 1..N /\ a[n] # b[n] /\ \A m \in 1..(n - 1) : a[m] = b[m]
    BY <2>2
  <2>4. a[n] < b[n] \/ b[n] < a[n]
    BY <2>3
  <2>5. DOMAIN a = 1..N /\ DOMAIN b = 1..N /\ \A m \in 1..(n - 1) : b[m] = a[m]
    BY <2>3
  <2> QED
    BY <2>3, <2>4, <2>5 DEF KeyLess
<1> QED
  BY <1>1, <1>2, <1>3

(* The release is listed, of those with a smaller key and of its equals the first. *)
Precedes(key, n, m) == KeyLess(key[n], key[m]) \/ (key[n] = key[m] /\ n <= m)

(* Of approved releases exactly one comes before all others. *)
LEMMA OneIsBest ==
    ASSUME NEW S, S \subseteq Nat, S # {}, IsFiniteSet(S), NEW N \in Nat,
           NEW key, \A n \in S : key[n] \in [1..N -> Int]
    PROVE  \E n \in S : Best(S, key) = {n}
<1> DEFINE Ahead(n) == {m \in S : m # n /\ Precedes(key, m, n)}
           C == {Cardinality(Ahead(n)) : n \in S}
<1>1. \A n \in S : IsFiniteSet(Ahead(n)) /\ Cardinality(Ahead(n)) \in Nat
  BY FS_Subset, FS_CardinalityType
<1>2. \E k \in C : \A l \in C : k <= l
  <2>1. C \subseteq Nat /\ C # {}
    BY <1>1
  <2> HIDE DEF C
  <2> QED
    BY <2>1, LeastOf
<1>3. PICK n \in S : \A m \in S : Cardinality(Ahead(n)) <= Cardinality(Ahead(m))
  BY <1>2
<1>4. \A l, m \in S : l = m \/ Precedes(key, l, m) \/ Precedes(key, m, l)
  <2> SUFFICES ASSUME NEW l \in S, NEW m \in S
               PROVE  l = m \/ Precedes(key, l, m) \/ Precedes(key, m, l)
    OBVIOUS
  <2>1. key[l] \in [1..N -> Int] /\ key[m] \in [1..N -> Int]
    OBVIOUS
  <2>2. key[l] # key[m] => KeyLess(key[l], key[m]) \/ KeyLess(key[m], key[l])
    BY <2>1, KeyOrder
  <2>3. l <= m \/ m <= l
    OBVIOUS
  <2> QED
    BY <2>2, <2>3, Zenon DEF Precedes
<1>5. \A l, m, q \in S : Precedes(key, l, m) /\ Precedes(key, m, q) => Precedes(key, l, q)
  <2> SUFFICES ASSUME NEW l \in S, NEW m \in S, NEW q \in S, Precedes(key, l, m), Precedes(key, m, q)
               PROVE  Precedes(key, l, q)
    OBVIOUS
  <2>1. key[l] \in [1..N -> Int] /\ key[m] \in [1..N -> Int] /\ key[q] \in [1..N -> Int]
    OBVIOUS
  <2>2. KeyLess(key[l], key[m]) /\ KeyLess(key[m], key[q]) => KeyLess(key[l], key[q])
    BY <2>1, KeyOrder
  <2>3. l <= m /\ m <= q => l <= q
    OBVIOUS
  <2> QED
    BY <2>2, <2>3, Zenon DEF Precedes
<1>6. \A l, m \in S : Precedes(key, l, m) /\ Precedes(key, m, l) => l = m
  <2> SUFFICES ASSUME NEW l \in S, NEW m \in S, Precedes(key, l, m), Precedes(key, m, l)
               PROVE  l = m
    OBVIOUS
  <2>1. key[l] \in [1..N -> Int] /\ key[m] \in [1..N -> Int]
    OBVIOUS
  <2>2. ~KeyLess(key[l], key[l]) /\ ~KeyLess(key[m], key[m])
        /\ (KeyLess(key[l], key[m]) /\ KeyLess(key[m], key[l]) => KeyLess(key[l], key[l]))
    BY <2>1, KeyOrder
  <2>3. l \in Nat /\ m \in Nat
    OBVIOUS
  <2>4. l <= m /\ m <= l => l = m
    BY <2>3
  <2> QED
    BY <2>2, <2>4, Zenon DEF Precedes
<1>7. ASSUME NEW m \in Ahead(n) PROVE FALSE
  <2>1. m \in S /\ m # n /\ Precedes(key, m, n)
    OBVIOUS
  <2>2. ASSUME NEW l \in Ahead(m) PROVE l \in Ahead(n)
    <3>1. l \in S /\ l # m /\ Precedes(key, l, m)
      OBVIOUS
    <3>2. Precedes(key, l, n)
      BY <1>5, <2>1, <3>1
    <3>3. l # n
      BY <1>6, <2>1, <3>1
    <3> QED
      BY <3>1, <3>2, <3>3
  <2>4. Cardinality(Ahead(m)) < Cardinality(Ahead(n))
    <3>1. Ahead(m) \subseteq Ahead(n) /\ m \in Ahead(n) /\ m \notin Ahead(m)
      BY <2>2
    <3> HIDE DEF Ahead
    <3>2. Cardinality(Ahead(m)) <= Cardinality(Ahead(n))
          /\ (Cardinality(Ahead(m)) = Cardinality(Ahead(n)) => Ahead(m) = Ahead(n))
      BY <1>1, <3>1, FS_Subset
    <3>3. Ahead(m) # Ahead(n)
      BY <3>1
    <3>4. Cardinality(Ahead(m)) \in Nat /\ Cardinality(Ahead(n)) \in Nat
      BY <1>1, <2>1
    <3> QED
      BY <3>2, <3>3, <3>4
  <2>5. Cardinality(Ahead(m)) \in Nat /\ Cardinality(Ahead(n)) \in Nat
    BY <1>1, <2>1
  <2>6. Cardinality(Ahead(n)) <= Cardinality(Ahead(m))
    BY <1>3, <2>1
  <2> HIDE DEF Ahead
  <2> QED
    BY <2>4, <2>5, <2>6
<1>8. \A m \in S : Precedes(key, n, m)
  <2>1. Precedes(key, n, n)
    BY DEF Precedes
  <2> QED
    BY <1>4, <1>7, <2>1
<1>9. Best(S, key) = {m \in S : \A l \in S : Precedes(key, m, l)}
  BY DEF Best, Precedes
<1>10. ASSUME NEW m \in Best(S, key) PROVE m = n
  BY <1>6, <1>8, <1>9
<1>11. n \in Best(S, key)
  BY <1>8, <1>9
<1> QED
  BY <1>10, <1>11

LEMMA KeyJoined ==
    ASSUME NEW s \in Seq(Int), NEW t \in Seq(Int), Len(s) + Len(t) = 5
    PROVE  s \o t \in [1..5 -> Int]
<1>1. s \o t \in Seq(Int)
  BY ConcatProperties
<1>2. Len(s \o t) = 5
  BY ConcatProperties
<1>3. PICK k \in Seq(Int) : k = s \o t
  BY <1>1
<1>4. k \in [1..Len(k) -> Int]
  BY LenProperties, ElementOfSeq
<1> QED
  BY <1>2, <1>3, <1>4

LEMMA KeyType ==
    ASSUME NEW r, NEW score \in Int, NEW strategy,
           r.quality \in Int, r.seeders \in Int, r.age \in Int, r.priority \in Int
    PROVE  SortKey(r, score, strategy) \in [1..5 -> Int]
<1> DEFINE merit == <<-r.quality, -score, -r.seeders, r.age>>
           first == <<r.priority>>
<1>1. merit \in Seq(Int) /\ Len(merit) = 4 /\ first \in Seq(Int) /\ Len(first) = 1
  OBVIOUS
<1>2. SortKey(r, score, strategy) \in {first \o merit, merit \o first}
  BY DEF SortKey
<1> HIDE DEF merit, first
<1>3. Len(merit) + Len(first) = 5 /\ Len(first) + Len(merit) = 5
  BY <1>1
<1>4. merit \o first \in [1..5 -> Int] /\ first \o merit \in [1..5 -> Int]
  BY <1>1, <1>3, KeyJoined
<1> QED
  BY <1>2, <1>4

(* Gains that are added up one by one, and never leave the range. *)
Totals(t, gain, N) ==
    t = [n \in 0..N |-> IF n = 0 THEN 0 ELSE Saturated(t[n - 1] + gain[n])]

LEMMA TotalsExist ==
    ASSUME NEW N \in Nat, NEW gain
    PROVE  \E t : Totals(t, gain, N)
<1> DEFINE M == {n \in Nat : ~\E t : Totals(t, gain, n)}
<1>1. SUFFICES ASSUME M # {} PROVE FALSE
  OBVIOUS
<1>2. PICK n \in M : \A m \in M : n <= m
  <2>1. M \subseteq Nat
    OBVIOUS
  <2> HIDE DEF M
  <2> QED
    BY <1>1, <2>1, LeastOf
<1>3. n # 0
  <2> DEFINE z == [i \in 0..0 |-> 0]
  <2>1. z = [i \in 0..0 |-> IF i = 0 THEN 0 ELSE Saturated(z[i - 1] + gain[i])]
    OBVIOUS
  <2>2. Totals(z, gain, 0)
    BY <2>1 DEF Totals
  <2> QED
    BY <2>2
<1>4. n - 1 \in Nat /\ n - 1 \notin M
  BY <1>2, <1>3
<1>5. PICK t : Totals(t, gain, n - 1)
  BY <1>4
<1> DEFINE u == [i \in 0..n |-> IF i = n THEN Saturated(t[n - 1] + gain[n]) ELSE t[i]]
<1>6. ASSUME NEW i \in 0..n
      PROVE  u[i] = IF i = 0 THEN 0 ELSE Saturated(u[i - 1] + gain[i])
  <2>1. CASE i = n
    <3>1. u[n - 1] = t[n - 1]
      BY <1>3, <1>4
    <3> QED
      BY <1>3, <2>1, <3>1
  <2>2. CASE i # n
    <3>1. i \in 0..(n - 1) /\ u[i] = t[i]
      BY <1>4, <2>2
    <3>2. t[i] = IF i = 0 THEN 0 ELSE Saturated(t[i - 1] + gain[i])
      BY <1>5, <3>1 DEF Totals
    <3>3. i # 0 => u[i - 1] = t[i - 1]
      BY <1>4, <3>1
    <3> QED
      BY <3>1, <3>2, <3>3
  <2> QED
    BY <2>1, <2>2
<1>7. Totals(u, gain, n)
  <2>1. u = [i \in 0..n |-> u[i]]
    OBVIOUS
  <2> HIDE DEF u
  <2> QED
    BY <1>6, <2>1 DEF Totals
<1> QED
  BY <1>2, <1>7

LEMMA TotalsRange ==
    ASSUME NEW N \in Nat, NEW gain, \A n \in 1..N : gain[n] \in Int, NEW t, Totals(t, gain, N)
    PROVE  \A n \in 0..N : t[n] \in -(MaxScore + 1)..MaxScore
<1> DEFINE M == {n \in 0..N : ~(t[n] \in -(MaxScore + 1)..MaxScore)}
<1>1. SUFFICES ASSUME M # {} PROVE FALSE
  OBVIOUS
<1>2. PICK n \in M : \A m \in M : n <= m
  <2>1. M \subseteq Nat
    OBVIOUS
  <2> HIDE DEF M
  <2> QED
    BY <1>1, <2>1, LeastOf
<1>3. t[n] = IF n = 0 THEN 0 ELSE Saturated(t[n - 1] + gain[n])
  BY DEF Totals
<1>4. n # 0
  BY <1>3, ScoreAssumption
<1>5. n - 1 \in 0..N /\ n - 1 \notin M
  BY <1>2, <1>4
<1>6. t[n - 1] \in Int /\ gain[n] \in Int
  BY <1>4, <1>5, ScoreAssumption
<1>7. \A k \in Int : Saturated(k) \in -(MaxScore + 1)..MaxScore
  BY ScoreAssumption DEF Saturated
<1> QED
  BY <1>3, <1>4, <1>6, <1>7

LEMMA ScoreIsTotal ==
    ASSUME NEW formats, NEW scores, NEW title, Len(formats) \in Nat
    PROVE  \E t : /\ Totals(t, [n \in 1..Len(formats) |->
                                  IF FormatMatches(formats[n], title) /\ formats[n].id \in DOMAIN scores
                                  THEN scores[formats[n].id] ELSE 0], Len(formats))
                  /\ Score(formats, scores, title) = t[Len(formats)]
<1> DEFINE gain == [n \in 1..Len(formats) |->
                      IF FormatMatches(formats[n], title) /\ formats[n].id \in DOMAIN scores
                      THEN scores[formats[n].id] ELSE 0]
           Q(t) == t = [n \in 0..Len(formats) |->
                          IF n = 0 THEN 0
                          ELSE Saturated(t[n - 1] +
                                 IF FormatMatches(formats[n], title) /\ formats[n].id \in DOMAIN scores
                                 THEN scores[formats[n].id] ELSE 0)]
           sum == CHOOSE t : Q(t)
<1>1. Score(formats, scores, title) = sum[Len(formats)]
  BY Zenon DEF Score
<1>2. ASSUME NEW t
      PROVE  Totals(t, gain, Len(formats)) <=> Q(t)
  <2> DEFINE N == Len(formats)
  <2>1. N \in Nat
    OBVIOUS
  <2>2. ASSUME NEW n \in 0..N, n # 0
        PROVE  gain[n] = IF FormatMatches(formats[n], title) /\ formats[n].id \in DOMAIN scores
                         THEN scores[formats[n].id] ELSE 0
    <3>1. n \in 1..N
      BY <2>1, <2>2
    <3> QED
      BY <3>1
  <2>3. [n \in 0..N |-> IF n = 0 THEN 0 ELSE Saturated(t[n - 1] + gain[n])]
        = [n \in 0..N |->
             IF n = 0 THEN 0
             ELSE Saturated(t[n - 1] +
                    IF FormatMatches(formats[n], title) /\ formats[n].id \in DOMAIN scores
                    THEN scores[formats[n].id] ELSE 0)]
    <3> HIDE DEF gain, N
    <3> QED
      BY <2>2
  <2> QED
    BY <2>3 DEF Totals
<1>3. \E t : Q(t)
  <2> HIDE DEF gain, Q
  <2> QED
    BY <1>2, TotalsExist
<1>4. Q(sum)
  <2> HIDE DEF Q
  <2> QED
    BY <1>3, Zenon
<1>5. Totals(sum, gain, Len(formats))
  <2> HIDE DEF gain, Q, sum
  <2> QED
    BY <1>2, <1>4
<1> HIDE DEF sum, Q
<1> QED
  BY <1>1, <1>5, Zenon

(* The score of a release's formats stays what 32 bits hold, however many   *)
(* formats match it and whatever they count.                                *)
THEOREM ScoresAreBounded ==
    ASSUME NEW formats, Len(formats) \in Nat, NEW title,
           NEW scores, \A k \in DOMAIN scores : scores[k] \in Int
    PROVE  Score(formats, scores, title) \in -(MaxScore + 1)..MaxScore
<1> DEFINE N == Len(formats)
           gain == [n \in 1..N |-> IF FormatMatches(formats[n], title) /\ formats[n].id \in DOMAIN scores
                                   THEN scores[formats[n].id] ELSE 0]
<1>1. N \in Nat
  OBVIOUS
<1>2. PICK t : Totals(t, gain, N) /\ Score(formats, scores, title) = t[N]
  BY <1>1, ScoreIsTotal, Zenon
<1>3. \A n \in 1..N : gain[n] \in Int
  OBVIOUS
<1> HIDE DEF gain, N
<1>4. \A n \in 0..N : t[n] \in -(MaxScore + 1)..MaxScore
  BY <1>1, <1>2, <1>3, TotalsRange
<1>5. N \in 0..N
  BY <1>1
<1> QED
  BY <1>2, <1>4, <1>5

Determined(w) ==
    pc[w] = "judge" => \A f \in SeenFiles(item[w]) :
        Fit(w, f) # {} => \E n \in Fit(w, f) : Best(Fit(w, f), Keys(w)) = {n}

LEMMA RankedType ==
    ASSUME NEW n \in DOMAIN Listing
    PROVE  /\ Listing[n].quality \in Int /\ Listing[n].seeders \in Int
           /\ Listing[n].age \in Int /\ Listing[n].priority \in Int
<1> DEFINE R == [title : STRING, guid : Nat, quality : Nat, fileName : STRING,
                 fileQuality : Nat, languages : SUBSET Int, size : Int,
                 protocol : STRING, seeders : Nat, age : Nat, priority : Int,
                 covers : SUBSET Items, lead : Items]
<1>1. Listing \in Seq(R)
  BY ListingAssumption
<1>2. \A x \in R : x.quality \in Int /\ x.seeders \in Int /\ x.age \in Int /\ x.priority \in Int
  OBVIOUS
<1> HIDE DEF R
<1>3. Listing[n] \in R
  BY <1>1
<1> QED
  BY <1>2, <1>3

LEMMA ChoiceIsDetermined == ASSUME TypeOK, NEW w \in Searchers PROVE Determined(w)
<1> SUFFICES ASSUME pc[w] = "judge", NEW f \in SeenFiles(item[w]), Fit(w, f) # {}
             PROVE  \E n \in Fit(w, f) : Best(Fit(w, f), Keys(w)) = {n}
  BY DEF Determined
<1>1. offers[w] \subseteq DOMAIN Listing /\ item[w] \in Items
  BY DEF TypeOK
<1>2. PICK N \in Nat : DOMAIN Listing = 1..N
  BY ListingAssumption
<1>3. Fit(w, f) \subseteq 1..N
  BY <1>1, <1>2 DEF Fit
<1>4. IsFiniteSet(Fit(w, f)) /\ Fit(w, f) \subseteq Nat
  <2>1. IsFiniteSet(1..N)
    BY FS_Interval
  <2> QED
    BY <1>3, <2>1, FS_Subset
<1>5. ASSUME NEW n \in Fit(w, f)
      PROVE  Keys(w)[n] \in [1..5 -> Int]
  <2>1. n \in offers[w] /\ n \in DOMAIN Listing
    BY <1>1 DEF Fit
  <2>2. Keys(w)[n] = SortKey(Listing[n], ScoreOf(item[w], Listing[n].title), Strategy)
    BY <2>1 DEF Keys
  <2>3. /\ Listing[n].quality \in Int /\ Listing[n].seeders \in Int
        /\ Listing[n].age \in Int /\ Listing[n].priority \in Int
    BY <2>1, RankedType
  <2>4. ScoreOf(item[w], Listing[n].title) \in Int
    <3>1. \A k \in DOMAIN ProfileOf[item[w]].scores : ProfileOf[item[w]].scores[k] \in Int
      BY <1>1, FormatsAssumption
    <3>2. ScoreOf(item[w], Listing[n].title) \in -(MaxScore + 1)..MaxScore
      BY <3>1, FormatsAssumption, ScoresAreBounded DEF ScoreOf
    <3> QED
      BY <3>2, ScoreAssumption
  <2> QED
    BY <2>2, <2>3, <2>4, KeyType
<1> DEFINE S == Fit(w, f)
           key == Keys(w)
<1>6. S \subseteq Nat /\ S # {} /\ IsFiniteSet(S) /\ \A n \in S : key[n] \in [1..5 -> Int]
  BY <1>4, <1>5
<1> HIDE DEF S, key
<1>7. \E n \in S : Best(S, key) = {n}
  BY <1>6, OneIsBest
<1> QED
  BY <1>7 DEF S, key

(* Of what it is let take a search takes one release, and the answers of    *)
(* the indexers determine which: the comparator of rank_releases is a total *)
(* order for any scores, ages and numbers of seeders, and the sort, which is*)
(* stable, leaves nothing to the order in which equal keys are met.         *)
THEOREM OneReleaseIsChosen == Spec => [](\A w \in Searchers : Determined(w))
<1>1. TypeOK => \A w \in Searchers : Determined(w)
  BY ChoiceIsDetermined
<1> QED
  BY <1>1, TypeCorrect, PTL

-----------------------------------------------------------------------------
(***************************************************************************)
(* The second part: the tasks.                                             *)
(***************************************************************************)

Kinds     == CommandKinds \cup {"auto"}
AskTypes  == {"missing", "auto", "seriesMissing", "cutoff", "scan"}
PastGuard == {"token", "list", "loop", "progress", "search", "complete", "forget"}

-----------------------------------------------------------------------------
(* What each kind asks *)

Among(t, s) == \E i \in 1..Len(s) : s[i] = t

LEMMA AskFacts ==
    ASSUME NEW k \in Kinds
    PROVE  /\ Asks(k) \in Seq(AskTypes)
           /\ \A t \in Heeds(k) : Among(t, Asks(k))
<1>1. CASE k \in {"auto", "missing"}
  <2>1. Asks(k) = <<"missing", "auto", "seriesMissing">>
        /\ Heeds(k) = {"missing", "auto", "seriesMissing"}
    BY <1>1 DEF Asks, Heeds
  <2> QED
    BY <2>1 DEF Among, AskTypes
<1>2. CASE k = "seriesMissing"
  <2>1. Asks(k) = <<"missing", "auto">> /\ Heeds(k) = {"missing", "auto"}
    BY <1>2 DEF Asks, Heeds
  <2> QED
    BY <2>1 DEF Among, AskTypes
<1>3. CASE k \in {"cutoff", "scan"}
  <2>1. Asks(k) = <<k>> /\ Heeds(k) = {k}
    BY <1>3 DEF Asks, Heeds
  <2> QED
    BY <1>3, <2>1 DEF Among, AskTypes
<1>4. CASE k \in {"seriesCutoff", "picked", "scheduledScan"}
  <2>1. Asks(k) = <<>> /\ Heeds(k) = {}
    BY <1>4 DEF Asks, Heeds
  <2> QED
    BY <2>1
<1> QED
  BY <1>1, <1>2, <1>3, <1>4 DEF Kinds, CommandKinds

(* A question that has been asked need not be asked again. *)
LEMMA Rest ==
    ASSUME NEW s \in Seq(AskTypes), s # <<>>, NEW t, Among(t, s), t # Head(s)
    PROVE  Among(t, Tail(s))
<1>1. PICK i \in 1..Len(s) : s[i] = t
  BY DEF Among
<1>2. i # 1
  BY <1>1
<1>3. i - 1 \in 1..Len(Tail(s)) /\ Tail(s)[i - 1] = s[i]
  BY <1>1, <1>2
<1> QED
  BY <1>1, <1>3 DEF Among

LEMMA NothingAmong == \A t : ~Among(t, <<>>)
BY DEF Among

LEMMA TypeOfKind == \A k \in Kinds : ActivityType(k) \in Kinds
BY DEF ActivityType, Kinds, CommandKinds

-----------------------------------------------------------------------------
(* The inductive invariant.  Shapes are the types.  Of one slot: Attended,   *)
(* that its row and its token are there only while its search is; Bounded,   *)
(* that a cancelled search with an item behind it is not on its way to       *)
(* another; Heeding, that of the rows it had to heed the young ones are yet  *)
(* to be asked for, or were in vain, and that none of those searches begins  *)
(* again.                                                                    *)
Shapes ==
    /\ kind \in [Slots -> Kinds \cup {"none"}]
    /\ stage \in [Slots -> PastGuard \cup {"idle", "ask", "create"}]
    /\ todo \in [Slots -> Seq(AskTypes)]
    /\ left \in [Slots -> Nat] /\ \A w \in Slots : left[w] <= MaxItems[w]
    /\ running \subseteq Slots /\ old \subseteq running
    /\ tokens \subseteq Slots /\ cancelled \subseteq Slots
    /\ orphans \subseteq [type : Kinds, old : BOOLEAN]
    /\ permit \in BOOLEAN /\ asked \in BOOLEAN
    /\ mishaps \in 0..MaxMishaps
    /\ late \in [Slots -> Nat]
    /\ before \in [Slots -> SUBSET Slots]
    /\ unanswered \in [Slots -> SUBSET AskTypes]

Attended(w) ==
    /\ w \in running \cup cancelled \cup tokens => stage[w] \in PastGuard
    /\ w \in tokens \/ stage[w] = "token" => kind[w] \in Cancellable
    /\ stage[w] # "idle" => kind[w] \in Kinds
    /\ stage[w] = "ask" <=> todo[w] # <<>>
    /\ stage[w] = "complete" /\ kind[w] = "seriesMissing" => w \notin tokens
    /\ stage[w] = "forget" /\ kind[w] # "seriesMissing" => w \notin running

Bounded(w) ==
    /\ late[w] <= 1
    /\ late[w] = 1 => w \in cancelled /\ stage[w] # "progress"

Heeding(w) ==
    \A v \in before[w] :
        /\ stage[v] \in PastGuard
        /\ v \in Young => \/ Among(ActivityType(kind[v]), todo[w])
                         \/ ActivityType(kind[v]) \in unanswered[w]

TasksInv ==
    /\ Shapes
    /\ \A w \in Slots : Attended(w) /\ Bounded(w) /\ Heeding(w)
    /\ NoTriggerLost

LEMMA InitInv == TasksInit => TasksInv
<1> SUFFICES ASSUME TasksInit PROVE TasksInv
  OBVIOUS
<1>1. Shapes
  <2>1. <<>> \in Seq(AskTypes) /\ 0 \in 0..MaxMishaps /\ \A w \in Slots : 0 <= MaxItems[w]
    BY ParameterAssumption
  <2> QED
    BY <2>1 DEF TasksInit, Shapes
<1>2. \A w \in Slots : Attended(w) /\ Bounded(w) /\ Heeding(w)
  BY DEF TasksInit, Attended, Bounded, Heeding
<1> QED
  BY <1>1, <1>2 DEF TasksInit, TasksInv, NoTriggerLost

-----------------------------------------------------------------------------
(* What a step does to the slots outside U: it leaves their control, adds no *)
(* row of theirs, and makes no row young that they had to heed.              *)
Apart(U) ==
    /\ \A w \in Slots \ U :
          /\ kind'[w] = kind[w] /\ stage'[w] = stage[w] /\ todo'[w] = todo[w] /\ late'[w] = late[w]
          /\ unanswered'[w] = unanswered[w]
          /\ w \in running' => w \in running
          /\ w \in tokens' => w \in tokens
          /\ w \in cancelled' <=> w \in cancelled
          /\ before'[w] \subseteq before[w]
    /\ Young' \subseteq Young \cup U
    /\ \A w \in Slots \ U, u \in U : u \in before'[w] =>
          stage'[u] \in PastGuard /\ kind'[u] = kind[u] /\ (u \in Young' => u \in Young)

LEMMA OthersStand ==
    ASSUME TasksInv, NEW U \in SUBSET Slots, Apart(U), Shapes', NoTriggerLost',
           \A u \in U : Attended(u)' /\ Bounded(u)' /\ Heeding(u)'
    PROVE  TasksInv'
<1> SUFFICES ASSUME NEW w \in Slots \ U PROVE Attended(w)' /\ Bounded(w)' /\ Heeding(w)'
  BY DEF TasksInv
<1>1. Attended(w) /\ Bounded(w) /\ Heeding(w) /\ before[w] \subseteq Slots
  BY DEF TasksInv, Shapes
<1>2. Attended(w)'
  BY <1>1 DEF Apart, Attended
<1>3. Bounded(w)'
  BY <1>1 DEF Apart, Bounded
<1>4. Heeding(w)'
  <2> SUFFICES ASSUME NEW v \in before'[w]
               PROVE  /\ stage'[v] \in PastGuard
                      /\ v \in Young' => \/ Among(ActivityType(kind'[v]), todo'[w])
                                        \/ ActivityType(kind'[v]) \in unanswered'[w]
    BY DEF Heeding
  <2>1. v \in before[w] /\ v \in Slots /\ todo'[w] = todo[w] /\ unanswered'[w] = unanswered[w]
    BY <1>1 DEF Apart
  <2>2. stage'[v] \in PastGuard /\ kind'[v] = kind[v] /\ (v \in Young' => v \in Young)
    BY <1>1, <2>1 DEF Apart, Heeding
  <2> QED
    BY <1>1, <2>1, <2>2 DEF Heeding
<1> QED
  BY <1>2, <1>3, <1>4

(* A slot that is free afterwards. *)
LEMMA OverFrees ==
    ASSUME TasksInv, NEW w \in Slots, Over(w), running' \subseteq running \ {w}, Young' \subseteq Young,
           tokens' \subseteq tokens \ {w}
    PROVE  Apart({w}) /\ Attended(w)' /\ Bounded(w)' /\ Heeding(w)'
<1>1. kind'[w] = "none" /\ stage'[w] = "idle" /\ todo'[w] = <<>> /\ late'[w] = 0
      /\ w \notin cancelled' /\ before'[w] = {} /\ w \notin Young'
  BY DEF Over, TasksInv, Shapes, Young
<1>2. \A v \in Slots \ {w} : w \notin before'[v] /\ before'[v] \subseteq before[v]
  BY DEF Over
<1>3. Apart({w})
  BY <1>2 DEF Over, Apart, TasksInv, Shapes
<1> QED
  BY <1>1, <1>3 DEF Attended, Bounded, Heeding

-----------------------------------------------------------------------------
(* Beginning *)

LEMMA BeginStep ==
    ASSUME TasksInv, NEW w \in Slots, NEW k \in Kinds, Begin(w, k),
           permit' \in {permit, FALSE}, UNCHANGED control \/ asked' = FALSE
    PROVE  TasksInv'
<1>1. Attended(w) /\ Bounded(w) /\ stage[w] = "idle"
  BY DEF TasksInv, Begin
<1>2. w \notin running \cup cancelled \cup tokens /\ late[w] = 0
  BY <1>1 DEF Attended, Bounded, PastGuard, TasksInv, Shapes
<1>3. Young \subseteq running /\ running \subseteq Slots
  BY DEF Young, TasksInv, Shapes
<1>4. kind'[w] = k /\ todo'[w] = Asks(k)
      /\ stage'[w] = IF Asks(k) = <<>> THEN "create" ELSE "ask"
  BY DEF Begin, TasksInv, Shapes
<1>5. Shapes'
  <2>1. kind' \in [Slots -> Kinds \cup {"none"}]
    BY DEF Begin, TasksInv, Shapes
  <2>2. stage' \in [Slots -> PastGuard \cup {"idle", "ask", "create"}]
    BY DEF Begin, TasksInv, Shapes
  <2>3. todo' \in [Slots -> Seq(AskTypes)]
    BY AskFacts DEF Begin, TasksInv, Shapes
  <2>4. before' \in [Slots -> SUBSET Slots]
    BY <1>3 DEF Begin, TasksInv, Shapes
  <2>5. permit' \in BOOLEAN /\ asked' \in BOOLEAN
    BY DEF control, TasksInv, Shapes
  <2> QED
    BY <2>1, <2>2, <2>3, <2>4, <2>5 DEF Begin, TasksInv, Shapes
<1>6. Apart({w})
  <2>1. \A v \in Slots \ {w} : kind'[v] = kind[v] /\ stage'[v] = stage[v] /\ todo'[v] = todo[v]
                               /\ before'[v] = before[v]
    BY DEF Begin, TasksInv, Shapes
  <2>2. \A v \in Slots \ {w} : w \notin before'[v]
    BY <1>1, <2>1 DEF TasksInv, Heeding, PastGuard
  <2> QED
    BY <2>1, <2>2 DEF Begin, Apart, Young
<1>7. UNCHANGED <<running, tokens, cancelled, late>>
  BY DEF Begin
<1>8. Attended(w)' /\ Bounded(w)'
  BY <1>2, <1>4, <1>7 DEF Attended, Bounded
<1>9. Heeding(w)'
  <2> SUFFICES ASSUME NEW v \in before'[w]
               PROVE  stage'[v] \in PastGuard /\ Among(ActivityType(kind'[v]), todo'[w])
    BY DEF Heeding
  <2>1. v \in running /\ v \in Slots /\ ActivityType(kind[v]) \in Heeds(k)
    <3> DEFINE S == {u \in Young : ActivityType(kind[u]) \in Heeds(k)}
    <3> HIDE DEF S
    <3>1. v \in S
      BY DEF S, Begin, TasksInv, Shapes
    <3> QED
      BY <1>3, <3>1 DEF S
  <2>2. v # w /\ stage[v] \in PastGuard
    BY <1>2, <2>1 DEF TasksInv, Attended
  <2>3. kind'[v] = kind[v] /\ stage'[v] = stage[v]
    BY <2>1, <2>2 DEF Begin, TasksInv, Shapes
  <2> QED
    BY <1>4, <2>1, <2>2, <2>3, AskFacts
<1> QED
  <2>1. NoTriggerLost'
    BY DEF NoTriggerLost, TasksInv, control
  <2> QED
    BY <1>5, <1>6, <1>7, <1>8, <1>9, <2>1, OthersStand

LEMMA CommandStep == ASSUME TasksInv, NEW w \in Commands, Command(w) PROVE TasksInv'
<1>1. PICK k \in Given[w] : Begin(w, k) /\ UNCHANGED control
  BY DEF Command
<1>2. k \in Kinds /\ w \in Slots /\ permit' \in {permit, FALSE}
  BY <1>1, ParameterAssumption DEF Kinds, Slots, control
<1> QED
  BY <1>1, <1>2, BeginStep

LEMMA AutoBeginStep == ASSUME TasksInv, AutoBegin PROVE TasksInv'
<1>1. AutoSearch \in Slots /\ "auto" \in Kinds
  BY DEF Slots, Kinds
<1> QED
  BY <1>1, BeginStep DEF AutoBegin

(* Whom a question that was answered let past is not young; the others are  *)
(* yet to be asked for, or cannot be.                                       *)
LEMMA AsksOnHeeds ==
    ASSUME TasksInv, NEW w \in Slots, stage[w] = "ask", AsksOn(w),
           Young' \subseteq Young, running' \subseteq running,
           \/ OfType(Head(todo[w])) \cap running' = {} /\ UNCHANGED unanswered
           \/ unanswered' = [unanswered EXCEPT ![w] = @ \cup {Head(todo[w])}]
    PROVE  Heeding(w)'
<1> DEFINE t == Head(todo[w])
<1>1. Attended(w) /\ Heeding(w)
  BY DEF TasksInv
<1>2. todo[w] \in Seq(AskTypes) /\ todo[w] # <<>> /\ unanswered[w] \subseteq unanswered'[w]
  BY <1>1 DEF Attended, TasksInv, Shapes
<1>3. UNCHANGED <<kind, before>> /\ todo'[w] = Tail(todo[w])
      /\ \A v \in Slots \ {w} : stage'[v] = stage[v]
  BY DEF AsksOn, TasksInv, Shapes
<1> SUFFICES ASSUME NEW v \in before[w]
             PROVE  /\ stage'[v] \in PastGuard
                    /\ v \in Young' => \/ Among(ActivityType(kind[v]), todo'[w])
                                      \/ ActivityType(kind[v]) \in unanswered'[w]
  BY <1>3 DEF Heeding
<1>4. stage[v] \in PastGuard /\ v \in Slots /\ v # w
  BY <1>1 DEF Heeding, PastGuard, TasksInv, Shapes
<1>5. ASSUME v \in Young', ActivityType(kind[v]) \notin unanswered'[w]
      PROVE  Among(ActivityType(kind[v]), todo'[w])
  <2>1. v \in Young /\ v \in running'
    BY <1>5 DEF Young
  <2>2. Among(ActivityType(kind[v]), todo[w])
    BY <1>1, <1>2, <1>5, <2>1 DEF Heeding
  <2>3. ActivityType(kind[v]) # t
    <3>1. CASE OfType(t) \cap running' = {}
      BY <1>4, <2>1, <3>1 DEF OfType
    <3>2. CASE unanswered' = [unanswered EXCEPT ![w] = @ \cup {t}]
      <4>1. t \in unanswered'[w]
        BY <3>2 DEF TasksInv, Shapes
      <4> QED
        BY <1>5, <4>1
    <3> QED
      BY <3>1, <3>2
  <2> QED
    BY <1>2, <1>3, <2>2, <2>3, Rest
<1> QED
  BY <1>3, <1>4, <1>5

(* A question takes rows away, old ones only. *)
LEMMA AskStep == ASSUME TasksInv, NEW w \in Slots, Ask(w) PROVE TasksInv'
<1> DEFINE t == Head(todo[w])
<1>1. Attended(w) /\ Bounded(w) /\ stage[w] = "ask"
      /\ (FailStale(t) \/ UNCHANGED <<running, old, orphans>>)
  BY DEF TasksInv, Ask
<1>2. todo[w] \in Seq(AskTypes) /\ todo[w] # <<>> /\ w \notin running \cup cancelled \cup tokens
  BY <1>1 DEF Attended, PastGuard, TasksInv, Shapes
<1>3. /\ running' \subseteq running /\ running' \subseteq Slots /\ old' \subseteq running'
      /\ Young' \subseteq Young
      /\ orphans' \subseteq [type : Kinds, old : BOOLEAN]
  BY <1>1 DEF FailStale, Young, OfType, TasksInv, Shapes
<1>4. mishaps' \in 0..MaxMishaps
  BY ParameterAssumption DEF Ask, Mishap, TasksInv, Shapes
<1>5. NoTriggerLost' /\ tokens' = tokens /\ permit' = permit /\ asked' = asked
  BY DEF Ask, control, NoTriggerLost, TasksInv
<1>6. CASE Over(w)
  <2>1. Shapes'
    <3>1. <<>> \in Seq(AskTypes) /\ 0 <= MaxItems[w]
      BY ParameterAssumption
    <3> QED
      BY <1>3, <1>4, <1>5, <1>6, <3>1 DEF Over, TasksInv, Shapes
  <2>2. Apart({w}) /\ Attended(w)' /\ Bounded(w)' /\ Heeding(w)'
    BY <1>2, <1>3, <1>5, <1>6, OverFrees
  <2> QED
    BY <1>5, <2>1, <2>2, OthersStand
<1>7. CASE ~Over(w)
  <2>1. AsksOn(w) /\ \/ OfType(t) \cap running' = {} /\ UNCHANGED unanswered
                     \/ unanswered' = [unanswered EXCEPT ![w] = @ \cup {t}]
    BY <1>7 DEF Ask
  <2>2. todo'[w] = Tail(todo[w]) /\ Tail(todo[w]) \in Seq(AskTypes) /\ t \in AskTypes
    BY <1>2, <2>1 DEF AsksOn, TasksInv, Shapes
  <2>3. stage'[w] = IF todo'[w] = <<>> THEN "create" ELSE "ask"
    BY <2>1 DEF AsksOn, TasksInv, Shapes
  <2>4. unanswered' \in [Slots -> SUBSET AskTypes]
        /\ \A v \in Slots \ {w} : unanswered'[v] = unanswered[v]
    <3>1. unanswered \in [Slots -> SUBSET AskTypes]
      BY DEF TasksInv, Shapes
    <3>2. CASE UNCHANGED unanswered
      BY <3>1, <3>2
    <3>3. CASE unanswered' = [unanswered EXCEPT ![w] = @ \cup {t}]
      <4>1. unanswered[w] \cup {t} \in SUBSET AskTypes
        BY <2>2, <3>1
      <4> HIDE DEF t
      <4> QED
        BY <3>1, <3>3, <4>1
    <3> QED
      BY <2>1, <3>2, <3>3
  <2>5. Shapes'
    BY <1>3, <1>4, <1>5, <2>1, <2>2, <2>4 DEF AsksOn, TasksInv, Shapes
  <2>6. \A v \in Slots \ {w} : stage'[v] = stage[v] /\ todo'[v] = todo[v]
    BY <2>1 DEF AsksOn, TasksInv, Shapes
  <2>7. Apart({w})
    <3>1. \A v \in Slots \ {w} : w \notin before[v]
      BY <1>1 DEF TasksInv, Heeding, PastGuard
    <3> QED
      BY <1>3, <1>5, <2>1, <2>4, <2>6, <3>1 DEF AsksOn, Apart
  <2>8. Attended(w)'
    BY <1>1, <1>2, <1>3, <1>5, <2>1, <2>3 DEF AsksOn, Attended
  <2>9. Bounded(w)'
    BY <1>1, <2>1, <2>3 DEF AsksOn, Bounded
  <2>10. Heeding(w)'
    BY <1>1, <1>3, <2>1, AsksOnHeeds
  <2> QED
    BY <1>5, <2>5, <2>7, <2>8, <2>9, <2>10, OthersStand
<1> QED
  BY <1>6, <1>7

LEMMA CreateStep == ASSUME TasksInv, NEW w \in Slots, Create(w) PROVE TasksInv'
<1>1. Attended(w) /\ Bounded(w) /\ Heeding(w) /\ stage[w] = "create"
  BY DEF TasksInv, Create
<1>2. w \notin running \cup cancelled \cup tokens /\ kind[w] \in Kinds /\ todo[w] = <<>>
  BY <1>1 DEF Attended, PastGuard
<1>3. UNCHANGED <<old, tokens, orphans, permit, asked>> /\ mishaps' \in 0..MaxMishaps
      /\ NoTriggerLost'
  BY ParameterAssumption DEF Create, Mishap, control, TasksInv, Shapes, NoTriggerLost
<1>4. CASE Over(w)
  <2>1. running' \subseteq running \ {w} /\ Young' \subseteq Young
    <3>1. kind'[w] = "none"
      BY <1>4 DEF Over, TasksInv, Shapes
    <3>2. running' = running
      BY <1>2, <3>1 DEF Create, Kinds, CommandKinds
    <3> QED
      BY <1>2, <1>3, <3>2 DEF Young
  <2>2. Shapes'
    <3>1. <<>> \in Seq(AskTypes) /\ 0 <= MaxItems[w] /\ old \subseteq running'
      BY <1>2, ParameterAssumption DEF Create, Over, TasksInv, Shapes
    <3> QED
      BY <1>3, <1>4, <2>1, <3>1 DEF Over, TasksInv, Shapes
  <2> QED
    BY <1>2, <1>3, <1>4, <2>1, <2>2, OverFrees, OthersStand
<1>5. CASE ~Over(w)
  <2>1. running' \in {running, running \cup {w}} /\ stage'[w] \in {"token", "list"}
        /\ (stage'[w] = "token" => kind[w] \in Cancellable)
        /\ \E q \in {"token", "list"} : stage' = [stage EXCEPT ![w] = q]
    BY <1>5 DEF Create, TasksInv, Shapes
  <2>2. UNCHANGED <<kind, todo, left, cancelled, late, before, unanswered>>
    BY <1>5 DEF Create, history
  <2>3. Shapes'
    BY <1>3, <2>1, <2>2 DEF TasksInv, Shapes, PastGuard
  <2>4. \A v \in Slots \ {w} : w \notin before[v] /\ stage'[v] = stage[v]
    BY <1>1, <2>1 DEF TasksInv, Heeding, PastGuard, Shapes
  <2>5. Apart({w})
    BY <1>3, <2>1, <2>2, <2>4 DEF Apart, Young
  <2>6. Attended(w)'
    BY <1>2, <1>3, <2>1, <2>2 DEF Attended, PastGuard
  <2>7. Bounded(w)'
    BY <1>1, <2>1, <2>2 DEF Bounded
  <2>8. Heeding(w)'
    <3> SUFFICES ASSUME NEW v \in before[w]
                 PROVE  /\ stage'[v] \in PastGuard
                        /\ v \in Young' => ActivityType(kind[v]) \in unanswered[w]
      BY <2>2 DEF Heeding
    <3>1. stage[v] \in PastGuard /\ v \in Slots /\ v # w
      BY <1>1 DEF Heeding, PastGuard, TasksInv, Shapes
    <3>2. v \in Young => ActivityType(kind[v]) \in unanswered[w]
      BY <1>1, <1>2, NothingAmong DEF Heeding
    <3> QED
      BY <1>3, <2>1, <2>4, <3>1, <3>2 DEF Young
  <2> QED
    BY <1>3, <2>3, <2>5, <2>6, <2>7, <2>8, OthersStand
<1> QED
  BY <1>4, <1>5

-----------------------------------------------------------------------------
(* The items *)

(* A slot that goes on among its items, or to its end: no row becomes young. *)
LEMMA GoesOnStands ==
    ASSUME TasksInv, NEW w \in Slots, NEW q \in PastGuard, stage[w] \in PastGuard,
           stage' = [stage EXCEPT ![w] = q], q # "token", Young' \subseteq Young,
           running' \subseteq running, \A v \in Slots \ {w} : v \in tokens' => v \in tokens,
           UNCHANGED <<kind, todo, cancelled, permit, asked, before, unanswered>>,
           \A v \in Slots \ {w} : late'[v] = late[v],
           w \in tokens' => kind[w] \in Cancellable,
           q = "complete" /\ kind[w] = "seriesMissing" => w \notin tokens',
           q = "forget" /\ kind[w] # "seriesMissing" => w \notin running',
           late'[w] <= 1, late'[w] = 1 => w \in cancelled /\ q # "progress",
           Shapes'
    PROVE  TasksInv'
<1>1. Attended(w) /\ Heeding(w) /\ stage'[w] = q /\ \A v \in Slots \ {w} : stage'[v] = stage[v]
  BY DEF TasksInv, Shapes
<1>2. Apart({w})
  BY <1>1 DEF Apart
<1>3. Attended(w)'
  <2>1. todo[w] = <<>> /\ kind[w] \in Kinds
    BY <1>1 DEF Attended, PastGuard
  <2> QED
    BY <1>1, <2>1 DEF Attended, PastGuard
<1>4. Bounded(w)'
  BY <1>1 DEF Bounded
<1>5. Heeding(w)'
  <2>1. \A v \in before[w] : stage'[v] \in PastGuard
    BY <1>1 DEF Heeding, TasksInv, Shapes
  <2> QED
    BY <1>1, <2>1 DEF Heeding
<1>6. NoTriggerLost'
  BY DEF NoTriggerLost, TasksInv
<1> QED
  BY <1>2, <1>3, <1>4, <1>5, <1>6, OthersStand

LEMMA ReadListStands ==
    ASSUME TasksInv, NEW w \in Slots, stage[w] \in {"token", "list"}, ReadList(w),
           tokens' = tokens \/ (stage[w] = "token" /\ tokens' = tokens \cup {w})
    PROVE  TasksInv'
<1>1. Attended(w) /\ Bounded(w) /\ stage[w] \in PastGuard
  BY DEF TasksInv, PastGuard
<1>2. PICK n \in 0..MaxItems[w] : left' = [left EXCEPT ![w] = n]
  BY DEF ReadList
<1>3. MaxItems[w] \in Nat
  BY ParameterAssumption
<1>4. Shapes'
  BY <1>2, <1>3 DEF ReadList, TasksInv, Shapes, control, history, PastGuard
<1>5. tokens' \subseteq tokens \cup {w} /\ (w \in tokens' => kind[w] \in Cancellable)
  BY <1>1 DEF Attended
<1>6. Bounded(w) /\ Heeding(w) /\ Attended(w)
  BY DEF TasksInv
<1>7. Apart({w})
  BY DEF Apart, ReadList, TasksInv, Shapes, control, history, Young, PastGuard
<1>8. Attended(w)'
  BY <1>1, <1>5 DEF Attended, ReadList, TasksInv, Shapes, PastGuard
<1>9. Bounded(w)'
  BY <1>6 DEF Bounded, ReadList, history, TasksInv, Shapes
<1>10. Heeding(w)'
  BY <1>6 DEF Heeding, ReadList, history, TasksInv, Shapes, PastGuard, Young
<1>11. NoTriggerLost'
  BY DEF NoTriggerLost, TasksInv, ReadList, control
<1> QED
  BY <1>4, <1>7, <1>8, <1>9, <1>10, <1>11, OthersStand

LEMMA TokenStep == ASSUME TasksInv, NEW w \in Slots, Token(w) PROVE TasksInv'
BY ReadListStands DEF Token

LEMMA ListStep == ASSUME TasksInv, NEW w \in Slots, List(w) PROVE TasksInv'
<1>1. stage[w] \in {"token", "list"} /\ ReadList(w) /\ tokens' = tokens
  BY DEF List
<1> QED
  BY <1>1, ReadListStands

(* A search that was cancelled is not on its way to another item, and does  *)
(* not set out for one.                                                     *)
LEMMA CheckStep == ASSUME TasksInv, NEW w \in Slots, Check(w) PROVE TasksInv'
<1>1. Attended(w) /\ Bounded(w) /\ stage[w] = "loop" /\ stage[w] \in PastGuard
  BY DEF TasksInv, Check, PastGuard
<1>2. UNCHANGED <<kind, todo, running, old, tokens, cancelled, orphans, mishaps, permit, asked,
                  late, before, unanswered>>
  BY DEF Check, control, history
<1>3. CASE MayContinue(w)
  <2>1. PICK q \in {"search", "progress"} : stage' = [stage EXCEPT ![w] = q]
    BY <1>3 DEF Check
  <2>2. left' = [left EXCEPT ![w] = @ - 1] /\ left[w] > 0 /\ w \notin cancelled
    BY <1>3 DEF Check, MayContinue
  <2>3. Shapes'
    <3>1. left[w] \in Nat /\ left[w] <= MaxItems[w] /\ MaxItems[w] \in Nat
      BY ParameterAssumption DEF TasksInv, Shapes
    <3>2. left[w] - 1 \in Nat /\ left[w] - 1 <= MaxItems[w]
      BY <2>2, <3>1
    <3>3. left' \in [Slots -> Nat] /\ \A v \in Slots : left'[v] <= MaxItems[v]
      BY <2>2, <3>2 DEF TasksInv, Shapes
    <3> QED
      BY <1>2, <2>1, <3>3 DEF TasksInv, Shapes, PastGuard
  <2>4. q \in PastGuard /\ late[w] # 1 /\ late[w] <= 1 /\ Young' = Young
    BY <1>1, <1>2, <2>2 DEF Bounded, PastGuard, Young
  <2> QED
    BY <1>1, <1>2, <2>1, <2>3, <2>4, GoesOnStands DEF Attended
<1>4. CASE ~MayContinue(w)
  <2>1. stage' = [stage EXCEPT ![w] = IF kind[w] = "seriesMissing" THEN "forget" ELSE "complete"]
        /\ left' = left
    BY <1>4 DEF Check
  <2>2. PICK q \in {"forget", "complete"} :
            /\ stage' = [stage EXCEPT ![w] = q]
            /\ q = "forget" <=> kind[w] = "seriesMissing"
    BY <2>1
  <2>3. Shapes'
    BY <1>2, <2>1, <2>2 DEF TasksInv, Shapes, PastGuard
  <2>4. q \in PastGuard /\ late[w] <= 1 /\ (late[w] = 1 => w \in cancelled) /\ Young' = Young
    BY <1>1, <1>2 DEF Bounded, PastGuard, Young
  <2> QED
    BY <1>1, <1>2, <2>2, <2>3, <2>4, GoesOnStands DEF Attended
<1> QED
  BY <1>3, <1>4

LEMMA ProgressStep == ASSUME TasksInv, NEW w \in Slots, Progress(w) PROVE TasksInv'
<1>1. Attended(w) /\ Bounded(w) /\ stage[w] = "progress" /\ stage[w] \in PastGuard
  BY DEF TasksInv, Progress, PastGuard
<1>2. /\ stage' = [stage EXCEPT ![w] = "search"]
      /\ late' = [late EXCEPT ![w] = IF w \in cancelled THEN @ + 1 ELSE @]
      /\ UNCHANGED <<kind, todo, left, running, old, tokens, cancelled, orphans, mishaps, permit,
                     asked, before, unanswered>>
  BY DEF Progress, control
<1>3. late[w] = 0 /\ late'[w] = IF w \in cancelled THEN 1 ELSE 0
  BY <1>1, <1>2 DEF Bounded, TasksInv, Shapes
<1>4. Shapes'
  BY <1>2 DEF TasksInv, Shapes, PastGuard
<1>5. "search" \in PastGuard /\ Young' = Young /\ \A v \in Slots \ {w} : late'[v] = late[v]
  BY <1>2 DEF PastGuard, Young, TasksInv, Shapes
<1>6. late'[w] <= 1 /\ (late'[w] = 1 => w \in cancelled)
      /\ (w \in tokens' => kind[w] \in Cancellable)
  BY <1>1, <1>2, <1>3 DEF Attended
<1> QED
  BY <1>1, <1>2, <1>4, <1>5, <1>6, GoesOnStands DEF Attended

LEMMA SearchedStep == ASSUME TasksInv, NEW w \in Slots, Searched(w) PROVE TasksInv'
<1>1. Attended(w) /\ Bounded(w) /\ stage[w] = "search" /\ stage[w] \in PastGuard
  BY DEF TasksInv, Searched, PastGuard
<1>2. /\ stage' = [stage EXCEPT ![w] = "loop"]
      /\ UNCHANGED <<kind, todo, left, running, old, tokens, cancelled, orphans, mishaps, permit,
                     asked, late, before, unanswered>>
  BY DEF Searched, control, history
<1>3. Shapes'
  BY <1>2 DEF TasksInv, Shapes, PastGuard
<1>4. "loop" \in PastGuard /\ Young' = Young
  BY <1>2 DEF PastGuard, Young
<1> QED
  BY <1>1, <1>2, <1>3, <1>4, GoesOnStands DEF Attended, Bounded

-----------------------------------------------------------------------------
(* Ending *)

LEMMA OverStands ==
    ASSUME TasksInv, NEW w \in Slots, Over(w), old' = old \ {w}, running' = running \ {w},
           tokens' = tokens \ {w}, orphans' \subseteq [type : Kinds, old : BOOLEAN],
           UNCHANGED control, mishaps' \in 0..MaxMishaps
    PROVE  TasksInv'
<1>1. Young' \subseteq Young
  BY DEF Young
<1>2. Shapes'
  <2>1. <<>> \in Seq(AskTypes) /\ 0 <= MaxItems[w]
    BY ParameterAssumption
  <2> QED
    BY <2>1 DEF Over, TasksInv, Shapes, control
<1>3. NoTriggerLost'
  BY DEF NoTriggerLost, TasksInv, control
<1> QED
  BY <1>1, <1>2, <1>3, OverFrees, OthersStand

(* What a slot leaves is of a kind that searches. *)
LEMMA LeftTypes ==
    ASSUME TasksInv, NEW W \in SUBSET Slots
    PROVE  Left(W) \subseteq [type : Kinds, old : BOOLEAN]
<1> SUFFICES ASSUME NEW w \in W \cap running
             PROVE  [type |-> ActivityType(kind[w]), old |-> w \in old]
                        \in [type : Kinds, old : BOOLEAN]
  BY DEF Left
<1>1. kind[w] \in Kinds
  BY DEF TasksInv, Attended, PastGuard
<1>2. ActivityType(kind[w]) \in Kinds /\ (w \in old) \in BOOLEAN
  BY <1>1, TypeOfKind
<1> QED
  BY <1>2

LEMMA CompleteStep == ASSUME TasksInv, NEW w \in Slots, Complete(w) PROVE TasksInv'
<1>1. Attended(w) /\ Bounded(w) /\ stage[w] = "complete" /\ stage[w] \in PastGuard
  BY DEF TasksInv, Complete, PastGuard
<1>2. running' = running \ {w} /\ old' = old \ {w} /\ tokens' = tokens /\ UNCHANGED control
  BY DEF Complete, EndRow, LeavesRow
<1>3. orphans' \subseteq [type : Kinds, old : BOOLEAN]
  BY LeftTypes DEF Complete, LeavesRow, TasksInv, Shapes
<1>4. mishaps' \in 0..MaxMishaps
  BY ParameterAssumption DEF Complete, Mishap, TasksInv, Shapes
<1>5. CASE kind[w] \in Cancellable \ {"seriesMissing"}
  <2>1. /\ stage' = [stage EXCEPT ![w] = "forget"]
        /\ UNCHANGED <<kind, todo, left, cancelled, late, before, unanswered>>
    BY <1>5 DEF Complete, history
  <2>2. Shapes'
    BY <1>2, <1>3, <1>4, <2>1 DEF TasksInv, Shapes, PastGuard, control
  <2>3. "forget" \in PastGuard /\ Young' \subseteq Young
    BY <1>2 DEF PastGuard, Young
  <2> QED
    BY <1>1, <1>2, <1>5, <2>1, <2>2, <2>3, GoesOnStands DEF Attended, Bounded, control
<1>6. CASE kind[w] \notin Cancellable \ {"seriesMissing"}
  <2>1. Over(w) /\ w \notin tokens
    BY <1>1, <1>6 DEF Complete, Attended
  <2> QED
    BY <1>2, <1>3, <1>4, <2>1, OverStands DEF TasksInv, Shapes
<1> QED
  BY <1>5, <1>6

LEMMA ForgetStep == ASSUME TasksInv, NEW w \in Slots, Forget(w) PROVE TasksInv'
<1>1. Attended(w) /\ Bounded(w) /\ stage[w] = "forget" /\ stage[w] \in PastGuard
  BY DEF TasksInv, Forget, PastGuard
<1>2. running' = running /\ old' = old /\ tokens' = tokens \ {w} /\ orphans' = orphans
      /\ mishaps' = mishaps /\ UNCHANGED control
  BY DEF Forget
<1>3. CASE kind[w] = "seriesMissing"
  <2>1. /\ stage' = [stage EXCEPT ![w] = "complete"]
        /\ UNCHANGED <<kind, todo, left, cancelled, late, before, unanswered>>
    BY <1>3 DEF Forget, history
  <2>2. Shapes'
    BY <1>2, <2>1 DEF TasksInv, Shapes, PastGuard, control
  <2>3. "complete" \in PastGuard /\ Young' \subseteq Young
    BY <1>2 DEF PastGuard, Young
  <2> QED
    BY <1>1, <1>2, <2>1, <2>2, <2>3, GoesOnStands DEF Attended, Bounded, control
<1>4. CASE kind[w] # "seriesMissing"
  <2>1. Over(w) /\ w \notin running /\ w \notin old
    BY <1>1, <1>4 DEF Forget, Attended, TasksInv, Shapes
  <2>2. running' = running \ {w} /\ old' = old \ {w}
    BY <1>2, <2>1
  <2> QED
    BY <1>2, <2>1, <2>2, OverStands DEF TasksInv, Shapes
<1> QED
  BY <1>3, <1>4

LEMMA DieStep == ASSUME TasksInv, NEW w \in Commands, Die(w) PROVE TasksInv'
<1>1. w \in Slots /\ Left({w}) \subseteq [type : Kinds, old : BOOLEAN]
  BY LeftTypes DEF Slots
<1>2. mishaps' \in 0..MaxMishaps
  BY ParameterAssumption DEF Die, TasksInv, Shapes
<1> QED
  BY <1>1, <1>2, OverStands DEF Die, LeavesRow, TasksInv, Shapes

LEMMA CancelSearchStep == ASSUME TasksInv, NEW w \in Slots, CancelSearch(w) PROVE TasksInv'
<1>1. Attended(w) /\ Bounded(w) /\ Heeding(w)
  BY DEF TasksInv
<1>2. Shapes' /\ NoTriggerLost'
  BY DEF CancelSearch, control, history, TasksInv, Shapes, NoTriggerLost
<1>3. Apart({w})
  <2>1. \A v \in Slots \ {w} : w \in before[v] => stage[w] \in PastGuard
    BY DEF TasksInv, Heeding
  <2> QED
    BY <2>1 DEF CancelSearch, control, history, Apart, Young
<1>4. Attended(w)' /\ Bounded(w)'
  BY <1>1 DEF CancelSearch, control, history, Attended, Bounded
<1>5. Heeding(w)'
  BY <1>1 DEF CancelSearch, history, Heeding, Young
<1> QED
  BY <1>2, <1>3, <1>4, <1>5, OthersStand

-----------------------------------------------------------------------------
(* Steps that leave every slot where it is, and take rows away, or age them *)

LEMMA RowsGo ==
    ASSUME TasksInv, UNCHANGED <<kind, stage, todo, left, tokens, cancelled, late, before, unanswered>>,
           running' \subseteq running, old' \subseteq running', Young' \subseteq Young,
           orphans' \subseteq [type : Kinds, old : BOOLEAN],
           permit' \in BOOLEAN, asked' \in BOOLEAN, asked' => permit', mishaps' = mishaps
    PROVE  TasksInv'
<1>1. Apart({})
  BY DEF Apart
<1>2. Shapes' /\ NoTriggerLost'
  BY DEF TasksInv, Shapes, NoTriggerLost
<1> QED
  BY <1>1, <1>2, OthersStand

LEMMA TriggerStep == ASSUME TasksInv, Trigger PROVE TasksInv'
BY RowsGo DEF Trigger, Wakes, history, TasksInv, Shapes, Young

LEMMA RowStep == ASSUME TasksInv, Clear \/ Prune \/ AgeOrphans PROVE TasksInv'
<1>1. permit' = permit /\ asked' = asked /\ mishaps' = mishaps
      /\ UNCHANGED <<kind, stage, todo, left, tokens, cancelled, late, before, unanswered>>
  BY DEF Clear, Prune, AgeOrphans, control, history
<1>2. running' \subseteq running /\ old' \subseteq running' /\ Young' \subseteq Young
  BY DEF Clear, Prune, AgeOrphans, Young, TasksInv, Shapes
<1>3. orphans' \subseteq [type : Kinds, old : BOOLEAN]
  <2>1. CASE Clear \/ Prune
    BY <2>1 DEF Clear, Prune, TasksInv, Shapes
  <2>2. CASE AgeOrphans
    <3> SUFFICES ASSUME NEW o \in orphans
                 PROVE  [o EXCEPT !.old = TRUE] \in [type : Kinds, old : BOOLEAN]
      BY <2>2 DEF AgeOrphans
    <3>1. o \in [type : Kinds, old : BOOLEAN]
      BY DEF TasksInv, Shapes
    <3> QED
      BY <3>1
  <2> QED
    BY <2>1, <2>2
<1> QED
  BY <1>1, <1>2, <1>3, RowsGo DEF TasksInv, Shapes, NoTriggerLost

LEMMA AgeStep == ASSUME TasksInv, NEW w \in Slots, Age(w) PROVE TasksInv'
<1>1. running' = running /\ old' \subseteq running /\ Young' \subseteq Young
  BY DEF Age, Young, TasksInv, Shapes
<1> QED
  BY <1>1, RowsGo DEF Age, control, history, TasksInv, Shapes, NoTriggerLost

LEMMA RestartStep == ASSUME TasksInv, Restart PROVE TasksInv'
<1>1. Shapes'
  <2>1. <<>> \in Seq(AskTypes) /\ \A w \in Slots : 0 <= MaxItems[w]
    BY ParameterAssumption
  <2>2. orphans' \subseteq [type : Kinds, old : BOOLEAN]
    BY LeftTypes DEF Restart, TasksInv, Shapes
  <2>3. mishaps' \in 0..MaxMishaps
    BY ParameterAssumption DEF Restart, Mishap, TasksInv, Shapes
  <2> QED
    BY <2>1, <2>2, <2>3 DEF Restart, TasksInv, Shapes
<1>2. \A w \in Slots : Attended(w)' /\ Bounded(w)' /\ Heeding(w)'
  BY DEF Restart, Attended, Bounded, Heeding
<1> QED
  BY <1>1, <1>2 DEF Restart, TasksInv, NoTriggerLost

LEMMA StutterStep == ASSUME TasksInv, UNCHANGED tasksVars PROVE TasksInv'
BY DEF tasksVars, TasksInv, Shapes, Attended, Bounded, Heeding, Young, NoTriggerLost

LEMMA InvStep == TasksInv /\ [TasksNext]_tasksVars => TasksInv'
<1> SUFFICES ASSUME TasksInv, [TasksNext]_tasksVars PROVE TasksInv'
  OBVIOUS
<1>1. ASSUME NEW w \in Slots, Step(w) PROVE TasksInv'
  BY <1>1, AskStep, CreateStep, TokenStep, ListStep, CheckStep, ProgressStep, SearchedStep,
     CompleteStep, ForgetStep DEF Step
<1>2. ASSUME NEW w \in Slots, CancelSearch(w) \/ Age(w) PROVE TasksInv'
  BY <1>2, CancelSearchStep, AgeStep
<1>3. ASSUME NEW w \in Commands, Command(w) \/ Die(w) PROVE TasksInv'
  BY <1>3, CommandStep, DieStep
<1>4. CASE Trigger \/ AutoBegin \/ Clear \/ Prune \/ AgeOrphans \/ Restart
  BY <1>4, TriggerStep, AutoBeginStep, RowStep, RestartStep
<1>5. CASE UNCHANGED tasksVars
  BY <1>5, StutterStep
<1> QED
  BY <1>1, <1>2, <1>3, <1>4, <1>5 DEF TasksNext

LEMMA TasksInductive == TasksSpec => []TasksInv
BY InitInv, InvStep, PTL DEF TasksSpec

-----------------------------------------------------------------------------
(* What follows *)

(* Every variable keeps its type; a row that says 'running' and a token are *)
(* of a search that is past its questions.                                  *)
THEOREM TasksTypeCorrect == TasksSpec => []TasksTypeOK
<1>1. TasksInv => TasksTypeOK
  <2> SUFFICES ASSUME TasksInv PROVE TasksTypeOK
    OBVIOUS
  <2>1. \A w \in Slots : left[w] \in 0..MaxItems[w]
    BY ParameterAssumption DEF TasksInv, Shapes
  <2>2. \A w \in Slots : Attended(w)
    BY DEF TasksInv
  <2>3. \A w \in running \cup cancelled : stage[w] # "idle"
    BY <2>2 DEF TasksInv, Shapes, Attended, PastGuard
  <2>4. \A w \in Slots : stage[w] = "ask" => todo[w] # <<>>
    BY <2>2 DEF Attended
  <2>5. \A w \in tokens : kind[w] \in Cancellable /\ stage[w] \notin {"idle", "ask", "create"}
    BY <2>2 DEF TasksInv, Shapes, Attended, PastGuard
  <2> QED
    BY <2>1, <2>3, <2>4, <2>5 DEF TasksTypeOK, TasksInv, Shapes, Kinds, PastGuard, AskTypes
<1> QED
  BY <1>1, TasksInductive, PTL

(* However many commands are given, and in whatever order their rows come,  *)
(* age, are failed or deleted: no search gets past its questions while one  *)
(* it had to heed when it began to ask still runs and is young, unless the  *)
(* question that would have told was answered by an error.                  *)
THEOREM GuardsAreHonoured == TasksSpec => []GuardHonoured
<1>1. TasksInv => GuardHonoured
  <2> SUFFICES ASSUME TasksInv, NEW w \in Slots, stage[w] \notin {"idle", "ask"},
                      NEW v \in before[w] \cap Young
               PROVE  ActivityType(kind[v]) \in unanswered[w]
    BY DEF GuardHonoured
  <2>1. todo[w] = <<>> /\ Heeding(w)
    BY DEF TasksInv, Attended
  <2> QED
    BY <2>1, NothingAmong DEF Heeding
<1> QED
  BY <1>1, TasksInductive, PTL

(* The user's cancel, once answered, lets at most one more item be searched, *)
(* of whatever number of items and of searches.                             *)
THEOREM AtMostOneMoreItem == TasksSpec => []AtMostOneMore
<1>1. TasksInv => AtMostOneMore
  BY DEF TasksInv, Bounded, AtMostOneMore
<1> QED
  BY <1>1, TasksInductive, PTL

(* A trigger that was answered waits as a permit until a pass begins.       *)
THEOREM TriggersAreKept == TasksSpec => []NoTriggerLost
<1>1. TasksInv => NoTriggerLost
  BY DEF TasksInv
<1> QED
  BY <1>1, TasksInductive, PTL
=============================================================================
