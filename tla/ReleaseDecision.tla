-------------------------- MODULE ReleaseDecision --------------------------
(***************************************************************************)
(* How a release is judged: the specifications of the decision engine, the *)
(* ranking of what they let through, the score of a release's custom       *)
(* formats, and the check the import makes when the file has arrived.      *)
(* Qualities are the numbers of the code; a profile lists them, alone or   *)
(* in groups, from the least to the most wanted:                           *)
(*   [items : sequences of [of : sets of qualities, group : group ids,     *)
(*                          allowed : BOOLEAN],                            *)
(*    cutoff, upgrade, minScore, cutoffScore, language, scores]            *)
(* group is NoQuality in an item that is a single quality.                 *)
(***************************************************************************)
EXTENDS Integers, Sequences

CONSTANTS MaxScore  \* scores saturate at +-MaxScore: 2^31 - 1 in the code

NoQuality == -1     \* None, for a quality or for a score
NoScore   == -(MaxScore + 2)

(* Languages are Radarr's numbers; what the parser does not know is Unknown. *)
AnyLanguage      == -1
OriginalLanguage == -2
Multi            == -3
Unknown          == 0

ParserLanguage(id) ==
    IF id \in (1..8) \cup (10..12) \cup (14..18) \cup (20..23) \cup (25..29)
    THEN id ELSE Unknown

-----------------------------------------------------------------------------
(* Quality profiles *)

(* An allowed group allows all its children, whatever their own flags say.  *)
Allowed(p, q) == \E k \in DOMAIN p.items : p.items[k].allowed /\ q \in p.items[k].of

(* Positions of a quality, and of a group.  Of several the last one counts: *)
(* it was inserted last into the map.                                       *)
Places(p, q)      == {k \in DOMAIN p.items : q \in p.items[k].of}
GroupPlaces(p, g) == {k \in DOMAIN p.items : p.items[k].group = g}

Last(S) == CHOOSE k \in S : \A j \in S : j <= k

Rank(p, q) == Last(Places(p, q))

(* A cutoff is looked up as a group first, then as a quality.               *)
CutoffPlaces(p) == IF GroupPlaces(p, p.cutoff) # {} THEN GroupPlaces(p, p.cutoff)
                                                    ELSE Places(p, p.cutoff)

CutoffMet(p, have) ==
    IF Places(p, have) # {} /\ CutoffPlaces(p) # {}
    THEN Rank(p, have) >= Last(CutoffPlaces(p))
    ELSE have >= p.cutoff

(* Mutant: a release of the same place is an improvement. *)
ImprovesOrSame(p, q, have) ==
    IF Places(p, q) # {} /\ Places(p, have) # {}
    THEN Rank(p, q) >= Rank(p, have)
    ELSE q > have

Improves(p, q, have) ==
    IF Places(p, q) # {} /\ Places(p, have) # {}
    THEN Rank(p, q) > Rank(p, have)
    ELSE q > have

(* Bytes, in megabytes. *)
SizeLimits(q) ==
    CASE q \in 1..5   -> <<50, 3000>>
      [] q \in 6..9   -> <<100, 8000>>
      [] q \in 10..14 -> <<200, 20000>>
      [] q \in 15..19 -> <<500, 80000>>
      [] OTHER        -> <<0, -1>>          \* no limit

-----------------------------------------------------------------------------
(* Custom formats: a format is a set of specifications                      *)
(* [hits : releases, negate, required, contextual : BOOLEAN].               *)

(* Indexer flags and sizes are matched against a context nobody passes.     *)
SpecMatches(s, title) == (~s.contextual /\ title \in s.hits) # s.negate

FormatMatches(f, title) ==
    /\ f.specs # {}
    /\ \A s \in f.specs : s.required => SpecMatches(s, title)
    /\ (\E s \in f.specs : ~s.required) =>
          \E s \in f.specs : ~s.required /\ SpecMatches(s, title)

Saturated(n) == IF n > MaxScore THEN MaxScore
                ELSE IF n < -(MaxScore + 1) THEN -(MaxScore + 1) ELSE n

(* The formats in the order the database returns them. *)
Score(formats, scores, title) ==
    LET gain(f) == IF FormatMatches(f, title) /\ f.id \in DOMAIN scores
                   THEN scores[f.id] ELSE 0
        sum[n \in 0..Len(formats)] ==
            IF n = 0 THEN 0 ELSE Saturated(sum[n - 1] + gain(formats[n]))
    IN  sum[Len(formats)]

-----------------------------------------------------------------------------
(* The decision engine.  c is the DecisionContext: the file there is        *)
(* (have, haveScore), the score of the release, what is queued for the      *)
(* item, and whether the release is known to the queue, the history and the *)
(* blocklist.                                                               *)

(* Mutant: the numbers are compared, as in the import. *)
QualityByNumber(p, r, c) ==
    c.have # NoQuality =>
        p.upgrade /\ ~CutoffMet(p, c.have) /\ r.quality > c.have

QualityCutoffSpec(p, r, c) ==
    c.have # NoQuality =>
        /\ p.upgrade
        /\ ~CutoffMet(p, c.have)
        /\ Improves(p, r.quality, c.have)

QueueConflictSpec(r, c) ==
    ~c.inQueue /\ (c.queued # NoQuality => c.queued < r.quality)

LanguageSpec(p, r, c) ==
    LET wanted == IF p.language = OriginalLanguage THEN c.original ELSE p.language
    IN  \/ p.language = AnyLanguage
        \/ wanted = NoQuality
        \/ r.languages \cap {Multi, Unknown, ParserLanguage(wanted)} # {}

SizeSpecs(r) ==
    LET limits == SizeLimits(r.quality)
    IN  r.size > 0 => /\ r.size >= limits[1]
                      /\ limits[2] # -1 => r.size <= limits[2]

MinimumSeedersSpec(r) == r.protocol = "torrent" => r.seeders >= 1

CustomFormatCutoffSpec(p, c) ==
    \/ c.haveScore = NoScore \/ p.cutoffScore <= 0
    \/ c.haveScore < p.cutoffScore \/ c.score > c.haveScore

(* decide: no specification rejects the release. *)
Approved(p, r, c) ==
    /\ ~c.grabbed                        \* AlreadyImportedSpec
    /\ ~c.blocked                        \* BlocklistSpec
    /\ QueueConflictSpec(r, c)
    /\ Allowed(p, r.quality)             \* QualityAllowedSpec
    /\ QualityCutoffSpec(p, r, c)
    /\ CustomFormatCutoffSpec(p, c)
    /\ LanguageSpec(p, r, c)
    /\ SizeSpecs(r)
    /\ MinimumSeedersSpec(r)
    /\ c.score >= p.minScore             \* CustomFormatScoreSpec

(* rank_releases: the keys in the order they are compared, smaller first.   *)
(* The quality is its number, not its place in the profile.                 *)
SortKey(r, score, strategy) ==
    LET merit == <<-r.quality, -score, -r.seeders, r.age>>
    IN  IF strategy = "indexer_priority" THEN <<r.priority>> \o merit
                                         ELSE merit \o <<r.priority>>

KeyLess(a, b) ==
    \E n \in DOMAIN a : a[n] < b[n] /\ \A m \in 1..(n - 1) : a[m] = b[m]

(* The first approved one of the sorted list.  The sort is stable: of two    *)
(* releases with equal keys it is the one listed first.                     *)
Best(approved, key) ==
    {n \in approved : \A m \in approved :
        KeyLess(key[n], key[m]) \/ (key[n] = key[m] /\ n <= m)}

-----------------------------------------------------------------------------
(* check_upgrade of the import: it compares the numbers. *)
ImportAccepts(p, q, have) ==
    have # NoQuality =>
        /\ p.upgrade
        /\ ~(have >= p.cutoff /\ p.cutoff > 0)
        /\ q > have
        /\ Allowed(p, q)

(* A profile in the order of the quality numbers, each quality in one place, *)
(* whose cutoff is one of its qualities, a group with an id above them all,  *)
(* or a number of its own.  The seeded profiles are of this kind.            *)
Ordered(p) ==
    /\ p.cutoff \in Nat \ {0}
    /\ p.items \in Seq([of : SUBSET Nat, group : Int, allowed : BOOLEAN])
    /\ \A k, l \in DOMAIN p.items : k < l =>
          \A q \in p.items[k].of, s \in p.items[l].of : q < s
    /\ \A k, l \in GroupPlaces(p, p.cutoff) : k = l
    /\ GroupPlaces(p, p.cutoff) # {} =>
          \A k \in DOMAIN p.items : \A q \in p.items[k].of : q < p.cutoff
=============================================================================
