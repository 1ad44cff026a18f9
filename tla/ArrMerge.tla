------------------------------ MODULE ArrMerge ------------------------------
(***************************************************************************)
(* build_migration_data: the contents of a Sonarr, a Radarr and a Prowlarr *)
(* database merged into what the migration writes.  An application that is *)
(* not migrated has empty tables.  Each table is a sequence of rows in the  *)
(* order SQLite gave them.                                                 *)
(*                                                                         *)
(* A name is its lower-case key and its spelling; a path is a sequence of  *)
(* fragments; `from' stands for the columns that are only copied.          *)
(***************************************************************************)
EXTENDS Integers, FiniteSets, SequencesExt

(* Mutant. *)
NoOffset == 0

RADARR_PROFILE_OFFSET == 100000

(* The sparse numbers of Sonarr and Radarr, in the application's 0..20. *)
QualityId(q) ==
    CASE q = 3  -> 11 [] q = 4  -> 6  [] q = 5  -> 7  [] q = 6  -> 9
      [] q = 7  -> 13 [] q = 8  -> 3  [] q = 9  -> 10 [] q = 10 -> 20
      [] q = 12 -> 4  [] q = 14 -> 8  [] q = 15 -> 12 [] q = 16 -> 15
      [] q = 18 -> 16 [] q = 19 -> 18 [] q = 20 -> 5
      [] q = 30 -> 14 [] q = 31 -> 19 [] OTHER -> q

Apply(s, Op(_)) == [i \in DOMAIN s |-> Op(s[i])]

(* The elements of s at the indices I, in their order. *)
Nth(I, n)    == CHOOSE i \in I : Cardinality({j \in I : j <= i}) = n
Picked(s, I) == [n \in 1..Cardinality(I) |-> s[Nth(I, n)]]

(* The rows of s that pass a test, and those that are the first with their key. *)
Only(s, Test(_))  == Picked(s, {i \in DOMAIN s : Test(s[i])})
Firsts(s, Key(_)) == Picked(s, {i \in DOMAIN s : \A j \in DOMAIN s : Key(s[j]) = Key(s[i]) => i <= j})

By(app, s) == Apply(s, LAMBDA row : [app |-> app, row |-> row])

-----------------------------------------------------------------------------
TagsOf(src) == src.sonarr.tags \o src.radarr.tags \o src.prowlarr.tags

MergedTags(src) ==
    Apply(Firsts(TagsOf(src), LAMBDA t : t.label.key), LAMBDA t : t.label)

(* old_tag_id_to_label: one map for the three applications, in which a later *)
(* row with the same id replaces an earlier one.                             *)
OldTagLabel(src, id) ==
    TagsOf(src)[SelectLastInSeq(TagsOf(src), LAMBDA t : t.id = id)].label.key

KnownTag(src, id) == \E t \in ToSet(TagsOf(src)) : t.id = id

MappedTags(src, ids) == {OldTagLabel(src, id) : id \in {i \in ids : KnownTag(src, i)}}

(* Custom formats of both applications are one when their names are. *)
FormatsOf(src) == By("sonarr", src.sonarr.formats) \o By("radarr", src.radarr.formats)

MergedFormats(src) == Firsts(FormatsOf(src), LAMBDA f : f.row.name.key)

FormatIndex(src, app, id) ==
    LET named == SelectInSeq(FormatsOf(src), LAMBDA f : f.app = app /\ f.row.id = id)
    IN  IF named = 0 THEN 0
        ELSE SelectInSeq(MergedFormats(src),
                         LAMBDA f : f.row.name.key = FormatsOf(src)[named].row.name.key)

(* parse_format_scores and the renumbering of the formats. *)
FormatScores(src, app, items) ==
    Only(Apply(items, LAMBDA i : [index |-> FormatIndex(src, app, i.format),
                                       score |-> i.score]),
              LAMBDA s : s.score # 0 /\ s.index # 0)

(* The profiles of the two applications stay apart; a movie profile with the *)
(* name of a series profile gets a suffix, and its old id an offset.         *)
SeriesProfile(src, p) ==
    [old |-> p.id, from |-> <<"sonarr", p.id>>, media |-> "series",
     name |-> [key |-> p.name.key, suffix |-> FALSE],
     cutoff |-> QualityId(p.cutoff), items |-> {QualityId(q) : q \in p.items},
     scores |-> FormatScores(src, "sonarr", p.scores)]

MovieProfile(src, p) ==
    [old |-> p.id + RADARR_PROFILE_OFFSET, from |-> <<"radarr", p.id>>, media |-> "movie",
     name |-> [key |-> p.name.key,
               suffix |-> \E q \in ToSet(src.sonarr.profiles) : q.name.key = p.name.key],
     cutoff |-> QualityId(p.cutoff), items |-> {QualityId(q) : q \in p.items},
     scores |-> FormatScores(src, "radarr", p.scores)]

Profiles(src) ==
    Apply(src.sonarr.profiles, LAMBDA p : SeriesProfile(src, p))
        \o Apply(src.radarr.profiles, LAMBDA p : MovieProfile(src, p))

-----------------------------------------------------------------------------
(* remap_path: the first mapping whose `from' starts the path. *)
Remap(path, maps) ==
    LET m == SelectInSeq(maps, LAMBDA x : IsPrefix(x.from, path))
    IN  IF m = 0 THEN path
        ELSE maps[m].to \o SubSeq(path, Len(maps[m].from) + 1, Len(path))

Folders(src, maps) ==
    Apply(Firsts(Apply(src.sonarr.roots, LAMBDA p : [path |-> p, media |-> "series"])
                     \o Apply(src.radarr.roots, LAMBDA p : [path |-> p, media |-> "movie"]),
                 LAMBDA f : f.path),
          LAMBDA f : [f EXCEPT !.path = Remap(f.path, maps)])

Naming(src) ==
    (IF src.sonarr.naming THEN {"series"} ELSE {})
        \cup (IF src.radarr.naming THEN {"movie"} ELSE {})

-----------------------------------------------------------------------------
(* An indexer without a base URL is left out.  Prowlarr's come first, all of *)
(* them; one of Sonarr or Radarr is left out when its URL has been seen.     *)
WithUrl(rows) == Only(rows, LAMBDA i : i.row.url # "")

Seen(rows, url) == \E i \in ToSet(rows) : i.row.url = url

Indexers(src) ==
    LET prowlarr == WithUrl(By("prowlarr", src.prowlarr.indexers))
        others   == WithUrl(By("sonarr", src.sonarr.indexers)
                                \o By("radarr", src.radarr.indexers))
    IN  prowlarr \o Firsts(Only(others, LAMBDA i : ~Seen(prowlarr, i.row.url)),
                           LAMBDA i : i.row.url)

(* One client for each implementation, host and port: the key. *)
DownloadClients(src) ==
    Firsts(By("sonarr", src.sonarr.clients) \o By("radarr", src.radarr.clients),
           LAMBDA c : c.row.key)

-----------------------------------------------------------------------------
SeriesInserts(src, maps) ==
    Apply(src.sonarr.series,
          LAMBDA s : [old |-> s.id, from |-> <<"sonarr", s.id>>, path |-> Remap(s.path, maps),
                      profile |-> s.profile, tags |-> s.tags, seasons |-> s.seasons])

MovieInserts(src, maps) ==
    Apply(src.radarr.movies,
          LAMBDA m : [old |-> m.id, from |-> <<"radarr", m.id>>, path |-> Remap(m.path, maps),
                      profile |-> m.profile + RADARR_PROFILE_OFFSET, tags |-> m.tags,
                      file |-> m.file])

MediaFiles(src) ==
    Apply(src.sonarr.files,
          LAMBDA f : [old |-> f.id, from |-> <<"sonarr", f.id>>, media |-> "series",
                      quality |-> QualityId(f.quality)])
        \o Apply(src.radarr.files,
                 LAMBDA f : [old |-> f.id, from |-> <<"radarr", f.id>>, media |-> "movie",
                             quality |-> QualityId(f.quality)])

Episodes(src) ==
    Apply(src.sonarr.episodes,
          LAMBDA e : [old |-> e.id, from |-> <<"sonarr", e.id>>, series |-> e.series,
                      number |-> e.number, file |-> e.file])

Blocklist(src) ==
    Apply(src.sonarr.blocklist,
          LAMBDA b : [media |-> "series", item |-> b.item, from |-> <<"sonarr", b.id>>])
        \o Apply(src.radarr.blocklist,
                 LAMBDA b : [media |-> "movie", item |-> b.item, from |-> <<"radarr", b.id>>])

build_migration_data(src, maps) ==
    [tags |-> MergedTags(src), formats |-> MergedFormats(src), profiles |-> Profiles(src),
     folders |-> Folders(src, maps), naming |-> Naming(src), indexers |-> Indexers(src),
     clients |-> DownloadClients(src), series |-> SeriesInserts(src, maps),
     files |-> MediaFiles(src), episodes |-> Episodes(src),
     movies |-> MovieInserts(src, maps), blocklist |-> Blocklist(src)]
=============================================================================
