---------------------------- MODULE MCSearchGrab ----------------------------
(* Two episodes of a series and a movie.  The series' profile has a group in *)
(* its middle and a quality as its cutoff, and one release holds both        *)
(* episodes.  The movie's profile is not in the order of the numbers, ends   *)
(* with a group that is its cutoff, and a custom format counts for it.       *)
EXTENDS SearchGrab

CONSTANTS e1, e2, m, s1

Item(q)     == [of |-> {q}, group |-> NoQuality, allowed |-> TRUE]
Grp(id, qs) == [of |-> qs, group |-> id, allowed |-> TRUE]

TvProfile ==
    [items |-> <<Item(6), Grp(1000, {7, 8}), Item(9), Item(11)>>, cutoff |-> 9,
     upgrade |-> TRUE, minScore |-> 0, cutoffScore |-> 0, language |-> AnyLanguage,
     scores |-> [f \in {1} |-> -2]]

MovieProfile ==
    [items |-> <<Item(12), Item(11), Grp(1001, {9})>>, cutoff |-> 1001, upgrade |-> TRUE,
     minScore |-> 0, cutoffScore |-> 2, language |-> OriginalLanguage,
     scores |-> [f \in {1} |-> 1]]

MCProfileOf == [i \in Items |-> IF i = m THEN MovieProfile ELSE TvProfile]

Release(title, q, fq, covers, lead, seeders) ==
    [title |-> title, guid |-> 100, quality |-> q, fileName |-> title, fileQuality |-> fq,
     languages |-> {1}, size |-> 1000, protocol |-> "torrent", seeders |-> seeders,
     age |-> 0, priority |-> 1, covers |-> covers, lead |-> lead]

MCListing == <<Release("both", 8, 8, {e1, e2}, e1, 3), Release("better", 9, 9, {e1}, e1, 1),
               Release("wide", 12, 12, {m}, m, 2), Release("movie", 11, 11, {m}, m, 2)>>

(* An obfuscated release: the name of its file tells no quality. *)
HiddenListing == <<Release("hidden", 8, 0, {e1}, e1, 3), Release("movie", 11, 11, {m}, m, 2)>>

MCFormats == <<[id |-> 1, specs |-> {[hits |-> {"movie"}, negate |-> FALSE,
                                      required |-> FALSE, contextual |-> FALSE]}]>>

MCOriginal == [i \in Items |-> 1]
MCRows     == 1..2
=============================================================================
