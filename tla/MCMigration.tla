---------------------------- MODULE MCMigration ----------------------------
(* Instances of Migration for TLC: databases whose ids collide throughout. *)
EXTENDS Migration

Name(key, as) == [key |-> key, as |-> as]

Shows == <<"/tv">>
Kids  == <<"/tv", "-kids">>
Films == <<"/films">>

MCSonarr ==
    [tags     |-> <<[id |-> 1, label |-> Name("kids", "kids")],
                    [id |-> 2, label |-> Name("hd", "HD")]>>,
     formats  |-> <<[id |-> 1, name |-> Name("dv", "DV")],
                    [id |-> 2, name |-> Name("hdr", "HDR")]>>,
     profiles |-> <<[id |-> 1, name |-> Name("any", "Any"), cutoff |-> 3, items |-> {3, 4},
                     scores |-> <<[format |-> 1, score |-> 5], [format |-> 2, score |-> 0]>>]>>,
     series   |-> <<[id |-> 1, path |-> Shows \o <<"/a">>, profile |-> 1, tags |-> {1},
                     seasons |-> {1}],
                    [id |-> 2, path |-> Kids \o <<"/b">>, profile |-> 1, tags |-> {2},
                     seasons |-> {}]>>,
     files    |-> <<[id |-> 1, quality |-> 3], [id |-> 2, quality |-> 7]>>,
     episodes |-> <<[id |-> 1, series |-> 1, number |-> 1, file |-> 1],
                    [id |-> 2, series |-> 2, number |-> 1, file |-> 2]>>,
     indexers |-> <<[id |-> 1, url |-> "a"], [id |-> 2, url |-> "b"]>>,
     clients  |-> <<[id |-> 1, key |-> "sab"]>>,
     roots    |-> <<Shows, Kids>>,
     naming   |-> TRUE,
     blocklist |-> <<[id |-> 1, item |-> 1]>>]

MCRadarr ==
    [tags     |-> <<[id |-> 1, label |-> Name("hd", "hd")]>>,
     formats  |-> <<[id |-> 1, name |-> Name("hdr", "hdr")]>>,
     profiles |-> <<[id |-> 1, name |-> Name("any", "any"), cutoff |-> 7, items |-> {7},
                     scores |-> <<[format |-> 1, score |-> 9]>>]>>,
     movies   |-> <<[id |-> 1, path |-> Films \o <<"/m">>, profile |-> 1, tags |-> {1},
                     file |-> 1]>>,
     files    |-> <<[id |-> 1, quality |-> 30]>>,
     indexers |-> <<[id |-> 1, url |-> "b"], [id |-> 2, url |-> "b"], [id |-> 3, url |-> ""]>>,
     clients  |-> <<[id |-> 1, key |-> "sab"], [id |-> 2, key |-> "qbit"]>>,
     roots    |-> <<Films, Shows>>,
     naming   |-> TRUE,
     blocklist |-> <<[id |-> 1, item |-> 1], [id |-> 2, item |-> 7]>>]

MCProwlarr ==
    [tags     |-> <<[id |-> 2, label |-> Name("uhd", "uhd")]>>,
     indexers |-> <<[id |-> 1, url |-> "a"], [id |-> 2, url |-> "a"]>>]

MCSources == [sonarr |-> MCSonarr, radarr |-> MCRadarr, prowlarr |-> MCProwlarr]

Unfilled(tables) ==
    [t \in DOMAIN tables |-> IF t = "naming" THEN FALSE ELSE <<>>]

MCNoTables == [app \in DOMAIN MCSources |-> Unfilled(MCSources[app])]

(* All of them, or some: what one run wrote and the next meets. *)
MCRequests == {{"sonarr", "radarr", "prowlarr"}, {"radarr"}, {"sonarr", "prowlarr"}}

(* The films come to the shows' folder: two folders become one. *)
MCMappings == {<<[from |-> <<"/books">>, to |-> <<"/b">>], [from |-> Films, to |-> Shows]>>}

MCSeedTags    == <<Name("hd", "HD")>>
MCSeedFolders == <<[path |-> Shows, media |-> "series"]>>
=============================================================================
