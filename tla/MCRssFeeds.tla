----------------------------- MODULE MCRssFeeds -----------------------------
(* A feed of two items, one of which another feed lists twice.               *)
EXTENDS RssFeeds

CONSTANTS f1, f2, a, b, r1, u1, some, sync

MCListings  == [f \in Feeds |-> IF f = f1 THEN {<<a, b>>} ELSE {<<b>>}]
MCSettings  == [f \in Feeds |-> IF f = f1
                THEN {[enabled |-> TRUE, auto |-> TRUE, filter |-> NoFilter],
                      [enabled |-> FALSE, auto |-> TRUE, filter |-> BadFilter]}
                ELSE {[enabled |-> TRUE, auto |-> FALSE, filter |-> some]}]
MCPasses    == [x \in {some} |-> {b}]
MCRuleFeeds == [r \in Rules |-> {f2}]
MCHits      == [r \in Rules |-> Items]
=============================================================================
