------------------------- MODULE MCEmbeddedPostgres -------------------------
(***************************************************************************)
(* The server process and one command beside it, two versions.             *)
(***************************************************************************)
EXTENDS EmbeddedPostgres

CONSTANTS serve, migrate
=============================================================================
