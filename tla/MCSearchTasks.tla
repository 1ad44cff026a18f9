--------------------------- MODULE MCSearchTasks ---------------------------
(* The scheduler's search and two commands, two of the three at a time: two *)
(* are enough to meet in the table.  The search of a series and the         *)
(* automatic one, each of which heeds the other, meet, and a scan meets a   *)
(* scan.  A MissingSearch asks what the automatic search asks, and a        *)
(* CutoffSearch asks for its own kind, as a scan does.                      *)
EXTENDS SearchTasks

CONSTANTS c1, c2, auto

MCGiven == [w \in {c1, c2} |-> IF w = c1 THEN {"seriesMissing", "scan"}
                                         ELSE {"scan"}]

MCMaxItems == [w \in {c1, c2, auto} |-> IF w = c1 THEN 2 ELSE 1]
=============================================================================
