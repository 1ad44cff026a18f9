--------------------------- MODULE MCLibraryFiles ---------------------------
(* Instances of LibraryFiles for TLC: d1 and d2 are releases of item a with   *)
(* one quality, d1 holds item b too, d3 is a better release of a.            *)
EXTENDS LibraryFiles, TLC

CONSTANTS a, b, d1, d2, d3, n1, n2, w1, w2, s1, k1

MCItemOf  == [d \in Downloads |-> a]
MCExtras  == [d \in Downloads |-> IF d = d1 THEN {b} ELSE {}]
MCNameOf  == [d \in Downloads |-> IF d = d3 THEN n2 ELSE n1]
MCQuality == [d \in Downloads |-> IF d = d3 THEN 2 ELSE 1]

Symmetry == Permutations(Workers)
=============================================================================
