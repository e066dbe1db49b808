------------------------------ MODULE MCCursor ------------------------------
(***************************************************************************)
(* Cursor for TLC: runs of up to three bytes with the bits and repetitions *)
(* that tell byte orders, signs and searches apart.                        *)
(***************************************************************************)
EXTENDS Cursor

MCRuns == {<<>>, <<200>>, <<13, 10>>, <<165, 60, 129>>, <<13, 13, 10>>}

MCCounts == {-1, 0, 1, 3, 8, 9, 16, 24}

MCSearches == {<<>>, <<13>>, <<10>>, <<13, 10>>}
=============================================================================
