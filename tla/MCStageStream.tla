--------------------------- MODULE MCStageStream ---------------------------
(***************************************************************************)
(* The byte-stream driver for TLC: the stream, the granularity and what    *)
(* messages may do are given by each configuration.                        *)
(***************************************************************************)
EXTENDS StageStream
=============================================================================
