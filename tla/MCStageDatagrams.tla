-------------------------- MODULE MCStageDatagrams --------------------------
(***************************************************************************)
(* The datagram driver for TLC: the datagrams, the granularity and what    *)
(* messages may do are given by each configuration.                        *)
(***************************************************************************)
EXTENDS StageDatagrams
=============================================================================
