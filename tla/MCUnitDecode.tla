---------------------------- MODULE MCUnitDecode ----------------------------
(***************************************************************************)
(* UnitDecode for TLC.                                                     *)
(***************************************************************************)
EXTENDS UnitAgreement
=============================================================================
