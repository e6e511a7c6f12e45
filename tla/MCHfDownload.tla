---------------------------- MODULE MCHfDownload ----------------------------
(***************************************************************************)
(* Instances of HfDownload for TLC.                                        *)
(***************************************************************************)
EXTENDS HfDownload, TLC
=============================================================================
