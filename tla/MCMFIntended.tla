---------------------------- MODULE MCMFIntended ----------------------------
(***************************************************************************)
(* The instances whose query is intended, so that what MFScanProofs        *)
(* proves under that hypothesis is also what TLC checks on them.           *)
(***************************************************************************)
EXTENDS MCMFScan

ASSUME IntendedHolds == Intended
=============================================================================
