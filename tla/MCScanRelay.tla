------------------------------ MODULE MCScanRelay ------------------------------
(* Values for checking ScanRelay are in the .cfg.                           *)
EXTENDS ScanRelay
=============================================================================
