---------------------------- MODULE MCScanWindows ----------------------------
(* Values for checking ScanWindows.                                        *)
EXTENDS ScanWindows

Alternating == [g \in Logs |-> [i \in Ids |-> IF (i + g) % 3 = 0 THEN "milk" ELSE "bread"]]
=============================================================================
