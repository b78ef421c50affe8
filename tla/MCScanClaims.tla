---------------------------- MODULE MCScanClaims ----------------------------
(***************************************************************************)
(* Two suites on two PCs, one scan engine each, whose scans use the same   *)
(* two instruments, or one of them.                                        *)
(***************************************************************************)
EXTENDS ScanClaims, TLC

CONSTANTS labScan, officeScan, lab, office

MCPC == (labScan :> lab) @@ (officeScan :> office)
MCBoth == (labScan :> {1, 2}) @@ (officeScan :> {1, 2})
MCOne == (labScan :> {1}) @@ (officeScan :> {1})
MCOnce == (labScan :> 1) @@ (officeScan :> 1)
MCTwice == (labScan :> 2) @@ (officeScan :> 1)

=============================================================================
