--------------------------- MODULE MCControlLease ---------------------------
(***************************************************************************)
(* A lab PC with a GUI, a scan engine and the camera service; an office PC *)
(* with a GUI and a second scan engine; and a client that names no host.   *)
(***************************************************************************)
EXTENDS ControlLease, TLC

CONSTANTS labGui, labScan, camera, officeGui, officeScan, hostless, lab, office

MCPC == (labGui :> lab) @@ (labScan :> lab) @@ (camera :> lab)
        @@ (officeGui :> office) @@ (officeScan :> office)
        @@ (hostless :> NoPC)

=============================================================================
