---------------------------- MODULE MCWorkstation ----------------------------
(***************************************************************************)
(* Two cars: one whose VIN and hardware number stand for a CRD3 unit, one  *)
(* that has nothing of it.  Two of the standard identifiers and two of the *)
(* family's are enough for the index at which the probe decides to have a  *)
(* neighbour on each side.                                                 *)
(***************************************************************************)
EXTENDS Workstation

MCIdentity == <<"hardware", "name">>
MCFingerprint == <<"supplier">>
MCVehicles ==
    {[vin |-> "diesel", engine |-> "OM651", crd3 |-> {"hardware"}],
     [vin |-> "other", engine |-> "none", crd3 |-> {}]}
=============================================================================
