--------------------------- MODULE MCCoordinator ---------------------------
(***************************************************************************)
(* Two modules: the first has a session the coordinator enters, the second *)
(* one the scan enters; both can be left.                                  *)
(***************************************************************************)
EXTENDS Coordinator

MCSelections == {{}, {1, 2}}
=============================================================================
