--------------------------- MODULE MCBulkCoordinator ---------------------------
(***************************************************************************)
(* Three jobs; --max-runbooks below one, one, two, and above the upper     *)
(* bound, which is two here and 256 in the code.                           *)
(***************************************************************************)
EXTENDS BulkCoordinator

AskedFor  == {0, 1, 2, 7}
ExitCodes == {0, 1, 20}
=============================================================================
