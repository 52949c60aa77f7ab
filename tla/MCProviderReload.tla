------------------------- MODULE MCProviderReload -------------------------
(***************************************************************************)
(* A turn, a job, a keeper and a loose caller, while the file is edited to *)
(* settings with own profiles for the roles, to settings of which no       *)
(* provider can be built, to a broken version, and back.                   *)
(***************************************************************************)
EXTENDS ProviderReload, TLC

CONSTANTS turn, job, tick, ring, plain, rich, odd

MCRoleOf == tick :> "autonomy"
MCContentOf == 0 :> plain @@ 1 :> rich @@ 2 :> odd @@ 3 :> Rejected @@ 4 :> plain
=============================================================================
