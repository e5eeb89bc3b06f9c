--------------------------- MODULE MCCalleeSearch ---------------------------
(***************************************************************************)
(* The search over few values: some points-to maps are chains of the       *)
(* greatest length, some are cyclic, some do not lead to a function.       *)
(***************************************************************************)
EXTENDS CalleeSearch

CONSTANTS f, g, x, y, z
=============================================================================
