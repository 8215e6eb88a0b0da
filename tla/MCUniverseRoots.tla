--------------------------- MODULE MCUniverseRoots ---------------------------
(***************************************************************************)
(* Model-checking instance of UniverseRoots: two universe IDs, two leaf   *)
(* keys per ID (so one ID can match while the other differs), pages of a  *)
(* single root (so every scan takes several pages and inserts land        *)
(* between them).                                                          *)
(***************************************************************************)
EXTENDS UniverseRoots, TLC

CONSTANTS k1, k2

MCLeafKeys == {k1, k2}

\* The spec's end-to-end scenario mints an amount of 1000.
MCAmount == (k1 :> 1000) @@ (k2 :> 1)

=============================================================================
