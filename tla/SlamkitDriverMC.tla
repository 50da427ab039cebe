-------------------------- MODULE SlamkitDriverMC --------------------------
(***************************************************************************)
(* SlamkitDriver for TLC.  Clients are interchangeable.                    *)
(***************************************************************************)
EXTENDS SlamkitDriver, TLC

Symmetry == Permutations(Clients)
=============================================================================
