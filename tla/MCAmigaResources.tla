-------------------------- MODULE MCAmigaResources --------------------------
(* A small instance of AmigaResources for TLC. *)
EXTENDS AmigaResources
=============================================================================
