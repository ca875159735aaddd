-------------------------- MODULE MCHassConnection --------------------------
(***************************************************************************)
(* Instance of HassConnection for TLC.                                     *)
(***************************************************************************)
EXTENDS HassConnection

CONSTANTS s1, s2, k1
=============================================================================
