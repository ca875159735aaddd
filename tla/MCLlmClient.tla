---------------------------- MODULE MCLlmClient ----------------------------
(***************************************************************************)
(* Instance of LlmClient for TLC: the fixed queue and the adaptive fast    *)
(* lane before one backend.                                                *)
(***************************************************************************)
EXTENDS LlmClient

CONSTANTS c1, c2, c3, c4

MCLaneOf == [c \in Calls |-> IF c = c4 THEN "global" ELSE "fast"]
=============================================================================
