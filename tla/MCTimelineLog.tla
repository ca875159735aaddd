---------------------------- MODULE MCTimelineLog ----------------------------
(***************************************************************************)
(* Instance of TimelineLog for TLC: lines of one byte, and two that are    *)
(* larger than a segment, the first of a log among them.                   *)
(***************************************************************************)
EXTENDS TimelineLog

MCSize == [r \in Records |-> IF r \in {1, 4} THEN 3 ELSE 1]
=============================================================================
