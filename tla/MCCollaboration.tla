--------------------------- MODULE MCCollaboration ---------------------------
(***************************************************************************)
(* Instances of Collaboration for TLC: agent i starts collaborations, p, q *)
(* and r answer them.                                                      *)
(***************************************************************************)
EXTENDS Collaboration

CONSTANTS i, p, q, r, c1, c2

NoProvider == << >>

MCCollabs == Roots \cup {<<c, a>> : c \in Roots, a \in Agents}

AllInitiate == [c \in Roots |-> i]

\* Two partners first, then what is left of the ranking, one at a time.
TwoPartners  == [c \in Roots |-> {p, q}]
OnePartner   == [c \in Roots |-> {p}]
RankedPQR    == [c \in Roots |-> <<p, q, r>>]
Unranked     == [c \in Roots |-> << >>]
=============================================================================
