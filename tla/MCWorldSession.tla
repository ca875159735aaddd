--------------------------- MODULE MCWorldSession ---------------------------
(* The instance of WorldSession for TLC: two streams, three names for the  *)
(* runtimes and for the state objects, which are enough for the ones that  *)
(* are alive, awaited or pinned at the same time.                          *)
EXTENDS WorldSession

CONSTANTS c1, c2

TwoClients == {c1, c2}
ThreeNames == 1..3
AllRows == {"blank", "plain", "hass"}
BothEnds == {"delete", "close"}
=============================================================================
