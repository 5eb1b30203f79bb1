--------------------------- MODULE MCCommutation ---------------------------
(* The instance of Commutation for TLC: setpoints below and at the edge of *)
(* the deadband, those of deckard and of the drive joints' limit, and the  *)
(* ends of the range.                                                      *)
EXTENDS Commutation

MCVoltages == {1310, 1311, -1311, -5898, 13107, 65536, -65536}
=============================================================================
