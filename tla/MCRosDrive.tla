----------------------------- MODULE MCRosDrive -----------------------------
(* The instance of RosDrive for TLC: one wheel, to the right of the centre. *)
EXTENDS RosDrive

CONSTANT fr

MCTranslation == [m \in {fr} |-> <<0, -1>>]

(* Stop; backwards while turning, beyond the velocity limit; a creep that  *)
(* the VESC's deadband swallows.                                           *)
MCTwists == {<<0, 0, 0>>, <<-3, 1, 1>>, <<0, 0, 1>>}
MCSTOP == <<0, 0, 0>>
=============================================================================
