------------------------- MODULE MCHorizonSelection -------------------------
(***************************************************************************)
(* Two slots, three publish times up to the first slot, two powers, and    *)
(* horizons from none to beyond the oldest publish of the first slot.      *)
(***************************************************************************)
EXTENDS HorizonSelection

MCSlots == {2, 3}
MCPublishTimes == 0..2
MCPowers == {5, 7}
MCHorizons == 0..3
=============================================================================
