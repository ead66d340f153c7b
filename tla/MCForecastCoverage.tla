------------------------- MODULE MCForecastCoverage -------------------------
(***************************************************************************)
(* Days of two units, so that the longest horizon, 48 hours, is four and   *)
(* equals the look-back.  BMRS publishes just before the first window, at  *)
(* its very start, the day before the period, and on day 1; or, in         *)
(* MCNotAtMidnight, within that first window instead of at its start.      *)
(***************************************************************************)
EXTENDS ForecastCoverage

MCSlots == {0, 3}
MCPublishTimes == {-5, -4, -1, 1}
MCNotAtMidnight == {-5, -3, -1, 1}
MCPowers == {5}
MCHorizons == 0..4
=============================================================================
