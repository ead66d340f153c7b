---------------------------- MODULE MCIngestion ----------------------------
(***************************************************************************)
(* Two batches and a look-back of one day: the forecasts of day 1 are      *)
(* covered by both batches, those of days 0 and 2 by one batch only.       *)
(***************************************************************************)
EXTENDS Ingestion

\* The feed publishes again for the shared day of the forecasts, the one row
\* that several loads of one run write.
MCRevisable == {<<"forecast", 1>>}
=============================================================================
