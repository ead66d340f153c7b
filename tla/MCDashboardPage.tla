-------------------------- MODULE MCDashboardPage --------------------------
(***************************************************************************)
(* One range with rows, one without, one the API refuses, two positions of *)
(* the slider: up to three loads overlap.                                  *)
(***************************************************************************)
EXTENDS DashboardPage

MCInitial == [range |-> "week", horizon |-> 4]
=============================================================================
