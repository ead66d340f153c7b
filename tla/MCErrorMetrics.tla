--------------------------- MODULE MCErrorMetrics ---------------------------
(***************************************************************************)
(* Two hours, errors of both signs and none, a slot without a forecast,    *)
(* and blocks that take the sample past the hundred at which p99 is no     *)
(* longer the maximum.                                                     *)
(***************************************************************************)
EXTENDS ErrorMetrics

Slot(h, a, f) == [hour |-> h, actual |-> a, forecast |-> f]
MCKinds == {Slot(0, 4, 4), Slot(0, 7, 2), Slot(9, 1, 4), Slot(9, 3, None)}
=============================================================================
