--------------------------- MODULE MCValidationLoop ---------------------------
(***************************************************************************)
(* Two dataset names, so that a repair may rename; retry limits from zero  *)
(* to three, of which three needs more node runs than are granted.         *)
(***************************************************************************)
EXTENDS ValidationLoop

CONSTANTS loans, orders

MCNames == {loans, orders}
MCRetryLimits == 0..3
=============================================================================
