--------------------------- MODULE ConfidenceBands ---------------------------
(***************************************************************************)
(* The confidence bands of the numeric fingerprinting solver: how the      *)
(* number of satisfied constraints of a candidate formula becomes the      *)
(* band under which the formula may leave the engine.                      *)
(*                                                                         *)
(* The code compares satisfied / total, a float, with the literals 0.90    *)
(* and 0.75.  Division of small integers rounds correctly and both         *)
(* literals are the nearest doubles of 9/10 and 3/4, so the comparison is  *)
(* that of the exact fractions, written here without division.             *)
(***************************************************************************)
EXTENDS Integers

ConfidenceBand == {"CONFIRMED", "PROBABLE", "WEAK", "REJECTED", "UNMAPPABLE"}

\* At least p percent of the constraints hold.
AtLeast(p, satisfied, total) == 100 * satisfied >= p * total

\* A faulty variant of Band: the share of satisfied constraints is not looked at.
BandByCount(satisfied, total, grandTotalOk) ==
    IF ~grandTotalOk THEN "REJECTED"
    ELSE IF total = 1 THEN "WEAK"
    ELSE IF satisfied >= 4 THEN "CONFIRMED"
    ELSE IF satisfied >= 2 THEN "PROBABLE"
    ELSE "REJECTED"

\* solver._band: the tests in the order the code makes them.
Band(satisfied, total, grandTotalOk) ==
    IF ~grandTotalOk THEN "REJECTED"
    ELSE IF total = 1 THEN "WEAK"
    ELSE IF satisfied >= 4 /\ AtLeast(90, satisfied, total) THEN "CONFIRMED"
    ELSE IF satisfied >= 2 /\ AtLeast(75, satisfied, total) THEN "PROBABLE"
    ELSE "REJECTED"

\* solver._BAND_RANK
BandRank(band) ==
    CASE band = "CONFIRMED"  -> 4
      [] band = "PROBABLE"   -> 3
      [] band = "WEAK"       -> 2
      [] band = "REJECTED"   -> 1
      [] band = "UNMAPPABLE" -> 0

\* A band under which resolve_metric may accept a formula.
Accepting(band) == BandRank(band) >= BandRank("WEAK")
==============================================================================
