---------------------------- MODULE MCCalibrate -----------------------------
(* Values for the constants of Calibrate, in steps of a quarter of a unit. *)
(* The angles of a range are 97 steps, 24.25 units, apart, so that all     *)
(* fractions occur on both sides of the thresholds at 96 units, of the     *)
(* shift by 64 and of the wrap at 128.                                     *)
EXTENDS Calibrate

MCUnit == 4

Arc(l, width) == [lo |-> l, hi |-> l + width]

(* A wide range around zero and one that ends there, across the wrap; and  *)
(* narrower ones beyond the threshold and across the wrap, the last with   *)
(* an end at the threshold itself.                                         *)
MCArcs == {Arc(-291, 582), Arc(-582, 582), Arc(193, 388), Arc(-675, 291)}

MCMoves == {-97, 0, 97}

(* Five angles 31 units apart, for the stick whose idle frame is shifted   *)
(* when the calibration begins.                                            *)
MCFewArcs == {Arc(-248, 496), Arc(264, 496)}
MCFewMoves == {-124, 0, 124}

(* Either end of the range, lest a NaN pass for a centred stick. *)
MCNanCast == {-128, 127}
=============================================================================
