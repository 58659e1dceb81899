----------------------------- MODULE CalMemory ------------------------------
(***************************************************************************)
(* What the calibration commands promise: one calibration is in use, at    *)
(* most one is saved, and a calibration is only ever saved, kept and put   *)
(* in use as a whole.  One moment is excepted: while a load is under way   *)
(* the reports are made with a mixture of the old calibration and the      *)
(* saved one, and nothing else happens until the load or a restart ends it.*)
(* CalStore shows how the firmware keeps this promise with a frame in RAM, *)
(* copied float by float, and a flash sector that is erased and programmed *)
(* half-word by half-word.                                                 *)
(***************************************************************************)
CONSTANTS Calibrations,     \* all calibrations there may be
          Default,          \* the one in use after power-on
          Nothing,          \* no calibration saved
          Torn              \* no calibration in use, but a mixture of two

VARIABLES active,   \* the calibration in use
          saved     \* the one that survives a restart

Init == active = Default /\ saved = Nothing

(* cal *)
Calibrate == active # Torn /\ active' \in Calibrations /\ UNCHANGED saved

(* cal_save and flashwrite begin by losing what was saved ... *)
Forget == active # Torn /\ saved' = Nothing /\ UNCHANGED active

(* ... and cal_save ends by saving what is in use. *)
Save == active # Torn /\ saved = Nothing /\ saved' = active /\ UNCHANGED active

(* cal_load, typed or at power-on, of another calibration than the active  *)
BeginLoad == active # Torn /\ saved # Nothing /\ active' = Torn /\ UNCHANGED saved
EndLoad == active = Torn /\ saved # Nothing /\ active' = saved /\ UNCHANGED saved

(* reset, or a loss of power *)
Restart == active' = Default /\ UNCHANGED saved

Next == Calibrate \/ Forget \/ Save \/ BeginLoad \/ EndLoad \/ Restart

Spec == Init /\ [][Next]_<<active, saved>>
=============================================================================
