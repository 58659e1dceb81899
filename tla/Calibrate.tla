----------------------------- MODULE Calibrate ------------------------------
(***************************************************************************)
(* The calibration state machine of joystick.c and the path of one sample  *)
(* through transmit().  The sensor thread reads a heading, runs calibrate, *)
(* applies the calibration and fills the HID report; it has the highest    *)
(* priority and does not block in between, so for the other threads the    *)
(* whole of it is one step (Sample).  The shell turns jscal_switch on and  *)
(* off (cmd_calibrate).                                                    *)
(*                                                                         *)
(* The stick is the environment: it moves inside one of the mechanical     *)
(* ranges Arcs, by one of Moves between two samples.  Its angle pos is not *)
(* reduced to the circle, so that "left of" keeps a meaning across the     *)
(* wrap of the heading.                                                    *)
(***************************************************************************)
EXTENDS JsMath

CONSTANTS Arcs,     \* mechanical ranges of the stick, [lo, hi] in steps
          Moves,    \* how far the stick may turn between two samples
          MaxCals   \* bound: how often the calibration is switched on

(* The sampling is fast enough that the stick turns by less than the 32    *)
(* units between the threshold of prevent_wraparound and the wrap, and the *)
(* range leaves room for an int8_t shifted by 64 beyond a threshold of 96. *)
ASSUME ArcsAssumption ==
    Arcs \subseteq {a \in [lo : Int, hi : Int] : a.lo <= a.hi /\ a.hi - a.lo <= 159 * Unit}
ASSUME MovesAssumption == Moves \subseteq -31 * Unit .. 31 * Unit
ASSUME MaxCalsAssumption == MaxCals \in Nat

VARIABLES
    pos,            \* angle of the stick at the last sample
    arc,            \* its mechanical range, never changes
    jscal_switch,
    state, cs,      \* the static variables of calibrate
    cal_data,
    hid_in_data,    \* axes of the last report
    cals,           \* how often the switch was turned on (bound)
    lo, hi,         \* history: extreme angles sampled in the running calibration
    aligned,        \* history: it began in a frame that had not been shifted
    done            \* history: the last finished calibration

vars == <<pos, arc, jscal_switch, state, cs, cal_data, hid_in_data, cals,
          lo, hi, aligned, done>>
ghosts == <<lo, hi, aligned, done>>

CalState == [min : Int8, max : Int8, offset : Int8]
CalData == [offset : Int, neg : Int, pos : Int]
Report == [x : Int8, y : Int8, z : Int8]
Outcome == [ok : BOOLEAN, aligned : BOOLEAN, lo : Int, hi : Int, ctr : Int]

NoCalibration == [ok |-> FALSE, aligned |-> FALSE, lo |-> 0, hi |-> 0, ctr |-> 0]

(* m_neg = m_pos = 1 and no offset, the initializer of cal_frame. *)
DefaultCal == [offset |-> 0, neg |-> -128 * Unit, pos |-> 128 * Unit]

Init ==
    /\ arc \in Arcs
    /\ pos \in {arc.lo, arc.hi, (arc.lo + arc.hi) \div 2}
    /\ jscal_switch = FALSE
    /\ state = "JSCAL_OFF"
    /\ cs = [min |-> 0, max |-> 0, offset |-> 0]
    /\ cal_data = DefaultCal
    /\ hid_in_data = [x |-> 0, y |-> 0, z |-> 0]
    /\ cals = 0
    /\ lo = 0 /\ hi = 0 /\ aligned = FALSE
    /\ done = NoCalibration
-----------------------------------------------------------------------------
(* calibrate(hdg).  prevent_wraparound runs first and in every state, the  *)
(* idle one included, so a is what it leaves.                              *)

CalibrateOff(p, a) ==
    /\ state = "JSCAL_OFF"
    /\ ~jscal_switch
    /\ cs' = a.cs
    /\ UNCHANGED <<state, cal_data, ghosts>>

MutBeginKeepExtremes(p, a) ==
    /\ state = "JSCAL_OFF"
    /\ jscal_switch
    /\ cs' = [a.cs EXCEPT !.offset = 0]
    /\ state' = "JSCAL_ON"
    /\ lo' = p /\ hi' = p /\ aligned' = (a.cs.offset = 0)
    /\ UNCHANGED <<cal_data, done>>
CalibrateBegin(p, a) ==
    /\ state = "JSCAL_OFF"
    /\ jscal_switch
    /\ cs' = [min |-> Truncate(a.val, Unit), max |-> Truncate(a.val, Unit), offset |-> 0]
    /\ state' = "JSCAL_ON"
    /\ lo' = p /\ hi' = p /\ aligned' = (a.cs.offset = 0)
    /\ UNCHANGED <<cal_data, done>>

CalibrateTrack(p, a) ==
    /\ state = "JSCAL_ON"
    /\ state' = IF jscal_switch THEN "JSCAL_ON" ELSE "JSCAL_END"
    /\ cs' = [min |-> IF a.cs.min * Unit > a.val THEN Truncate(a.val, Unit) ELSE a.cs.min,
              max |-> IF a.cs.max * Unit < a.val THEN Truncate(a.val, Unit) ELSE a.cs.max,
              offset |-> a.cs.offset]
    /\ lo' = IF p < lo THEN p ELSE lo
    /\ hi' = IF p > hi THEN p ELSE hi
    /\ UNCHANGED <<cal_data, aligned, done>>

MutEndKeepOffset(p, a) ==
    /\ state = "JSCAL_END"
    /\ cal_data' = [cal_data EXCEPT !.neg = a.cs.min * Unit - a.val,
                                    !.pos = a.cs.max * Unit - a.val]
    /\ cs' = [min |-> 0, max |-> 0, offset |-> 0]
    /\ state' = "JSCAL_OFF"
    /\ done' = [ok |-> p - lo >= Unit /\ hi - p >= Unit, aligned |-> aligned,
                lo |-> lo, hi |-> hi, ctr |-> p]
    /\ UNCHANGED <<lo, hi, aligned>>
CalibrateEnd(p, a) ==
    /\ state = "JSCAL_END"
    /\ cal_data' = [offset |-> a.cs.offset * Unit - a.val,
                    neg |-> a.cs.min * Unit - a.val, pos |-> a.cs.max * Unit - a.val]
    /\ cs' = [min |-> 0, max |-> 0, offset |-> 0]
    /\ state' = "JSCAL_OFF"
    /\ done' = [ok |-> p - lo >= Unit /\ hi - p >= Unit, aligned |-> aligned,
                lo |-> lo, hi |-> hi, ctr |-> p]
    /\ UNCHANGED <<lo, hi, aligned>>

MutCalibrateNoFrame(p) ==
    LET a == [val |-> Normalise(XyToHdg(p), cs.offset * Unit), cs |-> cs]
    IN  CalibrateOff(p, a) \/ CalibrateBegin(p, a) \/ CalibrateTrack(p, a) \/ CalibrateEnd(p, a)
CalibrateStep(p) ==
    LET a == PreventWraparound(Normalise(XyToHdg(p), cs.offset * Unit), cs)
    IN  CalibrateOff(p, a) \/ CalibrateBegin(p, a) \/ CalibrateTrack(p, a) \/ CalibrateEnd(p, a)

(* One turn of the sensor loop with the stick at p: calibrate, then        *)
(* cal_apply with the calibration calibrate may just have written.         *)
Sample(p) ==
    /\ p - pos \in Moves
    /\ arc.lo <= p /\ p <= arc.hi
    /\ pos' = p
    /\ CalibrateStep(p)
    /\ hid_in_data' \in Reports(XyToHdg(p), cal_data')
    /\ UNCHANGED <<arc, jscal_switch, cals>>

(* cmd_calibrate sets the switch and clears it when a key arrives. *)
SwitchOn ==
    /\ ~jscal_switch
    /\ cals < MaxCals
    /\ jscal_switch' = TRUE
    /\ cals' = cals + 1
    /\ UNCHANGED <<pos, arc, state, cs, cal_data, hid_in_data, ghosts>>

SwitchOff ==
    /\ jscal_switch
    /\ jscal_switch' = FALSE
    /\ UNCHANGED <<pos, arc, state, cs, cal_data, hid_in_data, cals, ghosts>>

Next ==
    \/ \E d \in Moves : Sample(pos + d)
    \/ SwitchOn
    \/ SwitchOff

Spec == Init /\ [][Next]_vars
-----------------------------------------------------------------------------
(* Every variable stays in its type.  The fields of cs do because C makes  *)
(* them (ToInt8); the axes of a report because limit bounds every number   *)
(* that is cast (joystick.c:124-128, 156-158).                             *)
TypeOK ==
    /\ arc \in Arcs /\ pos \in Int
    /\ jscal_switch \in BOOLEAN
    /\ state \in {"JSCAL_OFF", "JSCAL_ON", "JSCAL_END"}
    /\ cs \in CalState
    /\ cal_data \in CalData
    /\ hid_in_data \in Report
    /\ cals \in 0 .. MaxCals
    /\ lo \in Int /\ hi \in Int /\ aligned \in BOOLEAN
    /\ done \in Outcome

Calibrating == state # "JSCAL_OFF"

(* An angle p of the stick as the running calibration sees it.             *)
InFrame(p) == Normalise(XyToHdg(pos), cs.offset * Unit) + (p - pos)

(* While a calibration that began in an unshifted frame is running, the    *)
(* extremes in its int8_t fields are the extreme angles sampled so far, in *)
(* the frame the offset stands for and to less than a unit: however often  *)
(* prevent_wraparound has moved the frame, and across the wrap of the      *)
(* heading, min and max did not overflow, nothing was forgotten, the three *)
(* fields moved together, and what truncation loses did not add up.        *)
ExtremesTracked ==
    Calibrating /\ aligned =>
        /\ cs.min * Unit - InFrame(lo) \in -(Unit - 1) .. Unit - 1
        /\ cs.max * Unit - InFrame(hi) \in -(Unit - 1) .. Unit - 1

(* The stick can reach both ends from the centre without passing the       *)
(* point opposite to it, where the heading changes sign.                   *)
WithinHalfTurn(p) == p - done.ctr \in -127 * Unit .. 127 * Unit

Usable == done.ok /\ WithinHalfTurn(done.lo) /\ WithinHalfTurn(done.hi)

(* What the truncation of an extreme may cost at an end that is span away  *)
(* from the centre: less than what a unit of it is worth.                  *)
WorthAUnit(missing, axis, span) == missing * span < axis * Unit

(* The limits of the descriptor (usbcfg.c:63-64) are -127 and 127. *)
Released(brake) == brake <= -127

AtTheEnds ==
    /\ pos = done.hi =>
        /\ WorthAUnit(127 - hid_in_data.x, 128, done.hi - done.ctr)
        /\ WorthAUnit(127 - hid_in_data.z, 8 * 128, done.hi - done.ctr)
        /\ Released(hid_in_data.y)
    /\ pos = done.lo =>
        /\ WorthAUnit(hid_in_data.x + 127, 128, done.ctr - done.lo)
        /\ WorthAUnit(127 - hid_in_data.y, 8 * 128, done.ctr - done.lo)
        /\ Released(hid_in_data.z)
    /\ pos = done.ctr =>
        hid_in_data.x = 0 /\ Released(hid_in_data.y) /\ Released(hid_in_data.z)

(* After a calibration that began in an unshifted frame and ended between  *)
(* the ends it had seen, a unit or more from both, the report has the full *)
(* axis and the full brake at either end, up to what the truncation of the *)
(* extremes costs (joystick.c:78-79), and zero at the centre.              *)
AxisReachesEnds == Usable /\ done.aligned => AtTheEnds

(* While such a calibration is in use, moving the stick one way never      *)
(* moves the axis or a brake the other way, whatever is calibrated         *)
(* meanwhile.                                                              *)
AxisFollowsStick ==
    [][Usable /\ done.aligned /\ done' = done /\ cal_data' = cal_data
         /\ WithinHalfTurn(pos) /\ WithinHalfTurn(pos') /\ pos' > pos
       => /\ hid_in_data'.x >= hid_in_data.x
          /\ hid_in_data'.y <= hid_in_data.y
          /\ hid_in_data'.z >= hid_in_data.z]_vars

(* What README.md:33-35 tells the user: with the stick moved to both ends  *)
(* and centred again, the calibration works, whatever the stick did before *)
(* the calibration was started.                                            *)
AnyCalibrationReachesEnds == Usable => AtTheEnds
=============================================================================
