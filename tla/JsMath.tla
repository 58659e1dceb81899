------------------------------- MODULE JsMath -------------------------------
(***************************************************************************)
(* The arithmetic of joystick.c, without state: how a heading is shifted   *)
(* by an offset, how the frame of a running calibration is moved away from *)
(* the wrap of the circle, and how a calibrated heading becomes the three  *)
(* axes of a HID report.                                                   *)
(*                                                                         *)
(* The circle is 256 units (xy_to_hdg).  A heading is a float in the code, *)
(* with a fraction, and here the number of its steps, Unit of which make a *)
(* unit; what is stored in an int8_t is a number of units.  The result of  *)
(* the calibration is a quotient, kept exactly as a fraction [num, den]    *)
(* with den >= 0.  den = 0 stands for what the float division gives then:  *)
(* num > 0 is +inf, num = 0 is NaN, and every comparison below has the     *)
(* outcome IEEE gives it.                                                  *)
(***************************************************************************)
EXTENDS Integers

CONSTANTS Unit,     \* the resolution of a heading: steps in a unit
          NanCast   \* what (int8_t) NaN may be in the build: undefined in C

ASSUME UnitAssumption == Unit \in Nat \ {0}
ASSUME NanCastAssumption == NanCast \subseteq -128 .. 127 /\ NanCast # {}

JS_MAX == 127
JS_MIN == -128
JS_BRAKEPOINT == 32
JS_BRAKEPOINT_POS == JS_MAX - JS_BRAKEPOINT
JS_BRAKEPOINT_NEG == JS_MIN + JS_BRAKEPOINT
JS_BRAKE_RATIO == 256 \div JS_BRAKEPOINT

Int8 == JS_MIN .. JS_MAX

Turn == 256 * Unit

(* An int assigned to an int8_t keeps its low eight bits ... *)
ToInt8(n) == ((n + 128) % 256) - 128

(* ... and a float, here n / d, is truncated towards zero. *)
Truncate(n, d) == IF n < 0 THEN -((-n) \div d) ELSE n \div d

(* xy_to_hdg: the heading the sensor shows for a stick at angle pos.  The  *)
(* angle is not bounded, the heading is its place on the circle.           *)
XyToHdg(pos) == ((pos + 128 * Unit) % Turn) - 128 * Unit

MutNormaliseNoUpperWrap(val, offset) ==
    LET res == val + offset IN IF res < -128 * Unit THEN res + Turn ELSE res
Normalise(val, offset) ==
    LET res == val + offset
    IN  IF res < -128 * Unit THEN res + Turn
        ELSE IF res > 128 * Unit THEN res - Turn ELSE res

(* The calibration frame c = [min, max, offset] moved by d units.          *)
MutShiftFrameNotMax(c, d) ==
    [c EXCEPT !.min = ToInt8(@ + d), !.offset = ToInt8(@ + d)]
ShiftFrame(c, d) ==
    [min |-> ToInt8(c.min + d), max |-> ToInt8(c.max + d),
     offset |-> ToInt8(c.offset + d)]

(* The value and the frame prevent_wraparound leaves.                      *)
PreventWraparound(v, c) ==
    LET d == IF v < -96 * Unit THEN 64 ELSE IF v > 96 * Unit THEN -64 ELSE 0
    IN  [val |-> v + d * Unit, cs |-> ShiftFrame(c, d)]
-----------------------------------------------------------------------------
Frac(n, d) == IF d < 0 THEN [num |-> -n, den |-> -d] ELSE [num |-> n, den |-> d]

MutLimitBelowOnly(q) ==
    IF q.num < -128 * q.den THEN [num |-> -128, den |-> 1] ELSE q
Limit(q) ==
    IF q.num < -128 * q.den THEN [num |-> -128, den |-> 1]
    ELSE IF q.num > 127 * q.den THEN [num |-> 127, den |-> 1]
    ELSE q

(* cal_data keeps the multipliers as the spans they come from:             *)
(* m_neg = -128 / neg and m_pos = 128 / pos.                               *)
CalApply(val, cal) ==
    LET v == Normalise(val, cal.offset)
    IN  Limit(IF v < 0 THEN Frac(-128 * v, cal.neg) ELSE Frac(128 * v, cal.pos))

(* The cast of a limited value to int8_t. *)
Truncated(q) == IF q.den = 0 THEN NanCast ELSE {Truncate(q.num, q.den)}

(* (b.num / b.den) * JS_BRAKE_RATIO + JS_MIN, limited. *)
Brake(num, den) ==
    Limit([num |-> num * JS_BRAKE_RATIO + JS_MIN * den, den |-> den])

NoBrake == [num |-> JS_MIN, den |-> 1]

(* The brake axes of a calibrated heading: the left one is pressed beyond  *)
(* JS_BRAKEPOINT_NEG, the right one beyond JS_BRAKEPOINT_POS.              *)
BrakeNeg(hdg) ==
    IF hdg.num < JS_BRAKEPOINT_NEG * hdg.den
    THEN Brake(-hdg.num + JS_BRAKEPOINT_NEG * hdg.den, hdg.den)
    ELSE NoBrake

BrakePos(hdg) ==
    IF hdg.num > JS_BRAKEPOINT_POS * hdg.den
    THEN Brake(hdg.num - JS_BRAKEPOINT_POS * hdg.den, hdg.den)
    ELSE NoBrake

(* The reports transmit may send for the sensor heading val. *)
Reports(val, cal) ==
    LET hdg == CalApply(val, cal)
    IN  [x : Truncated(hdg), y : Truncated(BrakeNeg(hdg)), z : Truncated(BrakePos(hdg))]
=============================================================================
