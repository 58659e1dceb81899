-------------------------- MODULE CalibrateProofs ---------------------------
(***************************************************************************)
(* What Calibrate guarantees for every mechanical range, every speed of    *)
(* the stick and every number of calibrations its assumptions allow.       *)
(***************************************************************************)
EXTENDS Calibrate, TLAPS

-----------------------------------------------------------------------------
(* Lemmas about JsMath. *)

(* Storing an int in an int8_t gives an int8_t. *)
LEMMA ToInt8Range == ASSUME NEW n \in Int PROVE ToInt8(n) \in Int8
BY DEF ToInt8, Int8, JS_MIN, JS_MAX

(* Storing a value that fits keeps it. *)
LEMMA ToInt8Identity == ASSUME NEW n \in Int8 PROVE ToInt8(n) = n
BY DEF ToInt8, Int8, JS_MIN, JS_MAX

(* Lemmas about whole turns: a and b are the same place on the circle. *)
Congruent(a, b) == \E k \in Int : a - b = k * Turn

LEMMA TurnType == Turn \in Nat \ {0} /\ Turn = 256 * Unit /\ Unit \in Nat \ {0}
BY UnitAssumption DEF Turn

LEMMA CongruentSum ==
    ASSUME NEW a \in Int, NEW b \in Int, Congruent(a, b),
           NEW c \in Int, NEW d \in Int, Congruent(c, d)
    PROVE  Congruent(a + c, b + d)
<1>1. PICK k \in Int : a - b = k * Turn
  BY DEF Congruent
<1>2. PICK j \in Int : c - d = j * Turn
  BY DEF Congruent
<1>3. k + j \in Int /\ a + c - (b + d) = (k + j) * Turn
  BY <1>1, <1>2, TurnType
<1> QED
  BY <1>3 DEF Congruent

LEMMA CongruentDifference ==
    ASSUME NEW a \in Int, NEW b \in Int, Congruent(a, b),
           NEW c \in Int, NEW d \in Int, Congruent(c, d)
    PROVE  Congruent(a - c, b - d)
<1>1. PICK k \in Int : a - b = k * Turn
  BY DEF Congruent
<1>2. PICK j \in Int : c - d = j * Turn
  BY DEF Congruent
<1>3. k - j \in Int /\ a - c - (b - d) = (k - j) * Turn
  BY <1>1, <1>2, TurnType
<1> QED
  BY <1>3 DEF Congruent

LEMMA CongruentShared ==
    ASSUME NEW a \in Int, NEW b \in Int, NEW c \in Int, Congruent(a, c), Congruent(b, c)
    PROVE  Congruent(a, b)
<1>1. PICK k \in Int : a - c = k * Turn
  BY DEF Congruent
<1>2. PICK j \in Int : b - c = j * Turn
  BY DEF Congruent
<1>3. k - j \in Int /\ a - b = (k - j) * Turn
  BY <1>1, <1>2, TurnType
<1> QED
  BY <1>3 DEF Congruent

LEMMA CongruentSame == ASSUME NEW a \in Int PROVE Congruent(a, a)
<1>1. a - a = 0 * Turn
  BY TurnType
<1> QED
  BY <1>1 DEF Congruent

(* Less than a turn apart, they are the same value. *)
LEMMA CongruentNear ==
    ASSUME NEW a \in Int, NEW b \in Int, Congruent(a, b), a - b < Turn, b - a < Turn
    PROVE  a = b
<1>1. PICK k \in Int : a - b = k * Turn
  BY DEF Congruent
<1>2. ASSUME k >= 1 PROVE FALSE
  <2>1. k * Turn >= 1 * Turn
    BY <1>2, TurnType
  <2> QED
    BY <1>1, <2>1, TurnType
<1>3. ASSUME k <= -1 PROVE FALSE
  <2>1. k * Turn <= (-1) * Turn
    BY <1>3, TurnType
  <2> QED
    BY <1>1, <2>1, TurnType
<1>4. k = 0
  BY <1>2, <1>3
<1> QED
  BY <1>1, <1>4, TurnType

(* A heading is the place of the angle on the circle. *)
LEMMA XyToHdgValue ==
    ASSUME NEW p \in Int
    PROVE  /\ XyToHdg(p) \in Int
           /\ -128 * Unit <= XyToHdg(p) /\ XyToHdg(p) < 128 * Unit
           /\ Congruent(XyToHdg(p), p)
<1> DEFINE n == p + 128 * Unit
           k == n \div Turn
<1>1. n \in Int /\ k \in Int
  BY TurnType
<1>2. n % Turn \in Int /\ 0 <= n % Turn /\ n % Turn < Turn /\ n = Turn * k + (n % Turn)
  <2> HIDE DEF n
  <2> QED
    BY <1>1, TurnType
<1>3. XyToHdg(p) = (n % Turn) - 128 * Unit
  BY DEF XyToHdg
<1> HIDE DEF k
<1>4. XyToHdg(p) - p = (-k) * Turn /\ -k \in Int
  BY <1>1, <1>2, <1>3, TurnType
<1>5. XyToHdg(p) \in Int /\ -128 * Unit <= XyToHdg(p) /\ XyToHdg(p) < 128 * Unit
  <2> HIDE DEF n
  <2> QED
    BY <1>2, <1>3, TurnType
<1> QED
  BY <1>4, <1>5 DEF Congruent

(* One correction by a whole turn is enough for every offset the code can  *)
(* have, so normalise stays on the circle.                                 *)
LEMMA NormaliseType ==
    ASSUME NEW p \in Int, NEW o \in Int, -256 * Unit <= o, o <= 256 * Unit
    PROVE  /\ Normalise(XyToHdg(p), o) \in Int
           /\ -128 * Unit <= Normalise(XyToHdg(p), o) /\ Normalise(XyToHdg(p), o) <= 128 * Unit
           /\ Congruent(Normalise(XyToHdg(p), o), p + o)
<1> DEFINE h == XyToHdg(p)
           n == Normalise(h, o)
<1>1. h \in Int /\ -128 * Unit <= h /\ h < 128 * Unit /\ Congruent(h, p)
  BY XyToHdgValue
<1> HIDE DEF h
<1>2. PICK k \in Int : h - p = k * Turn
  BY <1>1 DEF Congruent
<1>3. n = h + o \/ n = h + o + Turn \/ n = h + o - Turn
  <2> DEFINE res == h + o
  <2>1. n = IF res < -128 * Unit THEN res + Turn ELSE IF res > 128 * Unit THEN res - Turn ELSE res
    BY DEF Normalise
  <2>2. res \in Int
    BY <1>1
  <2> HIDE DEF res
  <2>3. n = res \/ n = res + Turn \/ n = res - Turn
    BY <2>1, <2>2, TurnType
  <2> HIDE DEF n
  <2> QED
    BY <1>1, <2>2, <2>3, TurnType DEF res
<1>4. n \in Int /\ -128 * Unit <= n /\ n <= 128 * Unit
  BY <1>1, TurnType DEF Normalise
<1> HIDE DEF n
<1>5. \E j \in Int : n - (p + o) = j * Turn
  <2>1. k * Turn \in Int /\ k * Turn + Turn = (k + 1) * Turn /\ k * Turn - Turn = (k - 1) * Turn
    BY TurnType
  <2>2. n - (p + o) = k * Turn \/ n - (p + o) = (k + 1) * Turn \/ n - (p + o) = (k - 1) * Turn
    BY <1>1, <1>2, <1>3, <2>1, TurnType
  <2>3. k \in Int /\ k + 1 \in Int /\ k - 1 \in Int
    OBVIOUS
  <2> QED
    BY <2>2, <2>3
<1> QED
  BY <1>4, <1>5 DEF Congruent, n, h

(* normalise finds the value that is congruent to angle plus offset, if    *)
(* that value is not opposite to zero.                                     *)
LEMMA NormaliseValue ==
    ASSUME NEW p \in Int, NEW o \in Int, -256 * Unit <= o, o <= 256 * Unit,
           NEW v \in Int, -127 * Unit <= v, v <= 127 * Unit, Congruent(v, p + o)
    PROVE  Normalise(XyToHdg(p), o) = v
<1> DEFINE n == Normalise(XyToHdg(p), o)
<1>1. n \in Int /\ -128 * Unit <= n /\ n <= 128 * Unit /\ Congruent(n, p + o)
  BY NormaliseType
<1> HIDE DEF n
<1>2. p + o \in Int /\ n - v \in Int
  BY <1>1
<1>3. Congruent(n - v, (p + o) - (p + o))
  BY <1>1, <1>2, CongruentDifference
<1>4. (p + o) - (p + o) = 0 /\ (n - v) - 0 < Turn /\ 0 - (n - v) < Turn
  BY <1>1, <1>2, TurnType
<1>5. n - v = 0
  BY <1>2, <1>3, <1>4, CongruentNear
<1> QED
  BY <1>1, <1>5 DEF n

(* A whole number of units. *)
LEMMA UnitsOrder ==
    ASSUME NEW a \in Int, NEW b \in Int
    PROVE  /\ a * Unit \in Int
           /\ a * Unit < b * Unit => a < b
           /\ a <= b => a * Unit <= b * Unit
           /\ (a + b) * Unit = a * Unit + b * Unit
<1>1. a * Unit \in Int /\ (a + b) * Unit = a * Unit + b * Unit
  BY TurnType
<1>2. ASSUME a <= b PROVE a * Unit <= b * Unit
  BY <1>2, TurnType
<1>3. ASSUME b <= a PROVE b * Unit <= a * Unit
  BY <1>3, TurnType
<1> QED
  BY <1>1, <1>2, <1>3, TurnType

(* A float stored in an int8_t loses less than a unit, towards zero; it    *)
(* does not pass a whole number that the float had not passed.             *)
LEMMA TruncateUnits ==
    ASSUME NEW v \in Int, NEW m \in Int
    PROVE  /\ Truncate(v, Unit) \in Int
           /\ Truncate(v, Unit) * Unit - v < Unit
           /\ v - Truncate(v, Unit) * Unit < Unit
           /\ v < m * Unit => Truncate(v, Unit) <= m
           /\ m * Unit < v => m <= Truncate(v, Unit)
<1> DEFINE t == Truncate(v, Unit)
<1>1. /\ t \in Int /\ t * Unit - v < Unit /\ v - t * Unit < Unit
      /\ v < 0 => v <= t * Unit
      /\ 0 <= v => t * Unit <= v
      /\ v < 0 => t <= 0
      /\ 0 <= v => 0 <= t
  <2>1. CASE v < 0
    <3> DEFINE k == (-v) \div Unit
    <3>1. k \in Nat /\ k * Unit <= -v /\ -v < k * Unit + Unit
      BY <2>1, TurnType
    <3>2. t = -k
      BY <2>1 DEF Truncate
    <3> HIDE DEF k, t
    <3>3. (-k) * Unit = -(k * Unit) /\ k * Unit \in Int
      BY <3>1, TurnType
    <3> QED
      BY <2>1, <3>1, <3>2, <3>3, TurnType
  <2>2. CASE ~(v < 0)
    <3> DEFINE k == v \div Unit
    <3>1. k \in Nat /\ k * Unit <= v /\ v < k * Unit + Unit
      BY <2>2, TurnType
    <3>2. t = k
      BY <2>2 DEF Truncate
    <3> HIDE DEF k, t
    <3>3. k * Unit \in Int
      BY <3>1, TurnType
    <3> QED
      BY <2>2, <3>1, <3>2, <3>3, TurnType
  <2> QED
    BY <2>1, <2>2
<1> HIDE DEF t
<1>2. ASSUME v < m * Unit PROVE t <= m
  <2>1. m * Unit \in Int /\ (m + 1) * Unit = m * Unit + Unit /\ t * Unit \in Int
    BY <1>1, TurnType
  <2>2. t * Unit < (m + 1) * Unit
    BY <1>1, <1>2, <2>1, TurnType
  <2>3. t < m + 1
    BY <1>1, <2>2, UnitsOrder
  <2> QED
    BY <1>1, <2>3
<1>3. ASSUME m * Unit < v PROVE m <= t
  <2>1. m * Unit \in Int /\ (t + 1) * Unit = t * Unit + Unit /\ t * Unit \in Int
    BY <1>1, TurnType
  <2>2. m * Unit < (t + 1) * Unit
    BY <1>1, <1>3, <2>1, TurnType
  <2>3. m < t + 1
    BY <1>1, <2>2, UnitsOrder
  <2> QED
    BY <1>1, <2>3
<1> QED
  BY <1>1, <1>2, <1>3 DEF t

(* What prevent_wraparound keeps in an int8_t when it is stored. *)
LEMMA TruncateFits ==
    ASSUME NEW v \in Int, -96 * Unit <= v, v <= 96 * Unit
    PROVE  Truncate(v, Unit) \in Int8
<1> DEFINE t == Truncate(v, Unit)
<1>1. t \in Int /\ t * Unit - v < Unit /\ v - t * Unit < Unit
  BY TruncateUnits
<1> HIDE DEF t
<1>2. t * Unit < 97 * Unit /\ -97 * Unit < t * Unit
  <2>1. t * Unit \in Int
    BY <1>1, TurnType
  <2> QED
    BY <1>1, <2>1, TurnType
<1>3. t < 97 /\ -97 < t
  <2>1. ASSUME t >= 97 PROVE FALSE
    <3>1. t * Unit >= 97 * Unit
      BY <1>1, <2>1, TurnType
    <3> QED
      BY <1>2, <3>1, <1>1, TurnType
  <2>2. ASSUME t <= -97 PROVE FALSE
    <3>1. t * Unit <= -97 * Unit
      BY <1>1, <2>2, TurnType
    <3> QED
      BY <1>2, <3>1, <1>1, TurnType
  <2> QED
    BY <1>1, <2>1, <2>2
<1> QED
  BY <1>1, <1>3 DEF t, Int8, JS_MIN, JS_MAX

(* prevent_wraparound leaves a value at most 96 units from zero, and a     *)
(* frame of int8_t fields.                                                 *)
LEMMA PreventWraparoundType ==
    ASSUME NEW v \in Int, -128 * Unit <= v, v <= 128 * Unit, NEW c \in CalState
    PROVE  /\ PreventWraparound(v, c).val \in Int
           /\ -96 * Unit <= PreventWraparound(v, c).val
           /\ PreventWraparound(v, c).val <= 96 * Unit
           /\ PreventWraparound(v, c).cs \in CalState
<1> DEFINE d == IF v < -96 * Unit THEN 64 ELSE IF v > 96 * Unit THEN -64 ELSE 0
<1>1. d \in {-64, 0, 64}
  OBVIOUS
<1>2. c.min \in Int /\ c.max \in Int /\ c.offset \in Int
  BY DEF CalState, Int8, JS_MIN, JS_MAX
<1>3. ShiftFrame(c, d) \in CalState
  <2>1. c.min + d \in Int /\ c.max + d \in Int /\ c.offset + d \in Int
    BY <1>1, <1>2
  <2> QED
    BY <2>1, ToInt8Range DEF ShiftFrame, CalState
<1>4. v + d * Unit \in Int /\ -96 * Unit <= v + d * Unit /\ v + d * Unit <= 96 * Unit
  BY TurnType
<1> QED
  BY <1>3, <1>4 DEF PreventWraparound

Fraction == [num : Int, den : Nat]

(* A fraction is limited to the range of an int8_t: its denominator is     *)
(* never negative, so it is a number in that range or NaN.                 *)
LEMMA LimitRange ==
    ASSUME NEW r \in Fraction
    PROVE  /\ Limit(r) \in Fraction
           /\ -128 * Limit(r).den <= Limit(r).num
           /\ Limit(r).num <= 127 * Limit(r).den
BY DEF Limit, Fraction

LEMMA QuotientRange ==
    ASSUME NEW n \in Nat, NEW d \in Nat \ {0}, NEW k \in Nat, n <= k * d
    PROVE  n \div d \in 0 .. k
OBVIOUS

(* The cast of a limited value does not overflow. *)
LEMMA TruncatedRange ==
    ASSUME NEW q \in Fraction, -128 * q.den <= q.num, q.num <= 127 * q.den
    PROVE  Truncated(q) \subseteq Int8
<1> q.num \in Int /\ q.den \in Nat
  BY DEF Fraction
<1>1. CASE q.den = 0
  BY <1>1, NanCastAssumption DEF Truncated, Int8, JS_MIN, JS_MAX
<1>2. CASE q.den # 0 /\ q.num < 0
  <2>1. -q.num \in Nat /\ -q.num <= 128 * q.den /\ q.den \in Nat \ {0}
    BY <1>2
  <2>2. (-q.num) \div q.den \in 0 .. 128
    BY <2>1, QuotientRange
  <2> QED
    BY <1>2, <2>2 DEF Truncated, Truncate, Int8, JS_MIN, JS_MAX
<1>3. CASE q.den # 0 /\ ~(q.num < 0)
  <2>1. q.num \in Nat /\ q.num <= 127 * q.den /\ q.den \in Nat \ {0}
    BY <1>3
  <2>2. q.num \div q.den \in 0 .. 127
    BY <2>1, QuotientRange
  <2> QED
    BY <1>3, <2>2 DEF Truncated, Truncate, Int8, JS_MIN, JS_MAX
<1> QED
  BY <1>1, <1>2, <1>3

LEMMA LimitedRange ==
    ASSUME NEW r \in Fraction
    PROVE  Truncated(Limit(r)) \subseteq Int8
BY LimitRange, TruncatedRange

(* A quotient is kept with a denominator that is not negative. *)
LEMMA FracType ==
    ASSUME NEW n \in Int, NEW d \in Int
    PROVE  Frac(n, d) \in Fraction
BY DEF Frac, Fraction

(* Whatever the calibration, every axis of a report fits its int8_t. *)
LEMMA ReportsType ==
    ASSUME NEW v \in Int, NEW c \in CalData
    PROVE  Reports(v, c) \subseteq Report
<1> DEFINE w == Normalise(v, c.offset)
           f == IF w < 0 THEN Frac(-128 * w, c.neg) ELSE Frac(128 * w, c.pos)
           hdg == CalApply(v, c)
<1>1. w \in Int /\ c.neg \in Int /\ c.pos \in Int
  BY TurnType DEF Normalise, CalData
<1>2. f \in Fraction
  <2> HIDE DEF w
  <2>1. -128 * w \in Int /\ 128 * w \in Int
    BY <1>1
  <2>2. Frac(-128 * w, c.neg) \in Fraction /\ Frac(128 * w, c.pos) \in Fraction
    BY <1>1, <2>1, FracType
  <2> QED
    BY <2>2
<1>3. hdg = Limit(f)
  BY DEF CalApply
<1> HIDE DEF hdg, f
<1>4. hdg \in Fraction
  BY <1>2, <1>3, LimitRange
<1>5. hdg.num \in Int /\ hdg.den \in Nat
  BY <1>4 DEF Fraction
<1>6. Truncated(hdg) \subseteq Int8
  BY <1>2, <1>3, LimitedRange
<1>7. \A k \in Int : Truncated(Brake(k, hdg.den)) \subseteq Int8
  <2> SUFFICES ASSUME NEW k \in Int PROVE Truncated(Brake(k, hdg.den)) \subseteq Int8
    OBVIOUS
  <2>1. [num |-> k * JS_BRAKE_RATIO + JS_MIN * hdg.den, den |-> hdg.den] \in Fraction
    BY <1>5 DEF JS_BRAKE_RATIO, JS_MIN, JS_BRAKEPOINT, Fraction
  <2> QED
    BY <2>1, LimitedRange DEF Brake
<1>8. Truncated(NoBrake) \subseteq Int8
  BY DEF Truncated, Truncate, NoBrake, Int8, JS_MIN, JS_MAX
<1>9. Truncated(BrakeNeg(hdg)) \subseteq Int8
  <2>1. -hdg.num + JS_BRAKEPOINT_NEG * hdg.den \in Int
    BY <1>5 DEF JS_BRAKEPOINT_NEG, JS_MIN, JS_BRAKEPOINT
  <2> QED
    BY <1>7, <1>8, <2>1 DEF BrakeNeg
<1>10. Truncated(BrakePos(hdg)) \subseteq Int8
  <2>1. hdg.num - JS_BRAKEPOINT_POS * hdg.den \in Int
    BY <1>5 DEF JS_BRAKEPOINT_POS, JS_MAX, JS_BRAKEPOINT
  <2> QED
    BY <1>7, <1>8, <2>1 DEF BrakePos
<1> QED
  BY <1>6, <1>9, <1>10 DEF Reports, Report, hdg
-----------------------------------------------------------------------------
(* An offset in units. *)
LEMMA OffsetRange ==
    ASSUME NEW c \in CalState
    PROVE  /\ c.offset * Unit \in Int
           /\ -128 * Unit <= c.offset * Unit /\ c.offset * Unit <= 128 * Unit
<1>1. c.offset \in Int /\ -128 <= c.offset /\ c.offset <= 128
  BY DEF CalState, Int8, JS_MIN, JS_MAX
<1>2. c.offset * Unit \in Int
  BY <1>1, UnitsOrder
<1>3. PICK o \in Int : o = c.offset /\ -128 <= o /\ o <= 128
  BY <1>1
<1>4. -128 * Unit <= o * Unit /\ o * Unit <= 128 * Unit
  BY <1>3, TurnType
<1> QED
  BY <1>2, <1>3, <1>4

(* The value and the frame a sample leaves. *)
LEMMA SampleType ==
    ASSUME NEW p \in Int, NEW c \in CalState
    PROVE  LET a == PreventWraparound(Normalise(XyToHdg(p), c.offset * Unit), c)
           IN  /\ a.val \in Int /\ -96 * Unit <= a.val /\ a.val <= 96 * Unit
               /\ a.cs \in CalState
<1> DEFINE n == Normalise(XyToHdg(p), c.offset * Unit)
<1>1. n \in Int /\ -128 * Unit <= n /\ n <= 128 * Unit
  <2>1. /\ c.offset * Unit \in Int
        /\ -256 * Unit <= c.offset * Unit /\ c.offset * Unit <= 256 * Unit
    BY OffsetRange, TurnType
  <2> QED
    BY <2>1, NormaliseType
<1> HIDE DEF n
<1> QED
  BY <1>1, PreventWraparoundType DEF n

(* What every step of calibrate leaves, whichever of its branches it takes. *)
LEMMA CalibrateStepType ==
    ASSUME TypeOK, NEW p \in Int, CalibrateStep(p)
    PROVE  /\ state' \in {"JSCAL_OFF", "JSCAL_ON", "JSCAL_END"}
           /\ cs' \in CalState
           /\ cal_data' \in CalData
           /\ lo' \in Int /\ hi' \in Int /\ aligned' \in BOOLEAN
           /\ done' \in Outcome
<1> DEFINE a == PreventWraparound(Normalise(XyToHdg(p), cs.offset * Unit), cs)
<1>1. cs \in CalState
  BY DEF TypeOK
<1>2. a.val \in Int /\ -96 * Unit <= a.val /\ a.val <= 96 * Unit /\ a.cs \in CalState
  BY <1>1, SampleType
<1> HIDE DEF a
<1>3. Truncate(a.val, Unit) \in Int8 /\ 0 \in Int8
  BY <1>2, TruncateFits DEF Int8, JS_MIN, JS_MAX
<1>4. a.cs.min \in Int /\ a.cs.max \in Int /\ a.cs.offset \in Int
  BY <1>2 DEF CalState, Int8, JS_MIN, JS_MAX
<1>5. CASE CalibrateOff(p, a)
  BY <1>2, <1>5 DEF CalibrateOff, TypeOK, ghosts
<1>6. CASE CalibrateBegin(p, a)
  BY <1>2, <1>3, <1>6 DEF CalibrateBegin, TypeOK, CalState
<1>7. CASE CalibrateTrack(p, a)
  BY <1>2, <1>3, <1>7 DEF CalibrateTrack, TypeOK, CalState
<1>8. CASE CalibrateEnd(p, a)
  <2>1. cal_data' \in CalData
    <3>1. a.cs.min * Unit \in Int /\ a.cs.max * Unit \in Int /\ a.cs.offset * Unit \in Int
      BY <1>4, UnitsOrder
    <3> QED
      BY <1>2, <1>8, <3>1 DEF CalibrateEnd, CalData
  <2>2. done' \in Outcome
    BY <1>8 DEF CalibrateEnd, TypeOK, Outcome
  <2> QED
    BY <1>3, <1>8, <2>1, <2>2 DEF CalibrateEnd, TypeOK, CalState
<1> QED
  BY <1>5, <1>6, <1>7, <1>8 DEF CalibrateStep, a

LEMMA TypeInit == Init => TypeOK
<1> SUFFICES ASSUME Init PROVE TypeOK
  OBVIOUS
<1>1. arc.lo \in Int /\ arc.hi \in Int /\ pos \in Int
  BY ArcsAssumption DEF Init
<1>2. cs \in CalState /\ hid_in_data \in Report
  BY DEF Init, CalState, Report, Int8, JS_MIN, JS_MAX
<1>3. cal_data \in CalData /\ done \in Outcome
  BY TurnType DEF Init, DefaultCal, CalData, NoCalibration, Outcome
<1>4. cals \in 0 .. MaxCals
  BY MaxCalsAssumption DEF Init
<1>5. lo \in Int /\ hi \in Int
  BY DEF Init
<1>6. jscal_switch \in BOOLEAN /\ aligned \in BOOLEAN
      /\ state \in {"JSCAL_OFF", "JSCAL_ON", "JSCAL_END"} /\ arc \in Arcs
  BY DEF Init
<1> QED
  BY <1>1, <1>2, <1>3, <1>4, <1>5, <1>6 DEF TypeOK

LEMMA TypeNext == TypeOK /\ [Next]_vars => TypeOK'
<1> SUFFICES ASSUME TypeOK, [Next]_vars PROVE TypeOK'
  OBVIOUS
<1>1. ASSUME NEW d \in Moves, Sample(pos + d) PROVE TypeOK'
  <2> DEFINE p == pos + d
  <2>1. p \in Int
    BY MovesAssumption DEF TypeOK
  <2> HIDE DEF p
  <2>2. Sample(p)
    BY <1>1 DEF p
  <2>3. CalibrateStep(p)
    BY <2>2 DEF Sample
  <2>4. /\ state' \in {"JSCAL_OFF", "JSCAL_ON", "JSCAL_END"}
        /\ cs' \in CalState
        /\ cal_data' \in CalData
        /\ lo' \in Int /\ hi' \in Int /\ aligned' \in BOOLEAN
        /\ done' \in Outcome
    BY <2>1, <2>3, CalibrateStepType
  <2>5. hid_in_data' \in Report
    <3>1. XyToHdg(p) \in Int
      BY <2>1, XyToHdgValue
    <3> QED
      BY <2>2, <2>4, <3>1, ReportsType DEF Sample
  <2> QED
    BY <2>1, <2>2, <2>4, <2>5 DEF Sample, TypeOK
<1>2. CASE SwitchOn
  BY <1>2, MaxCalsAssumption DEF SwitchOn, TypeOK, ghosts
<1>3. CASE SwitchOff
  BY <1>3 DEF SwitchOff, TypeOK, ghosts
<1>4. CASE UNCHANGED vars
  BY <1>4 DEF vars, TypeOK
<1> QED
  BY <1>1, <1>2, <1>3, <1>4 DEF Next

(* Whatever is calibrated, every axis that is cast to an int8_t is in its  *)
(* range: limit bounds every number (joystick.c:124-128, 156-158).  The    *)
(* fields of cs are int8_t by their type; that they do not overflow is     *)
(* ExtremesAlwaysTracked, for the calibrations of which it is true.        *)
THEOREM TypeCorrect == Spec => []TypeOK
BY TypeInit, TypeNext, PTL DEF Spec
-----------------------------------------------------------------------------
(* The running calibration. *)

(* The stick was sampled inside its range. *)
InArc == arc.lo <= pos /\ pos <= arc.hi

Within(a, b) == a - b < Unit /\ b - a < Unit

(* Strengthens ExtremesTracked: the last value v, which prevent_wraparound *)
(* has left at most 96 units from zero, is the angle of the stick in the   *)
(* frame of the offset, and min and max are where lo and hi are from       *)
(* there.  The bound on v is what keeps min and max from overflowing at    *)
(* the next step.                                                          *)
Frame ==
    Calibrating /\ aligned =>
        /\ arc.lo <= lo /\ lo <= pos /\ pos <= hi /\ hi <= arc.hi
        /\ \E v \in Int :
             /\ -96 * Unit <= v /\ v <= 96 * Unit
             /\ Congruent(v, pos + cs.offset * Unit)
             /\ Within(cs.min * Unit, v + (lo - pos))
             /\ Within(cs.max * Unit, v + (hi - pos))

(* Storing in an int8_t changes a value by whole turns. *)
LEMMA ToInt8Congruent ==
    ASSUME NEW n \in Int PROVE Congruent(ToInt8(n) * Unit, n * Unit)
<1>1. PICK k \in Int : ToInt8(n) = n + 256 * k
  <2>1. /\ -((n + 128) \div 256) \in Int
        /\ ToInt8(n) = n + 256 * (-((n + 128) \div 256))
    BY DEF ToInt8
  <2> QED
    BY <2>1
<1>2. ToInt8(n) * Unit - n * Unit = k * Turn
  <2>1. (n + 256 * k) * Unit = n * Unit + k * (256 * Unit)
    BY TurnType
  <2> QED
    BY <1>1, <2>1, TurnType
<1> QED
  BY <1>2 DEF Congruent

(* In any state of the calibration, the value is the angle of the stick    *)
(* seen in the frame of the offset.                                        *)
LEMMA ValueCongruent ==
    ASSUME NEW p \in Int, NEW c \in CalState
    PROVE  LET a == PreventWraparound(Normalise(XyToHdg(p), c.offset * Unit), c)
           IN  Congruent(a.val, p + a.cs.offset * Unit)
<1> DEFINE n == Normalise(XyToHdg(p), c.offset * Unit)
           d == IF n < -96 * Unit THEN 64 ELSE IF n > 96 * Unit THEN -64 ELSE 0
           t == ToInt8(c.offset + d)
           a == PreventWraparound(n, c)
<1>1. a.val = n + d * Unit /\ a.cs.offset = t
  BY DEF PreventWraparound, ShiftFrame
<1>2. c.offset \in Int /\ d \in Int
  BY DEF CalState, Int8, JS_MIN, JS_MAX
<1>3. /\ c.offset * Unit \in Int /\ d * Unit \in Int
      /\ (c.offset + d) * Unit = c.offset * Unit + d * Unit
  <2> HIDE DEF d
  <2> QED
    BY <1>2, UnitsOrder
<1>4. n \in Int /\ Congruent(n, p + c.offset * Unit)
  <2>1. /\ c.offset * Unit \in Int
        /\ -256 * Unit <= c.offset * Unit /\ c.offset * Unit <= 256 * Unit
    BY OffsetRange, TurnType
  <2> QED
    BY <2>1, NormaliseType
<1>5. t * Unit \in Int /\ Congruent(t * Unit, (c.offset + d) * Unit)
  <2>1. c.offset + d \in Int
    BY <1>2
  <2>2. t \in Int
    BY <2>1, ToInt8Range DEF Int8, JS_MIN, JS_MAX
  <2> HIDE DEF d
  <2>3. Congruent(t * Unit, (c.offset + d) * Unit)
    BY <2>1, ToInt8Congruent
  <2> QED
    BY <2>2, <2>3, UnitsOrder
<1> HIDE DEF a, d, n, t
<1>6. Congruent(p + t * Unit, p + (c.offset + d) * Unit)
  <2>1. Congruent(p, p) /\ (c.offset + d) * Unit \in Int
    BY <1>3, CongruentSame
  <2> QED
    BY <1>5, <2>1, CongruentSum
<1>7. Congruent(n + d * Unit, (p + c.offset * Unit) + d * Unit)
  <2>1. Congruent(d * Unit, d * Unit) /\ p + c.offset * Unit \in Int
    BY <1>3, CongruentSame
  <2> QED
    BY <1>3, <1>4, <2>1, CongruentSum
<1>8. (p + c.offset * Unit) + d * Unit = p + (c.offset + d) * Unit
  BY <1>3
<1>9. PICK u \in Int, w \in Int, z \in Int :
         /\ u = n + d * Unit /\ w = p + t * Unit /\ z = p + (c.offset + d) * Unit
  BY <1>3, <1>4, <1>5
<1>10. Congruent(u, z) /\ Congruent(w, z)
  BY <1>6, <1>7, <1>8, <1>9
<1>11. Congruent(u, w)
  BY <1>10, CongruentShared
<1> QED
  BY <1>1, <1>9, <1>11 DEF a, n

-----------------------------------------------------------------------------
(* The finished calibration. *)

(* The offset is the centre, and the multipliers are those of the angles   *)
(* seen, to less than a unit.                                              *)
CalFits(d, c) ==
    /\ d.ctr - d.lo >= Unit /\ d.hi - d.ctr >= Unit
    /\ -256 * Unit <= c.offset /\ c.offset <= 256 * Unit
    /\ Congruent(c.offset + d.ctr, 0)
    /\ Within(c.neg, d.lo - d.ctr)
    /\ Within(c.pos, d.hi - d.ctr)

(* Strengthens AxisReachesEnds: the last report was made with it. *)
CalMatches ==
    done.ok /\ done.aligned =>
        /\ CalFits(done, cal_data)
        /\ hid_in_data \in Reports(XyToHdg(pos), cal_data)

IInv == TypeOK /\ InArc /\ Frame /\ CalMatches

LEMMA ArcsType ==
    ASSUME TypeOK
    PROVE  /\ arc.lo \in Int /\ arc.hi \in Int /\ arc.lo <= arc.hi
           /\ arc.hi - arc.lo <= 159 * Unit
BY ArcsAssumption DEF TypeOK

(* While an aligned calibration is running, prevent_wraparound moves the   *)
(* value and the extremes together and nothing overflows: <1>8 is where    *)
(* the bound on the range and the bound on the speed are needed.           *)
LEMMA FrameShift ==
    ASSUME IInv, Calibrating, aligned, NEW p \in Int,
           -31 * Unit <= p - pos, p - pos <= 31 * Unit, arc.lo <= p, p <= arc.hi
    PROVE  LET a == PreventWraparound(Normalise(XyToHdg(p), cs.offset * Unit), cs)
           IN  /\ Within(a.cs.min * Unit, a.val + (lo - p))
               /\ Within(a.cs.max * Unit, a.val + (hi - p))
<1>1. PICK x \in Int8, y \in Int8, o \in Int8 : cs.min = x /\ cs.max = y /\ cs.offset = o
  BY DEF IInv, TypeOK, CalState
<1>2. PICK v \in Int : /\ -96 * Unit <= v /\ v <= 96 * Unit
                       /\ Congruent(v, pos + o * Unit)
                       /\ Within(x * Unit, v + (lo - pos))
                       /\ Within(y * Unit, v + (hi - pos))
  BY <1>1 DEF IInv, Frame
<1>3. /\ pos \in Int /\ lo \in Int /\ hi \in Int /\ lo <= pos /\ pos <= hi
      /\ hi - p <= 159 * Unit /\ p - lo <= 159 * Unit
  <2>1. pos \in Int /\ lo \in Int /\ hi \in Int
    BY DEF IInv, TypeOK
  <2>2. arc.lo <= lo /\ lo <= pos /\ pos <= hi /\ hi <= arc.hi
    BY DEF IInv, Frame
  <2> QED
    BY <2>1, <2>2, ArcsType, TurnType DEF IInv
<1>4. /\ x \in Int /\ -128 <= x /\ x <= 127 /\ y \in Int /\ -128 <= y /\ y <= 127
      /\ o \in Int /\ x * Unit \in Int /\ y * Unit \in Int /\ o * Unit \in Int
      /\ -256 * Unit <= o * Unit /\ o * Unit <= 256 * Unit
  <2>1. x \in Int /\ -128 <= x /\ x <= 127 /\ y \in Int /\ -128 <= y /\ y <= 127
        /\ o \in Int /\ -128 <= o /\ o <= 127
    BY DEF Int8, JS_MIN, JS_MAX
  <2>2. -128 * Unit <= o * Unit /\ o * Unit <= 127 * Unit
    BY <2>1, TurnType
  <2> QED
    BY <2>1, <2>2, UnitsOrder, TurnType
<1> DEFINE w == v + (p - pos)
           d == IF w < -96 * Unit THEN 64 ELSE IF w > 96 * Unit THEN -64 ELSE 0
           a == PreventWraparound(Normalise(XyToHdg(p), cs.offset * Unit), cs)
<1>5. w \in Int /\ -127 * Unit <= w /\ w <= 127 * Unit
  BY <1>2, <1>3, TurnType
<1>6. Normalise(XyToHdg(p), o * Unit) = w
  <2>1. Congruent(v + (p - pos), (pos + o * Unit) + (p - pos))
    <3>1. pos + o * Unit \in Int /\ p - pos \in Int
      BY <1>3, <1>4
    <3> QED
      BY <1>2, <3>1, CongruentSame, CongruentSum
  <2>2. (pos + o * Unit) + (p - pos) = p + o * Unit
    BY <1>3, <1>4
  <2>3. Congruent(w, p + o * Unit)
    BY <2>1, <2>2
  <2> HIDE DEF w
  <2> QED
    BY <1>4, <1>5, <2>3, NormaliseValue
<1>7. /\ a.val = w + d * Unit
      /\ a.cs.min = ToInt8(x + d) /\ a.cs.max = ToInt8(y + d)
  BY <1>1, <1>6 DEF PreventWraparound, ShiftFrame
<1>8. x + d \in -128 .. 127 /\ y + d \in -128 .. 127
  <2>1. /\ x * Unit - (w + (lo - p)) < Unit /\ (w + (lo - p)) - x * Unit < Unit
        /\ y * Unit - (w + (hi - p)) < Unit /\ (w + (hi - p)) - y * Unit < Unit
    BY <1>2, <1>3, <1>4 DEF Within
  <2>2. lo - p <= 31 * Unit /\ p - hi <= 31 * Unit
    BY <1>3, TurnType
  <2> HIDE DEF w
  <2>3. CASE w < -96 * Unit
    <3>1. x * Unit < -64 * Unit /\ y * Unit < 64 * Unit
      BY <1>3, <1>4, <1>5, <2>1, <2>2, <2>3, TurnType
    <3>2. x < -64 /\ y < 64
      <4>1. x >= -64 => x * Unit >= -64 * Unit
        BY <1>4, TurnType
      <4>2. y >= 64 => y * Unit >= 64 * Unit
        BY <1>4, TurnType
      <4> QED
        BY <1>4, <3>1, <4>1, <4>2, TurnType
    <3>3. d = 64
      BY <2>3
    <3> QED
      BY <1>4, <3>2, <3>3
  <2>4. CASE w > 96 * Unit
    <3>1. -64 * Unit < x * Unit /\ 64 * Unit < y * Unit
      BY <1>3, <1>4, <1>5, <2>1, <2>2, <2>4, TurnType
    <3>2. -64 < x /\ 64 < y
      <4>1. x <= -64 => x * Unit <= -64 * Unit
        BY <1>4, TurnType
      <4>2. y <= 64 => y * Unit <= 64 * Unit
        BY <1>4, TurnType
      <4> QED
        BY <1>4, <3>1, <4>1, <4>2, TurnType
    <3>3. d = -64
      BY <1>5, <2>4, TurnType
    <3> QED
      BY <1>4, <3>2, <3>3
  <2>5. CASE ~(w < -96 * Unit) /\ ~(w > 96 * Unit)
    BY <1>4, <2>5
  <2> QED
    BY <2>3, <2>4, <2>5
<1>9. d \in Int /\ d * Unit \in Int
  BY TurnType
<1>10. a.cs.min = x + d /\ a.cs.max = y + d
  BY <1>7, <1>8, ToInt8Identity DEF Int8, JS_MIN, JS_MAX
<1> HIDE DEF a, d
<1>11. a.cs.min * Unit = x * Unit + d * Unit /\ a.cs.max * Unit = y * Unit + d * Unit
  <2>1. /\ (x + d) * Unit = x * Unit + d * Unit
        /\ (y + d) * Unit = y * Unit + d * Unit
    BY <1>4, <1>9, UnitsOrder
  <2> QED
    BY <1>10, <2>1
<1>12. /\ Within(x * Unit + d * Unit, w + d * Unit + (lo - p))
       /\ Within(y * Unit + d * Unit, w + d * Unit + (hi - p))
  BY <1>2, <1>3, <1>4, <1>9 DEF Within
<1>13. Within(a.cs.min * Unit, a.val + (lo - p)) /\ Within(a.cs.max * Unit, a.val + (hi - p))
  BY <1>7, <1>11, <1>12
<1> QED
  BY <1>13 DEF a

(* A new value w next to an extreme: the old extreme l is at x to less     *)
(* than a unit, and so is the new one.                                     *)
LEMMA TrackMin ==
    ASSUME NEW x \in Int, NEW w \in Int, NEW l \in Int, NEW p \in Int,
           Within(x * Unit, w + (l - p))
    PROVE  Within((IF x * Unit > w THEN Truncate(w, Unit) ELSE x) * Unit,
                  w + ((IF p < l THEN p ELSE l) - p))
<1> DEFINE t == Truncate(w, Unit)
<1>1. /\ t \in Int /\ t * Unit - w < Unit /\ w - t * Unit < Unit
      /\ w < x * Unit => t <= x
  BY TruncateUnits
<1> HIDE DEF t
<1>2. /\ x * Unit \in Int /\ t * Unit \in Int
      /\ w < x * Unit => t * Unit <= x * Unit
  BY <1>1, UnitsOrder
<1>3. x * Unit - (w + (l - p)) < Unit /\ (w + (l - p)) - x * Unit < Unit
  BY DEF Within
<1>4. CASE x * Unit > w
  BY <1>1, <1>2, <1>3, <1>4, TurnType DEF Within, t
<1>5. CASE ~(x * Unit > w)
  BY <1>2, <1>3, <1>5, TurnType DEF Within
<1> QED
  BY <1>4, <1>5

LEMMA TrackMax ==
    ASSUME NEW y \in Int, NEW w \in Int, NEW h \in Int, NEW p \in Int,
           Within(y * Unit, w + (h - p))
    PROVE  Within((IF y * Unit < w THEN Truncate(w, Unit) ELSE y) * Unit,
                  w + ((IF p > h THEN p ELSE h) - p))
<1> DEFINE t == Truncate(w, Unit)
<1>1. /\ t \in Int /\ t * Unit - w < Unit /\ w - t * Unit < Unit
      /\ y * Unit < w => y <= t
  BY TruncateUnits
<1> HIDE DEF t
<1>2. /\ y * Unit \in Int /\ t * Unit \in Int
      /\ y * Unit < w => y * Unit <= t * Unit
  BY <1>1, UnitsOrder
<1>3. y * Unit - (w + (h - p)) < Unit /\ (w + (h - p)) - y * Unit < Unit
  BY DEF Within
<1>4. CASE y * Unit < w
  BY <1>1, <1>2, <1>3, <1>4, TurnType DEF Within, t
<1>5. CASE ~(y * Unit < w)
  BY <1>2, <1>3, <1>5, TurnType DEF Within
<1> QED
  BY <1>4, <1>5

(* The step of calibrate that keeps Frame and CalMatches: each of its four *)
(* branches from the frame x, y, o and the value v that prevent_wraparound *)
(* leaves.                                                                 *)
LEMMA CalibrateStepFrame ==
    ASSUME IInv, NEW p \in Int, -31 * Unit <= p - pos, p - pos <= 31 * Unit,
           arc.lo <= p, p <= arc.hi, CalibrateStep(p), arc' = arc, pos' = p
    PROVE  /\ Frame'
           /\ \/ done' = done /\ cal_data' = cal_data
              \/ done'.ok /\ done'.aligned => CalFits(done', cal_data')
<1> DEFINE a == PreventWraparound(Normalise(XyToHdg(p), cs.offset * Unit), cs)
<1>1. cs \in CalState
  BY DEF IInv, TypeOK
<1>2. a.val \in Int /\ -96 * Unit <= a.val /\ a.val <= 96 * Unit /\ a.cs \in CalState
  BY <1>1, SampleType
<1>3. PICK x \in Int, y \in Int, o \in Int, v \in Int :
         /\ a.cs.min = x /\ a.cs.max = y /\ a.cs.offset = o /\ a.val = v
         /\ -128 <= o /\ o <= 127 /\ -96 * Unit <= v /\ v <= 96 * Unit
  <2> HIDE DEF a
  <2>1. /\ a.cs.min \in Int /\ a.cs.max \in Int /\ a.cs.offset \in Int
        /\ -128 <= a.cs.offset /\ a.cs.offset <= 127
    BY <1>2 DEF CalState, Int8, JS_MIN, JS_MAX
  <2> QED
    BY <1>2, <2>1
<1>4. PICK al \in Int, ah \in Int : arc.lo = al /\ arc.hi = ah
  BY ArcsType DEF IInv
<1>5. pos \in Int /\ lo \in Int /\ hi \in Int /\ al <= p /\ p <= ah
  BY <1>4 DEF IInv, TypeOK
<1>6. Congruent(v, p + o * Unit)
  <2>1. Congruent(a.val, p + a.cs.offset * Unit)
    BY <1>1, ValueCongruent
  <2> HIDE DEF a
  <2> QED
    BY <1>3, <2>1
<1>7. ASSUME Calibrating, aligned
      PROVE  /\ Within(x * Unit, v + (lo - p)) /\ Within(y * Unit, v + (hi - p))
             /\ al <= lo /\ lo <= hi /\ hi <= ah
  <2>1. Within(a.cs.min * Unit, a.val + (lo - p)) /\ Within(a.cs.max * Unit, a.val + (hi - p))
    BY <1>7, FrameShift
  <2>2. al <= lo /\ lo <= pos /\ pos <= hi /\ hi <= ah
    BY <1>4, <1>7 DEF IInv, Frame
  <2> HIDE DEF a
  <2> QED
    BY <1>3, <1>5, <2>1, <2>2
<1> HIDE DEF a
<1>8. CASE CalibrateOff(p, a)
  <2>1. ~Calibrating'
    BY <1>8 DEF CalibrateOff, Calibrating
  <2> QED
    BY <1>8, <2>1 DEF CalibrateOff, Frame, ghosts
<1>9. CASE CalibrateBegin(p, a)
  <2> DEFINE t == Truncate(v, Unit)
  <2>1. done' = done /\ cal_data' = cal_data
    BY <1>9 DEF CalibrateBegin
  <2>2. cs'.min = t /\ cs'.max = t /\ cs'.offset = 0 /\ lo' = p /\ hi' = p
    BY <1>3, <1>9 DEF CalibrateBegin
  <2>3. t * Unit \in Int /\ t * Unit - v < Unit /\ v - t * Unit < Unit
    BY TruncateUnits, UnitsOrder
  <2> HIDE DEF t
  <2>4. ASSUME aligned' PROVE Frame'
    <3>1. o = 0
      BY <1>3, <1>9, <2>4 DEF CalibrateBegin
    <3>2. 0 * Unit = 0 /\ p + 0 = p
      BY TurnType
    <3>3. Within(t * Unit, v + (p - p)) /\ Congruent(v, p + 0 * Unit)
      BY <1>6, <2>3, <3>1, <3>2 DEF Within
    <3> QED
      BY <1>3, <1>4, <1>5, <2>2, <3>3 DEF Frame
  <2> QED
    BY <2>1, <2>4 DEF Frame
<1>10. CASE CalibrateTrack(p, a)
  <2> DEFINE mi == IF x * Unit > v THEN Truncate(v, Unit) ELSE x
             ma == IF y * Unit < v THEN Truncate(v, Unit) ELSE y
             nl == IF p < lo THEN p ELSE lo
             nh == IF p > hi THEN p ELSE hi
  <2>1. /\ done' = done /\ cal_data' = cal_data
        /\ Calibrating /\ aligned' = aligned
    BY <1>10 DEF CalibrateTrack, Calibrating
  <2>2. cs'.min = mi /\ cs'.max = ma /\ cs'.offset = o /\ lo' = nl /\ hi' = nh
    BY <1>3, <1>10 DEF CalibrateTrack
  <2>3. ASSUME aligned PROVE Frame'
    <3>1. /\ Within(x * Unit, v + (lo - p)) /\ Within(y * Unit, v + (hi - p))
          /\ al <= lo /\ lo <= hi /\ hi <= ah
      BY <1>7, <2>1, <2>3
    <3>2. Within(mi * Unit, v + (nl - p)) /\ Within(ma * Unit, v + (nh - p))
      BY <1>5, <3>1, TrackMin, TrackMax
    <3>3. al <= nl /\ nl <= p /\ p <= nh /\ nh <= ah
      BY <1>5, <3>1
    <3> HIDE DEF mi, ma, nl, nh
    <3> QED
      BY <1>3, <1>4, <1>6, <2>2, <3>2, <3>3 DEF Frame
  <2> QED
    BY <2>1, <2>3 DEF Frame
<1>11. CASE CalibrateEnd(p, a)
  <2>1. ~Calibrating' /\ Calibrating
    BY <1>11 DEF CalibrateEnd, Calibrating
  <2>2. /\ done'.ok = (p - lo >= Unit /\ hi - p >= Unit) /\ done'.aligned = aligned
        /\ done'.lo = lo /\ done'.hi = hi /\ done'.ctr = p
        /\ cal_data'.offset = o * Unit - v
        /\ cal_data'.neg = x * Unit - v
        /\ cal_data'.pos = y * Unit - v
    BY <1>3, <1>11 DEF CalibrateEnd
  <2>3. ASSUME done'.ok, done'.aligned PROVE CalFits(done', cal_data')
    <3>1. p - lo >= Unit /\ hi - p >= Unit /\ aligned
      BY <2>2, <2>3
    <3>2. Within(x * Unit, v + (lo - p)) /\ Within(y * Unit, v + (hi - p))
      BY <1>7, <2>1, <3>1
    <3>3. /\ o * Unit \in Int /\ x * Unit \in Int /\ y * Unit \in Int
          /\ -128 * Unit <= o * Unit /\ o * Unit <= 127 * Unit
      <4>1. o * Unit \in Int /\ x * Unit \in Int /\ y * Unit \in Int
        BY UnitsOrder
      <4>2. -128 * Unit <= o * Unit /\ o * Unit <= 127 * Unit
        BY <1>3, TurnType
      <4> QED
        BY <4>1, <4>2
    <3>4. -256 * Unit <= o * Unit - v /\ o * Unit - v <= 256 * Unit
      BY <1>3, <3>3, TurnType
    <3>5. Congruent(o * Unit - v + p, 0)
      <4>1. Congruent((p + o * Unit) - v, (p + o * Unit) - (p + o * Unit))
        <5>1. PICK q \in Int : q = p + o * Unit
          BY <3>3
        <5>2. Congruent(q, q) /\ Congruent(v, q)
          BY <1>6, <5>1, CongruentSame
        <5>3. Congruent(q, v)
          BY <5>2, CongruentShared
        <5>4. Congruent(q - v, v - v)
          BY <5>3, CongruentSame, CongruentDifference
        <5>5. v - v = q - q
          OBVIOUS
        <5> QED
          BY <5>1, <5>4, <5>5
      <4>2. (p + o * Unit) - v = o * Unit - v + p /\ (p + o * Unit) - (p + o * Unit) = 0
        BY <3>3
      <4> QED
        BY <4>1, <4>2
    <3>6. Within(x * Unit - v, lo - p) /\ Within(y * Unit - v, hi - p)
      BY <1>5, <3>2, <3>3 DEF Within
    <3> QED
      BY <2>2, <3>1, <3>4, <3>5, <3>6 DEF CalFits
  <2> QED
    BY <2>1, <2>3 DEF Frame
<1> QED
  BY <1>8, <1>9, <1>10, <1>11 DEF CalibrateStep, a

LEMMA IInvInit == Init => IInv
<1> SUFFICES ASSUME Init PROVE IInv
  OBVIOUS
<1>1. TypeOK
  BY TypeInit
<1>2. InArc
  <2>1. arc.lo \in Int /\ arc.hi \in Int /\ arc.lo <= arc.hi
    BY <1>1, ArcsType
  <2>2. pos = arc.lo \/ pos = arc.hi \/ pos = (arc.lo + arc.hi) \div 2
    BY DEF Init
  <2> QED
    BY <2>1, <2>2 DEF InArc
<1>3. Frame /\ CalMatches
  BY DEF Init, Frame, Calibrating, CalMatches, NoCalibration
<1> QED
  BY <1>1, <1>2, <1>3 DEF IInv

LEMMA IInvNext == IInv /\ [Next]_vars => IInv'
<1> SUFFICES ASSUME IInv, [Next]_vars PROVE IInv'
  OBVIOUS
<1>1. TypeOK'
  BY TypeNext DEF IInv
<1>2. ASSUME NEW d \in Moves, Sample(pos + d) PROVE InArc' /\ Frame' /\ CalMatches'
  <2> DEFINE p == pos + d
  <2>1. p \in Int /\ -31 * Unit <= p - pos /\ p - pos <= 31 * Unit
    <3>1. d \in Int /\ -31 * Unit <= d /\ d <= 31 * Unit
      BY MovesAssumption, TurnType
    <3> QED
      BY <3>1 DEF IInv, TypeOK
  <2> HIDE DEF p
  <2>2. /\ arc.lo <= p /\ p <= arc.hi /\ arc' = arc /\ pos' = p /\ CalibrateStep(p)
        /\ hid_in_data' \in Reports(XyToHdg(p), cal_data')
    BY <1>2 DEF Sample, p
  <2>3. InArc'
    BY <2>2 DEF InArc
  <2>4. /\ Frame'
        /\ \/ done' = done /\ cal_data' = cal_data
           \/ done'.ok /\ done'.aligned => CalFits(done', cal_data')
    BY <2>1, <2>2, CalibrateStepFrame
  <2>5. CalMatches'
    BY <2>2, <2>4 DEF IInv, CalMatches
  <2> QED
    BY <2>3, <2>4, <2>5
<1>3. ASSUME UNCHANGED <<pos, arc, state, cs, cal_data, hid_in_data, lo, hi, aligned, done>>
      PROVE  InArc' /\ Frame' /\ CalMatches'
  <2>1. InArc'
    BY <1>3 DEF IInv, InArc
  <2>2. Frame'
    BY <1>3 DEF IInv, Frame, Calibrating
  <2>3. CalMatches'
    BY <1>3 DEF IInv, CalMatches
  <2> QED
    BY <2>1, <2>2, <2>3
<1>4. SwitchOn \/ SwitchOff \/ UNCHANGED vars => InArc' /\ Frame' /\ CalMatches'
  BY <1>3 DEF SwitchOn, SwitchOff, vars, ghosts
<1> QED
  BY <1>1, <1>2, <1>3, <1>4 DEF Next, IInv

LEMMA InductiveInvariant == Spec => []IInv
BY IInvInit, IInvNext, PTL DEF Spec

(* prevent_wraparound (joystick.c:46-60) never lets the extremes of an     *)
(* aligned calibration overflow their int8_t or drift away from the frame, *)
(* and what the truncations of joystick.c:72, 78-79 lose stays less than a *)
(* unit: for every resolution of the heading, every range up to 159 units, *)
(* every speed up to 31 units a sample and any number of samples.          *)
THEOREM ExtremesAlwaysTracked == Spec => []ExtremesTracked
<1>1. IInv => ExtremesTracked
  <2> SUFFICES ASSUME IInv, Calibrating, aligned
               PROVE  /\ cs.min * Unit - InFrame(lo) \in -(Unit - 1) .. Unit - 1
                      /\ cs.max * Unit - InFrame(hi) \in -(Unit - 1) .. Unit - 1
    BY DEF ExtremesTracked
  <2>1. PICK v \in Int : /\ -96 * Unit <= v /\ v <= 96 * Unit
                         /\ Congruent(v, pos + cs.offset * Unit)
                         /\ Within(cs.min * Unit, v + (lo - pos))
                         /\ Within(cs.max * Unit, v + (hi - pos))
    BY DEF IInv, Frame
  <2>2. cs \in CalState /\ pos \in Int /\ lo \in Int /\ hi \in Int
    BY DEF IInv, TypeOK
  <2>3. PICK x \in Int, y \in Int : cs.min * Unit = x /\ cs.max * Unit = y
    <3>1. cs.min \in Int /\ cs.max \in Int
      BY <2>2 DEF CalState, Int8, JS_MIN, JS_MAX
    <3> QED
      BY <3>1, UnitsOrder
  <2>4. Normalise(XyToHdg(pos), cs.offset * Unit) = v
    <3>1. /\ cs.offset * Unit \in Int
          /\ -256 * Unit <= cs.offset * Unit /\ cs.offset * Unit <= 256 * Unit
      BY <2>2, OffsetRange, TurnType
    <3>2. -127 * Unit <= v /\ v <= 127 * Unit
      BY <2>1, TurnType
    <3> QED
      BY <2>1, <2>2, <3>1, <3>2, NormaliseValue
  <2>5. InFrame(lo) = v + (lo - pos) /\ InFrame(hi) = v + (hi - pos)
    BY <2>4 DEF InFrame
  <2> QED
    BY <2>1, <2>2, <2>3, <2>5, TurnType DEF Within
<1> QED
  BY <1>1, InductiveInvariant, PTL
-----------------------------------------------------------------------------
(* The report at the ends. *)

LEMMA TruncateBound ==
    ASSUME NEW n \in Int, NEW d \in Nat \ {0}
    PROVE  /\ Truncate(n, d) \in Int
           /\ n - d < Truncate(n, d) * d
           /\ n <= 127 * d => Truncate(n, d) <= 127
           /\ n > 0 => Truncate(-n, d) = -Truncate(n, d)
<1> DEFINE t == Truncate(n, d)
<1>1. t \in Int /\ n - d < t * d /\ (0 <= n => t * d <= n) /\ (n < 0 => t <= 0)
  <2>1. CASE n < 0
    <3> DEFINE k == (-n) \div d
    <3>1. k \in Nat /\ k * d <= -n
      BY <2>1
    <3>2. t = -k
      BY <2>1 DEF Truncate
    <3> HIDE DEF k, t
    <3>3. (-k) * d = -(k * d) /\ k * d \in Int
      BY <3>1
    <3> QED
      BY <2>1, <3>1, <3>2, <3>3
  <2>2. CASE ~(n < 0)
    <3> DEFINE k == n \div d
    <3>1. k \in Nat /\ k * d <= n /\ n < k * d + d
      BY <2>2
    <3>2. t = k
      BY <2>2 DEF Truncate
    <3> HIDE DEF k, t
    <3>3. k * d \in Int
      BY <3>1
    <3> QED
      BY <2>2, <3>1, <3>2, <3>3
  <2> QED
    BY <2>1, <2>2
<1>2. n > 0 => Truncate(-n, d) = -t
  BY DEF Truncate
<1> HIDE DEF t
<1>3. ASSUME n <= 127 * d, t >= 128 PROVE FALSE
  <2>1. 128 * d <= t * d
    BY <1>1, <1>3
  <2> QED
    BY <1>1, <1>3, <2>1
<1> QED
  BY <1>1, <1>2, <1>3 DEF t

(* An axis that misses little of its end per unit of the larger span d     *)
(* misses no more per unit of s.                                           *)
LEMMA Missing ==
    ASSUME NEW t \in Int, t <= 127, NEW d \in Nat \ {0}, NEW s \in Nat \ {0}, s <= d,
           NEW k \in Int, (127 - t) * d < k
    PROVE  (127 - t) * s < k
<1>1. PICK m \in Nat : m = 127 - t
  OBVIOUS
<1>2. m * s <= m * d
  BY <1>1
<1> QED
  BY <1>1, <1>2

LEMMA NothingMissing ==
    ASSUME NEW s \in Nat \ {0}
    PROVE  WorthAUnit(127 - 127, 128, s) /\ WorthAUnit(127 - 127, 8 * 128, s)
BY TurnType DEF WorthAUnit

(* The axis and its brake for a heading of 128 * s / d that limit has not  *)
(* cut; Press(n, d) is what both brakes make of it.                        *)
Press(n, d, k) == IF n > k * d THEN Limit([num |-> 8 * (n - k * d) - 128 * d, den |-> d])
                  ELSE NoBrake

LEMMA ShortOfEnd ==
    ASSUME NEW s \in Nat \ {0}, NEW d \in Nat \ {0}, s <= d, d - s < Unit,
           NEW k \in 95 .. 96
    PROVE  /\ 128 * s <= 127 * d => WorthAUnit(127 - Truncate(128 * s, d), 128, s)
           /\ \A z \in Truncated(Press(128 * s, d, k)) : WorthAUnit(127 - z, 8 * 128, s)
<1>1. d - s \in Int /\ 128 * (d - s) < 128 * Unit /\ Unit \in Nat
  BY TurnType
<1>2. ASSUME 128 * s <= 127 * d PROVE WorthAUnit(127 - Truncate(128 * s, d), 128, s)
  <2>1. PICK t \in Int : t = Truncate(128 * s, d) /\ t <= 127 /\ 128 * s - d < t * d
    <3>1. PICK n \in Int : n = 128 * s
      OBVIOUS
    <3>2. Truncate(n, d) \in Int /\ Truncate(n, d) <= 127 /\ n - d < Truncate(n, d) * d
      BY <1>2, <3>1, TruncateBound
    <3> QED
      BY <3>1, <3>2
  <2>2. (127 - t) * d = 127 * d - t * d /\ t * d \in Int
    BY <2>1
  <2>3. (127 - t) * d < 128 * Unit
    BY <1>1, <2>1, <2>2
  <2>4. (127 - t) * s < 128 * Unit
    <3>1. PICK b \in Int : b = 128 * Unit
      BY <1>1
    <3> QED
      BY <2>1, <2>3, <3>1, Missing
  <2> QED
    BY <2>1, <2>4 DEF WorthAUnit
<1>3. ASSUME NEW z \in Truncated(Press(128 * s, d, k)) PROVE WorthAUnit(127 - z, 8 * 128, s)
  <2> DEFINE n == 8 * (128 * s - k * d) - 128 * d
  <2>1. k * d \in Int /\ 95 * d <= k * d /\ k * d <= 96 * d
    <3>1. k = 95 \/ k = 96
      OBVIOUS
    <3> QED
      BY <3>1
  <2>2. n \in Int /\ 1024 * s - 896 * d <= n
    BY <2>1
  <2>3. CASE ~(128 * s > k * d)
    <3>1. z = -128
      BY <2>3 DEF Press, NoBrake, JS_MIN, Truncated, Truncate
    <3>2. (127 - z) * d < (8 * 128) * Unit
      <4>1. (127 - z) * d = 255 * d
        BY <3>1
      <4>2. 128 * s <= 96 * d
        BY <2>1, <2>3
      <4> QED
        BY <1>1, <4>1, <4>2
    <3> QED
      <4>1. PICK b \in Int : b = (8 * 128) * Unit
        BY <1>1
      <4>2. z \in Int /\ z <= 127 /\ (127 - z) * d < b
        BY <3>1, <3>2, <4>1
      <4>3. (127 - z) * s < b
        BY <4>2, Missing
      <4> QED
        BY <4>1, <4>3 DEF WorthAUnit
  <2>4. CASE 128 * s > k * d /\ n > 127 * d
    <3>1. Press(128 * s, d, k) = [num |-> 127, den |-> 1]
      <4>1. Press(128 * s, d, k) = Limit([num |-> n, den |-> d])
        BY <2>4 DEF Press
      <4> HIDE DEF n
      <4> QED
        BY <2>2, <2>4, <4>1 DEF Limit
    <3>2. z = 127
      BY <3>1 DEF Truncated, Truncate
    <3> QED
      BY <3>2, NothingMissing
  <2>5. CASE 128 * s > k * d /\ ~(n > 127 * d)
    <3>1. Press(128 * s, d, k) = [num |-> n, den |-> d]
      <4>1. Press(128 * s, d, k) = Limit([num |-> n, den |-> d])
        BY <2>5 DEF Press
      <4>2. ~(n < -128 * d)
        BY <2>1, <2>5
      <4> HIDE DEF n
      <4> QED
        BY <2>2, <2>5, <4>1, <4>2 DEF Limit
    <3>2. z = Truncate(n, d)
      BY <3>1 DEF Truncated
    <3> HIDE DEF n
    <3>3. z \in Int /\ n - d < z * d /\ z <= 127
      BY <2>2, <2>5, <3>2, TruncateBound
    <3>4. (127 - z) * d = 127 * d - z * d /\ z * d \in Int
      BY <3>3
    <3>5. (127 - z) * d < (8 * 128) * Unit
      <4>1. PICK m \in Int : m = z * d
        BY <3>4
      <4>2. 127 * d - m < 1024 * d - 1024 * s
        BY <2>2, <3>3, <4>1
      <4> QED
        BY <1>1, <3>4, <4>1, <4>2
    <3> QED
      <4>1. PICK b \in Int : b = (8 * 128) * Unit
        BY <1>1
      <4>2. z \in Int /\ z <= 127 /\ (127 - z) * d < b
        BY <3>3, <3>5, <4>1
      <4>3. (127 - z) * s < b
        BY <4>2, Missing
      <4> QED
        BY <4>1, <4>3 DEF WorthAUnit
  <2> QED
    BY <2>3, <2>4, <2>5
<1> QED
  BY <1>2, <1>3

LEMMA BrakeConstants ==
    /\ JS_BRAKEPOINT_NEG = -96 /\ JS_BRAKEPOINT_POS = 95 /\ JS_BRAKE_RATIO = 8
    /\ JS_MIN = -128 /\ NoBrake = [num |-> -128, den |-> 1]
BY DEF JS_BRAKEPOINT_NEG, JS_BRAKEPOINT_POS, JS_BRAKE_RATIO, JS_MIN, JS_MAX, JS_BRAKEPOINT,
       NoBrake

(* At the upper end, where the span f that is used is less than a unit     *)
(* longer than the real one.                                               *)
LEMMA UpperEnd ==
    ASSUME NEW val, NEW cal, NEW f \in Nat \ {0}, cal.pos = f, NEW s \in Nat \ {0},
           Normalise(val, cal.offset) = s, f - s < Unit, NEW r \in Reports(val, cal)
    PROVE  /\ WorthAUnit(127 - r.x, 128, s) /\ WorthAUnit(127 - r.z, 8 * 128, s)
           /\ Released(r.y)
<1>1. CalApply(val, cal) = Limit([num |-> 128 * s, den |-> f])
  BY DEF CalApply, Frac
<1>2. CASE 128 * s > 127 * f
  <2>1. CalApply(val, cal) = [num |-> 127, den |-> 1]
    BY <1>1, <1>2 DEF Limit
  <2>2. BrakeNeg([num |-> 127, den |-> 1]) = [num |-> -128, den |-> 1]
    BY BrakeConstants DEF BrakeNeg
  <2>3. BrakePos([num |-> 127, den |-> 1]) = [num |-> 127, den |-> 1]
    BY BrakeConstants DEF BrakePos, Brake, Limit
  <2>4. /\ Truncated([num |-> 127, den |-> 1]) = {127}
        /\ Truncated([num |-> -128, den |-> 1]) = {-128}
    BY DEF Truncated, Truncate
  <2>5. r.x = 127 /\ r.y = -128 /\ r.z = 127
    BY <2>1, <2>2, <2>3, <2>4 DEF Reports
  <2> QED
    BY <2>5, NothingMissing DEF Released
<1>3. CASE ~(128 * s > 127 * f)
  <2> DEFINE q == [num |-> 128 * s, den |-> f]
  <2>1. CalApply(val, cal) = q
    BY <1>1, <1>3 DEF Limit
  <2>2. BrakeNeg(q) = [num |-> -128, den |-> 1]
    BY BrakeConstants DEF BrakeNeg
  <2>3. BrakePos(q) = Press(128 * s, f, 95)
    BY BrakeConstants DEF BrakePos, Brake, Press
  <2>4. Truncated(q) = {Truncate(128 * s, f)} /\ Truncated([num |-> -128, den |-> 1]) = {-128}
    BY DEF Truncated, Truncate
  <2> HIDE DEF q
  <2>5. r.x = Truncate(128 * s, f) /\ r.y = -128 /\ r.z \in Truncated(Press(128 * s, f, 95))
    BY <2>1, <2>2, <2>3, <2>4 DEF Reports
  <2>6. s <= f /\ 128 * s <= 127 * f
    BY <1>3
  <2> QED
    BY <2>5, <2>6, ShortOfEnd DEF Released
<1> QED
  BY <1>2, <1>3

(* At the lower end, where the span is e.                                  *)
LEMMA LowerEnd ==
    ASSUME NEW val, NEW cal, NEW e \in Nat \ {0}, cal.neg = -e, NEW s \in Nat \ {0},
           Normalise(val, cal.offset) = -s, e - s < Unit, NEW r \in Reports(val, cal)
    PROVE  /\ WorthAUnit(r.x + 127, 128, s) /\ WorthAUnit(127 - r.y, 8 * 128, s)
           /\ Released(r.z)
<1>1. CalApply(val, cal) = Limit([num |-> -(128 * s), den |-> e])
  <2>1. -s < 0 /\ -e < 0 /\ -128 * (-s) = 128 * s /\ -(-e) = e
    OBVIOUS
  <2>2. Frac(-128 * (-s), -e) = [num |-> -(128 * s), den |-> e]
    BY <2>1 DEF Frac
  <2> QED
    BY <2>1, <2>2 DEF CalApply
<1>2. CASE s > e
  <2>1. CalApply(val, cal) = [num |-> -128, den |-> 1]
    BY <1>1, <1>2 DEF Limit
  <2>2. BrakeNeg([num |-> -128, den |-> 1]) = [num |-> 127, den |-> 1]
    BY BrakeConstants DEF BrakeNeg, Brake, Limit
  <2>3. BrakePos([num |-> -128, den |-> 1]) = [num |-> -128, den |-> 1]
    BY BrakeConstants DEF BrakePos
  <2>4. /\ Truncated([num |-> 127, den |-> 1]) = {127}
        /\ Truncated([num |-> -128, den |-> 1]) = {-128}
    BY DEF Truncated, Truncate
  <2>5. r.x = -128 /\ r.y = 127 /\ r.z = -128
    BY <2>1, <2>2, <2>3, <2>4 DEF Reports
  <2>6. WorthAUnit(-128 + 127, 128, s)
    BY TurnType DEF WorthAUnit
  <2> QED
    BY <2>5, <2>6, NothingMissing DEF Released
<1>3. CASE ~(s > e)
  <2> DEFINE q == [num |-> -(128 * s), den |-> e]
             t == Truncate(128 * s, e)
  <2>1. CalApply(val, cal) = q
    BY <1>1, <1>3 DEF Limit
  <2>2. BrakePos(q) = [num |-> -128, den |-> 1]
    BY BrakeConstants DEF BrakePos
  <2>3. BrakeNeg(q) = Press(128 * s, e, 96)
    <3>1. -(128 * s) < -96 * e <=> 128 * s > 96 * e
      OBVIOUS
    <3>2. -(-(128 * s)) + (-96) * e = 128 * s - 96 * e
      OBVIOUS
    <3>3. (128 * s - 96 * e) * 8 + (-128) * e = 8 * (128 * s - 96 * e) - 128 * e
      OBVIOUS
    <3>4. BrakeNeg(q) = IF 128 * s > 96 * e THEN Brake(128 * s - 96 * e, e) ELSE NoBrake
      BY <3>1, <3>2, BrakeConstants DEF BrakeNeg
    <3> QED
      BY <3>3, <3>4, BrakeConstants DEF Brake, Press
  <2>4. Truncated(q) = {-t} /\ Truncated([num |-> -128, den |-> 1]) = {-128}
    <3>1. Truncate(-(128 * s), e) = -t
      BY TruncateBound
    <3> QED
      BY <3>1 DEF Truncated, Truncate
  <2> HIDE DEF q
  <2>5. r.x = -t /\ r.z = -128 /\ r.y \in Truncated(Press(128 * s, e, 96))
    BY <2>1, <2>2, <2>3, <2>4 DEF Reports
  <2>6. WorthAUnit(127 - r.y, 8 * 128, s)
    BY <1>3, <2>5, ShortOfEnd
  <2>7. WorthAUnit(127 - t, 128, s)
    <3>1. CASE 128 * s <= 127 * e
      BY <1>3, <3>1, ShortOfEnd
    <3>2. CASE ~(128 * s <= 127 * e)
      <4>1. t \in Int /\ 128 * s - e < t * e
        BY TruncateBound
      <4> HIDE DEF t
      <4>2. ASSUME t <= 126 PROVE FALSE
        <5>1. t * e <= 126 * e
          BY <4>1, <4>2
        <5> QED
          BY <3>2, <4>1, <5>1
      <4>3. 127 - t \in Int /\ 127 - t <= 0
        BY <4>1, <4>2
      <4>4. (127 - t) * s <= 0
        BY <4>3
      <4> QED
        BY <4>3, <4>4, TurnType DEF WorthAUnit
    <3> QED
      BY <3>1, <3>2
  <2>8. r.x + 127 = 127 - t
    <3>1. t \in Int
      BY TruncateBound
    <3> HIDE DEF t
    <3> QED
      BY <2>5, <3>1
  <2> QED
    BY <2>5, <2>6, <2>7, <2>8 DEF Released
<1> QED
  BY <1>2, <1>3

(* At the centre it is zero.                                               *)
LEMMA Centre ==
    ASSUME NEW val, NEW cal, NEW e \in Nat \ {0}, cal.pos = e,
           Normalise(val, cal.offset) = 0,
           NEW r \in Reports(val, cal)
    PROVE  r = [x |-> 0, y |-> -128, z |-> -128]
<1> DEFINE q == [num |-> 0, den |-> e]
<1>1. CalApply(val, cal) = q
  <2>1. Frac(128 * 0, e) = q
    BY DEF Frac
  <2>2. CalApply(val, cal) = Limit(Frac(128 * 0, e))
    BY DEF CalApply
  <2> QED
    BY <2>1, <2>2 DEF Limit
<1>2. /\ BrakeNeg(q) = [num |-> -128, den |-> 1]
      /\ BrakePos(q) = [num |-> -128, den |-> 1]
  BY BrakeConstants DEF BrakeNeg, BrakePos
<1>3. Truncated([num |-> -128, den |-> 1]) = {-128} /\ Truncated(q) = {0}
  BY DEF Truncated, Truncate
<1> HIDE DEF q
<1>4. Reports(val, cal) = [x : {0}, y : {-128}, z : {-128}]
  BY <1>1, <1>2, <1>3 DEF Reports
<1> QED
  BY <1>4

(* The numbers of a finished calibration. *)
LEMMA CalFitsType ==
    ASSUME IInv, done.ok, done.aligned
    PROVE  \E c \in Int, l \in Int, h \in Int, o \in Int, e \in Nat \ {0}, f \in Nat \ {0} :
             /\ done.ctr = c /\ done.lo = l /\ done.hi = h
             /\ c - l >= Unit /\ h - c >= Unit
             /\ cal_data.offset = o /\ -256 * Unit <= o /\ o <= 256 * Unit
             /\ Congruent(o + c, 0)
             /\ cal_data.neg = -e /\ e - (c - l) < Unit
             /\ cal_data.pos = f /\ f - (h - c) < Unit
<1>1. PICK c \in Int, l \in Int, h \in Int, o \in Int, m \in Int, f \in Int :
        /\ done.ctr = c /\ done.lo = l /\ done.hi = h
        /\ cal_data.offset = o /\ cal_data.neg = m /\ cal_data.pos = f
  BY DEF IInv, TypeOK, Outcome, CalData
<1>2. /\ c - l >= Unit /\ h - c >= Unit
      /\ -256 * Unit <= o /\ o <= 256 * Unit /\ Congruent(o + c, 0)
      /\ m - (l - c) < Unit /\ (l - c) - m < Unit
      /\ f - (h - c) < Unit /\ (h - c) - f < Unit
  BY <1>1 DEF IInv, CalMatches, CalFits, Within
<1>3. -m \in Nat \ {0} /\ -(-m) = m /\ f \in Nat \ {0} /\ (-m) - (c - l) < Unit
  BY <1>2, TurnType
<1> QED
  BY <1>1, <1>2, <1>3

(* The value cal_apply works on is the angle relative to the centre.       *)
LEMMA CentredValue ==
    ASSUME NEW p \in Int, NEW c \in Int, NEW o \in Int, -256 * Unit <= o, o <= 256 * Unit,
           Congruent(o + c, 0), p - c \in -127 * Unit .. 127 * Unit
    PROVE  Normalise(XyToHdg(p), o) = p - c
<1>1. Congruent(p - (o + c), p - 0) /\ Congruent(p + o - (o + c), p + o - 0)
  <2>1. Congruent(p, p) /\ Congruent(p + o, p + o)
    BY CongruentSame
  <2> QED
    BY <2>1, CongruentDifference
<1>2. p + o - (o + c) = p - c /\ p + o - 0 = p + o
  OBVIOUS
<1>3. Congruent(p - c, p + o)
  BY <1>1, <1>2
<1>4. -127 * Unit <= p - c /\ p - c <= 127 * Unit /\ p - c \in Int
  BY TurnType
<1> QED
  BY <1>3, <1>4, NormaliseValue

(* A calibration that began in an unshifted frame gives the full axis and  *)
(* the full brakes at the ends it has seen, up to what a unit is worth     *)
(* there, and zero at the centre (joystick.c:72-85, 130-158), for every    *)
(* resolution of the heading.                                              *)
THEOREM AxisAlwaysReachesEnds == Spec => []AxisReachesEnds
<1>1. IInv => AxisReachesEnds
  <2> SUFFICES ASSUME IInv, Usable, done.aligned PROVE AtTheEnds
    BY DEF AxisReachesEnds
  <2>1. PICK c \in Int, l \in Int, h \in Int, o \in Int, e \in Nat \ {0}, f \in Nat \ {0} :
             /\ done.ctr = c /\ done.lo = l /\ done.hi = h
             /\ c - l >= Unit /\ h - c >= Unit
             /\ cal_data.offset = o /\ -256 * Unit <= o /\ o <= 256 * Unit
             /\ Congruent(o + c, 0)
             /\ cal_data.neg = -e /\ e - (c - l) < Unit
             /\ cal_data.pos = f /\ f - (h - c) < Unit
    BY CalFitsType DEF Usable
  <2>2. hid_in_data \in Reports(XyToHdg(pos), cal_data)
    BY DEF IInv, CalMatches, Usable
  <2>3. /\ l - c \in -127 * Unit .. 127 * Unit /\ h - c \in -127 * Unit .. 127 * Unit
        /\ c - c \in -127 * Unit .. 127 * Unit
    BY <2>1, TurnType DEF Usable, WithinHalfTurn
  <2>4. c - l \in Nat \ {0} /\ h - c \in Nat \ {0} /\ l - c = -(c - l) /\ c - c = 0
    BY <2>1, TurnType
  <2>5. ASSUME pos = h
        PROVE  /\ WorthAUnit(127 - hid_in_data.x, 128, h - c)
               /\ WorthAUnit(127 - hid_in_data.z, 8 * 128, h - c)
               /\ Released(hid_in_data.y)
    <3>1. Normalise(XyToHdg(pos), cal_data.offset) = h - c
      BY <2>1, <2>3, <2>5, CentredValue
    <3> QED
      BY <2>1, <2>2, <2>4, <3>1, UpperEnd
  <2>6. ASSUME pos = l
        PROVE  /\ WorthAUnit(hid_in_data.x + 127, 128, c - l)
               /\ WorthAUnit(127 - hid_in_data.y, 8 * 128, c - l)
               /\ Released(hid_in_data.z)
    <3>1. Normalise(XyToHdg(pos), cal_data.offset) = -(c - l)
      BY <2>1, <2>3, <2>4, <2>6, CentredValue
    <3> QED
      BY <2>1, <2>2, <2>4, <3>1, LowerEnd
  <2>7. ASSUME pos = c
        PROVE  hid_in_data.x = 0 /\ Released(hid_in_data.y) /\ Released(hid_in_data.z)
    <3>1. Normalise(XyToHdg(pos), cal_data.offset) = 0
      <4>1. Normalise(XyToHdg(c), o) = c - c
        BY <2>1, <2>3, CentredValue
      <4> QED
        BY <2>1, <2>7, <4>1
    <3>2. hid_in_data = [x |-> 0, y |-> -128, z |-> -128]
      BY <2>1, <2>2, <3>1, Centre
    <3> QED
      BY <3>2 DEF Released
  <2> QED
    BY <2>1, <2>5, <2>6, <2>7 DEF AtTheEnds
<1> QED
  BY <1>1, InductiveInvariant, PTL
-----------------------------------------------------------------------------
(* The axis along the way of the stick. *)

(* Numbers, without NaN, and their order.                                  *)
Number == [num : Int, den : Nat \ {0}]
NotAbove(q, r) == q.num * r.den <= r.num * q.den

LEMMA ProductOrder ==
    ASSUME NEW a \in Int, NEW b \in Int, a <= b, NEW c \in Nat
    PROVE  a * c <= b * c
OBVIOUS

(* A fraction lies between the quotient and the next integer. *)
LEMMA QuotientOrder ==
    ASSUME NEW n \in Int, NEW d \in Nat \ {0}, NEW m \in Int, NEW k \in Nat \ {0},
           n * k <= m * d
    PROVE  n \div d <= m \div k
<1> DEFINE a == n \div d
           b == m \div k
<1>1. a \in Int /\ b \in Int
  OBVIOUS
<1>2. a * d <= n /\ m < (b + 1) * k
  OBVIOUS
<1> HIDE DEF a, b
<1>3. ASSUME a >= b + 1 PROVE FALSE
  <2>1. (b + 1) * d <= a * d
    BY <1>1, <1>3, ProductOrder
  <2>2. (b + 1) * d <= n
    BY <1>1, <1>2, <2>1
  <2>3. ((b + 1) * d) * k <= n * k
    BY <1>1, <2>2, ProductOrder
  <2>4. (m + 1) * d <= ((b + 1) * k) * d
    BY <1>1, <1>2, ProductOrder
  <2>5. ((b + 1) * d) * k = ((b + 1) * k) * d
    BY <1>1
  <2>6. (m + 1) * d = m * d + d
    OBVIOUS
  <2> QED
    BY <1>1, <2>3, <2>4, <2>5, <2>6
<1>4. a <= b
  BY <1>1, <1>3
<1> QED
  BY <1>4 DEF a, b

(* limit and the cast keep the order. *)
LEMMA LimitOrder ==
    ASSUME NEW q \in Number, NEW r \in Number, NotAbove(q, r)
    PROVE  /\ Limit(q) \in Number /\ Limit(r) \in Number
           /\ NotAbove(Limit(q), Limit(r))
<1> DEFINE n == q.num
           d == q.den
           m == r.num
           k == r.den
<1>1. n \in Int /\ m \in Int /\ d \in Nat \ {0} /\ k \in Nat \ {0} /\ n * k <= m * d
  BY DEF Number, NotAbove
<1>2. q = [num |-> n, den |-> d] /\ r = [num |-> m, den |-> k]
  BY DEF Number
<1> HIDE DEF n, d, m, k
<1>3. Limit(q) \in Number /\ Limit(r) \in Number
  BY <1>1, <1>2 DEF Limit, Number
<1>4. ASSUME n < -128 * d PROVE NotAbove(Limit(q), Limit(r))
  <2>1. Limit(q) = [num |-> -128, den |-> 1]
    BY <1>2, <1>4 DEF Limit
  <2>2. -128 * Limit(r).den <= Limit(r).num
    BY <1>1, <1>2 DEF Limit
  <2> QED
    BY <1>3, <2>1, <2>2 DEF NotAbove, Number
<1>5. ASSUME m > 127 * k PROVE NotAbove(Limit(q), Limit(r))
  <2>1. ~(m < -128 * k)
    BY <1>1, <1>5
  <2>2. Limit(r) = [num |-> 127, den |-> 1]
    BY <1>2, <1>5, <2>1 DEF Limit
  <2>3. Limit(q).num <= 127 * Limit(q).den
    BY <1>1, <1>2 DEF Limit
  <2> QED
    BY <1>3, <2>2, <2>3 DEF NotAbove, Number
<1>6. ASSUME ~(n < -128 * d), m < -128 * k PROVE FALSE
  <2>1. (-128 * d) * k <= n * k
    BY <1>1, <1>6, ProductOrder
  <2>2. (m + 1) * d <= (-128 * k) * d
    BY <1>1, <1>6, ProductOrder
  <2>3. (m + 1) * d = m * d + d /\ (-128 * d) * k = (-128 * k) * d
    BY <1>1
  <2> QED
    BY <1>1, <2>1, <2>2, <2>3
<1>7. ASSUME n > 127 * d, ~(m > 127 * k) PROVE FALSE
  <2>1. (127 * d + 1) * k <= n * k
    BY <1>1, <1>7, ProductOrder
  <2>2. m * d <= (127 * k) * d
    BY <1>1, <1>7, ProductOrder
  <2>3. (127 * d + 1) * k = (127 * d) * k + k /\ (127 * d) * k = (127 * k) * d
    BY <1>1
  <2> QED
    BY <1>1, <2>1, <2>2, <2>3
<1>8. ASSUME ~(n < -128 * d), ~(n > 127 * d), ~(m < -128 * k), ~(m > 127 * k)
      PROVE  NotAbove(Limit(q), Limit(r))
  BY <1>1, <1>2, <1>8 DEF Limit, NotAbove
<1> QED
  BY <1>3, <1>4, <1>5, <1>6, <1>7, <1>8

LEMMA TruncatedOrder ==
    ASSUME NEW q \in Number, NEW r \in Number, NotAbove(q, r),
           NEW x \in Truncated(q), NEW y \in Truncated(r)
    PROVE  x <= y
<1> DEFINE n == q.num
           d == q.den
           m == r.num
           k == r.den
<1>1. n \in Int /\ m \in Int /\ d \in Nat \ {0} /\ k \in Nat \ {0} /\ n * k <= m * d
  BY DEF Number, NotAbove
<1>2. /\ x = IF n < 0 THEN -((-n) \div d) ELSE n \div d
      /\ y = IF m < 0 THEN -((-m) \div k) ELSE m \div k
  BY <1>1 DEF Truncated, Truncate
<1> HIDE DEF n, d, m, k
<1>3. CASE n < 0 /\ m < 0
  <2>1. -m \in Int /\ -n \in Int /\ (-m) * d <= (-n) * k
    BY <1>1
  <2>2. (-m) \div k <= (-n) \div d
    BY <1>1, <2>1, QuotientOrder
  <2>3. (-m) \div k \in Int /\ (-n) \div d \in Int
    BY <1>1
  <2> QED
    BY <1>2, <1>3, <2>2, <2>3
<1>4. CASE n < 0 /\ ~(m < 0)
  <2>1. -n \in Nat /\ m \in Nat
    BY <1>1, <1>4
  <2>2. (-n) \div d \in Nat /\ m \div k \in Nat
    BY <1>1, <2>1
  <2> QED
    BY <1>2, <1>4, <2>2
<1>5. CASE ~(n < 0) /\ m < 0
  <2>1. 0 <= n * k
    BY <1>1, <1>5
  <2>2. m * d <= -d
    <3>1. m * d <= (-1) * d
      BY <1>1, <1>5, ProductOrder
    <3> QED
      BY <1>1, <3>1
  <2> QED
    BY <1>1, <2>1, <2>2
<1>6. CASE ~(n < 0) /\ ~(m < 0)
  BY <1>1, <1>2, <1>6, QuotientOrder
<1> QED
  BY <1>3, <1>4, <1>5, <1>6

(* The brakes of a calibrated heading: the further to the right, the less  *)
(* of the left one and the more of the right one (joystick.c:147-154).     *)
LEMMA BrakeOrder ==
    ASSUME NEW q \in Number, NEW r \in Number, NotAbove(q, r)
    PROVE  /\ BrakeNeg(q) \in Number /\ BrakeNeg(r) \in Number
           /\ BrakePos(q) \in Number /\ BrakePos(r) \in Number
           /\ NotAbove(BrakeNeg(r), BrakeNeg(q))
           /\ NotAbove(BrakePos(q), BrakePos(r))
<1> DEFINE n == q.num
           d == q.den
           m == r.num
           k == r.den
           Pressed(i, j) == [num |-> 8 * i - 128 * j, den |-> j]
<1>1. n \in Int /\ m \in Int /\ d \in Nat \ {0} /\ k \in Nat \ {0} /\ n * k <= m * d
  BY DEF Number, NotAbove
<1>2. /\ BrakeNeg(q) = IF n < -96 * d THEN Limit(Pressed(-n - 96 * d, d)) ELSE NoBrake
      /\ BrakeNeg(r) = IF m < -96 * k THEN Limit(Pressed(-m - 96 * k, k)) ELSE NoBrake
      /\ BrakePos(q) = IF n > 95 * d THEN Limit(Pressed(n - 95 * d, d)) ELSE NoBrake
      /\ BrakePos(r) = IF m > 95 * k THEN Limit(Pressed(m - 95 * k, k)) ELSE NoBrake
  BY <1>1, BrakeConstants DEF BrakeNeg, BrakePos, Brake
<1> HIDE DEF n, d, m, k
<1>3. NoBrake = [num |-> -128, den |-> 1] /\ NoBrake \in Number
  BY DEF NoBrake, JS_MIN, Number
<1>4. ASSUME NEW i \in Int, NEW j \in Nat \ {0}
      PROVE  /\ Pressed(i, j) \in Number /\ Pressed(i, j) \in Fraction
             /\ Limit(Pressed(i, j)) \in Number
             /\ NotAbove(NoBrake, Limit(Pressed(i, j)))
  <2>1. Pressed(i, j) \in Number /\ Pressed(i, j) \in Fraction
    BY DEF Number, Fraction
  <2> HIDE DEF Pressed
  <2>2. Limit(Pressed(i, j)) \in Number
    BY <2>1 DEF Limit, Number
  <2>3. -128 * Limit(Pressed(i, j)).den <= Limit(Pressed(i, j)).num
    BY <2>1, LimitRange
  <2> QED
    BY <1>3, <2>1, <2>2, <2>3 DEF NotAbove, Number
<1>5. -n - 96 * d \in Int /\ -m - 96 * k \in Int /\ n - 95 * d \in Int /\ m - 95 * k \in Int
  BY <1>1
<1>6. /\ BrakeNeg(q) \in Number /\ BrakeNeg(r) \in Number
      /\ BrakePos(q) \in Number /\ BrakePos(r) \in Number
  <2> HIDE DEF Pressed
  <2> QED
    BY <1>1, <1>2, <1>3, <1>4, <1>5
<1>7. NotAbove(BrakePos(q), BrakePos(r))
  <2>1. CASE ~(n > 95 * d)
    <3> HIDE DEF Pressed
    <3>1. BrakePos(q) = NoBrake
      BY <1>2, <2>1
    <3>2. NotAbove(NoBrake, NoBrake)
      BY <1>3 DEF NotAbove
    <3> QED
      BY <1>1, <1>2, <1>4, <1>5, <3>1, <3>2
  <2>2. CASE n > 95 * d
    <3>1. m > 95 * k
      <4>1. (95 * d + 1) * k <= n * k
        BY <1>1, <2>2, ProductOrder
      <4>2. ASSUME m <= 95 * k PROVE FALSE
        <5>1. m * d <= (95 * k) * d
          BY <1>1, <4>2, ProductOrder
        <5>2. (95 * d + 1) * k = (95 * d) * k + k /\ (95 * d) * k = (95 * k) * d
          BY <1>1
        <5> QED
          BY <1>1, <4>1, <5>1, <5>2
      <4> QED
        BY <1>1, <4>2
    <3>2. NotAbove(Pressed(n - 95 * d, d), Pressed(m - 95 * k, k))
      <4>1. (8 * (n - 95 * d) - 128 * d) * k = 8 * (n * k) - 888 * (d * k)
        BY <1>1
      <4>2. (8 * (m - 95 * k) - 128 * k) * d = 8 * (m * d) - 888 * (d * k)
        BY <1>1
      <4>3. d * k \in Int /\ n * k \in Int /\ m * d \in Int
        BY <1>1
      <4> QED
        BY <1>1, <4>1, <4>2, <4>3 DEF NotAbove
    <3> HIDE DEF Pressed
    <3>3. NotAbove(Limit(Pressed(n - 95 * d, d)), Limit(Pressed(m - 95 * k, k)))
      BY <1>1, <1>4, <1>5, <3>2, LimitOrder
    <3> QED
      BY <1>2, <2>2, <3>1, <3>3
  <2> QED
    BY <2>1, <2>2
<1>8. NotAbove(BrakeNeg(r), BrakeNeg(q))
  <2>1. CASE ~(m < -96 * k)
    <3> HIDE DEF Pressed
    <3>1. BrakeNeg(r) = NoBrake
      BY <1>2, <2>1
    <3>2. NotAbove(NoBrake, NoBrake)
      BY <1>3 DEF NotAbove
    <3> QED
      BY <1>1, <1>2, <1>4, <1>5, <3>1, <3>2
  <2>2. CASE m < -96 * k
    <3>1. n < -96 * d
      <4>1. (m + 1) * d <= (-96 * k) * d
        BY <1>1, <2>2, ProductOrder
      <4>2. ASSUME n >= -96 * d PROVE FALSE
        <5>1. (-96 * d) * k <= n * k
          BY <1>1, <4>2, ProductOrder
        <5>2. (m + 1) * d = m * d + d /\ (-96 * d) * k = (-96 * k) * d
          BY <1>1
        <5> QED
          BY <1>1, <4>1, <5>1, <5>2
      <4> QED
        BY <1>1, <4>2
    <3>2. NotAbove(Pressed(-m - 96 * k, k), Pressed(-n - 96 * d, d))
      <4>1. (8 * (-n - 96 * d) - 128 * d) * k = -8 * (n * k) - 896 * (d * k)
        BY <1>1
      <4>2. (8 * (-m - 96 * k) - 128 * k) * d = -8 * (m * d) - 896 * (d * k)
        BY <1>1
      <4>3. d * k \in Int /\ n * k \in Int /\ m * d \in Int
        BY <1>1
      <4> QED
        BY <1>1, <4>1, <4>2, <4>3 DEF NotAbove
    <3> HIDE DEF Pressed
    <3>3. NotAbove(Limit(Pressed(-m - 96 * k, k)), Limit(Pressed(-n - 96 * d, d)))
      BY <1>1, <1>4, <1>5, <3>2, LimitOrder
    <3> QED
      BY <1>2, <2>2, <3>1, <3>3
  <2> QED
    BY <2>1, <2>2
<1> QED
  BY <1>6, <1>7, <1>8

(* A calibration with its centre between its ends: the angle w from the    *)
(* centre, scaled by the span on its side.                                 *)
Scaled(w, e, f) == [num |-> 128 * w, den |-> IF w < 0 THEN e ELSE f]

LEMMA ScaledOrder ==
    ASSUME NEW e \in Nat \ {0}, NEW f \in Nat \ {0}, NEW v \in Int, NEW w \in Int, v <= w
    PROVE  /\ Scaled(v, e, f) \in Number /\ Scaled(w, e, f) \in Number
           /\ NotAbove(Scaled(v, e, f), Scaled(w, e, f))
<1>1. Scaled(v, e, f) \in Number /\ Scaled(w, e, f) \in Number
  BY DEF Scaled, Number
<1>2. CASE v < 0 /\ ~(w < 0)
  <2>1. (128 * v) * f <= 0 /\ 0 <= (128 * w) * e
    BY <1>2
  <2>2. /\ Scaled(v, e, f) = [num |-> 128 * v, den |-> e]
        /\ Scaled(w, e, f) = [num |-> 128 * w, den |-> f]
    BY <1>2 DEF Scaled
  <2> QED
    BY <1>1, <2>1, <2>2 DEF NotAbove
<1>3. CASE v < 0 /\ w < 0
  <2>1. (128 * v) * e <= (128 * w) * e
    BY ProductOrder
  <2>2. /\ Scaled(v, e, f) = [num |-> 128 * v, den |-> e]
        /\ Scaled(w, e, f) = [num |-> 128 * w, den |-> e]
    BY <1>3 DEF Scaled
  <2> QED
    BY <1>1, <2>1, <2>2 DEF NotAbove
<1>4. CASE ~(v < 0) /\ ~(w < 0)
  <2>1. (128 * v) * f <= (128 * w) * f
    BY ProductOrder
  <2>2. /\ Scaled(v, e, f) = [num |-> 128 * v, den |-> f]
        /\ Scaled(w, e, f) = [num |-> 128 * w, den |-> f]
    BY <1>4 DEF Scaled
  <2> QED
    BY <1>1, <2>1, <2>2 DEF NotAbove
<1> QED
  BY <1>1, <1>2, <1>3, <1>4

LEMMA CalApplyScaled ==
    ASSUME NEW e \in Nat \ {0}, NEW f \in Nat \ {0}, NEW w \in Int, NEW val, NEW cal,
           cal.neg = -e, cal.pos = f, Normalise(val, cal.offset) = w
    PROVE  CalApply(val, cal) = Limit(Scaled(w, e, f))
<1>1. CASE w < 0
  <2>1. Frac(-128 * w, -e) = [num |-> 128 * w, den |-> e]
    BY DEF Frac
  <2> QED
    BY <1>1, <2>1 DEF CalApply, Scaled
<1>2. CASE ~(w < 0)
  <2>1. Frac(128 * w, f) = [num |-> 128 * w, den |-> f]
    BY DEF Frac
  <2> QED
    BY <1>2, <2>1 DEF CalApply, Scaled
<1> QED
  BY <1>1, <1>2

(* Two reports made with one span on either side of the centre. *)
LEMMA ReportOrder ==
    ASSUME NEW e \in Nat \ {0}, NEW f \in Nat \ {0}, NEW v \in Int, NEW w \in Int, v <= w,
           NEW val, NEW cal, cal.neg = -e, cal.pos = f, Normalise(val, cal.offset) = v,
           NEW val2, NEW cal2, cal2.neg = -e, cal2.pos = f, Normalise(val2, cal2.offset) = w,
           NEW r \in Reports(val, cal), NEW s \in Reports(val2, cal2)
    PROVE  r.x <= s.x /\ s.y <= r.y /\ r.z <= s.z
<1> DEFINE g == Limit(Scaled(v, e, f))
           h == Limit(Scaled(w, e, f))
<1>1. CalApply(val, cal) = g /\ CalApply(val2, cal2) = h
  BY CalApplyScaled
<1>2. g \in Number /\ h \in Number /\ NotAbove(g, h)
  BY ScaledOrder, LimitOrder
<1> HIDE DEF g, h
<1>3. /\ r.x \in Truncated(g) /\ r.y \in Truncated(BrakeNeg(g)) /\ r.z \in Truncated(BrakePos(g))
      /\ s.x \in Truncated(h) /\ s.y \in Truncated(BrakeNeg(h)) /\ s.z \in Truncated(BrakePos(h))
  BY <1>1 DEF Reports
<1>4. r.x <= s.x
  BY <1>2, <1>3, TruncatedOrder
<1>5. /\ BrakeNeg(g) \in Number /\ BrakeNeg(h) \in Number
      /\ BrakePos(g) \in Number /\ BrakePos(h) \in Number
      /\ NotAbove(BrakeNeg(h), BrakeNeg(g)) /\ NotAbove(BrakePos(g), BrakePos(h))
  BY <1>2, BrakeOrder
<1>6. s.y <= r.y
  BY <1>3, <1>5, TruncatedOrder
<1>7. r.z <= s.z
  BY <1>3, <1>5, TruncatedOrder
<1> QED
  BY <1>4, <1>6, <1>7

(* What the report was made from, when there is a calibration to go by. *)
MadeFrom ==
    /\ pos \in Int /\ done.ctr \in Int
    /\ \E e \in Nat \ {0}, f \in Nat \ {0} : cal_data.neg = -e /\ cal_data.pos = f
    /\ Normalise(XyToHdg(pos), cal_data.offset) = pos - done.ctr
    /\ hid_in_data \in Reports(XyToHdg(pos), cal_data)

LEMMA ReportMadeFrom ==
    ASSUME IInv, done.ok, done.aligned, WithinHalfTurn(pos)
    PROVE  MadeFrom
<1>1. PICK c \in Int, l \in Int, h \in Int, o \in Int, e \in Nat \ {0}, f \in Nat \ {0} :
             /\ done.ctr = c /\ done.lo = l /\ done.hi = h
             /\ c - l >= Unit /\ h - c >= Unit
             /\ cal_data.offset = o /\ -256 * Unit <= o /\ o <= 256 * Unit
             /\ Congruent(o + c, 0)
             /\ cal_data.neg = -e /\ e - (c - l) < Unit
             /\ cal_data.pos = f /\ f - (h - c) < Unit
  BY CalFitsType
<1>2. pos \in Int /\ hid_in_data \in Reports(XyToHdg(pos), cal_data)
  BY DEF IInv, TypeOK, CalMatches
<1>3. Normalise(XyToHdg(pos), cal_data.offset) = pos - done.ctr
  BY <1>1, <1>2, CentredValue DEF WithinHalfTurn
<1> QED
  BY <1>1, <1>2, <1>3 DEF MadeFrom

(* The axis and the brakes follow the stick: none of them ever turns back  *)
(* while the stick moves on, across the wrap of the heading and across the *)
(* centre, where the multiplier changes (joystick.c:37-44, 124-158), for   *)
(* every resolution, range, speed and sequence of calibrations.            *)
THEOREM AxisAlwaysFollowsStick == Spec => AxisFollowsStick
<1> DEFINE M == WithinHalfTurn(pos) /\ done.ok /\ done.aligned => MadeFrom
           Follows == Usable /\ done.aligned /\ done' = done /\ cal_data' = cal_data
                        /\ WithinHalfTurn(pos) /\ WithinHalfTurn(pos') /\ pos' > pos
                      => /\ hid_in_data'.x >= hid_in_data.x
                         /\ hid_in_data'.y <= hid_in_data.y
                         /\ hid_in_data'.z >= hid_in_data.z
<1>1. IInv => M
  BY ReportMadeFrom
<1>2. M /\ M' => Follows
  <2> SUFFICES ASSUME M, M', Usable, done.aligned, done' = done, cal_data' = cal_data,
                      WithinHalfTurn(pos), WithinHalfTurn(pos'), pos' > pos
               PROVE  /\ hid_in_data'.x >= hid_in_data.x
                      /\ hid_in_data'.y <= hid_in_data.y
                      /\ hid_in_data'.z >= hid_in_data.z
    OBVIOUS
  <2>1. MadeFrom
    BY DEF Usable
  <2>2. MadeFrom'
    <3>1. (WithinHalfTurn(pos))'
      BY DEF WithinHalfTurn
    <3> QED
      BY <3>1 DEF Usable
  <2> HIDE DEF M
  <2>3. PICK e \in Nat \ {0}, f \in Nat \ {0} : cal_data.neg = -e /\ cal_data.pos = f
    BY <2>1 DEF MadeFrom
  <2>4. PICK v \in Int, w \in Int :
          /\ v <= w
          /\ Normalise(XyToHdg(pos), cal_data.offset) = v
          /\ Normalise(XyToHdg(pos'), cal_data.offset) = w
    <3>1. /\ pos \in Int /\ pos' \in Int /\ done.ctr \in Int
          /\ Normalise(XyToHdg(pos), cal_data.offset) = pos - done.ctr
          /\ Normalise(XyToHdg(pos'), cal_data.offset) = pos' - done.ctr
      BY <2>1, <2>2 DEF MadeFrom
    <3>2. pos - done.ctr \in Int /\ pos' - done.ctr \in Int /\ pos - done.ctr <= pos' - done.ctr
      BY <3>1
    <3> QED
      BY <3>1, <3>2
  <2>5. /\ hid_in_data \in Reports(XyToHdg(pos), cal_data)
        /\ hid_in_data' \in Reports(XyToHdg(pos'), cal_data)
    BY <2>1, <2>2 DEF MadeFrom
  <2>6. /\ hid_in_data.x <= hid_in_data'.x
        /\ hid_in_data'.y <= hid_in_data.y
        /\ hid_in_data.z <= hid_in_data'.z
    BY <2>3, <2>4, <2>5, ReportOrder
  <2> QED
    BY <2>6
<1>3. Spec => [][Follows]_vars
  <2> HIDE DEF M, Follows
  <2> QED
    BY <1>1, <1>2, InductiveInvariant, PTL DEF Spec
<1> QED
  BY <1>3 DEF AxisFollowsStick
=============================================================================
