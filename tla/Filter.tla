------------------------------- MODULE Filter -------------------------------
(***************************************************************************)
(* One axis of a reading, from the bytes of the magnetometer to the        *)
(* smoothed value (lsm303.c:42-53, joystick.c:168-181, 191-204).  The      *)
(* result of the reading is not looked at: after a failed one the sample   *)
(* is the one before, and at first whatever the stack holds.               *)
(***************************************************************************)
EXTENDS Integers

CONSTANT Byte       \* the number of values of a byte, 256 in the code

ASSUME ByteAssumption == Byte \in Nat /\ Byte > 0 /\ Byte % 2 = 0

Size == Byte * Byte
Half == Byte * (Byte \div 2)

(* An assignment to a type that is not signed. *)
MutInt16(v) == v % Size

(* An assignment to an int16_t, and the values it can have. *)
Int16(v) == ((v + Half) % Size) - Half
Words == -Half .. Half - 1

(* (in[0] << 8) | in[1]: the high byte comes first. *)
MutFromBytes(in) == Int16(in[2] * Byte + in[1])
FromBytes(in) == Int16(in[1] * Byte + in[2])

(* Division in C goes towards zero. *)
Div8(v) == IF v >= 0 THEN v \div 8 ELSE -((-v) \div 8)

(* The product is kept in an int16_t. *)
MutSmooth(b, d) == Int16(Div8(Int16(b * 7 + d)))

(* A stronger filter. *)
MutSmoothMore(b, d) == Int16((b * 15 + d) \div 16)

(* (buf * 7 + data) / 8, as an int, and stored in an int16_t. *)
Smooth(b, d) == Int16(Div8(b * 7 + d))

VARIABLES
    field,      \* the field that the sensor has measured last
    good,       \* the last reading has succeeded
    data,       \* the sample, an int16_t
    buf         \* its smoothed value, an int16_t

filterVars == <<field, good, data, buf>>

FilterInit ==
    /\ field \in Words
    /\ good = FALSE
    /\ data \in Words       \* not initialised
    /\ buf = 0

(* What the sensor sends: the bytes of a value, the higher one first. *)
Bytes(v) == <<(v % Size) \div Byte, v % Byte>>

(* One turn of lsm303c_thread or lsm303dlhc_thread, when lsm303_read gets  *)
(* its bytes and when it does not.                                         *)
SampleOk ==
    /\ field' \in Words
    /\ data' = FromBytes(Bytes(field'))
    /\ buf' = Smooth(buf, data')
    /\ good' = TRUE

SampleFails ==
    /\ good' = FALSE
    /\ buf' = Smooth(buf, data)
    /\ UNCHANGED <<field, data>>

FilterNext == SampleOk \/ SampleFails

(* The thread goes on (I2cBus); nothing is said about its readings. *)
FilterSpec == FilterInit /\ [][FilterNext]_filterVars /\ WF_filterVars(FilterNext)
-----------------------------------------------------------------------------
(* Types. *)
FilterTypeOK ==
    /\ field \in Words /\ data \in Words /\ buf \in Words
    /\ good \in BOOLEAN

(* After a reading that succeeded the sample is what the sensor measured,  *)
(* sign and all (lsm303.c:48-50).                                          *)
SampleIsField == good => data = field

(* A step of the filter goes from the old value towards the sample and     *)
(* never past it, at the ends of the range of an int16_t included          *)
(* (joystick.c:179-180).                                                   *)
Between(a, b, c) == (b <= a /\ a <= c) \/ (c <= a /\ a <= b)
NoOvershoot == [][Between(buf', buf, data')]_filterVars

(* Whatever was sampled before, be it stale or never initialised, is       *)
(* forgotten: while the sample stays the same, the smoothed value comes    *)
(* within 7 of it, and stays there.                                        *)
Settles == \A v \in Words : <>[](data = v) => <>[](buf - v \in -7 .. 7)
=============================================================================
