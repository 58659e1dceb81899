------------------------------- MODULE Ems22a -------------------------------
(***************************************************************************)
(* A chain of EMS22A encoders (ems22a.c, ems22a_thread).  Every device     *)
(* sends a dummy bit and then a frame of 16 bits, while the SPI receives   *)
(* words of 16: the frames are cut out of the words in a loop, their       *)
(* parity is checked, and the headings of the intact ones are passed on.   *)
(*                                                                         *)
(* A word is a function from the weights of its bits, most significant bit *)
(* received first.                                                         *)
(***************************************************************************)
EXTENDS Integers, FiniteSets

CONSTANTS ChainLen,     \* EMS22A_CHAIN_LEN
          Streams       \* what may come over the wire

Bit == {0, 1}
Weights == 0 .. 15
Word == [Weights -> Bit]
Positions == 0 .. 16 * ChainLen + 15

(* joystick.c:252: one extra word is enough for 16 devices. *)
ASSUME ChainAssumption ==
    ChainLen \in 1 .. 16 /\ Streams \subseteq [Positions -> Bit]

VARIABLES
    stream,     \* the bits on the wire, in the order they came
    frames,     \* rxbuf
    pc,         \* what the thread is doing
    i,          \* the loop variable of ems22a_receive, then of ems22a_thread
    reported    \* the devices whose heading went to transmit in this round,
                \* with the heading in quarters

vars == <<stream, frames, pc, i, reported>>

(* The words as the SPI stores them. *)
Raw(j) == [b \in Weights |-> stream[16 * j + 15 - b]]

ShiftLeft(w, n) == [b \in Weights |-> IF b >= n THEN w[b - n] ELSE 0]
MutShiftRightOneMore(w, n) == [b \in Weights |-> IF b + n + 1 <= 15 THEN w[b + n + 1] ELSE 0]
ShiftRight(w, n) == [b \in Weights |-> IF b + n <= 15 THEN w[b + n] ELSE 0]
(* The sum of two words without a common bit.  TypeOK shows there is none. *)
Plus(w, v) == [b \in Weights |-> w[b] + v[b]]

(* ems22a_check_parity: 0 when the number of ones among bits 1 to 15 has   *)
(* the parity that bit 0 says.                                             *)
MutCheckParityAllBits(w) == IF Cardinality({b \in Weights : w[b] = 1}) % 2 = w[0] THEN 0 ELSE 1
CheckParity(w) == IF Cardinality({b \in 1 .. 15 : w[b] = 1}) % 2 = w[0] THEN 0 ELSE 1
WithParity(w) == [w EXCEPT ![0] = CheckParity(w)]

(* The fields of ems22a_frame. *)
Value(w) ==
    w[6] + 2 * w[7] + 4 * w[8] + 8 * w[9] + 16 * w[10] + 32 * w[11] + 64 * w[12]
    + 128 * w[13] + 256 * w[14] + 512 * w[15]
(* parity, mag_decrease, mag_increase, linearity_alarm, cordic_oflow *)
Error(w) == \E b \in {0, 1, 2, 3, 4} : w[b] = 1
Quarters(w) == Value(w) - 512

Init ==
    /\ stream \in Streams
    /\ frames = [j \in 0 .. ChainLen |-> [b \in Weights |-> 0]]
    /\ pc = "receive" /\ i = 0
    /\ reported = {}

Receive ==
    /\ pc = "receive"
    /\ stream' \in Streams
    /\ frames' = [j \in 0 .. ChainLen |-> Raw(j)']
    /\ pc' = "convert" /\ i' = 0
    /\ reported' = {}

(* One turn of the conversion: the word loses the dummy bits and the bits  *)
(* that belong to the device before it, which gets them.                   *)
MutConvertKeepsWord ==
    /\ pc = "convert" /\ i <= ChainLen
    /\ LET tmp == ShiftRight(frames[i], 16 - i)
       IN  frames' = IF i = 0 THEN frames
                     ELSE [frames EXCEPT ![i - 1] = WithParity(Plus(frames[i - 1], tmp))]
    /\ i' = i + 1
    /\ UNCHANGED <<stream, pc, reported>>
Convert ==
    /\ pc = "convert" /\ i <= ChainLen
    /\ LET tmp == ShiftRight(frames[i], 16 - i)
           shifted == ShiftLeft(frames[i], i + 1)
       IN  frames' = IF i = 0
                     THEN [frames EXCEPT ![i] = shifted]
                     ELSE [frames EXCEPT ![i] = shifted,
                                         ![i - 1] = WithParity(Plus(frames[i - 1], tmp))]
    /\ i' = i + 1
    /\ UNCHANGED <<stream, pc, reported>>

Converted ==
    /\ pc = "convert" /\ i > ChainLen
    /\ pc' = "report" /\ i' = 0
    /\ UNCHANGED <<stream, frames, reported>>

(* One device: an error is printed, a good heading goes to transmit.       *)
Report ==
    /\ pc = "report" /\ i < ChainLen
    /\ reported' = IF Error(frames[i]) THEN reported
                   ELSE reported \cup {<<i, Quarters(frames[i])>>}
    /\ i' = i + 1
    /\ UNCHANGED <<stream, frames, pc>>

Sleep ==
    /\ pc = "report" /\ i = ChainLen
    /\ pc' = "receive"
    /\ UNCHANGED <<stream, frames, i, reported>>

Next == Receive \/ Convert \/ Converted \/ Report \/ Sleep

Spec == Init /\ [][Next]_vars
-----------------------------------------------------------------------------
(* Every variable stays in its type: no sum has a carry, no shift leaves   *)
(* a word.                                                                 *)
TypeOK ==
    /\ stream \in Streams
    /\ frames \in [0 .. ChainLen -> Word]
    /\ pc \in {"receive", "convert", "report"}
    /\ i \in 0 .. ChainLen + 1
    /\ reported \subseteq (0 .. ChainLen - 1) \X Int

(* What device k sent: the 16 bits after its dummy bit. *)
Sent(k) == [b \in Weights |-> stream[17 * k + 16 - b]]

(* ems22a.c:22: "17 bit to 16 bit data conversion".  Every frame has the   *)
(* bits that its own device sent, with the verdict on the parity in bit 0. *)
FramesCut ==
    pc = "report" => \A k \in 0 .. ChainLen - 1 : frames[k] = WithParity(Sent(k))

(* What a device sent can be trusted: the ones of its frame, the parity    *)
(* bit included, are even in number, and it raised no alarm (the end of    *)
(* offset compensation is none).                                           *)
Intact(w) ==
    /\ Cardinality({b \in Weights : w[b] = 1}) % 2 = 0
    /\ \A b \in 1 .. 4 : w[b] = 0

(* At the end of a round the devices with an intact frame have been        *)
(* reported, and no other: one bad device spoils no other one's reading.   *)
IntactOnesReported ==
    pc = "report" /\ i = ChainLen =>
        reported = {<<k, Quarters(Sent(k))>> : k \in {d \in 0 .. ChainLen - 1 : Intact(Sent(d))}}

=============================================================================
