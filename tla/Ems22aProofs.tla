---------------------------- MODULE Ems22aProofs ----------------------------
(***************************************************************************)
(* The conversion of ems22a.c is right for every chain of up to 16 devices *)
(* and for every stream of bits.                                           *)
(***************************************************************************)
EXTENDS Ems22a, FiniteSetTheorems, TLAPS

Devices == 0 .. ChainLen - 1

(* Before turn i the words before i - 1 are frames, word i - 1 waits for   *)
(* the bits it lacks, and the others are as they were received.            *)
Loop ==
    pc = "convert" =>
        \A k \in 0 .. ChainLen :
            /\ k < i - 1 => frames[k] = WithParity(Sent(k))
            /\ k = i - 1 => frames[k] = ShiftLeft(Raw(k), i)
            /\ k > i - 1 => frames[k] = Raw(k)

SentIn(s, k) == [b \in Weights |-> s[17 * k + 16 - b]]
IntactBefore(s, n) ==
    {<<k, Quarters(SentIn(s, k))>> : k \in {d \in 0 .. n - 1 : Intact(SentIn(s, d))}}

(* The devices before i have been reported, if they were intact.           *)
SoFar ==
    pc = "report" =>
        /\ i <= ChainLen
        /\ reported = IntactBefore(stream, i)

(* Nothing is reported before the conversion is over. *)
Quiet == pc = "convert" => reported = {}

IInv == TypeOK /\ Quiet /\ Loop /\ FramesCut /\ SoFar
-----------------------------------------------------------------------------
(* Lemmas about words. *)

LEMMA BitsOfStream ==
    ASSUME NEW s \in Streams, NEW p \in Int, 0 <= p, p <= 16 * ChainLen + 15
    PROVE  s[p] \in Bit
BY ChainAssumption DEF Positions

LEMMA RawType ==
    ASSUME NEW s \in Streams, NEW j \in 0 .. ChainLen
    PROVE  [b \in Weights |-> s[16 * j + 15 - b]] \in Word
<1>1. ASSUME NEW b \in Weights PROVE s[16 * j + 15 - b] \in Bit
  <2>1. /\ j \in Int /\ b \in Int /\ ChainLen \in Int /\ 0 <= j /\ j <= ChainLen
        /\ 0 <= b /\ b <= 15
    BY ChainAssumption DEF Weights
  <2>2. 16 * j + 15 - b \in Int /\ 0 <= 16 * j + 15 - b /\ 16 * j + 15 - b <= 16 * ChainLen + 15
    BY <2>1
  <2> QED
    BY <2>2, BitsOfStream
<1> QED
  BY <1>1 DEF Word

LEMMA SentType ==
    ASSUME stream \in Streams, NEW k \in Devices
    PROVE  Sent(k) \in Word
<1>1. ASSUME NEW b \in Weights PROVE stream[17 * k + 16 - b] \in Bit
  <2>1. /\ k \in Int /\ b \in Int /\ ChainLen \in Int /\ 0 <= k /\ k <= ChainLen - 1
        /\ 0 <= b /\ b <= 15 /\ ChainLen <= 16
    BY ChainAssumption DEF Weights, Devices
  <2>2. 17 * k + 16 - b \in Int /\ 0 <= 17 * k + 16 - b /\ 17 * k + 16 - b <= 16 * ChainLen + 15
    BY <2>1
  <2> QED
    BY <2>2, BitsOfStream
<1> QED
  BY <1>1 DEF Sent, Word

LEMMA ShiftLeftType ==
    ASSUME NEW w \in Word, NEW n \in Int, 0 <= n
    PROVE  ShiftLeft(w, n) \in Word
<1>1. ASSUME NEW b \in Weights PROVE (IF b >= n THEN w[b - n] ELSE 0) \in Bit
  <2>1. b \in Int /\ 0 <= b /\ b <= 15
    BY DEF Weights
  <2>2. b >= n => b - n \in Weights
    BY <2>1 DEF Weights
  <2> QED
    BY <2>2 DEF Word, Bit
<1> QED
  BY <1>1 DEF ShiftLeft, Word

LEMMA WithParityType == ASSUME NEW w \in Word PROVE WithParity(w) \in Word
BY DEF WithParity, CheckParity, Word, Bit

(* What the loop puts together is what the device before sent: its own     *)
(* word without the dummy bits, and the first i bits of the next word.     *)
LEMMA BitsMeet ==
    ASSUME stream \in Streams, NEW n \in 1 .. ChainLen
    PROVE  Plus(ShiftLeft(Raw(n - 1), n), ShiftRight(Raw(n), 16 - n)) = Sent(n - 1)
<1> DEFINE left == ShiftLeft(Raw(n - 1), n)
           right == ShiftRight(Raw(n), 16 - n)
<1>1. ASSUME NEW b \in Weights
      PROVE  left[b] + right[b] = stream[17 * (n - 1) + 16 - b]
  <2>1. b \in Int /\ 0 <= b /\ b <= 15 /\ n \in Int /\ 1 <= n /\ n <= 16
    BY ChainAssumption DEF Weights
  <2>2. Sent(n - 1)[b] \in Bit
    <3>1. n - 1 \in Devices
      BY ChainAssumption DEF Devices
    <3> QED
      BY <3>1, SentType DEF Word
  <2>3. Sent(n - 1)[b] = stream[17 * (n - 1) + 16 - b]
    BY DEF Sent
  <2>4. CASE b >= n
    <3>1. b - n \in Weights
      BY <2>1, <2>4 DEF Weights
    <3>2. left[b] = stream[16 * (n - 1) + 15 - (b - n)]
      BY <2>4, <3>1 DEF ShiftLeft, Raw
    <3>3. 16 * (n - 1) + 15 - (b - n) = 17 * (n - 1) + 16 - b
      BY <2>1
    <3>4. ~(b + (16 - n) <= 15)
      BY <2>1, <2>4
    <3>5. right[b] = 0
      BY <3>4 DEF ShiftRight
    <3>6. left[b] = Sent(n - 1)[b]
      BY <2>3, <3>2, <3>3
    <3> QED
      BY <2>2, <2>3, <3>5, <3>6 DEF Bit
  <2>5. CASE ~(b >= n)
    <3>1. b + (16 - n) \in Weights /\ b + (16 - n) <= 15
      BY <2>1, <2>5 DEF Weights
    <3>2. right[b] = stream[16 * n + 15 - (b + (16 - n))]
      BY <3>1 DEF ShiftRight, Raw
    <3>3. 16 * n + 15 - (b + (16 - n)) = 17 * (n - 1) + 16 - b
      BY <2>1
    <3>4. left[b] = 0
      BY <2>5 DEF ShiftLeft
    <3>5. right[b] = Sent(n - 1)[b]
      BY <2>3, <3>2, <3>3
    <3> QED
      BY <2>2, <2>3, <3>4, <3>5 DEF Bit
  <2> QED
    BY <2>4, <2>5
<1> QED
  BY <1>1 DEF Plus, Sent
-----------------------------------------------------------------------------
(* The parity of a frame, and what an error is. *)

LEMMA CountOnes ==
    ASSUME NEW w \in Word
    PROVE  /\ Cardinality({b \in 1 .. 15 : w[b] = 1}) \in Nat
           /\ Cardinality({b \in Weights : w[b] = 1})
                = Cardinality({b \in 1 .. 15 : w[b] = 1}) + w[0]
<1> DEFINE ones == {b \in 1 .. 15 : w[b] = 1}
           all == {b \in Weights : w[b] = 1}
<1>1. IsFiniteSet(ones) /\ Cardinality(ones) \in Nat
  <2>1. IsFiniteSet(1 .. 15)
    <3>1. 1 \in Int /\ 15 \in Int
      OBVIOUS
    <3> QED
      BY <3>1, FS_Interval, Zenon
  <2> QED
    BY <2>1, FS_Subset, FS_CardinalityType
<1>2. 0 \in Weights /\ w[0] \in Bit /\ \A b \in Weights : b # 0 => b \in 1 .. 15
  BY DEF Weights, Word
<1>3. \A b \in 1 .. 15 : b \in Weights /\ b # 0
  BY DEF Weights
<1>4. CASE w[0] = 1
  <2>1. all = ones \cup {0} /\ 0 \notin ones
    BY <1>2, <1>3, <1>4
  <2> QED
    BY <1>1, <1>4, <2>1, FS_AddElement
<1>5. CASE w[0] = 0
  <2>1. all = ones
    BY <1>2, <1>3, <1>5
  <2> QED
    BY <1>1, <1>5, <2>1
<1> QED
  BY <1>2, <1>4, <1>5 DEF Bit

LEMMA ErrorMeansNotIntact ==
    ASSUME NEW w \in Word
    PROVE  Error(WithParity(w)) <=> ~Intact(w)
<1>1. WithParity(w)[0] = CheckParity(w) /\ \A b \in 1 .. 4 : WithParity(w)[b] = w[b]
  BY DEF WithParity, Word, Weights
<1>2. CheckParity(w) = 0 <=> Cardinality({b \in Weights : w[b] = 1}) % 2 = 0
  <2>1. PICK c \in Nat : c = Cardinality({b \in 1 .. 15 : w[b] = 1})
    BY CountOnes
  <2>2. Cardinality({b \in Weights : w[b] = 1}) = c + w[0]
    BY <2>1, CountOnes
  <2>3. w[0] = 0 \/ w[0] = 1
    BY DEF Word, Weights, Bit
  <2>4. (c % 2 = w[0]) <=> ((c + w[0]) % 2 = 0)
    <3>1. CASE w[0] = 0
      <4>1. c + 0 = c
        OBVIOUS
      <4> QED
        BY <3>1, <4>1
    <3>2. CASE w[0] = 1
      <4>1. (c % 2 = 1) <=> ((c + 1) % 2 = 0)
        OBVIOUS
      <4> QED
        BY <3>2, <4>1
    <3> QED
      BY <2>3, <3>1, <3>2
  <2> QED
    BY <2>1, <2>2, <2>4 DEF CheckParity
<1>3. CheckParity(w) \in {0, 1}
  BY DEF CheckParity
<1>4. \A b \in 1 .. 4 : w[b] = 0 \/ w[b] = 1
  BY DEF Word, Weights, Bit
<1> QED
  BY <1>1, <1>2, <1>3, <1>4 DEF Error, Intact

LEMMA SameHeading ==
    ASSUME NEW w \in Word
    PROVE  Quarters(WithParity(w)) = Quarters(w) /\ Quarters(w) \in Int
<1>1. \A b \in 6 .. 15 : WithParity(w)[b] = w[b] /\ w[b] \in Int
  BY DEF WithParity, Word, Weights, Bit
<1> QED
  BY <1>1 DEF Quarters, Value
-----------------------------------------------------------------------------
LEMMA TypeInit == Init => TypeOK
<1> SUFFICES ASSUME Init PROVE TypeOK
  OBVIOUS
<1>1. [b \in Weights |-> 0] \in Word
  BY DEF Word, Bit
<1>2. frames \in [0 .. ChainLen -> Word]
  BY <1>1 DEF Init
<1>3. i \in 0 .. ChainLen + 1
  BY ChainAssumption DEF Init
<1> QED
  BY <1>2, <1>3 DEF Init, TypeOK

LEMMA ConvertFrames ==
    ASSUME IInv, Convert
    PROVE  /\ i \in 0 .. ChainLen
           /\ \A k \in 0 .. ChainLen :
                 frames'[k] = IF k = i THEN ShiftLeft(Raw(k), i + 1)
                              ELSE IF k = i - 1 THEN WithParity(Sent(k))
                              ELSE frames[k]
<1>1. i \in 0 .. ChainLen /\ ChainLen \in Int
  BY ChainAssumption DEF Convert, IInv, TypeOK
<1>2. frames[i] = Raw(i)
  BY <1>1 DEF Convert, IInv, Loop
<1>3. CASE i = 0
  <2>1. frames' = [frames EXCEPT ![i] = ShiftLeft(frames[i], i + 1)]
    BY <1>3 DEF Convert
  <2> QED
    BY <1>1, <1>2, <1>3, <2>1 DEF IInv, TypeOK
<1>4. CASE i # 0
  <2>1. i \in 1 .. ChainLen /\ i - 1 \in 0 .. ChainLen
    BY <1>1, <1>4
  <2>2. frames[i - 1] = ShiftLeft(Raw(i - 1), i)
    BY <2>1 DEF Convert, IInv, Loop
  <2>3. Plus(frames[i - 1], ShiftRight(frames[i], 16 - i)) = Sent(i - 1)
    BY <1>2, <2>1, <2>2, BitsMeet DEF IInv, TypeOK
  <2>4. frames' = [frames EXCEPT ![i] = ShiftLeft(frames[i], i + 1),
                                 ![i - 1] = WithParity(Sent(i - 1))]
    BY <1>4, <2>3 DEF Convert
  <2> QED
    BY <1>1, <1>2, <2>1, <2>4 DEF IInv, TypeOK
<1> QED
  BY <1>1, <1>3, <1>4

LEMMA TypeNext == IInv /\ [Next]_vars => TypeOK'
<1> SUFFICES ASSUME IInv, [Next]_vars PROVE TypeOK'
  OBVIOUS
<1>1. TypeOK /\ ChainLen \in Int /\ 1 <= ChainLen
  BY ChainAssumption DEF IInv
<1>2. CASE Receive
  <2>1. ASSUME NEW j \in 0 .. ChainLen PROVE Raw(j)' \in Word
    <3>1. stream' \in Streams
      BY <1>2 DEF Receive
    <3> QED
      BY <3>1, RawType DEF Raw
  <2>2. frames' \in [0 .. ChainLen -> Word]
    BY <1>2, <2>1 DEF Receive
  <2>3. i' \in 0 .. ChainLen + 1
    BY <1>1, <1>2 DEF Receive
  <2> QED
    BY <1>2, <2>2, <2>3 DEF Receive, TypeOK
<1>3. CASE Convert
  <2>1. ASSUME NEW k \in 0 .. ChainLen PROVE frames'[k] \in Word
    <3>1. CASE k = i
      <4>1. i + 1 \in Int /\ 0 <= i + 1
        BY <1>1 DEF TypeOK
      <4>2. ShiftLeft(Raw(k), i + 1) \in Word
        BY <1>1, <4>1, RawType, ShiftLeftType DEF TypeOK, Raw
      <4> QED
        BY <1>3, <3>1, <4>2, ConvertFrames
    <3>2. CASE k # i /\ k = i - 1
      <4>1. k \in Devices
        BY <1>1, <1>3, <3>2 DEF Convert, TypeOK, Devices
      <4>2. WithParity(Sent(k)) \in Word
        BY <1>1, <4>1, SentType, WithParityType DEF TypeOK
      <4> QED
        BY <1>3, <3>2, <4>2, ConvertFrames
    <3>3. CASE k # i /\ k # i - 1
      BY <1>1, <1>3, <3>3, ConvertFrames DEF TypeOK
    <3> QED
      BY <3>1, <3>2, <3>3
  <2>2. frames' \in [0 .. ChainLen -> Word]
    <3>1. DOMAIN frames' = 0 .. ChainLen /\ frames' = [k \in DOMAIN frames' |-> frames'[k]]
      BY <1>1, <1>3 DEF Convert, TypeOK
    <3> QED
      BY <2>1, <3>1
  <2>3. i' \in 0 .. ChainLen + 1
    BY <1>1, <1>3 DEF Convert, TypeOK
  <2> QED
    BY <1>1, <1>3, <2>2, <2>3 DEF Convert, TypeOK
<1>4. CASE Converted
  <2>1. i' \in 0 .. ChainLen + 1
    BY <1>1, <1>4 DEF Converted
  <2> QED
    BY <1>1, <1>4, <2>1 DEF Converted, TypeOK
<1>5. CASE Report
  <2>1. i \in 0 .. ChainLen - 1 /\ i' \in 0 .. ChainLen + 1
    BY <1>1, <1>5 DEF Report, TypeOK
  <2>2. Quarters(frames[i]) \in Int
    BY <1>1, <2>1, SameHeading DEF TypeOK
  <2> QED
    BY <1>1, <1>5, <2>1, <2>2 DEF Report, TypeOK
<1>6. CASE Sleep \/ UNCHANGED vars
  BY <1>1, <1>6 DEF Sleep, vars, TypeOK
<1> QED
  BY <1>2, <1>3, <1>4, <1>5, <1>6 DEF Next

LEMMA LoopNext == ASSUME IInv, [Next]_vars PROVE Loop'
<1>1. ChainLen \in Int /\ i \in Int /\ 0 <= i
  BY ChainAssumption DEF IInv, TypeOK
<1>2. CASE Receive
  <2>1. ASSUME NEW k \in 0 .. ChainLen PROVE frames'[k] = Raw(k)' /\ ~(k < i' - 1) /\ k # i' - 1
    BY <1>2 DEF Receive
  <2> QED
    BY <2>1 DEF Loop
<1>3. CASE Convert
  <2>1. i' = i + 1 /\ stream' = stream /\ pc = "convert"
    BY <1>3 DEF Convert
  <2>2. ASSUME NEW k \in 0 .. ChainLen
        PROVE  /\ k < i' - 1 => frames'[k] = WithParity(Sent(k))
               /\ k = i' - 1 => frames'[k] = ShiftLeft(Raw(k), i')
               /\ k > i' - 1 => frames'[k] = Raw(k)
    <3>1. k \in Int /\ i' - 1 = i
      BY <1>1, <2>1
    <3>2. CASE k = i
      BY <1>1, <1>3, <2>1, <3>1, <3>2, ConvertFrames
    <3>3. CASE k < i
      <4>1. k = i - 1 \/ k < i - 1
        BY <1>1, <3>1, <3>3
      <4>2. k # i
        BY <1>1, <3>1, <3>3
      <4>3. CASE k = i - 1
        BY <1>1, <1>3, <3>1, <3>3, <4>2, <4>3, ConvertFrames
      <4>4. CASE k < i - 1
        <5>1. k # i - 1 /\ frames[k] = WithParity(Sent(k))
          BY <1>1, <2>1, <3>1, <4>4 DEF IInv, Loop
        <5>2. frames'[k] = frames[k]
          BY <1>3, <4>2, <5>1, ConvertFrames
        <5> QED
          BY <1>1, <3>1, <3>3, <5>1, <5>2
      <4> QED
        BY <4>1, <4>3, <4>4
    <3>4. CASE k > i
      <4>1. k # i /\ k # i - 1 /\ k > i - 1
        BY <1>1, <3>1, <3>4
      <4>2. frames[k] = Raw(k)
        BY <2>1, <4>1 DEF IInv, Loop
      <4>3. frames'[k] = frames[k]
        BY <1>3, <4>1, ConvertFrames
      <4> QED
        BY <1>1, <3>1, <3>4, <4>2, <4>3
    <3> QED
      BY <1>1, <3>1, <3>2, <3>3, <3>4
  <2>3. \A k \in 0 .. ChainLen : Sent(k)' = Sent(k) /\ Raw(k)' = Raw(k)
    BY <2>1 DEF Sent, Raw
  <2> QED
    BY <2>2, <2>3 DEF Loop, WithParity, CheckParity, ShiftLeft
<1>4. ASSUME pc' # "convert" PROVE Loop'
  BY <1>4 DEF Loop
<1>5. CASE Converted \/ Report \/ Sleep
  BY <1>4, <1>5 DEF Converted, Report, Sleep
<1>6. CASE UNCHANGED vars
  <2>1. stream' = stream /\ frames' = frames /\ pc' = pc /\ i' = i
    BY <1>6 DEF vars
  <2>2. \A k \in 0 .. ChainLen : Sent(k)' = Sent(k) /\ Raw(k)' = Raw(k)
    BY <2>1 DEF Sent, Raw
  <2> QED
    BY <2>1, <2>2 DEF IInv, Loop, WithParity, CheckParity, ShiftLeft
<1> QED
  BY <1>2, <1>3, <1>5, <1>6 DEF Next

LEMMA FramesCutNext == ASSUME IInv, [Next]_vars PROVE FramesCut'
<1>1. ChainLen \in Int /\ i \in Int
  BY ChainAssumption DEF IInv, TypeOK
<1>2. CASE Converted
  <2>1. ASSUME NEW k \in Devices PROVE frames'[k] = WithParity(Sent(k))
    <3>1. k \in 0 .. ChainLen /\ k < i - 1
      BY <1>1, <1>2 DEF Converted, Devices
    <3> QED
      BY <1>2, <3>1 DEF Converted, IInv, Loop
  <2>2. \A k \in Devices : Sent(k)' = Sent(k)
    BY <1>2 DEF Converted, Sent
  <2>3. \A k \in Devices : WithParity(Sent(k))' = WithParity(Sent(k))
    BY <2>2 DEF WithParity, CheckParity
  <2> QED
    BY <2>1, <2>3 DEF FramesCut, Devices
<1>3. CASE Report \/ UNCHANGED vars
  <2>1. stream' = stream /\ frames' = frames /\ pc' = pc
    BY <1>3 DEF Report, vars
  <2>2. \A k \in Devices : Sent(k)' = Sent(k)
    BY <2>1 DEF Sent
  <2> QED
    BY <2>1, <2>2 DEF IInv, FramesCut, Devices, WithParity, CheckParity
<1>4. CASE Receive \/ Convert \/ Sleep
  BY <1>4 DEF Receive, Convert, Sleep, FramesCut
<1> QED
  BY <1>2, <1>3, <1>4 DEF Next

LEMMA SoFarNext == ASSUME IInv, [Next]_vars PROVE SoFar'
<1>1. ChainLen \in Int /\ i \in Int /\ 0 <= i /\ 1 <= ChainLen
  BY ChainAssumption DEF IInv, TypeOK
<1>2. CASE Converted
  <2>1. i' = 0
    BY <1>2 DEF Converted
  <2>2. reported = {}
    BY <1>2 DEF Converted, IInv, Quiet
  <2>3. IntactBefore(stream', i') = {}
    <3>1. 0 .. i' - 1 = {}
      BY <2>1
    <3> QED
      BY <3>1 DEF IntactBefore
  <2> QED
    BY <1>1, <1>2, <2>1, <2>2, <2>3 DEF Converted, SoFar
<1>3. CASE Report
  <2>1. i' = i + 1 /\ i \in Devices /\ i' <= ChainLen /\ stream' = stream /\ pc = "report"
    BY <1>1, <1>3 DEF Report, Devices
  <2>2. frames[i] = WithParity(Sent(i)) /\ Sent(i) \in Word
    BY <2>1, SentType DEF IInv, FramesCut, TypeOK, Devices
  <2>3. Error(frames[i]) <=> ~Intact(Sent(i))
    BY <2>2, ErrorMeansNotIntact
  <2>4. Quarters(frames[i]) = Quarters(Sent(i))
    BY <2>2, SameHeading
  <2>5. reported' = IF Intact(Sent(i)) THEN reported \cup {<<i, Quarters(Sent(i))>>} ELSE reported
    BY <1>3, <2>3, <2>4 DEF Report
  <2>6. reported = IntactBefore(stream, i)
    BY <2>1 DEF IInv, SoFar
  <2>7. 0 .. i' - 1 = (0 .. i - 1) \cup {i}
    BY <1>1, <2>1
  <2>8. Sent(i) = SentIn(stream, i)
    BY DEF Sent, SentIn
  <2>9. reported' = IntactBefore(stream, i')
    BY <2>5, <2>6, <2>7, <2>8 DEF IntactBefore
  <2> QED
    BY <2>1, <2>9 DEF SoFar
<1>4. ASSUME pc' # "report" PROVE SoFar'
  BY <1>4 DEF SoFar
<1>5. CASE Receive \/ Convert \/ Sleep
  BY <1>4, <1>5 DEF Receive, Convert, Sleep
<1>6. CASE UNCHANGED vars
  <2>1. stream' = stream /\ pc' = pc /\ i' = i /\ reported' = reported
    BY <1>6 DEF vars
  <2> QED
    BY <2>1 DEF IInv, SoFar
<1> QED
  BY <1>2, <1>3, <1>5, <1>6 DEF Next

LEMMA QuietNext == ASSUME IInv, [Next]_vars PROVE Quiet'
BY DEF IInv, Quiet, Next, Receive, Convert, Converted, Report, Sleep, vars

LEMMA InductiveInvariant == Spec => []IInv
<1>1. Init => IInv
  BY TypeInit DEF Init, IInv, Loop, FramesCut, SoFar, Quiet
<1>2. IInv /\ [Next]_vars => IInv'
  BY TypeNext, QuietNext, LoopNext, FramesCutNext, SoFarNext DEF IInv
<1> QED
  BY <1>1, <1>2, PTL DEF Spec

(* ems22a.c:24-31 for every stream and every chain of up to 16 devices: no *)
(* sum of two words has a carry.                                           *)
THEOREM EncoderTypeCorrect == Spec => []TypeOK
<1>1. IInv => TypeOK
  BY DEF IInv
<1> QED
  BY <1>1, InductiveInvariant, PTL

(* The conversion gives every device the bits it sent (ems22a.c:22), for   *)
(* every chain that the extra word has room for (joystick.c:252).          *)
THEOREM EveryFrameCut == Spec => []FramesCut
<1>1. IInv => FramesCut
  BY DEF IInv
<1> QED
  BY <1>1, InductiveInvariant, PTL

(* ems22a_thread passes on the heading of every intact device and of no    *)
(* other (joystick.c:261-273).                                             *)
THEOREM IntactDevicesReported == Spec => []IntactOnesReported
<1>1. IInv => IntactOnesReported
  BY DEF IInv, SoFar, IntactOnesReported, IntactBefore, SentIn, Sent
<1> QED
  BY <1>1, InductiveInvariant, PTL
=============================================================================
