--------------------------- MODULE CalStoreProofs ---------------------------
(***************************************************************************)
(* What CalStore guarantees for every number of calibrations and restarts, *)
(* when the sensor thread ends a calibration while the shell waits for it. *)
(***************************************************************************)
EXTENDS CalStore, TLAPS

Copying == pc \in {"copy_neg", "copy_pos", "copy_offset"}

(* The shell does anything else only while no calibration is running.      *)
Quiet ==
    /\ pc \notin {"key", "settle"} => ~jscal_switch /\ state = "JSCAL_OFF"
    /\ pc = "settle" => ~jscal_switch
    /\ state = "JSCAL_END" => ~jscal_switch
    /\ booting => pc = "load" \/ Copying
    /\ jscal_switch \/ state # "JSCAL_OFF" => cals < MaxCals
    /\ cals <= MaxCals

(* The calibration in use is whole, except between the copies of cal_load. *)
RamWhole ==
    /\ pc \notin {"copy_pos", "copy_offset"} => \E c \in 0 .. cals : ram = Whole(c)
    /\ ram.offset \in 0 .. cals
    /\ pc = "copy_pos" => ram.neg = buffer.neg /\ ram.pos = ram.offset
    /\ pc = "copy_offset" => ram.neg = buffer.neg /\ ram.pos = buffer.pos

(* What cal_load copies is what the sector holds.                          *)
BufferSaved ==
    Copying => \E c \in 0 .. cals :
                  buffer = Whole(c) /\ \A i \in Slots : flash[i] = FrameWord(i, Whole(c))

(* While flash_write programs, the sector is a prefix of what it was given. *)
Progress ==
    pc = "program" =>
        /\ acked = Garbage
        /\ k <= Length + 1
        /\ \A i \in Slots : flash[i] = IF i < k THEN WordToProgram(i) ELSE Erased

IInv == TypeOK /\ Quiet /\ RamWhole /\ BufferSaved /\ Progress /\ FlashWhole /\ AckedIsDurable
-----------------------------------------------------------------------------
(* Lemmas about the frame. *)

LEMMA LayoutType ==
    /\ \A i \in Slots : Layout[i] \in {"start", "offset", "neg", "pos", "end"}
    /\ Layout[1] = "start" /\ Layout[2] = "start" /\ Layout[9] = "end" /\ Layout[10] = "end"
    /\ Layout[3] = "offset" /\ Layout[4] = "offset" /\ Layout[5] = "neg" /\ Layout[6] = "neg"
    /\ Layout[7] = "pos" /\ Layout[8] = "pos"
BY DEF Layout, Slots

LEMMA WholeType == ASSUME NEW c \in Numbers PROVE Whole(c) \in Data
BY DEF Whole, Data

LEMMA FrameWordType ==
    ASSUME NEW d \in Data, NEW i \in Slots
    PROVE  FrameWord(i, d) \in Words
<1>1. Layout[i] \in DataFields => d[Layout[i]] \in Numbers
  BY DEF Data
<1>2. 0 \in Numbers
  BY DEF Numbers
<1> QED
  BY <1>1, <1>2, LayoutType DEF FrameWord, Words

(* An erased half-word and a half-word of the pattern are none of a frame. *)
LEMMA NotAFrameWord ==
    ASSUME NEW i \in Slots, NEW d
    PROVE  FrameWord(i, d) # Erased /\ FrameWord(i, d) # Hello
<1>1. FrameWord(i, d).of = Layout[i] /\ Erased.of = "erased" /\ Hello.of = "pattern"
  BY DEF FrameWord, Erased, Hello
<1>2. Layout[i] # "erased" /\ Layout[i] # "pattern"
  BY LayoutType
<1> QED
  BY <1>1, <1>2

(* A sector that holds a whole frame passes the check of cal_load, which   *)
(* then finds the floats of that frame.                                    *)
LEMMA WholeSector ==
    ASSUME NEW c \in Nat, NEW f, \A i \in Slots : f[i] = FrameWord(i, Whole(c))
    PROVE  MarkersMatch(f) /\ DataOf(f) = Whole(c)
<1>1. MarkersMatch(f)
  <2>1. ASSUME NEW i \in {1, 2, 9, 10} PROVE f[i] = FrameWord(i, Whole(0))
    <3>1. i \in Slots /\ Layout[i] \notin DataFields
      BY LayoutType DEF Slots, DataFields
    <3> QED
      BY <3>1 DEF FrameWord
  <2> QED
    BY <2>1 DEF MarkersMatch
<1>2. ASSUME NEW n \in DataFields, NEW s \in {3, 5, 7}, FirstSlot[n] = s,
             Layout[s] = n, Layout[s + 1] = n
      PROVE  DataOf(f)[n] = c
  <2>1. s \in Slots /\ s + 1 \in Slots
    BY DEF Slots
  <2>2. f[s] = [of |-> n, cal |-> c] /\ f[s + 1] = [of |-> n, cal |-> c]
    BY <1>2, <2>1 DEF FrameWord, Whole
  <2> QED
    BY <1>2, <2>2 DEF DataOf
<1>3. \A n \in DataFields : DataOf(f)[n] = c
  <2>1. /\ FirstSlot["offset"] = 3 /\ FirstSlot["neg"] = 5 /\ FirstSlot["pos"] = 7
    BY DEF FirstSlot
  <2>2. DataOf(f)["offset"] = c
    BY <1>2, <2>1, LayoutType DEF DataFields
  <2>3. DataOf(f)["neg"] = c
    BY <1>2, <2>1, LayoutType DEF DataFields
  <2>4. DataOf(f)["pos"] = c
    BY <1>2, <2>1, LayoutType DEF DataFields
  <2> QED
    BY <2>2, <2>3, <2>4 DEF DataFields
<1> QED
  BY <1>1, <1>3 DEF DataOf, Whole

LEMMA DataOfType == ASSUME NEW f \in [Slots -> Words] PROVE DataOf(f) \in Data
<1>1. ASSUME NEW n \in DataFields
      PROVE  (IF f[FirstSlot[n]].of = n /\ f[FirstSlot[n] + 1] = f[FirstSlot[n]]
              THEN f[FirstSlot[n]].cal ELSE Garbage) \in Numbers
  <2>1. FirstSlot[n] \in Slots
    BY DEF FirstSlot, DataFields, Slots
  <2>2. f[FirstSlot[n]].cal \in Numbers
    BY <2>1 DEF Words
  <2> QED
    BY <2>2 DEF Numbers
<1> QED
  BY <1>1 DEF DataOf, Data
-----------------------------------------------------------------------------
LEMMA TypeInit == Init => TypeOK
<1> SUFFICES ASSUME Init PROVE TypeOK
  OBVIOUS
<1>1. 0 \in Numbers /\ Garbage \in Numbers
  BY DEF Numbers, Garbage
<1>2. ram \in Data /\ buffer \in Data
  BY <1>1, WholeType DEF Init
<1>3. flash \in [Slots -> Words]
  BY <1>1 DEF Init, Erased, Words
<1>4. boots \in 0 .. MaxBoots /\ cals \in Nat /\ k \in 1 .. 11
  BY StoreAssumption DEF Init
<1>5. /\ jscal_switch \in BOOLEAN /\ booting \in BOOLEAN
      /\ state \in {"JSCAL_OFF", "JSCAL_ON", "JSCAL_END"}
      /\ pc \in {"prompt", "key", "settle", "erase", "program", "load",
                 "copy_neg", "copy_pos", "copy_offset"}
      /\ writing \in {"frame", "pattern"}
      /\ acked \in Numbers
  BY <1>1 DEF Init
<1> QED
  BY <1>2, <1>3, <1>4, <1>5 DEF TypeOK

(* A step of the three actions that copy one float keeps the types.        *)
LEMMA CopyType ==
    ASSUME TypeOK, NEW field \in DataFields, NEW from, NEW to, Copy(field, from, to)
    PROVE  ram' \in Data
<1>1. buffer[field] \in Numbers
  BY DEF TypeOK, Data
<1> QED
  BY <1>1 DEF Copy, TypeOK, Data

LEMMA TypeNext == TypeOK /\ [Next]_vars => TypeOK'
<1> SUFFICES ASSUME TypeOK, [Next]_vars PROVE TypeOK'
  OBVIOUS
<1>1. 0 \in Numbers /\ Garbage \in Numbers /\ \A c \in Nat : c \in Numbers
  BY DEF Numbers, Garbage
<1>2. CASE SensorBegin
  BY <1>2 DEF SensorBegin, TypeOK
<1>3. CASE SensorSeesOff
  BY <1>3 DEF SensorSeesOff, TypeOK
<1>4. CASE SensorEnd
  <2>1. cals' \in Nat
    BY <1>4 DEF SensorEnd, TypeOK
  <2>2. ram' \in Data
    BY <1>1, <1>4, <2>1, WholeType DEF SensorEnd
  <2> QED
    BY <1>4, <2>1, <2>2 DEF SensorEnd, TypeOK
<1>5. CASE Cal
  BY <1>5 DEF Cal, TypeOK
<1>6. CASE CalKey
  BY <1>6 DEF CalKey, TypeOK
<1>7. CASE CalSettled
  BY <1>7 DEF CalSettled, TypeOK
<1>8. CASE \E what \in {"frame", "pattern"} : FlashWrite(what)
  BY <1>8 DEF FlashWrite, TypeOK
<1>9. CASE Erase
  <2>1. flash' \in [Slots -> Words]
    BY <1>1, <1>9 DEF Erase, Erased, Words
  <2> QED
    BY <1>1, <1>9, <2>1 DEF Erase, TypeOK
<1>10. CASE Program
  <2>1. k \in Slots /\ k' \in 1 .. 11
    BY <1>10 DEF Program, Length, Slots, TypeOK
  <2>2. WordToProgram(k) \in Words
    <3>1. FrameWord(k, ram) \in Words
      BY <2>1, FrameWordType DEF TypeOK
    <3>2. Hello \in Words
      BY <1>1 DEF Hello, Words
    <3> QED
      BY <3>1, <3>2 DEF WordToProgram
  <2>3. flash' \in [Slots -> Words]
    BY <1>10, <2>2 DEF Program, TypeOK
  <2> QED
    BY <1>10, <2>1, <2>3 DEF Program, TypeOK
<1>11. CASE Written
  <2>1. ram.offset \in Numbers
    BY DEF TypeOK, Data, DataFields
  <2> QED
    BY <1>11, <2>1 DEF Written, TypeOK
<1>12. CASE WriteFails
  BY <1>12 DEF WriteFails, TypeOK
<1>13. CASE LoadCommand
  BY <1>13 DEF LoadCommand, TypeOK
<1>14. CASE LoadRead
  <2>1. buffer' \in Data
    BY <1>14, DataOfType DEF LoadRead, TypeOK
  <2> QED
    BY <1>14, <2>1 DEF LoadRead, TypeOK
<1>15. CASE LoadFails
  BY <1>15 DEF LoadFails, TypeOK
<1>16. CASE CopyNeg \/ CopyPos \/ CopyOffset
  <2>1. ram' \in Data
    BY <1>16, CopyType DEF CopyNeg, CopyPos, CopyOffset, DataFields
  <2> QED
    BY <1>16, <2>1 DEF CopyNeg, CopyPos, CopyOffset, Copy, TypeOK
<1>17. CASE Restart
  <2>1. boots' \in 0 .. MaxBoots
    BY <1>17, StoreAssumption DEF Restart, TypeOK
  <2>2. ram' \in Data
    BY <1>1, <1>17, WholeType DEF Restart
  <2> QED
    BY <1>17, <2>1, <2>2 DEF Restart, TypeOK
<1>18. CASE UNCHANGED vars
  BY <1>18 DEF vars, TypeOK
<1> QED
  BY <1>2, <1>3, <1>4, <1>5, <1>6, <1>7, <1>8, <1>9, <1>10, <1>11, <1>12, <1>13, <1>14,
     <1>15, <1>16, <1>17, <1>18 DEF Next
-----------------------------------------------------------------------------
(* The invariant.  The lemmas below follow one part each through the       *)
(* actions that touch what it talks about.                                 *)

LEMMA IInvInit == Init => IInv
<1> SUFFICES ASSUME Init PROVE IInv
  OBVIOUS
<1>1. TypeOK
  BY TypeInit
<1>2. Quiet /\ BufferSaved /\ Progress /\ AckedIsDurable
  BY StoreAssumption DEF Init, Quiet, Copying, BufferSaved, Progress, AckedIsDurable
<1>3. RamWhole
  <2>1. ram = Whole(0) /\ 0 \in 0 .. cals /\ ram.offset = 0
    BY DEF Init, Whole, DataFields
  <2> QED
    BY <2>1 DEF Init, RamWhole
<1>4. FlashWhole
  <2>1. flash[1] = Erased /\ 1 \in Slots
    BY DEF Init, Slots
  <2> QED
    BY <2>1, NotAFrameWord DEF FlashWhole, MarkersMatch
<1> QED
  BY <1>1, <1>2, <1>3, <1>4 DEF IInv

LEMMA QuietNext == ASSUME SensorInTime, IInv, [Next]_vars PROVE Quiet'
<1> USE DEF IInv, TypeOK, Quiet, Copying
<1>1. CASE SensorBegin \/ SensorSeesOff
  BY <1>1 DEF SensorBegin, SensorSeesOff
<1>9. CASE SensorEnd
  <2>1. cals \in Int /\ MaxCals \in Int /\ cals < MaxCals /\ cals' = cals + 1
    BY <1>9, StoreAssumption DEF SensorEnd
  <2>2. cals' <= MaxCals
    BY <2>1
  <2>3. ~jscal_switch'
    BY <1>9 DEF SensorEnd
  <2> QED
    BY <1>9, <2>2, <2>3 DEF SensorEnd
<1>2. CASE Cal \/ CalKey \/ CalSettled
  BY <1>2 DEF Cal, CalKey, CalSettled
<1>3. CASE \E what \in {"frame", "pattern"} : FlashWrite(what)
  BY <1>3 DEF FlashWrite
<1>4. CASE Erase \/ Program \/ Written \/ WriteFails
  BY <1>4 DEF Erase, Program, Written, WriteFails
<1>5. CASE LoadCommand \/ LoadRead \/ LoadFails
  BY <1>5 DEF LoadCommand, LoadRead, LoadFails
<1>6. CASE CopyNeg \/ CopyPos \/ CopyOffset
  BY <1>6 DEF CopyNeg, CopyPos, CopyOffset, Copy
<1>7. CASE Restart
  BY <1>7 DEF Restart
<1>8. CASE UNCHANGED vars
  BY <1>8 DEF vars
<1> QED
  BY <1>1, <1>2, <1>3, <1>4, <1>5, <1>6, <1>7, <1>8, <1>9 DEF Next

(* A frame accepted by cal_load is whole, and what cal_load found in it is *)
(* one calibration.                                                        *)
LEMMA AcceptedFrame ==
    ASSUME IInv, MarkersMatch(flash)
    PROVE  \E c \in 0 .. cals : /\ DataOf(flash) = Whole(c)
                                /\ \A i \in Slots : flash[i] = FrameWord(i, Whole(c))
<1>1. PICK c \in 0 .. cals : \A i \in Slots : flash[i] = FrameWord(i, Whole(c))
  BY DEF IInv, FlashWhole
<1>2. c \in Nat
  BY DEF IInv, TypeOK
<1> QED
  BY <1>1, <1>2, WholeSector

LEMMA RamWholeNext == ASSUME SensorInTime, IInv, [Next]_vars PROVE RamWhole'
<1>1. cals \in Nat /\ ram \in Data
  BY DEF IInv, TypeOK
<1>2. CASE SensorEnd
  <2>1. cals' \in 0 .. cals' /\ ram' = Whole(cals') /\ ram'.offset = cals'
    BY <1>1, <1>2 DEF SensorEnd, Whole, DataFields
  <2>2. pc' \notin {"copy_pos", "copy_offset"}
    BY <1>2 DEF SensorEnd, IInv, Quiet
  <2> QED
    BY <2>1, <2>2 DEF RamWhole
<1>3. CASE Restart
  <2>1. 0 \in 0 .. cals' /\ ram' = Whole(0) /\ ram'.offset = 0
    BY <1>1, <1>3 DEF Restart, Whole, DataFields
  <2> QED
    BY <1>3, <2>1 DEF RamWhole, Restart
<1>4. CASE CopyNeg
  <2>1. /\ ram'.offset = ram.offset /\ ram'.neg = buffer.neg /\ ram'.pos = ram.pos
    BY <1>1, <1>4 DEF CopyNeg, Copy, Data, DataFields
  <2>2. PICK a \in 0 .. cals : ram = Whole(a)
    BY <1>4 DEF CopyNeg, Copy, IInv, RamWhole
  <2>3. ram'.pos = ram'.offset
    BY <2>1, <2>2 DEF Whole, DataFields
  <2> QED
    BY <1>4, <2>1, <2>3 DEF CopyNeg, Copy, IInv, RamWhole
<1>5. CASE CopyPos
  <2>1. ram'.offset = ram.offset /\ ram'.pos = buffer.pos /\ ram'.neg = ram.neg
    BY <1>1, <1>5 DEF CopyPos, Copy, Data, DataFields
  <2> QED
    BY <1>5, <2>1 DEF CopyPos, Copy, IInv, RamWhole
<1>6. CASE CopyOffset
  <2>1. PICK c \in 0 .. cals : buffer = Whole(c)
    BY <1>6 DEF CopyOffset, Copy, IInv, BufferSaved, Copying
  <2>2. buffer.neg = c /\ buffer.pos = c /\ buffer.offset = c
    BY <2>1 DEF Whole, DataFields
  <2>3. ram'.offset = c /\ ram'.neg = c /\ ram'.pos = c
    BY <1>1, <1>6, <2>2 DEF CopyOffset, Copy, IInv, RamWhole, Data, DataFields
  <2>4. ram' \in Data
    BY <1>6, CopyType DEF CopyOffset, IInv, DataFields
  <2>5. ram' = Whole(c)
    BY <2>3, <2>4 DEF Data, Whole, DataFields
  <2> QED
    BY <1>6, <2>3, <2>5 DEF CopyOffset, Copy, RamWhole
<1>7. ASSUME UNCHANGED <<ram, cals>>, pc \notin {"copy_pos", "copy_offset"},
             pc' \notin {"copy_pos", "copy_offset"}
      PROVE  RamWhole'
  BY <1>7 DEF IInv, RamWhole
<1>8. CASE SensorBegin \/ SensorSeesOff
  BY <1>7, <1>8 DEF SensorBegin, SensorSeesOff, IInv, Quiet
<1>9. CASE Cal \/ CalKey \/ CalSettled \/ \E what \in {"frame", "pattern"} : FlashWrite(what)
  BY <1>7, <1>9 DEF Cal, CalKey, CalSettled, FlashWrite
<1>10. CASE Erase \/ Program \/ Written \/ WriteFails
  BY <1>7, <1>10 DEF Erase, Program, Written, WriteFails
<1>11. CASE LoadCommand \/ LoadRead \/ LoadFails
  BY <1>7, <1>11 DEF LoadCommand, LoadRead, LoadFails
<1>12. CASE UNCHANGED vars
  BY <1>12 DEF vars, IInv, RamWhole
<1> QED
  BY <1>2, <1>3, <1>4, <1>5, <1>6, <1>8, <1>9, <1>10, <1>11, <1>12 DEF Next

LEMMA BufferSavedNext == ASSUME SensorInTime, IInv, [Next]_vars PROVE BufferSaved'
<1>1. CASE LoadRead
  <2>1. \E c \in 0 .. cals : /\ buffer' = Whole(c)
                             /\ \A i \in Slots : flash[i] = FrameWord(i, Whole(c))
    BY <1>1, AcceptedFrame DEF LoadRead
  <2> QED
    BY <1>1, <2>1 DEF LoadRead, BufferSaved
<1>2. ASSUME UNCHANGED <<buffer, flash, cals>>, Copying' => Copying PROVE BufferSaved'
  BY <1>2 DEF IInv, BufferSaved
<1>3. ASSUME ~Copying' PROVE BufferSaved'
  BY <1>3 DEF BufferSaved
<1>4. CASE SensorBegin \/ SensorSeesOff
  BY <1>2, <1>4 DEF SensorBegin, SensorSeesOff, Copying
<1>5. CASE SensorEnd
  BY <1>3, <1>5 DEF SensorEnd, IInv, Quiet, Copying
<1>6. CASE Cal \/ CalKey \/ CalSettled \/ \E what \in {"frame", "pattern"} : FlashWrite(what)
  BY <1>3, <1>6 DEF Cal, CalKey, CalSettled, FlashWrite, Copying
<1>7. CASE Erase \/ Program \/ Written \/ WriteFails
  BY <1>3, <1>7 DEF Erase, Program, Written, WriteFails, Copying
<1>8. CASE LoadCommand \/ LoadFails \/ Restart
  BY <1>3, <1>8 DEF LoadCommand, LoadFails, Restart, Copying
<1>9. CASE CopyNeg \/ CopyPos \/ CopyOffset
  BY <1>2, <1>9 DEF CopyNeg, CopyPos, CopyOffset, Copy, Copying
<1>10. CASE UNCHANGED vars
  BY <1>2, <1>10 DEF vars, Copying
<1> QED
  BY <1>1, <1>4, <1>5, <1>6, <1>7, <1>8, <1>9, <1>10 DEF Next

LEMMA ProgressNext == ASSUME SensorInTime, IInv, [Next]_vars PROVE Progress'
<1>1. CASE Erase
  <2>1. Length' = 7 \/ Length' = 10
    BY DEF Length
  <2>2. k' = 1 /\ acked' = Garbage /\ \A i \in Slots : flash'[i] = Erased /\ ~(i < k')
    BY <1>1 DEF Erase, Slots
  <2>4. k' = 1
    BY <2>2
  <2>3. k' <= Length' + 1
    <3>1. CASE Length' = 7
      BY <2>4, <3>1
    <3>2. CASE Length' = 10
      BY <2>4, <3>2
    <3> QED
      BY <2>1, <3>1, <3>2
  <2> QED
    BY <2>1, <2>2, <2>3 DEF Progress
<1>2. CASE Program
  <2>1. /\ acked' = Garbage /\ k \in Slots /\ k' = k + 1 /\ Length \in {7, 10} /\ k <= Length
        /\ ram' = ram /\ writing' = writing
    BY <1>2 DEF Program, Length, Slots, IInv, TypeOK, Progress
  <2>4. Length' = Length
    BY <2>1 DEF Length
  <2>5. k \in Int
    BY <2>1 DEF Slots
  <2>2. k' <= Length' + 1
    BY <2>1, <2>4, <2>5
  <2>3. ASSUME NEW i \in Slots
        PROVE  flash'[i] = IF i < k' THEN WordToProgram(i)' ELSE Erased
    <3>1. WordToProgram(i)' = WordToProgram(i)
      BY <2>1 DEF WordToProgram, FrameWord
    <3>2. flash[i] = IF i < k THEN WordToProgram(i) ELSE Erased
      BY <1>2 DEF Program, IInv, Progress
    <3>3. flash'[i] = IF i = k THEN WordToProgram(k) ELSE flash[i]
      BY <1>2, <2>1 DEF Program, IInv, TypeOK
    <3>4. i \in Int /\ k \in Int
      BY <2>1 DEF Slots
    <3> QED
      BY <2>1, <3>1, <3>2, <3>3, <3>4
  <2> QED
    BY <2>1, <2>2, <2>3 DEF Progress
<1>3. ASSUME pc' # "program" PROVE Progress'
  BY <1>3 DEF Progress
<1>4. CASE SensorBegin \/ SensorSeesOff \/ SensorEnd
  BY <1>3, <1>4 DEF SensorBegin, SensorSeesOff, SensorEnd, IInv, Quiet
<1>5. CASE Cal \/ CalKey \/ CalSettled \/ \E what \in {"frame", "pattern"} : FlashWrite(what)
  BY <1>3, <1>5 DEF Cal, CalKey, CalSettled, FlashWrite
<1>6. CASE Written \/ WriteFails \/ LoadCommand \/ LoadRead \/ LoadFails \/ Restart
  BY <1>3, <1>6 DEF Written, WriteFails, LoadCommand, LoadRead, LoadFails, Restart
<1>7. CASE CopyNeg \/ CopyPos \/ CopyOffset
  BY <1>3, <1>7 DEF CopyNeg, CopyPos, CopyOffset, Copy
<1>8. CASE UNCHANGED vars
  <2>1. /\ pc' = pc /\ acked' = acked /\ k' = k /\ flash' = flash /\ writing' = writing
        /\ ram' = ram
    BY <1>8 DEF vars
  <2> QED
    BY <2>1 DEF IInv, Progress, Length, WordToProgram, FrameWord
<1> QED
  BY <1>1, <1>2, <1>4, <1>5, <1>6, <1>7, <1>8 DEF Next

LEMMA FlashWholeNext == ASSUME SensorInTime, IInv, [Next]_vars PROVE FlashWhole'
<1>1. CASE Erase
  <2>1. flash'[1] = Erased /\ 1 \in Slots
    BY <1>1 DEF Erase, Slots
  <2> QED
    BY <2>1, NotAFrameWord DEF FlashWhole, MarkersMatch
<1>2. CASE Program
  <2>1. /\ pc' = "program" /\ k' = k + 1 /\ k \in Slots /\ k <= Length
        /\ writing \in {"frame", "pattern"} /\ writing' = writing /\ ram' = ram /\ cals' = cals
    BY <1>2 DEF Program, IInv, TypeOK, Length, Slots
  <2>2. \A i \in Slots : flash'[i] = IF i < k' THEN WordToProgram(i)' ELSE Erased
    BY <2>1, ProgressNext DEF Progress
  <2>3. 10 \in Slots /\ 9 \in Slots
    BY DEF Slots
  <2>4. CASE k' <= 10
    <3>2. k \in Int
      BY <2>1 DEF Slots
    <3>3. ~(10 < k')
      BY <2>1, <2>4, <3>2
    <3>1. flash'[10] = Erased
      BY <2>2, <2>3, <3>3
    <3> QED
      BY <2>3, <3>1, NotAFrameWord DEF FlashWhole, MarkersMatch
  <2>5. CASE ~(k' <= 10)
    <3>1. k' = 11 /\ writing = "frame"
      BY <2>1, <2>5 DEF Slots, Length
    <3>2. PICK c \in 0 .. cals : ram = Whole(c)
      BY <1>2 DEF Program, IInv, RamWhole
    <3>3. ASSUME NEW i \in Slots PROVE flash'[i] = FrameWord(i, Whole(c))
      <4>1. i < k'
        BY <3>1 DEF Slots
      <4>2. WordToProgram(i)' = FrameWord(i, Whole(c))
        BY <2>1, <3>1, <3>2 DEF WordToProgram, FrameWord
      <4> QED
        BY <2>2, <4>1, <4>2
    <3> QED
      BY <2>1, <3>3 DEF FlashWhole
  <2> QED
    BY <2>4, <2>5
<1>3. CASE SensorEnd
  <2>1. flash' = flash /\ \A c \in 0 .. cals : c \in 0 .. cals'
    BY <1>3 DEF SensorEnd, IInv, TypeOK
  <2> QED
    BY <2>1 DEF IInv, FlashWhole
<1>4. ASSUME UNCHANGED <<flash, cals>> PROVE FlashWhole'
  BY <1>4 DEF IInv, FlashWhole
<1>5. CASE SensorBegin \/ SensorSeesOff \/ Cal \/ CalKey \/ CalSettled
           \/ \E what \in {"frame", "pattern"} : FlashWrite(what)
  BY <1>4, <1>5 DEF SensorBegin, SensorSeesOff, Cal, CalKey, CalSettled, FlashWrite
<1>6. CASE Written \/ WriteFails \/ LoadCommand \/ LoadRead \/ LoadFails \/ Restart
  BY <1>4, <1>6 DEF Written, WriteFails, LoadCommand, LoadRead, LoadFails, Restart
<1>7. CASE CopyNeg \/ CopyPos \/ CopyOffset
  BY <1>4, <1>7 DEF CopyNeg, CopyPos, CopyOffset, Copy
<1>8. CASE UNCHANGED vars
  BY <1>4, <1>8 DEF vars
<1> QED
  BY <1>1, <1>2, <1>3, <1>5, <1>6, <1>7, <1>8 DEF Next

LEMMA AckedNext == ASSUME SensorInTime, IInv, [Next]_vars PROVE AckedIsDurable'
<1>1. CASE Erase
  BY <1>1 DEF Erase, AckedIsDurable
<1>2. CASE Program
  BY <1>2 DEF Program, IInv, Progress, AckedIsDurable
<1>3. ASSUME UNCHANGED <<flash, acked>> PROVE AckedIsDurable'
  BY <1>3 DEF IInv, AckedIsDurable
<1>4. CASE Written
  <2>1. CASE writing = "frame"
    <3>1. k = 11 /\ flash' = flash /\ acked' = ram.offset
      BY <1>4, <2>1 DEF Written, Length, IInv, TypeOK
    <3>2. PICK c \in 0 .. cals : ram = Whole(c)
      BY <1>4 DEF Written, IInv, RamWhole
    <3>3. acked' = c
      BY <3>1, <3>2 DEF Whole, DataFields
    <3>4. ASSUME NEW i \in Slots PROVE flash[i] = FrameWord(i, Whole(c))
      <4>1. i < k
        BY <3>1 DEF Slots
      <4> QED
        BY <1>4, <2>1, <3>2, <4>1 DEF Written, IInv, Progress, WordToProgram
    <3> QED
      BY <3>1, <3>3, <3>4 DEF AckedIsDurable
  <2>2. CASE writing # "frame"
    BY <1>3, <1>4, <2>2 DEF Written
  <2> QED
    BY <2>1, <2>2
<1>5. CASE SensorBegin \/ SensorSeesOff \/ SensorEnd
  BY <1>3, <1>5 DEF SensorBegin, SensorSeesOff, SensorEnd
<1>6. CASE Cal \/ CalKey \/ CalSettled \/ \E what \in {"frame", "pattern"} : FlashWrite(what)
  BY <1>3, <1>6 DEF Cal, CalKey, CalSettled, FlashWrite
<1>7. CASE WriteFails \/ LoadCommand \/ LoadRead \/ LoadFails \/ Restart
  BY <1>3, <1>7 DEF WriteFails, LoadCommand, LoadRead, LoadFails, Restart
<1>8. CASE CopyNeg \/ CopyPos \/ CopyOffset
  BY <1>3, <1>8 DEF CopyNeg, CopyPos, CopyOffset, Copy
<1>9. CASE UNCHANGED vars
  BY <1>3, <1>9 DEF vars
<1> QED
  BY <1>1, <1>2, <1>4, <1>5, <1>6, <1>7, <1>8, <1>9 DEF Next

LEMMA InductiveInvariant == ASSUME SensorInTime PROVE Spec => []IInv
<1>1. IInv /\ [Next]_vars => IInv'
  <2> SUFFICES ASSUME IInv, [Next]_vars PROVE IInv'
    OBVIOUS
  <2>1. TypeOK'
    BY TypeNext DEF IInv
  <2> QED
    BY <2>1, QuietNext, RamWholeNext, BufferSavedNext, ProgressNext, FlashWholeNext,
       AckedNext DEF IInv
<1> QED
  BY <1>1, IInvInit, PTL DEF Spec

(* Every variable of the store stays in its type: no half-word outside the *)
(* sector is programmed (flash.c:35) and every float is one that was       *)
(* computed or the garbage of a torn sector.                               *)
THEOREM StoreTypeCorrect == Spec => []TypeOK
  BY TypeInit, TypeNext, PTL DEF Spec

(* Whatever cal_load accepts (joystick.c:113) is a frame that was saved as *)
(* a whole, however often the power failed during a save.                  *)
THEOREM AcceptedFramesAreWhole == ASSUME SensorInTime PROVE Spec => []FlashWhole
<1>1. IInv => FlashWhole
  BY DEF IInv
<1> QED
  BY <1>1, InductiveInvariant, PTL

(* After cal_save has reported success (cmd.c:67), the calibration is in   *)
(* the sector until the sector is erased again.                            *)
THEOREM SavesAreDurable == ASSUME SensorInTime PROVE Spec => []AckedIsDurable
<1>1. IInv => AckedIsDurable
  BY DEF IInv
<1> QED
  BY <1>1, InductiveInvariant, PTL

(* Reports are computed from one calibration, except while cal_load copies *)
(* its floats (joystick.c:118-120).                                        *)
THEOREM CalibrationUsedWhole == ASSUME SensorInTime PROVE Spec => []UsedWhole
<1>1. IInv => UsedWhole
  BY DEF IInv, RamWhole, UsedWhole
<1> QED
  BY <1>1, InductiveInvariant, PTL
-----------------------------------------------------------------------------
(* The refinement: one lemma for each step that CalMemory sees, one for    *)
(* the steps it does not see.                                              *)

LEMMA WholeInUse ==
    ASSUME NEW c, ram = Whole(c)
    PROVE  InUse = Whole(c) /\ (c \in Nat => InUse # Torn)
<1>1. ram.offset = c
  BY DEF Whole, DataFields
<1>2. InUse = Whole(c)
  BY <1>1 DEF InUse
<1>3. Torn.offset = -2
  BY DEF Torn, Whole, DataFields, Garbage
<1> QED
  BY <1>1, <1>2, <1>3

(* What cal_load copies is what is saved.                                  *)
LEMMA CopiesSaved ==
    ASSUME IInv, Copying
    PROVE  \E c \in 0 .. cals : buffer = Whole(c) /\ Saved = Whole(c) /\ Saved # Whole(Garbage)
<1>1. PICK c \in 0 .. cals :
          buffer = Whole(c) /\ \A i \in Slots : flash[i] = FrameWord(i, Whole(c))
  BY DEF IInv, BufferSaved
<1>2. c \in Nat
  BY DEF IInv, TypeOK
<1>3. Saved = Whole(c)
  BY <1>1, <1>2, WholeSector DEF Saved
<1>4. Whole(c).offset = c /\ Whole(Garbage).offset = Garbage
  BY DEF Whole, DataFields
<1>5. c # Garbage
  BY <1>2 DEF Garbage
<1> QED
  BY <1>1, <1>3, <1>4, <1>5

LEMMA MemoryInit == ASSUME Init PROVE Memory!Init
<1>1. InUse = Whole(0)
  BY WholeInUse DEF Init
<1>2. flash[1] = Erased /\ 1 \in Slots
  BY DEF Init, Slots
<1>3. Saved = Whole(Garbage)
  BY <1>2, NotAFrameWord DEF Saved, MarkersMatch
<1> QED
  BY <1>1, <1>3 DEF Memory!Init

(* But for the two moments between the copies, a calibration is in use.    *)
LEMMA QuietInUse ==
    ASSUME IInv, pc \notin {"copy_pos", "copy_offset"}
    PROVE  InUse = ram /\ InUse # Torn
<1>1. PICK c \in 0 .. cals : ram = Whole(c)
  BY DEF IInv, RamWhole
<1>2. c \in Nat
  BY DEF IInv, TypeOK
<1> QED
  BY <1>1, <1>2, WholeInUse

LEMMA EndCalibrates == ASSUME IInv, SensorEnd PROVE Memory!Calibrate
<1>1. cals \in Int /\ MaxCals \in Int /\ 0 <= cals /\ cals < MaxCals /\ cals' = cals + 1
  BY StoreAssumption DEF SensorEnd, IInv, TypeOK, Quiet
<1>2. cals' \in 0 .. MaxCals
  BY <1>1
<1>3. ram' = Whole(cals')
  BY DEF SensorEnd
<1>4. InUse' = Whole(cals')
  BY <1>3 DEF InUse, Whole, DataFields
<1>5. Saved' = Saved
  BY DEF SensorEnd, Saved, MarkersMatch, DataOf
<1>6. InUse # Torn
  BY QuietInUse DEF SensorEnd, IInv, Quiet
<1> QED
  BY <1>2, <1>4, <1>5, <1>6 DEF Memory!Calibrate

LEMMA EraseForgets == ASSUME IInv, Erase PROVE Memory!Forget
<1>1. flash'[1] = Erased /\ 1 \in Slots
  BY DEF Erase, Slots
<1>2. Saved' = Whole(Garbage)
  BY <1>1, NotAFrameWord DEF Saved, MarkersMatch
<1>3. InUse' = InUse
  BY DEF Erase, InUse
<1>4. InUse # Torn
  BY QuietInUse DEF Erase
<1> QED
  BY <1>2, <1>3, <1>4 DEF Memory!Forget

(* The end marker makes the save: nothing is saved before its second half. *)
LEMMA ProgramSaves ==
    ASSUME SensorInTime, IInv, Program
    PROVE  Memory!Save \/ UNCHANGED <<InUse, Saved>>
<1>1. /\ k \in Int /\ k \in Slots /\ k' = k + 1 /\ pc' = "program" /\ pc = "program"
      /\ ram' = ram /\ writing' = writing /\ writing \in {"frame", "pattern"} /\ k <= Length
  BY DEF Program, Length, Slots, IInv, TypeOK
<1>2. 10 \in Slots
  BY DEF Slots
<1>3. ASSUME NEW f, f[10] = Erased PROVE ~MarkersMatch(f)
  BY <1>2, <1>3, NotAFrameWord DEF MarkersMatch
<1>4. Saved = Whole(Garbage)
  <2>1. ~(10 < k)
    BY <1>1 DEF Slots
  <2>2. flash[10] = Erased
    BY <1>1, <1>2, <2>1 DEF IInv, Progress
  <2> QED
    BY <1>3, <2>2 DEF Saved
<1>5. InUse = ram /\ InUse # Torn /\ InUse' = InUse
  BY <1>1, QuietInUse DEF InUse
<1>6. \A i \in Slots : flash'[i] = IF i < k' THEN WordToProgram(i)' ELSE Erased
  <2>1. [Next]_vars
    BY DEF Next
  <2> QED
    BY <1>1, <2>1, ProgressNext DEF Progress
<1>7. CASE k < 10
  <2>1. ~(10 < k')
    BY <1>1, <1>7
  <2>2. flash'[10] = Erased
    BY <1>2, <1>6, <2>1
  <2>3. Saved' = Whole(Garbage)
    BY <1>3, <2>2 DEF Saved
  <2> QED
    BY <1>4, <1>5, <2>3
<1>8. CASE ~(k < 10)
  <2>1. k' = 11 /\ writing = "frame"
    BY <1>1, <1>8 DEF Slots, Length
  <2>2. PICK c \in 0 .. cals : ram = Whole(c)
    BY <1>1 DEF IInv, RamWhole
  <2>3. ASSUME NEW i \in Slots PROVE flash'[i] = FrameWord(i, Whole(c))
    <3>1. i < k'
      BY <2>1 DEF Slots
    <3>2. WordToProgram(i)' = FrameWord(i, Whole(c))
      BY <1>1, <2>1, <2>2 DEF WordToProgram, FrameWord
    <3> QED
      BY <1>6, <3>1, <3>2
  <2>4. c \in Nat
    BY DEF IInv, TypeOK
  <2>5. MarkersMatch(flash') /\ DataOf(flash') = Whole(c)
    BY <2>3, <2>4, WholeSector
  <2>6. Saved' = Whole(c)
    BY <2>5 DEF Saved, MarkersMatch, DataOf
  <2> QED
    BY <1>4, <1>5, <2>2, <2>6 DEF Memory!Save
<1> QED
  BY <1>7, <1>8

(* The first copy begins the load, unless the sector holds the calibration *)
(* in use.                                                                 *)
LEMMA FirstCopyBeginsLoad ==
    ASSUME IInv, CopyNeg
    PROVE  Memory!BeginLoad \/ UNCHANGED <<InUse, Saved>>
<1>1. PICK a \in 0 .. cals : ram = Whole(a)
  BY DEF CopyNeg, Copy, IInv, RamWhole
<1>2. PICK c \in 0 .. cals : buffer = Whole(c) /\ Saved = Whole(c) /\ Saved # Whole(Garbage)
  BY CopiesSaved DEF CopyNeg, Copy, Copying
<1>3. a \in Nat /\ c \in Nat
  BY DEF IInv, TypeOK
<1>4. Saved' = Saved
  BY DEF CopyNeg, Copy, Saved, MarkersMatch, DataOf
<1>5. ram' = [Whole(a) EXCEPT !["neg"] = c]
  BY <1>1, <1>2 DEF CopyNeg, Copy, Whole, DataFields
<1>6. CASE a = c
  <2>1. ram' = ram
    BY <1>1, <1>5, <1>6 DEF Whole, DataFields
  <2> QED
    BY <1>4, <2>1 DEF InUse
<1>7. CASE a # c
  <2>1. ram'.neg = c /\ ram'.offset = a
    BY <1>5 DEF Whole, DataFields
  <2>2. Whole(a).neg = a
    BY DEF Whole, DataFields
  <2>3. InUse' = Torn
    BY <1>7, <2>1, <2>2 DEF InUse, Torn
  <2>4. InUse # Torn
    BY QuietInUse DEF CopyNeg, Copy
  <2> QED
    BY <1>2, <1>4, <2>3, <2>4 DEF Memory!BeginLoad
<1> QED
  BY <1>6, <1>7

(* The second one leaves a mixture, since the offset is still the old one. *)
LEMMA SecondCopyStutters == ASSUME IInv, CopyPos PROVE UNCHANGED <<InUse, Saved>>
<1>1. PICK c \in 0 .. cals : buffer = Whole(c)
  BY CopiesSaved DEF CopyPos, Copy, Copying
<1>2. ram.neg = c /\ ram.pos = ram.offset /\ ram \in Data
  BY <1>1 DEF CopyPos, Copy, IInv, TypeOK, RamWhole, Whole, DataFields
<1>3. ram'.neg = c /\ ram'.pos = c /\ ram'.offset = ram.offset
  BY <1>1, <1>2 DEF CopyPos, Copy, Whole, Data, DataFields
<1>4. Saved' = Saved
  BY DEF CopyPos, Copy, Saved, MarkersMatch, DataOf
<1>5. CASE ram.offset = c
  <2>1. ram' = ram
    <3>1. ram.pos = buffer.pos
      BY <1>1, <1>2, <1>5 DEF Whole, DataFields
    <3> QED
      BY <1>2, <3>1 DEF CopyPos, Copy, Data, DataFields
  <2> QED
    BY <1>4, <2>1 DEF InUse
<1>6. CASE ram.offset # c
  <2>1. Whole(ram.offset).neg = ram.offset /\ Whole(ram'.offset).neg = ram'.offset
    BY DEF Whole, DataFields
  <2>2. InUse = Torn /\ InUse' = Torn
    BY <1>2, <1>3, <1>6, <2>1 DEF InUse, Torn
  <2> QED
    BY <1>4, <2>2
<1> QED
  BY <1>5, <1>6

(* The last one ends the load.                                             *)
LEMMA LastCopyEndsLoad ==
    ASSUME IInv, CopyOffset, RamWhole'
    PROVE  Memory!EndLoad \/ UNCHANGED <<InUse, Saved>>
<1>1. PICK c \in 0 .. cals : buffer = Whole(c) /\ Saved = Whole(c) /\ Saved # Whole(Garbage)
  BY CopiesSaved DEF CopyOffset, Copy, Copying
<1>2. Saved' = Saved
  BY DEF CopyOffset, Copy, Saved, MarkersMatch, DataOf
<1>3. ram \in Data /\ ram.neg = c /\ ram.pos = c
  BY <1>1 DEF CopyOffset, Copy, IInv, TypeOK, RamWhole, Whole, DataFields
<1>4. pc' = "prompt" /\ ram'.offset = c
  BY <1>1, <1>3 DEF CopyOffset, Copy, Whole, Data, DataFields
<1>5. ram' = Whole(c)
  <2>1. PICK d \in 0 .. cals' : ram' = Whole(d)
    BY <1>4 DEF RamWhole
  <2>2. d = c
    BY <1>4, <2>1 DEF Whole, DataFields
  <2> QED
    BY <2>1, <2>2
<1>6. InUse' = Whole(c)
  BY <1>5, <1>4 DEF InUse
<1>7. CASE ram.offset = c
  <2>1. ram = Whole(c)
    BY <1>3, <1>7 DEF Data, Whole, DataFields
  <2>2. InUse = Whole(c)
    BY <1>7, <2>1 DEF InUse
  <2> QED
    BY <1>2, <1>6, <2>2
<1>8. CASE ram.offset # c
  <2>1. Whole(ram.offset).neg = ram.offset
    BY DEF Whole, DataFields
  <2>2. InUse = Torn
    BY <1>3, <1>8, <2>1 DEF InUse
  <2> QED
    BY <1>1, <1>2, <1>6, <2>2 DEF Memory!EndLoad
<1> QED
  BY <1>7, <1>8

LEMMA RestartForgetsUse == ASSUME Restart PROVE Memory!Restart
<1>1. InUse' = Whole(0) /\ Saved' = Saved
  BY DEF Restart, InUse, Whole, DataFields, Saved, MarkersMatch, DataOf
<1> QED
  BY <1>1 DEF Memory!Restart

(* With the sensor thread in time, the firmware implements CalMemory: a    *)
(* calibration is saved, and kept over a restart, only as a whole, and     *)
(* cal_load (joystick.c:108-122) puts the whole of what is saved in use.   *)
(* Between its copies the mixture of two calibrations is in use, which is  *)
(* neither saved nor replaced before the last copy or a restart ends it.   *)
THEOREM KeepsItsPromise == ASSUME SensorInTime PROVE Spec => KeepsMemory
<1>1. ASSUME IInv, IInv', [Next]_vars
      PROVE  [Memory!Next]_<<InUse, Saved>>
  <2>1. CASE SensorEnd
    BY <1>1, <2>1, EndCalibrates DEF Memory!Next
  <2>2. CASE Erase
    BY <1>1, <2>2, EraseForgets DEF Memory!Next
  <2>3. CASE Program
    BY <1>1, <2>3, ProgramSaves DEF Memory!Next
  <2>4. CASE CopyNeg
    BY <1>1, <2>4, FirstCopyBeginsLoad DEF Memory!Next
  <2>5. CASE Restart
    BY <1>1, <2>5, RestartForgetsUse DEF Memory!Next
  <2>6. CASE CopyPos
    BY <1>1, <2>6, SecondCopyStutters
  <2>12. CASE CopyOffset
    BY <1>1, <2>12, LastCopyEndsLoad DEF Memory!Next, IInv
  <2>7. ASSUME UNCHANGED <<ram, flash>>
        PROVE  UNCHANGED <<InUse, Saved>>
    BY <2>7 DEF InUse, Saved, MarkersMatch, DataOf
  <2>8. CASE SensorBegin \/ SensorSeesOff
    BY <2>7, <2>8 DEF SensorBegin, SensorSeesOff
  <2>9. CASE Cal \/ CalKey \/ CalSettled \/ \E what \in {"frame", "pattern"} : FlashWrite(what)
    BY <2>7, <2>9 DEF Cal, CalKey, CalSettled, FlashWrite
  <2>10. CASE Written \/ WriteFails \/ LoadCommand \/ LoadRead \/ LoadFails
    BY <2>7, <2>10 DEF Written, WriteFails, LoadCommand, LoadRead, LoadFails
  <2>11. CASE UNCHANGED vars
    BY <2>11 DEF vars, InUse, Saved, MarkersMatch, DataOf
  <2> QED
    BY <1>1, <2>1, <2>2, <2>3, <2>4, <2>5, <2>6, <2>8, <2>9, <2>10, <2>11,
       <2>12 DEF Next
<1>2. Init => Memory!Init
  BY MemoryInit
<1> QED
  BY <1>1, <1>2, InductiveInvariant, PTL DEF Spec, KeepsMemory, Memory!Spec
=============================================================================
