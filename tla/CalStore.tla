------------------------------ MODULE CalStore ------------------------------
(***************************************************************************)
(* The calibration frame in RAM and in flash (flash.c, cal_load, the shell *)
(* commands that save, load and overwrite it), with power that may fail    *)
(* between any two steps and a sensor thread that may write the frame      *)
(* between any two steps of the shell.                                     *)
(*                                                                         *)
(* The value of a float is the number of the calibration it was computed   *)
(* in: 0 for the initializer of cal_frame.  The sector is programmed in    *)
(* half-words, two for every float and every marker; the flash driver is   *)
(* not in the repository, and an erase is taken to be all or nothing.      *)
(***************************************************************************)
EXTENDS Integers, Sequences

CONSTANTS MaxCals,      \* bound: calibrations
          MaxBoots,     \* bound: restarts
          SensorInTime  \* the sensor thread ends a calibration while the
                        \* shell sleeps for it (cmd.c:46)

ASSUME StoreAssumption ==
    MaxCals \in Nat /\ MaxBoots \in Nat /\ SensorInTime \in BOOLEAN

VARIABLES
    jscal_switch, state,    \* as in Calibrate
    ram,                    \* cal_frame.content.data
    flash,                  \* the half-words of the last sector
    pc,                     \* what the shell (at power-on: main) is doing
    writing,                \* what flash_write was given: the frame or the pattern
    k,                      \* the half-word it programs next
    buffer,                 \* the local frame of cal_load
    booting,                \* main has not started the sensor thread yet
    cals, boots,            \* bounded counters
    acked                   \* history: calibration of the last "Flash written",
                            \* until the sector is erased again

vars == <<jscal_switch, state, ram, flash, pc, writing, k, buffer, booting,
          cals, boots, acked>>

DataFields == {"offset", "neg", "pos"}

(* cal_frame_t, in half-words. *)
Layout == <<"start", "start", "offset", "offset", "neg", "neg", "pos", "pos",
            "end", "end">>
Slots == 1 .. 10

Erased == [of |-> "erased", cal |-> 0]
Hello == [of |-> "pattern", cal |-> 0]
FrameWord(i, data) ==
    [of |-> Layout[i], cal |-> IF Layout[i] \in DataFields THEN data[Layout[i]] ELSE 0]

(* The 13 bytes of "Hello Flash!" fill seven half-words. *)
Length == IF writing = "frame" THEN 10 ELSE 7
WordToProgram(i) == IF writing = "frame" THEN FrameWord(i, ram) ELSE Hello

Whole(c) == [f \in DataFields |-> c]
Garbage == -1

(* The check of cal_load: both markers, all four bytes of each. *)
MutMarkersStartOnly(f) == \A i \in {1, 2} : f[i] = FrameWord(i, Whole(0))
MarkersMatch(f) == \A i \in {1, 2, 9, 10} : f[i] = FrameWord(i, Whole(0))

(* The floats in a sector; one whose halves differ is none that was computed. *)
FirstSlot == [offset |-> 3, neg |-> 5, pos |-> 7]
DataOf(f) ==
    [n \in DataFields |->
        LET w == f[FirstSlot[n]]
        IN  IF w.of = n /\ f[FirstSlot[n] + 1] = w THEN w.cal ELSE Garbage]

Init ==
    /\ jscal_switch = FALSE /\ state = "JSCAL_OFF"
    /\ ram = Whole(0)
    /\ flash = [i \in Slots |-> Erased]
    /\ pc = "load" /\ booting = TRUE
    /\ writing = "frame" /\ k = 1 /\ buffer = Whole(0)
    /\ cals = 0 /\ boots = 0
    /\ acked = Garbage
-----------------------------------------------------------------------------
(* The sensor thread: the states of calibrate, which writes the three      *)
(* floats in one go.                                                       *)
SensorBegin ==
    /\ ~booting /\ state = "JSCAL_OFF" /\ jscal_switch
    /\ state' = "JSCAL_ON"
    /\ UNCHANGED <<jscal_switch, ram, flash, pc, writing, k, buffer, booting,
                   cals, boots, acked>>

SensorSeesOff ==
    /\ ~booting /\ state = "JSCAL_ON" /\ ~jscal_switch
    /\ state' = "JSCAL_END"
    /\ UNCHANGED <<jscal_switch, ram, flash, pc, writing, k, buffer, booting,
                   cals, boots, acked>>

SensorEnd ==
    /\ ~booting /\ state = "JSCAL_END"
    /\ cals' = cals + 1
    /\ ram' = Whole(cals')
    /\ state' = "JSCAL_OFF"
    /\ UNCHANGED <<jscal_switch, flash, pc, writing, k, buffer, booting,
                   boots, acked>>
-----------------------------------------------------------------------------
(* cal: on until a key arrives, then 200 ms for the sensor thread. *)
Cal ==
    /\ pc = "prompt" /\ cals < MaxCals
    /\ jscal_switch' = TRUE
    /\ pc' = "key"
    /\ UNCHANGED <<state, ram, flash, writing, k, buffer, booting, cals, boots,
                   acked>>

CalKey ==
    /\ pc = "key"
    /\ jscal_switch' = FALSE
    /\ pc' = "settle"
    /\ UNCHANGED <<state, ram, flash, writing, k, buffer, booting, cals, boots,
                   acked>>

CalSettled ==
    /\ pc = "settle"
    /\ SensorInTime => state = "JSCAL_OFF"
    /\ pc' = "prompt"
    /\ UNCHANGED <<jscal_switch, state, ram, flash, writing, k, buffer, booting,
                   cals, boots, acked>>

(* flash_write, called by cal_save with the frame itself (not a copy) and  *)
(* by flashwrite with its pattern.                                         *)
FlashWrite(what) ==
    /\ pc = "prompt"
    /\ pc' = "erase" /\ writing' = what
    /\ UNCHANGED <<jscal_switch, state, ram, flash, k, buffer, booting, cals,
                   boots, acked>>

Erase ==
    /\ pc = "erase"
    /\ flash' = [i \in Slots |-> Erased]
    /\ pc' = "program" /\ k' = 1
    /\ acked' = Garbage
    /\ UNCHANGED <<jscal_switch, state, ram, writing, buffer, booting, cals,
                   boots>>

MutProgramPastEnd ==
    /\ pc = "program" /\ k <= Length + 1
    /\ flash' = [flash EXCEPT ![k] = WordToProgram(k)]
    /\ k' = k + 1
    /\ UNCHANGED <<jscal_switch, state, ram, pc, writing, buffer, booting, cals,
                   boots, acked>>
Program ==
    /\ pc = "program" /\ k <= Length
    /\ flash' = [flash EXCEPT ![k] = WordToProgram(k)]
    /\ k' = k + 1
    /\ UNCHANGED <<jscal_switch, state, ram, pc, writing, buffer, booting, cals,
                   boots, acked>>

Written ==
    /\ pc = "program" /\ k > Length
    /\ pc' = "prompt"
    /\ acked' = IF writing = "frame" THEN ram.offset ELSE acked
    /\ UNCHANGED <<jscal_switch, state, ram, flash, writing, k, buffer, booting,
                   cals, boots>>

(* An error of the driver ends flash_write wherever it is. *)
MutWriteFailsAcked ==
    /\ pc \in {"erase", "program"}
    /\ pc' = "prompt"
    /\ acked' = ram.offset
    /\ UNCHANGED <<jscal_switch, state, ram, flash, writing, k, buffer, booting,
                   cals, boots>>
WriteFails ==
    /\ pc \in {"erase", "program"}
    /\ pc' = "prompt"
    /\ UNCHANGED <<jscal_switch, state, ram, flash, writing, k, buffer, booting,
                   cals, boots, acked>>
-----------------------------------------------------------------------------
(* cal_load, typed or called by main: read the sector into a buffer, check *)
(* it, then copy the floats one by one.                                    *)
LoadCommand ==
    /\ pc = "prompt"
    /\ pc' = "load"
    /\ UNCHANGED <<jscal_switch, state, ram, flash, writing, k, buffer, booting,
                   cals, boots, acked>>

MutLoadUnchecked ==
    /\ pc = "load"
    /\ buffer' = DataOf(flash)
    /\ pc' = "copy_neg"
    /\ UNCHANGED <<jscal_switch, state, ram, flash, writing, k, booting, cals,
                   boots, acked>>
LoadRead ==
    /\ pc = "load" /\ MarkersMatch(flash)
    /\ buffer' = DataOf(flash)
    /\ pc' = "copy_neg"
    /\ UNCHANGED <<jscal_switch, state, ram, flash, writing, k, booting, cals,
                   boots, acked>>

(* A read error, or markers that do not match. *)
LoadFails ==
    /\ pc = "load"
    /\ pc' = "prompt" /\ booting' = FALSE
    /\ UNCHANGED <<jscal_switch, state, ram, flash, writing, k, buffer, cals,
                   boots, acked>>

Copy(field, from, to) ==
    /\ pc = from
    /\ ram' = [ram EXCEPT ![field] = buffer[field]]
    /\ pc' = to
    /\ UNCHANGED <<jscal_switch, state, flash, writing, k, buffer, cals, boots,
                   acked>>

(* The last float is forgotten. *)
MutCopyPos == Copy("pos", "copy_pos", "prompt") /\ booting' = FALSE

CopyNeg == Copy("neg", "copy_neg", "copy_pos") /\ UNCHANGED booting
CopyPos == Copy("pos", "copy_pos", "copy_offset") /\ UNCHANGED booting
CopyOffset == Copy("offset", "copy_offset", "prompt") /\ booting' = FALSE

(* Power fails, or the reset command reaches NVIC_SystemReset: RAM starts  *)
(* from its initializers, the sector stays as it is.                       *)
Restart ==
    /\ boots < MaxBoots
    /\ boots' = boots + 1
    /\ jscal_switch' = FALSE /\ state' = "JSCAL_OFF"
    /\ ram' = Whole(0)
    /\ pc' = "load" /\ booting' = TRUE
    /\ UNCHANGED <<flash, writing, k, buffer, cals, acked>>

Next ==
    \/ SensorBegin \/ SensorSeesOff \/ SensorEnd
    \/ Cal \/ CalKey \/ CalSettled
    \/ \E what \in {"frame", "pattern"} : FlashWrite(what)
    \/ Erase \/ Program \/ Written \/ WriteFails
    \/ LoadCommand \/ LoadRead \/ LoadFails \/ CopyNeg \/ CopyPos \/ CopyOffset
    \/ Restart

Spec == Init /\ [][Next]_vars
-----------------------------------------------------------------------------
Numbers == Nat \cup {Garbage}
Data == [DataFields -> Numbers]
Words == [of : {"erased", "pattern", "start", "offset", "neg", "pos", "end"}, cal : Numbers]

(* Every variable stays in its type. *)
TypeOK ==
    /\ jscal_switch \in BOOLEAN /\ booting \in BOOLEAN
    /\ state \in {"JSCAL_OFF", "JSCAL_ON", "JSCAL_END"}
    /\ ram \in Data /\ buffer \in Data
    /\ flash \in [Slots -> Words]
    /\ pc \in {"prompt", "key", "settle", "erase", "program", "load",
               "copy_neg", "copy_pos", "copy_offset"}
    /\ writing \in {"frame", "pattern"}
    /\ k \in 1 .. 11
    /\ cals \in Nat /\ boots \in 0 .. MaxBoots
    /\ acked \in Numbers

(* Whatever cal_load would accept is the frame of one calibration, saved   *)
(* as a whole: the markers, programmed first and last, give away a save    *)
(* that was interrupted, and no calibration ends during a save.            *)
FlashWhole ==
    MarkersMatch(flash) => \E c \in 0 .. cals : \A i \in Slots : flash[i] = FrameWord(i, Whole(c))

(* Once cal_save has reported success, the sector holds that calibration   *)
(* through every restart, until the next save or flashwrite erases it.     *)
AckedIsDurable ==
    acked # Garbage => \A i \in Slots : flash[i] = FrameWord(i, Whole(acked))

(* The sensor thread computes reports from the floats of one calibration,  *)
(* never from the mixture that cal_load makes of two of them, but for the  *)
(* moments between its copies (joystick.c:118-120).  The one at power-on   *)
(* is over before there is a sensor thread.                                *)
UsedWhole ==
    ~booting /\ pc \notin {"copy_pos", "copy_offset"} =>
        \E c \in 0 .. cals : ram = Whole(c)

(* The firmware keeps the promise of CalMemory: a save counts as done with *)
(* its end marker, and cal_load puts nothing in use but the whole of what  *)
(* is saved.  Between its copies the sensor thread does use a mixture of   *)
(* two calibrations, but only there: the mixture is never saved, no        *)
(* calibration is run or erased meanwhile, and the last copy or a restart  *)
(* ends it.                                                                *)
Torn == Whole(Garbage - 1)
InUse == IF ram = Whole(ram.offset) THEN ram ELSE Torn
Saved == IF MarkersMatch(flash) THEN DataOf(flash) ELSE Whole(Garbage)
Memory == INSTANCE CalMemory WITH
              Calibrations <- {Whole(c) : c \in 0 .. MaxCals},
              Default <- Whole(0),
              Nothing <- Whole(Garbage),
              active <- InUse,
              saved <- Saved
KeepsMemory == Memory!Spec

=============================================================================
