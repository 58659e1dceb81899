------------------------- MODULE UsbRequestsProofs --------------------------
(***************************************************************************)
(* Proofs about UsbRequests, for every set of first reads a host may try.  *)
(* The tables of usbcfg.c are concrete, so the first half evaluates them   *)
(* once, in lemmas: where each descriptor begins, what kind it is, what    *)
(* the handlers answer.  The second half is the inductive invariant IInv   *)
(* and the properties that follow from it.                                 *)
(***************************************************************************)
EXTENDS UsbRequests, TLAPS, FiniteSetTheorems, SequenceTheorems

-----------------------------------------------------------------------------
(* The configuration descriptor (usbcfg.c:84-186). *)

LEMMA TableLength == Len(ConfigurationData) = 14 /\ DOMAIN ConfigurationData = 1 .. 14
BY DEF ConfigurationData

(* The bytes each descriptor takes. *)
LEMMA TableSizes ==
    /\ ConfigurationData[1].size = 9   /\ ConfigurationData[2].size = 9
    /\ ConfigurationData[3].size = 5   /\ ConfigurationData[4].size = 5
    /\ ConfigurationData[5].size = 4   /\ ConfigurationData[6].size = 5
    /\ ConfigurationData[7].size = 7   /\ ConfigurationData[8].size = 9
    /\ ConfigurationData[9].size = 7   /\ ConfigurationData[10].size = 7
    /\ ConfigurationData[11].size = 9  /\ ConfigurationData[12].size = 9
    /\ ConfigurationData[13].size = 7  /\ ConfigurationData[14].size = 7
BY DEF ConfigurationData, Interface, Functional, Endpoint, JoystickInterface

(* Every bLength that is written into the table is the true one. *)
LEMMA LengthIsSize ==
    \A k \in 1 .. 14 : ConfigurationData[k].len = ConfigurationData[k].size
BY DEF ConfigurationData, Interface, Functional, Endpoint, JoystickInterface

(* Where a descriptor begins, with the end of the table as the last one. *)
Starts == <<0, 9, 18, 23, 28, 32, 37, 44, 53, 60, 67, 76, 85, 92, 99>>

(* Start is the function its definition asks for: it exists, as Starts     *)
(* shows.                                                                  *)
LEMMA StartDefined ==
    \A k \in 1 .. 15 : Start[k] = IF k = 1 THEN 0 ELSE Start[k - 1] + ConfigurationData[k - 1].size
<1> DEFINE Body(f) == [k \in 1 .. Len(ConfigurationData) + 1 |->
                          IF k = 1 THEN 0 ELSE f[k - 1] + ConfigurationData[k - 1].size]
           s == [k \in 1 .. 15 |-> Starts[k]]
<1>1. s = Body(s)
  <2>1. \A k \in 1 .. 15 : Starts[k] = IF k = 1 THEN 0 ELSE Starts[k - 1] + ConfigurationData[k - 1].size
    BY TableSizes DEF Starts
  <2> HIDE DEF Starts
  <2>2. \A k \in 1 .. 15 : s[k] = IF k = 1 THEN 0 ELSE s[k - 1] + ConfigurationData[k - 1].size
    BY <2>1
  <2> QED
    BY <2>2, TableLength
<1>2. Start = CHOOSE f : f = Body(f)
  BY DEF Start
<1> HIDE DEF s
<1>3. Start = Body(Start)
  <2> HIDE DEF Body
  <2> QED
    BY <1>1, <1>2
<1> HIDE DEF Start
<1> QED
  BY <1>3, TableLength

(* A running sum of the sizes. *)
LEMMA StartValues == \A k \in 1 .. 15 : Start[k] = Starts[k]
<1> /\ Start[1] = 0
    /\ Start[2] = Start[1] + ConfigurationData[1].size
    /\ Start[3] = Start[2] + ConfigurationData[2].size
    /\ Start[4] = Start[3] + ConfigurationData[3].size
    /\ Start[5] = Start[4] + ConfigurationData[4].size
    /\ Start[6] = Start[5] + ConfigurationData[5].size
    /\ Start[7] = Start[6] + ConfigurationData[6].size
    /\ Start[8] = Start[7] + ConfigurationData[7].size
    /\ Start[9] = Start[8] + ConfigurationData[8].size
    /\ Start[10] = Start[9] + ConfigurationData[9].size
    /\ Start[11] = Start[10] + ConfigurationData[10].size
    /\ Start[12] = Start[11] + ConfigurationData[11].size
    /\ Start[13] = Start[12] + ConfigurationData[12].size
    /\ Start[14] = Start[13] + ConfigurationData[13].size
    /\ Start[15] = Start[14] + ConfigurationData[14].size
  BY StartDefined
<1> QED
  BY TableSizes DEF Starts

(* No two descriptors begin at the same byte. *)
LEMMA StartsDistinct == \A j, k \in 1 .. 15 : Starts[j] = Starts[k] => j = k
BY DEF Starts

(* The table takes as many bytes as its wTotalLength says. *)
LEMMA TableTotal == ConfigurationSize = 99 /\ TotalLength = 99
BY StartValues, TableLength DEF Starts, ConfigurationSize, TotalLength

(* The report descriptor (usbcfg.c:54-82), as its items add up. *)
LEMMA ReportSizeValue == ReportSize = 44
<1>1. Len(ReportItems) = 15
  BY DEF ReportItems
<1> QED
  BY <1>1 DEF ReportSize

(* A walk that has found the first n descriptors. *)
Found(n) == [i \in 1 .. n |-> ConfigurationData[i]]

(* One step of the walk at the right place appends the next descriptor. *)
LEMMA FoundNext ==
    ASSUME NEW n \in 0 .. 13
    PROVE  Append(Found(n), ConfigurationData[n + 1]) = Found(n + 1)
<1> DEFINE D == {ConfigurationData[i] : i \in 1 .. 14}
<1>1. Found(n) \in Seq(D) /\ Len(Found(n)) = n
  <2>1. Found(n) \in [1 .. n -> D]
    BY DEF Found
  <2> HIDE DEF D
  <2> QED
    BY <2>1 DEF Found
<1>2. ConfigurationData[n + 1] \in D
  OBVIOUS
<1> HIDE DEF D
<1>3. /\ Append(Found(n), ConfigurationData[n + 1]) \in Seq(D)
      /\ Len(Append(Found(n), ConfigurationData[n + 1])) = n + 1
      /\ \A i \in 1 .. n : Append(Found(n), ConfigurationData[n + 1])[i] = Found(n)[i]
      /\ Append(Found(n), ConfigurationData[n + 1])[n + 1] = ConfigurationData[n + 1]
  BY <1>1, <1>2, AppendProperties
<1> DEFINE a == Append(Found(n), ConfigurationData[n + 1])
<1>4. a = [i \in 1 .. n + 1 |-> a[i]]
  <2> HIDE DEF a
  <2> QED
    BY <1>3 DEF a
<1>5. \A i \in 1 .. n + 1 : a[i] = ConfigurationData[i]
  BY <1>3 DEF Found
<1> HIDE DEF a
<1>6. a = Found(n + 1)
  BY <1>4, <1>5 DEF Found
<1> QED
  BY <1>6 DEF a

(* The descriptors and where they begin. *)
FoundSoFar == \E n \in 0 .. 14 : seen = Found(n) /\ at = Starts[n + 1]
All == seen = Found(14)
Sizes == epc \subseteq 1 .. 4 /\ image \in 0 .. 99 /\ report \in {0, 44}
EndpointsReady == bus = "active" => All /\ epc = 1 .. 4
ReportRead == report > 0 => All

(* The last request: answered with its own data, or not invited. *)
OwnOrUninvited ==
    \/ last.req.to = None
    \/ /\ last.by # None /\ last.got.for = last.req
       /\ last.req.to = "interface" => last.req.index = 2
    \/ last.req.to = "device" /\ last.req.req = "string" /\ last.req.index \notin NamedStrings \cup {0}
    \/ last.req.to = "interface" /\ last.req.index = 0 /\ last.by = None
    \/ last.req.to = "interface" /\ last.req.index = 2 /\ last.by = "hid" /\ AboutProtocol(last.req)
AskedWalked == last.req.to = "interface" => All
States ==
    /\ bus \in {"ready", "selected", "active"} /\ usbInitState \in {0, 1}
    /\ pending.n \in Nat /\ last.by \in {None, "driver", "hid", "serial"}

IInv ==
    /\ FoundSoFar /\ Sizes /\ States
    /\ EndpointsReady /\ ReportRead
    /\ OwnOrUninvited /\ AskedWalked

(* A host that has walked as far as the total has found everything. *)
LEMMA WalkedAll ==
    ASSUME FoundSoFar, Walked
    PROVE  All
<1>1. at >= 99
  BY TableTotal DEF Walked
<1>2. PICK n \in 0 .. 14 : seen = Found(n) /\ at = Starts[n + 1]
  BY DEF FoundSoFar
<1>3. n = 14
  BY <1>1, <1>2 DEF Starts
<1> QED
  BY <1>2, <1>3 DEF All

(* The kinds of the descriptors, in order. *)
LEMMA TableTypes ==
    \A k \in 1 .. 14 : ConfigurationData[k].type =
       IF k = 1 THEN "configuration"
       ELSE IF k \in {2, 8, 11} THEN "interface"
       ELSE IF k \in {7, 9, 10, 13, 14} THEN "endpoint"
       ELSE IF k = 12 THEN "hid" ELSE "functional"
BY DEF ConfigurationData, Interface, Functional, Endpoint, JoystickInterface

(* What a host that has walked the whole table knows. *)
LEMMA AllFound ==
    ASSUME All
    PROVE  /\ DOMAIN seen = 1 .. 14 /\ \A k \in 1 .. 14 : seen[k] = ConfigurationData[k]
           /\ Find("interface") = {2, 8, 11}
           /\ Find("endpoint") = {7, 9, 10, 13, 14}
           /\ Find("functional") = {3, 4, 5, 6}
           /\ Find("hid") = {12}
           /\ Interfaces = {ConfigurationData[2], ConfigurationData[8], ConfigurationData[11]}
<1>1. DOMAIN seen = 1 .. 14 /\ \A k \in 1 .. 14 : seen[k] = ConfigurationData[k]
  BY DEF All, Found
<1>2. /\ Find("interface") = {2, 8, 11}
      /\ Find("endpoint") = {7, 9, 10, 13, 14}
      /\ Find("functional") = {3, 4, 5, 6}
      /\ Find("hid") = {12}
  BY <1>1, TableTypes DEF Find
<1>3. Interfaces = {ConfigurationData[2], ConfigurationData[8], ConfigurationData[11]}
  BY <1>1, <1>2 DEF Interfaces
<1> QED
  BY <1>1, <1>2, <1>3

(* The three interfaces, and the length the HID descriptor announces. *)
LEMMA TableInterfaces ==
    /\ ConfigurationData[2].num = 0 /\ ConfigurationData[2].class = "cdc" /\ ConfigurationData[2].eps = 1
    /\ ConfigurationData[8].num = 1 /\ ConfigurationData[8].class = "data" /\ ConfigurationData[8].eps = 2
    /\ ConfigurationData[11].num = 2 /\ ConfigurationData[11].class = "hid" /\ ConfigurationData[11].eps = 2
    /\ ConfigurationData[11].subclass = 0
    /\ ConfigurationData[12].report = 44
BY ReportSizeValue DEF ConfigurationData, Interface, Functional, Endpoint, JoystickInterface

-----------------------------------------------------------------------------
(* What get_descriptor (usbcfg.c:258-278) and hidRequestsHook              *)
(* (usb_hid.c:38-89) answer to each request a host sends.                  *)

LEMMA AnswerDevice == Answer(ToDevice("device", 0)) = SetsUp("driver", 18)
BY DEF Answer, ToDevice, hidRequestsHook, Describes, get_descriptor, Refuses, SetsUp, None

LEMMA AnswerConfiguration == Answer(ToDevice("configuration", 0)) = SetsUp("driver", 99)
BY TableTotal DEF Answer, ToDevice, hidRequestsHook, Describes, get_descriptor, Refuses, SetsUp, None

LEMMA AnswerString ==
    ASSUME NEW i \in Nat
    PROVE  /\ i \in 0 .. 4 => \E n \in Nat : Answer(ToDevice("string", i)) = SetsUp("driver", n)
           /\ i \notin 0 .. 4 => Answer(ToDevice("string", i)) = Refuses
<1>1. \A k \in 1 .. 5 : StringSize[k] \in Nat \ {0}
  BY DEF StringSize
<1>2. get_descriptor("string", i) = IF i < 5 THEN StringSize[i + 1] ELSE 0
  BY DEF get_descriptor
<1>3. Answer(ToDevice("string", i)) = Describes("driver", ToDevice("string", i))
  BY DEF Answer, ToDevice, hidRequestsHook, Refuses, None
<1> QED
  BY <1>1, <1>2, <1>3 DEF Describes, ToDevice

LEMMA AnswerReport ==
    ASSUME NEW num
    PROVE  Answer(ToInterface("descriptor", "report", num)) = SetsUp("hid", 44)
BY ReportSizeValue
   DEF Answer, ToInterface, hidRequestsHook, Describes, get_descriptor, Refuses, SetsUp, None

(* The requests by name and by number. *)
LEMMA RequestCodes ==
    /\ DOMAIN HidRequest = {"GET_REPORT", "GET_IDLE", "GET_PROTOCOL",
                            "SET_REPORT", "SET_IDLE", "SET_PROTOCOL"}
    /\ HidRequest["GET_REPORT"] = 1    /\ HidRequest["GET_IDLE"] = 2
    /\ HidRequest["GET_PROTOCOL"] = 3  /\ HidRequest["SET_REPORT"] = 9
    /\ HidRequest["SET_IDLE"] = 10     /\ HidRequest["SET_PROTOCOL"] = 11
BY DEF HidRequest

(* Of the class requests only the two about the protocol set up nothing. *)
LEMMA AnswerJoystick ==
    ASSUME NEW num, NEW q \in {1, 2, 9, 10}
    PROVE  \E n \in Nat : Answer(ToInterface("class", q, num)) = SetsUp("hid", n)
<1>1. Answer(ToInterface("class", q, num)) = ClassRequest(ToInterface("class", q, num))
  BY RequestCodes DEF Answer, ToInterface, hidRequestsHook
<1> QED
  BY <1>1, RequestCodes DEF ClassRequest, ToInterface, SizeofHidData

LEMMA AnswerProtocol ==
    ASSUME NEW num, NEW q \in {3, 11}
    PROVE  /\ Answer(ToInterface("class", q, num)) = Accepts("hid")
           /\ AboutProtocol(ToInterface("class", q, num))
           /\ ~ EndsInit(ToInterface("class", q, num))
<1>1. Answer(ToInterface("class", q, num)) = ClassRequest(ToInterface("class", q, num))
  BY RequestCodes DEF Answer, ToInterface, hidRequestsHook
<1>2. ClassRequest(ToInterface("class", q, num)) = Accepts("hid")
  BY RequestCodes DEF ClassRequest, ToInterface
<1> QED
  BY <1>1, <1>2, RequestCodes DEF AboutProtocol, EndsInit, ToInterface

(* A request of the serial driver is taken for one of the joystick and     *)
(* refused.                                                                *)
LEMMA AnswerSerial ==
    ASSUME NEW num, NEW q \in SerialRequests
    PROVE  Answer(ToInterface("class", q, num)) = Refuses
<1>1. Answer(ToInterface("class", q, num)) = ClassRequest(ToInterface("class", q, num))
  BY DEF Answer, ToInterface, hidRequestsHook
<1> QED
  BY <1>1, RequestCodes DEF ClassRequest, ToInterface, SerialRequests

(* What is left behind by a request that is answered, by one that is       *)
(* accepted without a transfer, and by a refused one.                      *)
LEMMA Served ==
    ASSUME NEW r, NEW by \in {"driver", "hid"}, NEW n \in Nat, Control(r), Answer(r) = SetsUp(by, n)
    PROVE  /\ pending' = [for |-> r, n |-> n]
           /\ last' = [req |-> r, by |-> by, got |-> [for |-> r, n |-> n]]
           /\ usbInitState' = IF EndsInit(r) THEN 1 ELSE usbInitState
           /\ UNCHANGED <<bus, epc>>
BY DEF Control, SetsUp

LEMMA Accepted ==
    ASSUME NEW r, Control(r), Answer(r) = Accepts("hid"), ~ EndsInit(r)
    PROVE  /\ pending' = pending
           /\ last' = [req |-> r, by |-> "hid", got |-> pending]
           /\ UNCHANGED <<usbInitState, bus, epc>>
BY DEF Control, Accepts

LEMMA Refused ==
    ASSUME NEW r, Control(r), Answer(r) = Refuses
    PROVE  /\ pending' = pending
           /\ last' = [req |-> r, by |-> None, got |-> pending]
           /\ usbInitState' = IF EndsInit(r) THEN 1 ELSE usbInitState
           /\ UNCHANGED <<bus, epc>>
BY DEF Control, Refuses

LEMMA Endpoints == DOMAIN EndpointConfig = 1 .. 4
BY DEF EndpointConfig

LEMMA NothingFound == Found(0) = << >> /\ Found(0) # Found(14)
BY DEF Found

-----------------------------------------------------------------------------
(* The invariant holds after power-up, and every action keeps it. *)
LEMMA IInvInit == Init => IInv
<1> SUFFICES ASSUME Init PROVE IInv
  OBVIOUS
<1>1. seen = Found(0) /\ at = Starts[0 + 1] /\ 0 \in 0 .. 14
  BY NothingFound DEF Init, Starts
<1>2. FoundSoFar
  BY <1>1 DEF FoundSoFar
<1>3. Sizes /\ States /\ EndpointsReady /\ ReportRead
  BY DEF Init, Sizes, States, EndpointsReady, ReportRead
<1>4. OwnOrUninvited /\ AskedWalked
  BY DEF Init, OwnOrUninvited, AskedWalked, NoRequest, None
<1> QED
  BY <1>2, <1>3, <1>4 DEF IInv

LEMMA ResetIInv == ASSUME IInv, Reset PROVE IInv'
<1>1. seen' = Found(0) /\ at' = Starts[0 + 1] /\ 0 \in 0 .. 14
  BY NothingFound DEF Reset, Starts
<1>2. FoundSoFar'
  BY <1>1 DEF FoundSoFar
<1>3. (Sizes /\ States /\ EndpointsReady /\ ReportRead)'
  BY DEF IInv, Reset, Sizes, States, EndpointsReady, ReportRead
<1>4. (OwnOrUninvited /\ AskedWalked)'
  BY DEF Reset, OwnOrUninvited, AskedWalked, NoRequest, None
<1> QED
  BY <1>2, <1>3, <1>4 DEF IInv

(* What the host knows of the tables changes only as it walks them. *)
LEMMA HostUnchanged ==
    ASSUME IInv, UNCHANGED <<seen, at>>
    PROVE  FoundSoFar' /\ (All' <=> All)
BY DEF IInv, FoundSoFar, All

LEMMA ConfigureIInv == ASSUME IInv, SetAddress \/ Configure \/ Unconfigure PROVE IInv'
<1> USE DEF IInv
<1>1. FoundSoFar' /\ (All' <=> All)
  BY HostUnchanged DEF SetAddress, Configure, Unconfigure, host
<1>2. EndpointsReady'
  <2>1. CASE Configure
    BY <1>1, <2>1, WalkedAll, Endpoints DEF Configure, EndpointsReady
  <2> QED
    BY <2>1 DEF SetAddress, Unconfigure, EndpointsReady
<1>3. (Sizes /\ States)'
  BY Endpoints DEF SetAddress, Configure, Unconfigure, Sizes, States, host
<1>4. (ReportRead /\ OwnOrUninvited /\ AskedWalked)'
  BY <1>1 DEF SetAddress, Configure, Unconfigure, ReportRead, OwnOrUninvited, AskedWalked, host
<1> QED
  BY <1>1, <1>2, <1>3, <1>4

LEMMA WalkIInv == ASSUME IInv, Walk PROVE IInv'
<1> USE DEF IInv
<1>1. PICK n \in 0 .. 14 : seen = Found(n) /\ at = Starts[n + 1]
  BY DEF FoundSoFar
<1>2. at < 99
  BY TableTotal DEF Walk
<1>3. n \in 0 .. 13
  BY <1>1, <1>2 DEF Starts
<1>4. ~ All
  <2>1. DOMAIN seen = 1 .. n
    BY <1>1 DEF Found
  <2>2. All => DOMAIN seen = 1 .. 14
    BY DEF All, Found
  <2>3. 14 \in 1 .. 14 /\ 14 \notin 1 .. n
    BY <1>3
  <2> HIDE DEF IInv
  <2> QED
    BY <2>1, <2>2, <2>3, Zenon
<1>5. PICK k \in 1 .. 14 : /\ Start[k] = at
                           /\ seen' = Append(seen, ConfigurationData[k])
                           /\ at' = at + ConfigurationData[k].len
  BY TableLength DEF Walk
<1>6. k = n + 1
  <2>1. Starts[k] = Starts[n + 1]
    BY <1>1, <1>5, StartValues
  <2> QED
    BY <1>3, <2>1, StartsDistinct
<1>7. seen' = Found(n + 1)
  BY <1>1, <1>3, <1>5, <1>6, FoundNext
<1>8. at' = Starts[(n + 1) + 1]
  <2>1. at' = Start[k] + ConfigurationData[k].size
    BY <1>5, LengthIsSize
  <2>2. Start[k + 1] = Start[k] + ConfigurationData[k].size
    BY <1>3, <1>6, StartDefined
  <2> QED
    BY <1>3, <1>6, <2>1, <2>2, StartValues
<1>9. FoundSoFar'
  BY <1>3, <1>7, <1>8 DEF FoundSoFar
<1>10. (Sizes /\ States)'
  BY DEF Walk, Sizes, States
<1>11. (EndpointsReady /\ ReportRead /\ OwnOrUninvited /\ AskedWalked)'
  BY <1>4 DEF Walk, EndpointsReady, ReportRead, OwnOrUninvited, AskedWalked
<1> QED
  BY <1>9, <1>10, <1>11

LEMMA ReadIInv == ASSUME IInv, ReadDevice \/ ReadString PROVE IInv'
<1> USE DEF IInv
<1>1. FoundSoFar' /\ (All' <=> All)
  BY HostUnchanged DEF ReadDevice, ReadString, host
<1>2. /\ UNCHANGED <<bus, epc>> /\ pending'.n \in Nat
      /\ last'.by \in {None, "driver"} /\ last'.req.to = "device"
      /\ OwnOrUninvited'
      /\ usbInitState' \in {0, 1}
  <2>1. CASE ReadDevice
    BY <2>1, AnswerDevice, Served
       DEF ReadDevice, ToDevice, OwnOrUninvited, States, None
  <2>2. CASE ReadString
    <3>1. PICK i \in NamedStrings \cup {0, 5, 238} : Control(ToDevice("string", i))
      BY <2>2 DEF ReadString
    <3>2. i \in Nat /\ (i \in 0 .. 4 <=> i \in NamedStrings \cup {0})
      BY <3>1 DEF NamedStrings
    <3>3. CASE i \in 0 .. 4
      BY <3>1, <3>2, <3>3, AnswerString, Served DEF ToDevice, OwnOrUninvited, States, None
    <3>4. CASE i \notin 0 .. 4
      BY <3>1, <3>2, <3>4, AnswerString, Refused DEF ToDevice, OwnOrUninvited, States, None
    <3> QED
      BY <3>3, <3>4
  <2> QED
    BY <2>1, <2>2
<1>3. UNCHANGED <<image, report>>
  BY DEF ReadDevice, ReadString, host
<1>4. (Sizes /\ States)'
  BY <1>2, <1>3 DEF Sizes, States, None
<1>5. (EndpointsReady /\ ReportRead /\ AskedWalked)'
  BY <1>1, <1>2, <1>3 DEF EndpointsReady, ReportRead, AskedWalked
<1> QED
  BY <1>1, <1>2, <1>4, <1>5

LEMMA ReadConfigurationIInv == ASSUME IInv, ReadConfiguration PROVE IInv'
<1> USE DEF IInv
<1>1. FoundSoFar' /\ (All' <=> All)
  BY HostUnchanged DEF ReadConfiguration
<1>2. PICK n \in FirstReads \cup {TotalLength} :
        Control(ToDevice("configuration", 0)) /\ image' = Got(n)
  BY DEF ReadConfiguration
<1>3. n \in Nat
  BY <1>2, FirstReadsAssumption, TableTotal
<1>4. /\ pending' = [for |-> ToDevice("configuration", 0), n |-> 99]
      /\ last' = [req |-> ToDevice("configuration", 0), by |-> "driver", got |-> pending']
      /\ usbInitState' = usbInitState
      /\ UNCHANGED <<bus, epc>>
  BY <1>2, AnswerConfiguration, Served DEF EndsInit, ToDevice
<1>5. image' \in 0 .. 99
  BY <1>2, <1>3, <1>4 DEF Got, Min2
<1>6. (Sizes /\ States)'
  BY <1>4, <1>5 DEF ReadConfiguration, Sizes, States
<1>7. (EndpointsReady /\ ReportRead)'
  BY <1>1, <1>4 DEF ReadConfiguration, EndpointsReady, ReportRead
<1>8. (OwnOrUninvited /\ AskedWalked)'
  BY <1>4 DEF OwnOrUninvited, AskedWalked, ToDevice, None
<1> QED
  BY <1>1, <1>6, <1>7, <1>8

(* There is one interface of each driver, and one HID descriptor. *)
LEMMA JoystickInterfaceFound ==
    ASSUME All
    PROVE  /\ \A i \in Interfaces : i.class = "hid" => i = ConfigurationData[11]
           /\ \A i \in Interfaces : i.class = "cdc" => i = ConfigurationData[2]
           /\ \A h \in Find("hid") : seen[h].report = 44
BY AllFound, TableInterfaces

LEMMA ReadReportIInv == ASSUME IInv, ReadReport PROVE IInv'
<1> USE DEF IInv
<1>1. FoundSoFar' /\ (All' <=> All) /\ All
  BY HostUnchanged DEF ReadReport, EndpointsReady
<1>2. PICK i \in Interfaces, h \in Find("hid") :
        /\ i.class = "hid"
        /\ Control(ToInterface("descriptor", "report", i.num))
        /\ report' = Got(seen[h].report)
  BY DEF ReadReport
<1> DEFINE r == ToInterface("descriptor", "report", i.num)
<1>3. /\ pending' = [for |-> r, n |-> 44]
      /\ last' = [req |-> r, by |-> "hid", got |-> pending']
      /\ usbInitState' = 1
      /\ UNCHANGED <<bus, epc>>
  BY <1>2, AnswerReport, Served DEF EndsInit, ToInterface
<1>4. report' = 44 /\ r.index = 2
  BY <1>1, <1>2, <1>3, JoystickInterfaceFound, TableInterfaces DEF Got, Min2, ToInterface
<1> HIDE DEF r
<1>5. (Sizes /\ States)'
  BY <1>3, <1>4 DEF ReadReport, Sizes, States
<1>6. (EndpointsReady /\ ReportRead)'
  BY <1>1, <1>3 DEF EndpointsReady, ReportRead
<1>7. (OwnOrUninvited /\ AskedWalked)'
  BY <1>1, <1>3, <1>4 DEF OwnOrUninvited, AskedWalked, None
<1> QED
  BY <1>1, <1>5, <1>6, <1>7

LEMMA JoystickRequestIInv == ASSUME IInv, JoystickRequest PROVE IInv'
<1> USE DEF IInv
<1>1. FoundSoFar' /\ (All' <=> All) /\ All
  BY HostUnchanged DEF JoystickRequest, EndpointsReady, host
<1>2. PICK i \in Interfaces, q \in DOMAIN HidRequest :
        i.class = "hid" /\ Control(ToInterface("class", HidRequest[q], i.num))
  BY DEF JoystickRequest
<1>3. HidRequest[q] \in {1, 2, 9, 10} \/ HidRequest[q] \in {3, 11}
  BY RequestCodes
<1> DEFINE r == ToInterface("class", HidRequest[q], i.num)
<1>4. r.to = "interface" /\ r.index = 2
  BY <1>1, <1>2, JoystickInterfaceFound, TableInterfaces DEF ToInterface
<1> HIDE DEF r
<1>5. /\ pending'.n \in Nat /\ usbInitState' \in {0, 1} /\ UNCHANGED <<bus, epc>>
      /\ last'.req = r /\ last'.by = "hid"
      /\ last'.got.for = r \/ AboutProtocol(r)
  <2>1. CASE HidRequest[q] \in {1, 2, 9, 10}
    <3>1. PICK n \in Nat : Answer(r) = SetsUp("hid", n)
      BY <2>1, AnswerJoystick DEF r
    <3>2. /\ pending' = [for |-> r, n |-> n]
          /\ last' = [req |-> r, by |-> "hid", got |-> [for |-> r, n |-> n]]
          /\ usbInitState' = IF EndsInit(r) THEN 1 ELSE usbInitState
          /\ UNCHANGED <<bus, epc>>
      BY <1>2, <3>1, Served DEF r
    <3> QED
      BY <3>2 DEF States
  <2>2. CASE HidRequest[q] \in {3, 11}
    <3>1. Answer(r) = Accepts("hid") /\ AboutProtocol(r) /\ ~ EndsInit(r)
      BY <2>2, AnswerProtocol DEF r
    <3>2. /\ pending' = pending
          /\ last' = [req |-> r, by |-> "hid", got |-> pending]
          /\ UNCHANGED <<usbInitState, bus, epc>>
      BY <1>2, <3>1, Accepted DEF r
    <3> QED
      BY <3>1, <3>2 DEF States
  <2> QED
    BY <1>3, <2>1, <2>2
<1>6. (Sizes /\ States)'
  BY <1>5 DEF JoystickRequest, Sizes, States, host
<1>7. (EndpointsReady /\ ReportRead)'
  BY <1>1, <1>5 DEF JoystickRequest, EndpointsReady, ReportRead, host
<1>8. (OwnOrUninvited /\ AskedWalked)'
  BY <1>1, <1>4, <1>5 DEF OwnOrUninvited, AskedWalked, None
<1> QED
  BY <1>1, <1>6, <1>7, <1>8

LEMMA SerialRequestIInv == ASSUME IInv, SerialRequest PROVE IInv'
<1> USE DEF IInv
<1>1. FoundSoFar' /\ (All' <=> All) /\ All
  BY HostUnchanged DEF SerialRequest, EndpointsReady, host
<1>2. PICK i \in Interfaces, q \in SerialRequests :
        i.class = "cdc" /\ Control(ToInterface("class", q, i.num))
  BY DEF SerialRequest
<1> DEFINE r == ToInterface("class", q, i.num)
<1>3. /\ pending' = pending
      /\ last' = [req |-> r, by |-> None, got |-> pending]
      /\ usbInitState' \in {1, usbInitState}
      /\ UNCHANGED <<bus, epc>>
  BY <1>2, AnswerSerial, Refused
<1>4. r.to = "interface" /\ r.index = 0
  BY <1>1, <1>2, JoystickInterfaceFound, TableInterfaces DEF ToInterface
<1> HIDE DEF r
<1>5. (Sizes /\ States)'
  BY <1>3 DEF SerialRequest, Sizes, States, host
<1>6. (EndpointsReady /\ ReportRead)'
  BY <1>1, <1>3 DEF SerialRequest, EndpointsReady, ReportRead, host
<1>7. (OwnOrUninvited /\ AskedWalked)'
  BY <1>1, <1>3, <1>4 DEF OwnOrUninvited, AskedWalked
<1> QED
  BY <1>1, <1>5, <1>6, <1>7

LEMMA IInvNext == IInv /\ [Next]_vars => IInv'
<1> SUFFICES ASSUME IInv, [Next]_vars PROVE IInv'
  OBVIOUS
<1>1. CASE UNCHANGED vars
  BY <1>1 DEF vars, host, IInv, FoundSoFar, All, Sizes, EndpointsReady, ReportRead,
              OwnOrUninvited, AskedWalked, States
<1>2. CASE Next
  BY <1>2, ResetIInv, ConfigureIInv, WalkIInv, ReadIInv, ReadConfigurationIInv,
     ReadReportIInv, JoystickRequestIInv, SerialRequestIInv DEF Next
<1> QED
  BY <1>1, <1>2

(* The inductive invariant: the walk of a host stays on the descriptors,   *)
(* the endpoints of a configured device are initialised, and a request     *)
(* that was not answered with its own data is not one that the             *)
(* descriptors invite.                                                     *)
THEOREM RequestsInvariant == Spec => []IInv
BY IInvInit, IInvNext, PTL DEF Spec

(* The types (usbcfg.c, usb_hid.c): a host never walks past the table,     *)
(* nor reads more of a descriptor than there is.                           *)
THEOREM TypeCorrect == Spec => []TypeOK
<1>1. IInv => TypeOK
  <2> SUFFICES ASSUME IInv PROVE TypeOK
    OBVIOUS
  <2>1. PICK n \in 0 .. 14 : seen = Found(n) /\ at = Starts[n + 1]
    BY DEF IInv, FoundSoFar
  <2>2. at \in 0 .. 99
    BY <2>1 DEF Starts
  <2>3. Len(seen) <= 14
    <3>1. Len(Found(n)) = n
      BY DEF Found
    <3> QED
      BY <2>1, <3>1
  <2> QED
    BY <2>2, <2>3, TableTotal, TableLength, ReportSizeValue, Endpoints DEF IInv, Sizes, States, TypeOK
<1> QED
  BY <1>1, RequestsInvariant, PTL

-----------------------------------------------------------------------------
(* Sets of one, two and three elements. *)
LEMMA One ==
    ASSUME NEW S, NEW a \in S, \A x \in S : x = a
    PROVE  IsFiniteSet(S) /\ Cardinality(S) = 1
<1>1. S = {a}
  OBVIOUS
<1> QED
  BY <1>1, FS_Singleton

LEMMA Two ==
    ASSUME NEW S, NEW a \in S, NEW b \in S, a # b, \A x \in S : x = a \/ x = b
    PROVE  IsFiniteSet(S) /\ Cardinality(S) = 2
<1>1. S = {a} \cup {b} /\ b \notin {a}
  OBVIOUS
<1>2. IsFiniteSet({a}) /\ Cardinality({a}) = 1
  BY FS_Singleton
<1> QED
  BY <1>1, <1>2, FS_AddElement

LEMMA Three ==
    ASSUME NEW S, NEW a \in S, NEW b \in S, NEW c \in S, a # b, a # c, b # c,
           \A x \in S : x = a \/ x = b \/ x = c
    PROVE  Cardinality(S) = 3
<1>1. S = {a, b} \cup {c} /\ c \notin {a, b}
  OBVIOUS
<1>2. IsFiniteSet({a, b}) /\ Cardinality({a, b}) = 2
  <2>1. a \in {a, b} /\ b \in {a, b} /\ \A x \in {a, b} : x = a \/ x = b
    OBVIOUS
  <2> QED
    BY <2>1, Two
<1> QED
  BY <1>1, <1>2, FS_AddElement

(* The maximum of a set, by its defining property. *)
LEMMA MaxIs ==
    ASSUME NEW S, NEW m \in S, S \subseteq Int, \A k \in S : k <= m
    PROVE  Max(S) = m
<1>1. Max(S) \in S /\ \A k \in S : Max(S) >= k
  <2>1. \A k \in S : m >= k
    OBVIOUS
  <2> QED
    BY <2>1 DEF Max
<1>2. PICK x : x = Max(S)
  OBVIOUS
<1>3. x \in S /\ x >= m
  BY <1>1, <1>2
<1>4. x \in Int /\ m \in Int /\ x <= m
  BY <1>3
<1>5. x = m
  BY <1>3, <1>4
<1> QED
  BY <1>2, <1>5

(* The interface that each descriptor stands in. *)
LEMMA WithinIs ==
    ASSUME All
    PROVE  \A k \in 1 .. 14 :
              /\ k \in 2 .. 7 => Within(k) = 2
              /\ k \in 8 .. 10 => Within(k) = 8
              /\ k \in 11 .. 14 => Within(k) = 11
<1> TAKE k \in 1 .. 14
<1> DEFINE S == {i \in {2, 8, 11} : i <= k}
<1>1. Within(k) = Max(S)
  BY AllFound DEF Within
<1>2. S \subseteq Int
  OBVIOUS
<1>3. CASE k \in 2 .. 7
  <2>1. 2 \in S /\ \A i \in S : i <= 2
    BY <1>3
  <2>2. k \notin 8 .. 10 /\ k \notin 11 .. 14
    BY <1>3
  <2> HIDE DEF S
  <2>3. Max(S) = 2
    BY <1>2, <2>1, MaxIs, Zenon
  <2> QED
    BY <1>1, <2>2, <2>3, Zenon
<1>4. CASE k \in 8 .. 10
  <2>1. 8 \in S /\ \A i \in S : i <= 8
    BY <1>4
  <2>2. k \notin 2 .. 7 /\ k \notin 11 .. 14
    BY <1>4
  <2> HIDE DEF S
  <2>3. Max(S) = 8
    BY <1>2, <2>1, MaxIs, Zenon
  <2> QED
    BY <1>1, <2>2, <2>3, Zenon
<1>5. CASE k \in 11 .. 14
  <2>1. 11 \in S /\ \A i \in S : i <= 11
    BY <1>5
  <2>2. k \notin 2 .. 7 /\ k \notin 8 .. 10
    BY <1>5
  <2> HIDE DEF S
  <2>3. Max(S) = 11
    BY <1>2, <2>1, MaxIs, Zenon
  <2> QED
    BY <1>1, <2>2, <2>3, Zenon
<1> QED
  BY <1>3, <1>4, <1>5

(* The interfaces that the functional descriptors name. *)
LEMMA TableFunctional ==
    /\ ConfigurationData[3].names = {}   /\ ConfigurationData[4].names = {1}
    /\ ConfigurationData[5].names = {}   /\ ConfigurationData[6].names = {1}
BY DEF ConfigurationData, Functional

(* A host that walks the configuration descriptor by the lengths it finds  *)
(* meets a descriptor at every step, and finds the interfaces and          *)
(* endpoints that are announced (usbcfg.c:84-186).                         *)
THEOREM WalkIsSound == Spec => []WalkMeetsAnnounced
<1>1. IInv => WalkMeetsAnnounced
  <2> SUFFICES ASSUME IInv PROVE WalkMeetsAnnounced
    OBVIOUS
  <2>1. at < TotalLength => \E k \in DOMAIN ConfigurationData : Start[k] = at
    <3>1. PICK n \in 0 .. 14 : seen = Found(n) /\ at = Starts[n + 1]
      BY DEF IInv, FoundSoFar
    <3>2. at < 99 => n \in 0 .. 13
      BY <3>1 DEF Starts
    <3> QED
      BY <3>1, <3>2, StartValues, TableTotal, TableLength
  <2> SUFFICES ASSUME Walked
               PROVE  /\ {i.num : i \in Interfaces} = 0 .. NumInterfaces - 1
                      /\ Cardinality(Find("interface")) = NumInterfaces
                      /\ \A k \in Find("interface") :
                          seen[k].eps = Cardinality({e \in Find("endpoint") : Within(e) = k})
                      /\ \A k \in Find("functional"),
                            n \in UNION {seen[f].names : f \in Find("functional")} :
                          /\ seen[Within(k)].class = "cdc"
                          /\ \E i \in Interfaces : i.num = n /\ i.class = "data"
    BY <2>1 DEF WalkMeetsAnnounced
  <2>2. All
    BY WalkedAll DEF IInv
  <2>3. {i.num : i \in Interfaces} = 0 .. NumInterfaces - 1
    <3>1. 0 .. NumInterfaces - 1 = {0, 1, 2}
      BY DEF NumInterfaces
    <3>2. {i.num : i \in Interfaces} = {0, 1, 2}
      BY <2>2, AllFound, TableInterfaces
    <3> QED
      BY <3>1, <3>2
  <2>4. Cardinality(Find("interface")) = NumInterfaces
    <3> DEFINE S == Find("interface")
    <3>1. /\ 2 \in S /\ 8 \in S /\ 11 \in S /\ 2 # 8 /\ 2 # 11 /\ 8 # 11
          /\ \A x \in S : x = 2 \/ x = 8 \/ x = 11
      BY <2>2, AllFound
    <3> HIDE DEF S
    <3>2. Cardinality(S) = 3
      BY <3>1, Three, SMT
    <3> QED
      BY <3>2 DEF S, NumInterfaces
  <2>5. ASSUME NEW k \in Find("interface")
        PROVE  seen[k].eps = Cardinality({e \in Find("endpoint") : Within(e) = k})
    <3> DEFINE S == {e \in Find("endpoint") : Within(e) = k}
    <3>1. k \in {2, 8, 11} /\ Find("endpoint") = {7, 9, 10, 13, 14} /\ seen[k] = ConfigurationData[k]
      BY <2>2, AllFound
    <3>2. /\ Within(7) = 2 /\ Within(9) = 8 /\ Within(10) = 8
          /\ Within(13) = 11 /\ Within(14) = 11
      BY <2>2, WithinIs
    <3>3. CASE k = 2
      <4>1. S = {7}
        BY <3>1, <3>2, <3>3
      <4>3. Cardinality(S) = 1
        BY <4>1, One
      <4> QED
        BY <3>1, <3>3, <4>3, TableInterfaces
    <3>4. CASE k = 8
      <4>1. S = {9, 10}
        BY <3>1, <3>2, <3>4
      <4>2. 9 \in S /\ 10 \in S /\ 9 # 10 /\ \A x \in S : x = 9 \/ x = 10
        BY <4>1
      <4> HIDE DEF S
      <4>3. Cardinality(S) = 2
        BY <4>2, Two, SMT
      <4> QED
        BY <3>1, <3>4, <4>3, TableInterfaces DEF S
    <3>5. CASE k = 11
      <4>1. S = {13, 14}
        BY <3>1, <3>2, <3>5
      <4>2. 13 \in S /\ 14 \in S /\ 13 # 14 /\ \A x \in S : x = 13 \/ x = 14
        BY <4>1
      <4> HIDE DEF S
      <4>3. Cardinality(S) = 2
        BY <4>2, Two, SMT
      <4> QED
        BY <3>1, <3>5, <4>3, TableInterfaces DEF S
    <3> QED
      BY <3>1, <3>3, <3>4, <3>5
  <2>6. ASSUME NEW k \in Find("functional"),
               NEW n \in UNION {seen[f].names : f \in Find("functional")}
        PROVE  /\ seen[Within(k)].class = "cdc"
               /\ \E i \in Interfaces : i.num = n /\ i.class = "data"
    <3>1. Within(k) = 2 /\ seen[2].class = "cdc"
      BY <2>2, AllFound, WithinIs, TableInterfaces
    <3>2. n = 1
      <4>1. PICK f \in {3, 4, 5, 6} : n \in ConfigurationData[f].names
        BY <2>2, AllFound
      <4> QED
        BY <4>1, TableFunctional
    <3>3. ConfigurationData[8] \in Interfaces
      BY <2>2, AllFound
    <3> QED
      BY <3>1, <3>2, <3>3, TableInterfaces
  <2> QED
    BY <2>3, <2>4, <2>5, <2>6
<1> QED
  BY <1>1, RequestsInvariant, PTL

-----------------------------------------------------------------------------
(* The endpoints that are announced, against those that are initialised. *)
LEMMA EndpointTable ==
    /\ \A k \in {7, 9, 10, 13, 14} :
        LET d == ConfigurationData[k]
        IN  /\ d.ep \in 1 .. 4
            /\ EndpointConfig[d.ep].mode = d.mode
            /\ (IF d.dir = "in" THEN EndpointConfig[d.ep].in ELSE EndpointConfig[d.ep].out) >= d.packet
    /\ ConfigurationData[13].dir = "in" /\ ConfigurationData[13].packet = 4
BY DEF ConfigurationData, EndpointConfig, Interface, Functional, Endpoint, JoystickInterface

(* While the device is configured, every announced endpoint is             *)
(* initialised as announced (usbcfg.c:360-376).                            *)
THEOREM EndpointsServeDrivers == Spec => []OpenedIsInitialised
<1>1. IInv => OpenedIsInitialised
  BY AllFound, EndpointTable DEF IInv, EndpointsReady, OpenedIsInitialised
<1> QED
  BY <1>1, RequestsInvariant, PTL

(* A request that the descriptors invite is served with data of its own:   *)
(* the only requests to the joystick that send what an earlier one left    *)
(* behind are the two about the protocol (usb_hid.c:71, 79), which its     *)
(* interface descriptor, no boot interface, does not invite.               *)
THEOREM AnswersAreOwn == Spec => []OwnAnswer
<1>1. IInv => OwnAnswer
  <2> SUFFICES ASSUME IInv, Invited(last.req)
               PROVE  last.by # None /\ last.got.for = last.req
    BY DEF OwnAnswer
  <2>1. last.req.to # None
    BY DEF Invited, None
  <2>2. CASE last.req.to = "device" /\ last.req.req = "string"
                                    /\ last.req.index \notin NamedStrings \cup {0}
    BY <2>2 DEF Invited
  <2>3. CASE last.req.to = "interface"
    <3>1. PICK i \in Interfaces : /\ i.num = last.req.index /\ i.class = "hid"
                                  /\ AboutProtocol(last.req) => i.subclass = 1
      BY <2>3 DEF Invited
    <3>2. i.num = 2 /\ i.subclass = 0
      BY <2>3, <3>1, JoystickInterfaceFound, TableInterfaces DEF IInv, AskedWalked
    <3>3. last.req.index = 2 /\ ~ AboutProtocol(last.req)
      BY <3>1, <3>2
    <3> QED
      BY <2>1, <2>3, <3>3 DEF IInv, OwnOrUninvited
  <2> QED
    BY <2>1, <2>2, <2>3 DEF IInv, OwnOrUninvited
<1> QED
  BY <1>1, RequestsInvariant, PTL

(* Every request of the serial driver is refused, not only some: the hook  *)
(* hands class requests to an interface to the joystick, whichever         *)
(* interface they name (usb_hid.c:38-89).                                  *)
THEOREM SerialAlwaysRefused ==
    Spec => [](last.req.to = "interface" /\ last.req.index = 0 => last.by = None)
<1>1. IInv => (last.req.to = "interface" /\ last.req.index = 0 => last.by = None)
  BY DEF IInv, OwnOrUninvited, None
<1> QED
  BY <1>1, RequestsInvariant, PTL

-----------------------------------------------------------------------------
(* What has been parsed, as long as every field so far had its usages. *)
State(usages, size, count, depth, bits) ==
    [usages |-> usages, size |-> size, count |-> count, depth |-> depth, bits |-> bits,
     named |-> TRUE]

(* The kinds of items. *)
Plain(tag) == [tag |-> tag]
With(tag, val) == [tag |-> tag, val |-> val]

(* The items of the report descriptor, by kind. *)
LEMMA Items ==
    /\ Len(ReportItems) = 15
    /\ ReportItems[1] = Plain("usage")     /\ ReportItems[2] = Plain("open")
    /\ ReportItems[3] = Plain("open")      /\ ReportItems[4] = Plain("usage")
    /\ ReportItems[5] = Plain("usage")     /\ ReportItems[6] = Plain("usage")
    /\ ReportItems[7] = With("size", 8)    /\ ReportItems[8] = With("count", 3)
    /\ ReportItems[9] = Plain("input")     /\ ReportItems[10] = With("usages", 8)
    /\ ReportItems[11] = With("size", 1)   /\ ReportItems[12] = With("count", 8)
    /\ ReportItems[13] = Plain("input")    /\ ReportItems[14] = Plain("close")
    /\ ReportItems[15] = Plain("close")
BY DEF ReportItems, Plain, With

(* What each kind of item does to the parser. *)
LEMMA ParseUsage ==
    ASSUME NEW u \in Nat, NEW s \in Nat, NEW c \in Nat, NEW d \in Nat, NEW b \in Nat,
           NEW w, w = u + 1
    PROVE  ParseItem(State(u, s, c, d, b), Plain("usage")) = State(w, s, c, d, b)
BY DEF ParseItem, State, Plain, With

LEMMA ParseUsages ==
    ASSUME NEW u \in Nat, NEW s \in Nat, NEW c \in Nat, NEW d \in Nat, NEW b \in Nat,
           NEW v \in Nat, NEW w, w = u + v
    PROVE  ParseItem(State(u, s, c, d, b), With("usages", v)) = State(w, s, c, d, b)
BY DEF ParseItem, State, Plain, With

LEMMA ParseSize ==
    ASSUME NEW u \in Nat, NEW s \in Nat, NEW c \in Nat, NEW d \in Nat, NEW b \in Nat,
           NEW v \in Nat
    PROVE  ParseItem(State(u, s, c, d, b), With("size", v)) = State(u, v, c, d, b)
BY DEF ParseItem, State, Plain, With

LEMMA ParseCount ==
    ASSUME NEW u \in Nat, NEW s \in Nat, NEW c \in Nat, NEW d \in Nat, NEW b \in Nat,
           NEW v \in Nat
    PROVE  ParseItem(State(u, s, c, d, b), With("count", v)) = State(u, s, v, d, b)
BY DEF ParseItem, State, Plain, With

LEMMA ParseOpen ==
    ASSUME NEW u \in Nat, NEW s \in Nat, NEW c \in Nat, NEW d \in Nat, NEW b \in Nat,
           NEW w, w = d + 1
    PROVE  ParseItem(State(u, s, c, d, b), Plain("open")) = State(0, s, c, w, b)
BY DEF ParseItem, State, Plain, With

LEMMA ParseClose ==
    ASSUME NEW u \in Nat, NEW s \in Nat, NEW c \in Nat, NEW d \in Nat, NEW b \in Nat,
           NEW w, w = d - 1
    PROVE  ParseItem(State(u, s, c, d, b), Plain("close")) = State(u, s, c, w, b)
BY DEF ParseItem, State, Plain, With

LEMMA ParseInput ==
    ASSUME NEW u \in Nat, NEW s \in Nat, NEW c \in Nat, NEW d \in Nat, NEW b \in Nat,
           u = c, NEW w, w = b + s * c
    PROVE  ParseItem(State(u, s, c, d, b), Plain("input")) = State(0, s, c, d, w)
BY DEF ParseItem, State, Plain, With

(* The states of the parser, before the first item and after each. *)
Parse ==
    << State(0, 0, 0, 0, 0),
       State(1, 0, 0, 0, 0), State(0, 0, 0, 1, 0), State(0, 0, 0, 2, 0),
       State(1, 0, 0, 2, 0), State(2, 0, 0, 2, 0), State(3, 0, 0, 2, 0),
       State(3, 8, 0, 2, 0), State(3, 8, 3, 2, 0), State(0, 8, 3, 2, 24),
       State(8, 8, 3, 2, 24),
       State(8, 1, 3, 2, 24), State(8, 1, 8, 2, 24), State(0, 1, 8, 2, 32),
       State(0, 1, 8, 1, 32), State(0, 1, 8, 0, 32) >>

(* The states above, one by one. *)
LEMMA ParseStates ==
    /\ Parse[1] = State(0, 0, 0, 0, 0) /\ Parse[2] = State(1, 0, 0, 0, 0)
    /\ Parse[3] = State(0, 0, 0, 1, 0) /\ Parse[4] = State(0, 0, 0, 2, 0)
    /\ Parse[5] = State(1, 0, 0, 2, 0) /\ Parse[6] = State(2, 0, 0, 2, 0)
    /\ Parse[7] = State(3, 0, 0, 2, 0) /\ Parse[8] = State(3, 8, 0, 2, 0)
    /\ Parse[9] = State(3, 8, 3, 2, 0) /\ Parse[10] = State(0, 8, 3, 2, 24)
    /\ Parse[11] = State(8, 8, 3, 2, 24)/\ Parse[12] = State(8, 1, 3, 2, 24)
    /\ Parse[13] = State(8, 1, 8, 2, 24)/\ Parse[14] = State(0, 1, 8, 2, 32)
    /\ Parse[15] = State(0, 1, 8, 1, 32)/\ Parse[16] = State(0, 1, 8, 0, 32)
BY DEF Parse

(* Every state follows from the one before by the item between them. *)
LEMMA ParseFollows == \A k \in 1 .. 15 : Parse[k + 1] = ParseItem(Parse[k], ReportItems[k])
<1>1. ParseItem(State(0, 0, 0, 0, 0), Plain("usage")) = State(1, 0, 0, 0, 0)
  BY ParseUsage
<1>2. ParseItem(State(1, 0, 0, 0, 0), Plain("open")) = State(0, 0, 0, 1, 0)
  BY ParseOpen
<1>3. ParseItem(State(0, 0, 0, 1, 0), Plain("open")) = State(0, 0, 0, 2, 0)
  BY ParseOpen
<1>4. ParseItem(State(0, 0, 0, 2, 0), Plain("usage")) = State(1, 0, 0, 2, 0)
  BY ParseUsage
<1>5. ParseItem(State(1, 0, 0, 2, 0), Plain("usage")) = State(2, 0, 0, 2, 0)
  BY ParseUsage
<1>6. ParseItem(State(2, 0, 0, 2, 0), Plain("usage")) = State(3, 0, 0, 2, 0)
  BY ParseUsage
<1>7. ParseItem(State(3, 0, 0, 2, 0), With("size", 8)) = State(3, 8, 0, 2, 0)
  BY ParseSize
<1>8. ParseItem(State(3, 8, 0, 2, 0), With("count", 3)) = State(3, 8, 3, 2, 0)
  BY ParseCount
<1>9. ParseItem(State(3, 8, 3, 2, 0), Plain("input")) = State(0, 8, 3, 2, 24)
  BY ParseInput
<1>10. ParseItem(State(0, 8, 3, 2, 24), With("usages", 8)) = State(8, 8, 3, 2, 24)
  BY ParseUsages
<1>11. ParseItem(State(8, 8, 3, 2, 24), With("size", 1)) = State(8, 1, 3, 2, 24)
  BY ParseSize
<1>12. ParseItem(State(8, 1, 3, 2, 24), With("count", 8)) = State(8, 1, 8, 2, 24)
  BY ParseCount
<1>13. ParseItem(State(8, 1, 8, 2, 24), Plain("input")) = State(0, 1, 8, 2, 32)
  BY ParseInput
<1>14. ParseItem(State(0, 1, 8, 2, 32), Plain("close")) = State(0, 1, 8, 1, 32)
  BY ParseClose
<1>15. ParseItem(State(0, 1, 8, 1, 32), Plain("close")) = State(0, 1, 8, 0, 32)
  BY ParseClose
<1> QED
  BY <1>1, <1>2, <1>3, <1>4, <1>5, <1>6, <1>7, <1>8, <1>9, <1>10,
     <1>11, <1>12, <1>13, <1>14, <1>15, ParseStates, Items

(* The parser ends in the last of them: ParsedTo exists, as Parse shows,   *)
(* and unfolds along the items.                                            *)
LEMMA ParsedIs == Parsed = State(0, 1, 8, 0, 32)
<1> DEFINE Zero == [usages |-> 0, size |-> 0, count |-> 0, depth |-> 0, bits |-> 0, named |-> TRUE]
           Body(f) == [k \in 0 .. Len(ReportItems) |->
                          IF k = 0 THEN Zero ELSE ParseItem(f[k - 1], ReportItems[k])]
           p == [k \in 0 .. 15 |-> Parse[k + 1]]
           Left(f) == /\ f[0] = Zero
                      /\ \A k \in 1 .. 15 : f[k] = ParseItem(f[k - 1], ReportItems[k])
<1>1. p = Body(p)
  <2>1. Parse[1] = Zero
    BY DEF Parse, State
  <2> HIDE DEF Zero
  <2>2. \A k \in 0 .. 15 : p[k] = IF k = 0 THEN Zero ELSE ParseItem(p[k - 1], ReportItems[k])
    BY <2>1, ParseFollows
  <2> QED
    BY <2>2, Items
<1>2. ParsedTo = CHOOSE f : f = Body(f)
  BY DEF ParsedTo
<1> HIDE DEF p
<1>3. ParsedTo = Body(ParsedTo)
  <2> HIDE DEF Body
  <2> QED
    BY <1>1, <1>2
<1> HIDE DEF ParsedTo, Zero
<1>4. ParsedTo[0] = Zero
  BY <1>3, Items
<1>5. \A k \in 1 .. 15 : ParsedTo[k] = ParseItem(ParsedTo[k - 1], ReportItems[k])
  BY <1>3, Items
<1>6. Parse[1] = Zero
  BY DEF Parse, State, Zero
<1> HIDE DEF Body
<1>7. /\ ParsedTo[0] = Parse[1]
      /\ ParsedTo[0] = Parse[1] => ParsedTo[1] = Parse[2]
      /\ ParsedTo[1] = Parse[2] => ParsedTo[2] = Parse[3]
      /\ ParsedTo[2] = Parse[3] => ParsedTo[3] = Parse[4]
      /\ ParsedTo[3] = Parse[4] => ParsedTo[4] = Parse[5]
      /\ ParsedTo[4] = Parse[5] => ParsedTo[5] = Parse[6]
      /\ ParsedTo[5] = Parse[6] => ParsedTo[6] = Parse[7]
      /\ ParsedTo[6] = Parse[7] => ParsedTo[7] = Parse[8]
      /\ ParsedTo[7] = Parse[8] => ParsedTo[8] = Parse[9]
      /\ ParsedTo[8] = Parse[9] => ParsedTo[9] = Parse[10]
      /\ ParsedTo[9] = Parse[10] => ParsedTo[10] = Parse[11]
      /\ ParsedTo[10] = Parse[11] => ParsedTo[11] = Parse[12]
      /\ ParsedTo[11] = Parse[12] => ParsedTo[12] = Parse[13]
      /\ ParsedTo[12] = Parse[13] => ParsedTo[13] = Parse[14]
      /\ ParsedTo[13] = Parse[14] => ParsedTo[14] = Parse[15]
      /\ ParsedTo[14] = Parse[15] => ParsedTo[15] = Parse[16]
  BY <1>4, <1>5, <1>6, ParseFollows
<1>8. ParsedTo[15] = Parse[16]
  BY <1>7
<1> QED
  BY <1>8, Items DEF Parsed, Parse

(* The collections are closed, every field has its usages, and the fields  *)
(* take as many bits as hid_data.                                          *)
LEMMA LaidOut ==
    Parsed.depth = 0 /\ Parsed.named /\ Parsed.bits = 8 * SizeofHidData
BY ParsedIs DEF State, SizeofHidData

(* A host that has read the report descriptor lays a report out as         *)
(* hid_data is, and receives it in one packet (usbcfg.c:54-82,             *)
(* usb_hid.h:136-139).                                                    *)
THEOREM ReportMatchesHidData == Spec => []ReportIsHidData
<1>1. IInv => ReportIsHidData
  <2> SUFFICES ASSUME IInv, report > 0
               PROVE  /\ report = ReportSize
                      /\ Parsed.depth = 0 /\ Parsed.named
                      /\ Parsed.bits = 8 * SizeofHidData
                      /\ \E k \in Find("endpoint") :
                          /\ seen[k].dir = "in" /\ seen[Within(k)].class = "hid"
                          /\ SizeofHidData <= seen[k].packet
    BY DEF ReportIsHidData
  <2>1. All /\ report = 44
    BY DEF IInv, ReportRead, Sizes
  <2>2. /\ 13 \in Find("endpoint") /\ seen[13].dir = "in" /\ seen[13].packet = 4
        /\ seen[Within(13)].class = "hid"
    BY <2>1, AllFound, WithinIs, EndpointTable, TableInterfaces
  <2> QED
    BY <2>1, <2>2, LaidOut, ReportSizeValue DEF SizeofHidData
<1> QED
  BY <1>1, RequestsInvariant, PTL
=============================================================================
