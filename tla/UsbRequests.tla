----------------------------- MODULE UsbRequests -----------------------------
(***************************************************************************)
(* How a host gets to know the device (usbcfg.c) and what the device       *)
(* answers to its control requests (usb_hid.c).  The host reads the        *)
(* configuration descriptor, walks it by the lengths it finds there,       *)
(* configures the device and sends the requests that the descriptors       *)
(* invite; it may reset the bus at any moment.  A descriptor is a record:  *)
(* len is the bLength that is written into it, size the bytes it takes.    *)
(***************************************************************************)
EXTENDS Integers, Sequences, FiniteSets, FiniteSetsExt

CONSTANT FirstReads     \* lengths a host may first ask the configuration for

(* The total is in the bytes 2 and 3: a host asks for four at least. *)
ASSUME FirstReadsAssumption == FirstReads \subseteq {n \in Nat : 4 <= n /\ n <= 65535}

-----------------------------------------------------------------------------
(* What the tables of usbcfg.c say. *)

(* An Input item adds a field to the report: its usages are the ones       *)
(* since the last main item, its size and count the latest.                *)
ReportItems ==
    << [tag |-> "usage"], [tag |-> "open"], [tag |-> "open"],
       [tag |-> "usage"], [tag |-> "usage"], [tag |-> "usage"],
       [tag |-> "size", val |-> 8], [tag |-> "count", val |-> 3], [tag |-> "input"],
       [tag |-> "usages", val |-> 8],
       [tag |-> "size", val |-> 1], [tag |-> "count", val |-> 8], [tag |-> "input"],
       [tag |-> "close"], [tag |-> "close"] >>

(* The usage pages (3) and the logical ranges (4) are left out above; the  *)
(* items take two bytes, a range of usages two items, an end one byte.     *)
ReportSize == 2 * (Len(ReportItems) + 3 + 4 + 1) - 2

MutSizeofHidData == 5   \* a fifth field that the descriptor does not know

SizeofHidData == 4      \* x, y, z and the buttons

MutTotalLength == 67    \* the serial port alone
TotalLength == 99       \* wTotalLength, 0x63
NumInterfaces == 3
NamedStrings == {1, 2, 3}
StringSize == <<4, 38, 38, 8, 16>>

Interface(num, eps, class, subclass) ==
    [type |-> "interface", len |-> 9, size |-> 9, num |-> num, eps |-> eps,
     class |-> class, subclass |-> subclass]

Endpoint(ep, dir, mode, packet) ==
    [type |-> "endpoint", len |-> 7, size |-> 7,
     ep |-> ep, dir |-> dir, mode |-> mode, packet |-> packet]

(* A functional descriptor of the serial port, and the interface it names. *)
Functional(sub, len, size, names) ==
    [type |-> "functional", len |-> len, size |-> size, sub |-> sub, names |-> names]

MutJoystickInterface == Interface(2, 2, "hid", 1)    \* a boot interface
JoystickInterface == Interface(2, 2, "hid", 0)

ConfigurationData ==
    << [type |-> "configuration", len |-> 9, size |-> 9],
       Interface(0, 1, "cdc", 2),
       Functional("header", 5, 5, {}), Functional("call", 5, 5, {1}),
       Functional("acm", 4, 4, {}), Functional("union", 5, 5, {1}),
       Endpoint(2, "in", "intr", 8),
       Interface(1, 2, "data", 0),
       Endpoint(1, "out", "bulk", 64), Endpoint(1, "in", "bulk", 64),
       JoystickInterface,
       [type |-> "hid", len |-> 9, size |-> 9, report |-> ReportSize],
       Endpoint(3, "in", "intr", 4), Endpoint(4, "out", "intr", 4) >>

(* Where the k-th descriptor begins. *)
Start[k \in 1 .. Len(ConfigurationData) + 1] ==
    IF k = 1 THEN 0 ELSE Start[k - 1] + ConfigurationData[k - 1].size

ConfigurationSize == Start[Len(ConfigurationData) + 1]

(* The last endpoint is forgotten. *)
MutEndpointConfig ==
    << [mode |-> "bulk", in |-> 64, out |-> 64], [mode |-> "intr", in |-> 16, out |-> 0],
       [mode |-> "intr", in |-> 4, out |-> 0] >>

(* The endpoints that usb_event initialises: mode and packet sizes. *)
EndpointConfig ==
    << [mode |-> "bulk", in |-> 64, out |-> 64], [mode |-> "intr", in |-> 16, out |-> 0],
       [mode |-> "intr", in |-> 4, out |-> 0],   [mode |-> "intr", in |-> 0, out |-> 4] >>
-----------------------------------------------------------------------------
VARIABLES
    bus,            \* the state of the USB driver
    epc,            \* the endpoints that are initialised
    pending,        \* what was last set up to be sent through endpoint 0
    usbInitState,
    image,          \* the host: bytes of the configuration that it has read,
    at,             \*   how far it has walked them,
    seen,           \*   the descriptors that it found,
    report,         \*   bytes of the report descriptor that it has read,
    last            \*   and its last request, who served it, and with what

host == <<image, at, seen, report>>
vars == <<bus, epc, pending, usbInitState, host, last>>

Min2(a, b) == IF a < b THEN a ELSE b

None == "none"
NoRequest == [type |-> None, to |-> None, req |-> 0, index |-> 0]

HidRequest == [GET_REPORT |-> 1, GET_IDLE |-> 2, GET_PROTOCOL |-> 3,
               SET_REPORT |-> 9, SET_IDLE |-> 10, SET_PROTOCOL |-> 11]
SerialRequests == {32, 33, 34}      \* line coding and control lines (CDC)

(* get_descriptor: the size of what it points at, 0 for NULL. *)
get_descriptor(dtype, dindex) ==
    CASE dtype = "device"                  -> 18
      [] dtype = "configuration"           -> ConfigurationSize
      [] dtype = "report"                  -> ReportSize
      [] dtype = "string" /\ dindex < 5    -> StringSize[dindex + 1]
      [] OTHER                             -> 0

(* What a handler does with a request: it may set up a transfer of n bytes *)
(* and return TRUE, return TRUE without setting one up, or return FALSE.   *)
SetsUp(by, n) == [by |-> by, sets |-> TRUE, n |-> n]
Accepts(by) == [by |-> by, sets |-> FALSE, n |-> 0]
Refuses == [by |-> None, sets |-> FALSE, n |-> 0]

(* One byte more than there is. *)
MutDescribes(by, r) ==
    LET n == get_descriptor(r.req, r.index)
    IN  IF n = 0 THEN Refuses ELSE SetsUp(by, n + 1)

Describes(by, r) ==
    LET n == get_descriptor(r.req, r.index)
    IN  IF n = 0 THEN Refuses ELSE SetsUp(by, n)

sduRequestsHook(r) ==
    IF r.req \in SerialRequests THEN SetsUp("serial", IF r.req = 34 THEN 0 ELSE 7) ELSE Refuses

ClassRequest(r) ==
    CASE r.req = HidRequest.GET_REPORT -> SetsUp("hid", SizeofHidData)
      [] r.req \in {HidRequest.GET_IDLE, HidRequest.SET_REPORT, HidRequest.SET_IDLE} ->
            SetsUp("hid", 0)
      [] r.req \in {HidRequest.GET_PROTOCOL, HidRequest.SET_PROTOCOL} -> Accepts("hid")
      [] OTHER -> Refuses

hidRequestsHook(r) ==
    CASE r.type = "descriptor" /\ r.to = "interface" -> Describes("hid", r)
      [] r.type = "class" /\ r.to = "interface"      -> ClassRequest(r)
      [] r.type = "class" /\ r.to # "interface"      -> sduRequestsHook(r)
      [] OTHER                                       -> Refuses

(* The driver asks the hook first and serves what is left of the standard  *)
(* requests itself, descriptors through the same callback.                 *)
Answer(r) ==
    LET hook == hidRequestsHook(r)
    IN  IF hook.by # None \/ r.type # "descriptor" \/ r.to # "device" THEN hook
        ELSE Describes("driver", r)

(* The requests that show the firmware a host that wants reports. *)
EndsInit(r) ==
    \/ r.type = "descriptor" /\ r.req = "report"
    \/ r.type = "class" /\ r.to = "interface" /\ r.req = HidRequest.GET_REPORT

(* A request of the host: an answer that was accepted but not set up is    *)
(* the one that is still pending.                                          *)
Control(r) ==
    LET a == Answer(r)
    IN  /\ pending' = IF a.sets THEN [for |-> r, n |-> a.n] ELSE pending
        /\ last' = [req |-> r, by |-> a.by, got |-> pending']
        /\ usbInitState' = IF EndsInit(r) THEN 1 ELSE usbInitState
        /\ UNCHANGED <<bus, epc>>

Got(n) == Min2(n, last'.got.n)
-----------------------------------------------------------------------------
(* The host. *)

Find(type) == {k \in DOMAIN seen : seen[k].type = type}
Interfaces == {seen[k] : k \in Find("interface")}
Walked == image >= TotalLength /\ at >= TotalLength

ToDevice(what, index) == [type |-> "descriptor", to |-> "device", req |-> what, index |-> index]
ToInterface(type, req, num) == [type |-> type, to |-> "interface", req |-> req, index |-> num]

Init ==
    /\ bus = "ready" /\ epc = {}
    /\ pending = [for |-> NoRequest, n |-> 0]
    /\ usbInitState = 0
    /\ image = 0 /\ at = 0 /\ seen = << >> /\ report = 0
    /\ last = [req |-> NoRequest, by |-> None, got |-> pending]

(* A reset of the bus: the endpoints are gone, and the host begins again. *)
Reset ==
    /\ bus' = "ready" /\ epc' = {}
    /\ image' = 0 /\ at' = 0 /\ seen' = << >> /\ report' = 0
    /\ last' = [req |-> NoRequest, by |-> None, got |-> pending]
    /\ UNCHANGED <<pending, usbInitState>>

SetAddress ==
    /\ bus = "ready"
    /\ bus' = "selected"
    /\ UNCHANGED <<epc, pending, usbInitState, host, last>>

(* The device descriptor and the strings that it names; also one that many *)
(* hosts ask for and that it does not name.                                *)
ReadDevice ==
    /\ Control(ToDevice("device", 0))
    /\ UNCHANGED host

ReadString ==
    /\ \E i \in NamedStrings \cup {0, 5, 238} : Control(ToDevice("string", i))
    /\ UNCHANGED host

(* The host asks for the beginning, and then for as much as that says. *)
ReadConfiguration ==
    /\ seen = << >>
    /\ \E n \in FirstReads \cup (IF image > 0 THEN {TotalLength} ELSE {}) :
        /\ Control(ToDevice("configuration", 0))
        /\ image' = Got(n)
    /\ UNCHANGED <<at, seen, report>>

(* What the host finds where the last descriptor ended. *)
Walk ==
    /\ image >= TotalLength /\ at < TotalLength
    /\ \E k \in DOMAIN ConfigurationData :
        /\ Start[k] = at
        /\ seen' = Append(seen, ConfigurationData[k])
        /\ at' = at + ConfigurationData[k].len
    /\ UNCHANGED <<bus, epc, pending, usbInitState, image, report, last>>

(* SET_CONFIGURATION, which the driver hands to usb_event. *)
Configure ==
    /\ bus = "selected" /\ Walked
    /\ bus' = "active"
    /\ epc' = DOMAIN EndpointConfig
    /\ UNCHANGED <<pending, usbInitState, host, last>>

Unconfigure ==
    /\ bus = "active"
    /\ bus' = "selected" /\ epc' = {}
    /\ UNCHANGED <<pending, usbInitState, host, last>>

ReadReport ==
    /\ bus = "active"
    /\ \E i \in Interfaces, h \in Find("hid") :
        /\ i.class = "hid"
        /\ Control(ToInterface("descriptor", "report", i.num))
        /\ report' = Got(seen[h].report)
    /\ UNCHANGED <<image, at, seen>>

(* Any request that the HID class knows, the ones about the protocol, of   *)
(* which a joystick has no choice, among them.                             *)
JoystickRequest ==
    /\ bus = "active"
    /\ \E i \in Interfaces, q \in DOMAIN HidRequest :
        /\ i.class = "hid"
        /\ Control(ToInterface("class", HidRequest[q], i.num))
    /\ UNCHANGED host

SerialRequest ==
    /\ bus = "active"
    /\ \E i \in Interfaces, q \in SerialRequests :
        /\ i.class = "cdc"
        /\ Control(ToInterface("class", q, i.num))
    /\ UNCHANGED host

Next ==
    \/ Reset \/ SetAddress \/ ReadDevice \/ ReadString \/ ReadConfiguration
    \/ Walk \/ Configure \/ Unconfigure
    \/ ReadReport \/ JoystickRequest \/ SerialRequest

Spec == Init /\ [][Next]_vars
-----------------------------------------------------------------------------
(* Types. *)
TypeOK ==
    /\ bus \in {"ready", "selected", "active"}
    /\ epc \subseteq DOMAIN EndpointConfig
    /\ usbInitState \in {0, 1}
    /\ image \in 0 .. ConfigurationSize /\ at \in 0 .. ConfigurationSize
    /\ report \in 0 .. ReportSize
    /\ Len(seen) <= Len(ConfigurationData)
    /\ pending.n \in Nat /\ last.by \in {None, "driver", "hid", "serial"}

(* The interface a descriptor stands in. *)
Within(k) == Max({i \in Find("interface") : i <= k})

(* The walk of a host by the lengths and the total it reads meets a        *)
(* descriptor at every step, and ends with as many interfaces and          *)
(* endpoints as were announced, numbered in order; the serial port's       *)
(* functional descriptors name its data interface (usbcfg.c:84-186).       *)
WalkMeetsAnnounced ==
    /\ at < TotalLength => \E k \in DOMAIN ConfigurationData : Start[k] = at
    /\ Walked =>
        /\ {i.num : i \in Interfaces} = 0 .. NumInterfaces - 1
        /\ Cardinality(Find("interface")) = NumInterfaces
        /\ \A k \in Find("interface") :
            seen[k].eps = Cardinality({e \in Find("endpoint") : Within(e) = k})
        /\ \A k \in Find("functional"), n \in UNION {seen[f].names : f \in Find("functional")} :
            /\ seen[Within(k)].class = "cdc"
            /\ \E i \in Interfaces : i.num = n /\ i.class = "data"

(* While the device is configured, every endpoint that a driver of the     *)
(* host opens is initialised, in its direction, with its mode and room for *)
(* its packets (usbcfg.c:360-376).                                         *)
OpenedIsInitialised ==
    bus = "active" => \A k \in Find("endpoint") :
        LET d == seen[k]
        IN  /\ d.ep \in epc
            /\ EndpointConfig[d.ep].mode = d.mode
            /\ (IF d.dir = "in" THEN EndpointConfig[d.ep].in ELSE EndpointConfig[d.ep].out) >= d.packet

(* A request that the descriptors invite, to the device or the joystick,   *)
(* is served, and with data of its own.  The requests about the protocol   *)
(* are accepted without a transfer and leave pending what an earlier one   *)
(* set up (usb_hid.c:71, 79); only an interface that can boot invites them *)
(* (HID 1.11, 7.2.5), so that no host relies on what they send.            *)
AboutProtocol(r) ==
    r.type = "class" /\ r.req \in {HidRequest.GET_PROTOCOL, HidRequest.SET_PROTOCOL}

Invited(r) ==
    \/ r.to = "device" /\ (r.req = "string" => r.index \in NamedStrings \cup {0})
    \/ r.to = "interface" /\ \E i \in Interfaces :
            /\ i.num = r.index /\ i.class = "hid"
            /\ AboutProtocol(r) => i.subclass = 1

OwnAnswer ==
    Invited(last.req) => last.by # None /\ last.got.for = last.req

(* A report as its descriptor lays it out is hid_data, field for field     *)
(* as long, every field with a usage of its own, and it fits into one      *)
(* packet of the endpoint that carries it.                                 *)
ParseItem(p, item) ==
    CASE item.tag = "usage"  -> [p EXCEPT !.usages = @ + 1]
      [] item.tag = "usages" -> [p EXCEPT !.usages = @ + item.val]
      [] item.tag = "size"   -> [p EXCEPT !.size = item.val]
      [] item.tag = "count"  -> [p EXCEPT !.count = item.val]
      [] item.tag = "open"   -> [p EXCEPT !.depth = @ + 1, !.usages = 0]
      [] item.tag = "close"  -> [p EXCEPT !.depth = @ - 1]
      [] item.tag = "input"  -> [p EXCEPT !.bits = @ + p.size * p.count, !.usages = 0,
                                          !.named = @ /\ p.usages = p.count]

ParsedTo[k \in 0 .. Len(ReportItems)] ==
    IF k = 0
    THEN [usages |-> 0, size |-> 0, count |-> 0, depth |-> 0, bits |-> 0, named |-> TRUE]
    ELSE ParseItem(ParsedTo[k - 1], ReportItems[k])

Parsed == ParsedTo[Len(ReportItems)]

ReportIsHidData ==
    report > 0 =>
        /\ report = ReportSize
        /\ Parsed.depth = 0 /\ Parsed.named
        /\ Parsed.bits = 8 * SizeofHidData
        /\ \E k \in Find("endpoint") :
            /\ seen[k].dir = "in" /\ seen[Within(k)].class = "hid"
            /\ SizeofHidData <= seen[k].packet

(* README.md:10: a composite device, a joystick and a serial port.  What a *)
(* serial driver asks of its interface is answered by the serial port.     *)
SerialPortServed ==
    \A i \in Interfaces :
        i.class = "cdc" /\ last.req.to = "interface" /\ last.req.index = i.num =>
            last.by = "serial"
=============================================================================
