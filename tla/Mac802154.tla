----------------------------- MODULE Mac802154 -----------------------------
(***************************************************************************)
(* The beacon-enabled IEEE 802.15.4 MAC, mac802154/Basic802154.cc, with    *)
(* the decisions of StaticGTS802154.cc: PAN coordinators send a beacon at  *)
(* the start of each frame, nodes associate with one of them, contend in   *)
(* the CAP with CSMA-CA, send without contention in the guaranteed slots   *)
(* (GTS) they asked for, and sleep in between.                             *)
(*                                                                         *)
(* Time is counted in slots.  A timer that is due in a slot fires at any   *)
(* moment of it, and a slot is not over before what is due in it has been  *)
(* done.  A packet and its acknowledgement take less than a slot; whether  *)
(* they fit in what is left of the last one is left open.  Backoffs are of  *)
(* any length.                                                             *)
(*                                                                         *)
(* The channel is external: a frame reaches any of the radios that listen  *)
(* and do not send.  An ACK is the shortest frame and is sent at once, so   *)
(* it ends before any other frame does, and ackWaitDuration is long enough *)
(* for it.                                                                 *)
(***************************************************************************)
EXTENDS Integers, Sequences

CONSTANTS
    Coord,              \* PAN coordinators
    Node,               \* the other nodes
    Broadcast,          \* BROADCAST_MAC_ADDRESS
    None,               \* NULL, or -1 for an address
    NumSlots,           \* numSuperframeSlots
    MinCap,             \* minCAPLength, in slots
    MaxLostBeacons,
    MaxFrameRetries,
    BufferSize,         \* macBufferSize
    Settings            \* the networks considered

Station == Coord \cup Node
Address == Station \cup {Broadcast}

(* The guaranteed slots of a station, and the frames.                       *)
Gts == [owner : Station, start : 0 .. NumSlots, length : 0 .. NumSlots]

BeaconFrame == [type : {"BEACON"}, src : Coord, dst : {Broadcast}, pan : Coord,
                body : Seq(Gts)]
OtherFrame == [type : {"DATA", "ACK", "ASSOCIATE", "GTS_REQUEST"}, src : Station,
               dst : Address, pan : Station \cup {None}, body : Nat]

(* The parameters of a network and the load it is given                     *)
Parameters ==
    [on         : SUBSET Station,           \* the stations it has
     period     : Nat,                      \* beaconInterval, in slots
     offset     : [Coord -> Nat],           \* when a coordinator starts
     requestGTS : [Station -> Nat],
     gtsOnly    : BOOLEAN,
     load       : SUBSET [src : Station, dst : Address, sn : Nat]]

ASSUME Mac802154Assumption ==
    /\ Coord \cap Node = {} /\ Broadcast \notin Station
    /\ None \notin Address \cup BeaconFrame \cup OtherFrame
    /\ NumSlots \in Nat /\ MinCap \in 1 .. NumSlots
    /\ MaxLostBeacons \in Nat \ {0} /\ MaxFrameRetries \in Nat \ {0}
    /\ BufferSize \in Nat
    /\ Settings \subseteq Parameters
    /\ \A p \in Settings : /\ p.period >= NumSlots
                           /\ \A c \in Coord : p.requestGTS[c] = 0 /\ p.offset[c] <= p.period

VARIABLES
    par,        \* the parameters
    unsent,     \* the packets that the network layers have not sent yet
    mac         \* mac[k]: the state of the MAC module of k, and of its radio

vars == <<par, unsent, mac>>

On == par.on

Frame(type, src, dst, pan, body) ==
    [type |-> type, src |-> src, dst |-> dst, pan |-> pan, body |-> body]
Data(p) == Frame("DATA", p.src, p.dst, None, p.sn)
Ack(n, f, pan, body) == Frame("ACK", n, f.src, pan, body)
Beacon(c, list) == Frame("BEACON", c, Broadcast, c, list)
NewConnectionRequest(n, pan) == Frame("ASSOCIATE", n, pan, pan, 0)
NewGtsRequest(n, pan, slots) == Frame("GTS_REQUEST", n, pan, pan, slots)

SlowTimer == {"FRAME_START", "BEACON_TIMEOUT", "GTS_START", "SLEEP_START", "BACK_TO_SETUP"}

(* startup(): a coordinator has a PAN and waits for its first frame, a node *)
(* listens for a beacon; a station that is off does neither.                *)
Startup(k) ==
    [addr     |-> k,
     state    |-> "SETUP",
     pan      |-> IF k \in Coord THEN k ELSE None,      \* associatedPAN
     timers   |-> {},           \* PERFORM_CCA, ATTEMPT_TX, ACK_TIMEOUT
     due      |-> [t \in SlowTimer |->
                      IF t = "FRAME_START" /\ k \in Coord \cap On
                      THEN par.offset[k] ELSE -1],       \* slots left
     pos      |-> par.period,   \* slots since currentFrameStart, at most a period
     beaconOf |-> None,         \* whose beacon was heard last (history)
     joined   |-> FALSE,        \* it was heard without being associated (history)
     capEnd   |-> 0,
     gtsStart |-> 0,
     gtsEnd   |-> 0,
     lost     |-> 0,            \* lostBeacons
     cur      |-> None,         \* currentPacket, with currentPacketRetries
     retries  |-> 0,            \* and currentPacketGtsOnly
     gtsOnly  |-> FALSE,
     buffer   |-> <<>>,         \* TXBuffer
     assigned |-> 0,            \* assignedGTS
     devices  |-> {},           \* associatedDevices
     gtsList  |-> <<>>,         \* GTSlist
     beacon   |-> <<>>,         \* the GTS list of the last beacon sent (history)
     radio    |-> IF k \in On THEN "RX" ELSE "SLEEP",
     tx       |-> None]         \* the frame the radio is sending

Init ==
    /\ par \in Settings
    /\ unsent = par.load
    /\ mac = [k \in Station |-> Startup(k)]

-----------------------------------------------------------------------------
(* Helpers on the state s of one MAC module.  "fits" tells whether a packet *)
(* fits in the rest of the last slot.                                       *)
Set(s, t) == [s EXCEPT !.timers = @ \cup {t}]
Cancel(s, t) == [s EXCEPT !.timers = @ \ {t}]
SetAfter(s, t, slots) == [s EXCEPT !.due[t] = slots]

Fits(s, end, fits) == s.pos < end /\ (s.pos = end - 1 => fits)

(* Mutant: the end of the CAP is not tested.                                *)
AllowedAnyTime(s, fits) == s.state = "GTS" => Fits(s, s.gtsEnd, fits)

AllowTx(s, fits) ==
    /\ s.state = "CAP" /\ s.capEnd # s.gtsStart => Fits(s, s.capEnd, fits)
    /\ s.state = "GTS" => Fits(s, s.gtsEnd, fits)

(* toRadioLayer and SET_STATE TX: the radio is in RX when it is done.       *)
Send(s, f) == [s EXCEPT !.tx = f, !.radio = "RX"]

TransmitCurrentPacket(s, fits) ==
    IF s.cur # None /\ AllowTx(s, fits)
    THEN Send(Set([s EXCEPT !.retries = @ - 1],
                  IF s.cur.dst = Broadcast THEN "ATTEMPT_TX" ELSE "ACK_TIMEOUT"),
              s.cur)
    ELSE s

(* attemptTransmission, for a packet that has attempts left                 *)
Attempt(s, fits) ==
    CASE s.state \in {"SLEEP", "SETUP"} \/ s.cur = None -> Cancel(s, "ATTEMPT_TX")
      [] s.state = "GTS" -> TransmitCurrentPacket(Cancel(s, "ATTEMPT_TX"), fits)
      [] s.state = "CAP" /\ s.cur # None ->
             LET t == Cancel(s, "ATTEMPT_TX")
             IN  IF s.gtsOnly THEN t ELSE Set(t, "PERFORM_CCA")

(* transmitPacket.  A packet is only replaced by a node without a PAN, whose *)
(* transmissionOutcome does nothing.                                        *)
TransmitPacket(s, f, gtsOnly, fits) ==
    LET t == [s EXCEPT !.cur = f, !.gtsOnly = gtsOnly,
                       !.retries = IF f.dst = Broadcast THEN 1 ELSE MaxFrameRetries]
    IN  IF s.timers \cap {"ATTEMPT_TX", "ACK_TIMEOUT"} = {} THEN Attempt(t, fits) ELSE t

(* transmissionOutcome of StaticGTS802154                                   *)
TransmissionOutcome(s, fits) ==
    CASE s.pan = None -> s
      [] s.pan # None /\ s.assigned = 0 /\ par.requestGTS[s.addr] > 0 ->
             TransmitPacket(s, NewGtsRequest(s.addr, s.pan, par.requestGTS[s.addr]), FALSE, fits)
      [] s.pan # None /\ (s.assigned # 0 \/ par.requestGTS[s.addr] = 0) ->
             IF s.buffer = <<>> THEN s
             ELSE TransmitPacket([s EXCEPT !.buffer = Tail(@)], Head(s.buffer),
                                 par.gtsOnly, fits)

(* The attempts that were left, which the code keeps, are never used again. *)
ClearCurrentPacket(s, fits) ==
    IF s.cur = None THEN s
    ELSE TransmissionOutcome([s EXCEPT !.cur = None, !.retries = 0], fits)

(* Mutant: attempts are not counted.                                        *)
AttemptForEver(s, fits) == Attempt(s, fits)

AttemptTransmission(s, fits) ==
    IF s.state \notin {"SLEEP", "SETUP"} /\ s.cur # None /\ s.retries = 0
    THEN ClearCurrentPacket(Cancel(s, "ATTEMPT_TX"), fits)
    ELSE Attempt(s, fits)

(* An acknowledgement is sent and followed by the next attempt.             *)
Answer(s, f) == Set(Send(s, f), "ATTEMPT_TX")

-----------------------------------------------------------------------------
(* The decisions of StaticGTS802154 for a coordinator.  Slots are taken from *)
(* the end of the frame; slot 0 is its first one.  A GTS keeps its place     *)
(* because the list only grows, so its start is the one that               *)
(* prepareBeacon_hub finds.                                                 *)
CapLength(list) == IF list = <<>> THEN NumSlots ELSE list[Len(list)].start

CanGrant(list, slots) == Len(list) < 7 /\ CapLength(list) - slots >= MinCap

HasGts(list, n) == \E i \in DOMAIN list : list[i].owner = n

(* gtsRequest_hub: the list and the slots granted afterwards.  A node asks  *)
(* for the same number each time (requestGTS).                              *)
GtsRequest(list, n, slots) ==
    IF HasGts(list, n) THEN [list |-> list, granted |-> slots]
    ELSE IF CanGrant(list, slots)
    THEN [list |-> Append(list, [owner |-> n, start |-> CapLength(list) - slots,
                                 length |-> slots]),
          granted |-> slots]
    ELSE [list |-> list, granted |-> 0]

(* prepareBeacon_hub starts anew with a list that is corrupted.             *)
Corrupted(list) == \E i \in DOMAIN list : list[i].start <= 0

PrepareBeacon(list) == IF Corrupted(list) THEN <<>> ELSE list

-----------------------------------------------------------------------------
(* fromRadioLayer: what the MAC module makes of a frame f for it            *)
Mine(s, f) == {i \in DOMAIN f.body : f.body[i].owner = s.addr}

(* The parameters of the frame, from its beacon                             *)
ReadBeacon(s, f) ==
    LET t == [s EXCEPT !.due["BEACON_TIMEOUT"] = -1,
                       !.lost = 0,
                       !.pos = 0,          \* currentFrameStart
                       !.beaconOf = f.pan,
                       !.joined = s.pan = None,
                       !.state = "CAP",
                       !.capEnd = CapLength(f.body),
                       !.gtsStart = 0,
                       !.gtsEnd = 0]
    IN  IF Mine(s, f) = {} THEN t
        ELSE LET gts == f.body[CHOOSE i \in Mine(s, f) : TRUE]
             IN  [t EXCEPT !.gtsStart = gts.start, !.gtsEnd = gts.start + gts.length]

(* The timers of a node that is associated, and of one that is not          *)
ScheduleFrame(s) ==
    LET t == IF s.gtsStart # s.capEnd THEN SetAfter(s, "SLEEP_START", s.capEnd) ELSE s
    IN  IF s.gtsStart > 0 THEN SetAfter(t, "GTS_START", s.gtsStart) ELSE t

(* receiveBeacon_node                                                       *)
Associate(s, f, fits) ==
    TransmitPacket(SetAfter(s, "BACK_TO_SETUP", s.capEnd),
                   NewConnectionRequest(s.addr, f.pan), FALSE, fits)

(* Mutant: beacons of other PANs are not ignored.                           *)
BeaconOfAnyPan(s, f, fits) ==
    IF s.addr \in Coord THEN s
    ELSE LET t == ReadBeacon(s, f)
             u == IF s.pan = None THEN Associate(t, f, fits) ELSE ScheduleFrame(t)
         IN  SetAfter(AttemptTransmission(u, fits), "FRAME_START", par.period)

ReceiveBeacon(s, f, fits) ==
    IF s.addr \in Coord \/ s.pan \notin {None, f.pan} THEN s
    ELSE LET t == ReadBeacon(s, f)
             u == IF s.pan = f.pan THEN ScheduleFrame(t) ELSE Associate(t, f, fits)
         IN  SetAfter(AttemptTransmission(u, fits), "FRAME_START", par.period)

ReceiveAssociate(s, f) ==
    IF s.addr \in Coord
    THEN Answer([s EXCEPT !.devices = @ \cup {f.src}], Ack(s.addr, f, s.addr, 0))
    ELSE s

ReceiveGtsRequest(s, f) ==
    IF s.addr \in Coord
    THEN LET grant == GtsRequest(s.gtsList, f.src, f.body)
         IN  Answer([s EXCEPT !.gtsList = grant.list],
                    Ack(s.addr, f, s.addr, grant.granted))
    ELSE s

(* The packet goes up unless it is a duplicate, and is acknowledged in any  *)
(* case.                                                                    *)
ReceiveData(s, f) ==
    IF f.dst = Broadcast THEN s ELSE Answer(s, Ack(s.addr, f, s.addr, f.body))

(* handleAckPacket, which does not look at the sender of the ACK            *)
HandleAck(s, f, fits) ==
    LET t == Cancel(s, "ACK_TIMEOUT")
    IN  CASE s.cur = None -> s
          [] s.cur # None /\ s.cur.type = "ASSOCIATE" ->
                 ClearCurrentPacket([t EXCEPT !.pan = f.pan, !.state = "CAP"], fits)
          [] s.cur # None /\ s.cur.type = "GTS_REQUEST" ->
                 ClearCurrentPacket([t EXCEPT !.assigned = f.body], fits)
          [] s.cur # None /\ s.cur.type = "DATA" ->
                 IF s.cur.body = f.body THEN ClearCurrentPacket(t, fits)
                 ELSE AttemptTransmission(t, fits)

FromRadioLayer(s, f, fits) ==
    CASE f.type = "BEACON" -> ReceiveBeacon(s, f, fits)
      [] f.type = "ASSOCIATE" -> ReceiveAssociate(s, f)
      [] f.type = "GTS_REQUEST" -> ReceiveGtsRequest(s, f)
      [] f.type = "DATA" -> ReceiveData(s, f)
      [] f.type = "ACK" -> HandleAck(s, f, fits)

-----------------------------------------------------------------------------
(* Step(k, s): the MAC module of k goes on to state s.                      *)
Step(k, s) == mac' = [mac EXCEPT ![k] = s] /\ UNCHANGED <<par, unsent>>

IsDue(k, t) == mac[k].due[t] = 0

(* The state of k when timer t has fired                                    *)
Fired(k, t) == SetAfter(mac[k], t, -1)

(* FRAME_START of a coordinator.  A frame that is being sent ends first.    *)
StartFrame(k) ==
    /\ k \in Coord /\ IsDue(k, "FRAME_START") /\ mac[k].tx = None
    /\ LET list == PrepareBeacon(mac[k].gtsList)
           s == [SetAfter(mac[k], "FRAME_START", par.period)
                    EXCEPT !.gtsList = list, !.beacon = list, !.capEnd = CapLength(list),
                           !.state = "CAP", !.pos = 0]
       IN  Step(k, Set(Send(s, Beacon(k, list)), "ATTEMPT_TX"))

(* FRAME_START of a node                                                    *)
AwaitBeacon(k) ==
    /\ k \in Node /\ IsDue(k, "FRAME_START")
    /\ Step(k, [SetAfter(Fired(k, "FRAME_START"), "BEACON_TIMEOUT", 0) EXCEPT !.radio = "RX"])

GtsStart(k) ==
    /\ IsDue(k, "GTS_START")
    /\ LET s == [Fired(k, "GTS_START") EXCEPT !.state = "GTS", !.radio = "RX"]
       IN  Step(k, SetAfter(Set(s, "ATTEMPT_TX"), "SLEEP_START", s.gtsEnd - s.gtsStart))

(* BEACON_TIMEOUT, of a node that keeps its PAN                             *)
MissBeacon(s) ==
    SetAfter([s EXCEPT !.state = "SLEEP", !.radio = "SLEEP"], "FRAME_START", par.period)

(* The same, for the last of maxLostBeacons                                 *)
LeavePan(s) ==
    ClearCurrentPacket([s EXCEPT !.state = "SETUP", !.pan = None, !.assigned = 0], TRUE)

(* BEACON_TIMEOUT comes after a SLEEP_START that is due at the frame's end. *)
BeaconTimeout(k) ==
    /\ IsDue(k, "BEACON_TIMEOUT") /\ ~IsDue(k, "SLEEP_START")
    /\ LET s == [Fired(k, "BEACON_TIMEOUT") EXCEPT !.lost = @ + 1]
       IN  Step(k, CASE s.lost >= MaxLostBeacons -> LeavePan(s)
                     [] s.lost < MaxLostBeacons /\ s.pan # None -> MissBeacon(s)
                     [] s.lost < MaxLostBeacons /\ s.pan = None -> s)

(* The stations that an ACK is under way to                                 *)
AcksSent == {mac[j].tx.dst : j \in {i \in On : mac[i].tx # None /\ mac[i].tx.type = "ACK"}}

(* ACK_TIMEOUT: neither the packet nor its ACK is under way.                *)
AckTimeout(k) ==
    /\ "ACK_TIMEOUT" \in mac[k].timers /\ mac[k].tx = None
    /\ k \notin AcksSent
    /\ \E fits \in BOOLEAN :
           Step(k, AttemptTransmission(Cancel(mac[k], "ACK_TIMEOUT"), fits))

(* ATTEMPT_TX, set to the end of what the radio sends                       *)
AttemptTx(k) ==
    /\ "ATTEMPT_TX" \in mac[k].timers /\ mac[k].tx = None
    /\ LET s == Cancel(mac[k], "ATTEMPT_TX")
       IN  \/ "ACK_TIMEOUT" \in s.timers /\ Step(k, s)
           \/ /\ "ACK_TIMEOUT" \notin s.timers
              /\ \E fits \in BOOLEAN : Step(k, AttemptTransmission(s, fits))

(* The channel was busy for macMaxCSMABackoffs.  The code counts an attempt *)
(* without a packet as well; transmitPacket sets the number before any use. *)
GiveUpSensing(s, fits) ==
    AttemptTransmission([s EXCEPT !.retries = IF s.cur = None THEN @ ELSE @ - 1], fits)

(* PERFORM_CCA.  Sensing again, and another backoff, set the timer again.   *)
PerformCca(k) ==
    /\ "PERFORM_CCA" \in mac[k].timers
    /\ LET s == Cancel(mac[k], "PERFORM_CCA")
       IN  IF s.state \in {"GTS", "SLEEP"} \/ s.tx # None    \* the radio cannot sense
           THEN Step(k, s)
           ELSE \E fits \in BOOLEAN : \/ Step(k, TransmitCurrentPacket(s, fits))
                                      \/ Step(k, GiveUpSensing(s, fits))

(* Mutant: a node that waits for a beacon may go to sleep.                  *)
SleepAnyway(s) == [Cancel(s, "PERFORM_CCA") EXCEPT !.state = "SLEEP", !.radio = "SLEEP"]

Sleep(s) ==
    IF s.due["BEACON_TIMEOUT"] # -1 THEN s
    ELSE [Cancel(s, "PERFORM_CCA") EXCEPT !.state = "SLEEP", !.radio = "SLEEP"]

SleepStart(k) ==
    /\ IsDue(k, "SLEEP_START") /\ mac[k].tx = None
    /\ Step(k, Sleep(Fired(k, "SLEEP_START")))

BackToSetup(k) ==
    /\ IsDue(k, "BACK_TO_SETUP")
    /\ LET s == Fired(k, "BACK_TO_SETUP")
       IN  Step(k, IF s.pan = None THEN [s EXCEPT !.state = "SETUP"] ELSE s)

(* acceptNewPacket of StaticGTS802154                                       *)
AcceptNewPacket(s, f, fits) ==
    IF s.pan # None /\ s.cur = None THEN TransmitPacket(s, f, par.gtsOnly, fits)
    ELSE IF Len(s.buffer) >= BufferSize THEN s
    ELSE [s EXCEPT !.buffer = Append(@, f)]

FromNetworkLayer(k) ==
    \E p \in unsent, fits \in BOOLEAN :
        /\ p.src = k
        /\ unsent' = unsent \ {p}
        /\ mac' = [mac EXCEPT ![k] = AcceptNewPacket(mac[k], Data(p), fits)]
        /\ UNCHANGED par

(* The radio of k has sent its frame, which those in "heard" receive.       *)
Listens(j) == mac[j].radio = "RX" /\ mac[j].tx = None

EndTx(k) ==
    /\ mac[k].tx # None
    /\ mac[k].tx.type = "ACK" \/ AcksSent = {}
    /\ LET f == mac[k].tx
           receivers == {j \in On \ {k} : Listens(j) /\ f.dst \in {j, Broadcast}}
       IN  \E heard \in SUBSET receivers, fits \in BOOLEAN :
               mac' = [j \in Station |->
                          IF j \in heard THEN FromRadioLayer(mac[j], f, fits)
                          ELSE IF j = k THEN [mac[k] EXCEPT !.tx = None] ELSE mac[j]]
    /\ UNCHANGED <<par, unsent>>

(* The next slot.  Everything but sensing is done when a slot ends.         *)
SlotIsOver(k) ==
    /\ mac[k].tx = None
    /\ mac[k].timers \subseteq {"PERFORM_CCA"}
    /\ \A t \in SlowTimer : ~IsDue(k, t)

NextSlot(s) ==
    [s EXCEPT !.pos = IF @ < par.period THEN @ + 1 ELSE @,
              !.due = [t \in SlowTimer |-> IF s.due[t] > 0 THEN s.due[t] - 1 ELSE s.due[t]]]

Tick ==
    /\ \A k \in On : SlotIsOver(k)
    /\ mac' = [k \in Station |-> NextSlot(mac[k])]
    /\ UNCHANGED <<par, unsent>>

StationStep(k) ==
    \/ StartFrame(k) \/ AwaitBeacon(k) \/ GtsStart(k) \/ BeaconTimeout(k)
    \/ AckTimeout(k) \/ AttemptTx(k) \/ PerformCca(k) \/ SleepStart(k)
    \/ BackToSetup(k) \/ FromNetworkLayer(k) \/ EndTx(k)

Next == Tick \/ \E k \in On : StationStep(k)

Spec == Init /\ [][Next]_vars

-----------------------------------------------------------------------------
Mac == [addr     : Station,
        state    : {"SETUP", "SLEEP", "CAP", "GTS"},
        pan      : Coord \cup {None},
        timers   : SUBSET {"PERFORM_CCA", "ATTEMPT_TX", "ACK_TIMEOUT"},
        due      : [SlowTimer -> -1 .. par.period],
        pos      : 0 .. par.period,
        beaconOf : Coord \cup {None},
        joined   : BOOLEAN,
        capEnd   : 0 .. NumSlots,
        gtsStart : 0 .. NumSlots,
        gtsEnd   : 0 .. NumSlots,
        lost     : 0 .. MaxLostBeacons,
        cur      : OtherFrame \cup {None},
        retries  : 0 .. MaxFrameRetries,
        gtsOnly  : BOOLEAN,
        buffer   : Seq(OtherFrame),
        assigned : Nat,
        devices  : SUBSET Station,
        gtsList  : Seq(Gts),
        beacon   : Seq(Gts),
        radio    : {"RX", "SLEEP"},
        tx       : BeaconFrame \cup OtherFrame \cup {None}]

TypeOK ==
    /\ par \in Settings
    /\ unsent \subseteq par.load
    /\ mac \in [Station -> Mac]

(* A packet that contends has attempts left, which sensing and sending both *)
(* use up (Basic802154.cc:225, 720): they are tested for 0 only (:647), so   *)
(* a packet with fewer would never be given up.                             *)
AttemptsLeft ==
    \A k \in On :
        /\ mac[k].retries >= 0
        /\ "PERFORM_CCA" \in mac[k].timers /\ mac[k].state = "CAP" /\ mac[k].cur # None
               => mac[k].retries > 0

(* A node is associated with the PAN whose beacons it follows, though it    *)
(* hears those of others and its requests and their ACKs get lost; the      *)
(* PAN's coordinator knows it; in a frame whose beacon it heard both count  *)
(* the same slots; and it counts on a GTS only if the coordinator holds     *)
(* one of that length for it (Basic802154.cc:378-379, 550-561).             *)
AgreesWithItsPan ==
    \A n \in Node : mac[n].pan # None =>
        LET c == mac[mac[n].pan]
        IN  /\ mac[n].beaconOf = mac[n].pan
            /\ n \in c.devices
            /\ mac[n].pos < par.period => mac[n].pos = c.pos
            /\ mac[n].assigned > 0 =>
                   \E i \in DOMAIN c.gtsList : /\ c.gtsList[i].owner = n
                                              /\ c.gtsList[i].length = mac[n].assigned

(* In a guaranteed slot of its PAN a station sends only ACKs, unless it is  *)
(* its own slot, also when it missed beacons (Basic802154.cc:698-712).      *)
(* Excepted is a node that joined in this frame and has held the first GTS  *)
(* from before: it takes all of the frame for its CAP (:705).               *)
GtsIsExclusive ==
    \A k \in On :
        LET s == mac[k]
        IN  s.tx # None /\ s.pan # None =>
            \/ s.tx.type = "ACK"
            \/ s.joined /\ s.capEnd = s.gtsStart
            \/ LET c == mac[s.pan]
               IN  \A i \in DOMAIN c.beacon :
                       \/ c.beacon[i].owner = k
                       \/ c.pos < c.beacon[i].start
                       \/ c.pos >= c.beacon[i].start + c.beacon[i].length

(* A node that has no timer for the next beacon listens for one, and so it  *)
(* does while it waits for a beacon that is due (Basic802154.cc:241-251);    *)
(* what an associated station has buffered is behind a packet that is       *)
(* being tried, so nothing waits for another packet to come.                *)
NeverStranded ==
    \A k \in On :
        /\ mac[k].due["FRAME_START"] >= 0 \/ mac[k].radio = "RX"
        /\ mac[k].pan # None /\ mac[k].cur = None => mac[k].buffer = <<>>

=============================================================================
