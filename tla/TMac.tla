-------------------------------- MODULE TMac --------------------------------
(***************************************************************************)
(* T-MAC, node/communication/mac/tMac/TMAC.cc: nodes agree on a schedule   *)
(* of frames with SYNC packets, are awake at the start of each frame for   *)
(* as long as they hear something, exchange RTS, CTS, DATA and ACK, and    *)
(* sleep until the next frame.                                             *)
(*                                                                         *)
(* There is no clock here: a timer that is set may fire at any moment.     *)
(* activationTimeout lies ahead exactly while CHECK_TA is set, and         *)
(* currentFrameStart is -1 exactly while the schedule table is empty.      *)
(* What the radio does is external: a transmission reaches each neighbour  *)
(* whose radio is on or is lost, and it destroys what was on its way to    *)
(* that neighbour; the carrier may be sensed busy at any moment.  Packets   *)
(* may be for nodes that are off.                                          *)
(***************************************************************************)
EXTENDS Integers, Sequences, FiniteSets

CONSTANTS
    Node,
    Off,                \* addresses of nodes that are off
    Broadcast,          \* BROADCAST_MAC_ADDRESS
    None,               \* a NULL packet; nothing on the air
    Settings            \* the parameters of the networks considered

(* Parameters of the module and of the load it is given                     *)
Parameters ==
    [load                : [Node -> Seq(Node \cup Off \cup {Broadcast})],
     macBufferSize       : Nat,
     maxTxRetries        : Nat \ {0},
     useRtsCts           : BOOLEAN,
     conservativeTA      : BOOLEAN,
     disableTAextension  : BOOLEAN,     \* S-MAC
     collisionResolution : 0 .. 2,
     maxSN               : Nat]         \* bound on the RESYNC procedures

ASSUME TMacAssumption ==
    /\ Broadcast \notin Node \cup Off /\ None \notin Node \cup Off \cup {Broadcast}
    /\ None \notin Nat
    /\ Node \cap Off = {}
    /\ Settings \subseteq Parameters

VARIABLES
    par,        \* the parameters of all nodes
    mac,        \* mac[n]: the state of the MAC module of n
    air,        \* air[n]: the packet on its way to n
    delivered,  \* delivered[n]: the packets handed to the network layer (history)
    acked       \* the packets taken off a buffer because of an ACK (history)

vars == <<par, mac, air, delivered, acked>>

CsForTx == {"CS_FOR_TX_RTS", "CS_FOR_TX_DATA", "CS_FOR_TX_SYNC"}
CarrierSenseState == CsForTx \cup {"CS_BEFORE_SLEEP"}
WaitState == {"WAIT_FOR_DATA", "WAIT_FOR_CTS", "WAIT_FOR_ACK"}
MacState == {"SETUP", "SLEEP", "ACTIVE", "ACTIVE_SILENT", "IN_TX"}
                \cup CarrierSenseState \cup WaitState

Timer == {"SYNC_SETUP", "SYNC_CREATE", "SYNC_RENEW", "FRAME_START", "CHECK_TA",
          "CARRIER_SENSE", "TRANSMISSION_TIMEOUT"}

SN == 0 .. par.maxSN
Address == Node \cup Off \cup {Broadcast}
DataPacket == [src : Node, dst : Address, sn : Nat]

Mac == [state         : MacState,
        timers        : SUBSET Timer,
        wakeups       : SUBSET Node,    \* schedules with a WAKEUP_SILENT timer
        table         : Seq([id : Node, sn : SN]),  \* scheduleTable, primary first
        shifted       : BOOLEAN,        \* scheduleTable[0].offset # 0
        primaryWakeup : BOOLEAN,
        needResync    : BOOLEAN,
        syncPacket    : SN \cup {None}, \* its sequence number
        buffer        : Seq(DataPacket),
        sent          : Nat,            \* currentSequenceNumber - 1
        txAddr        : Address \cup {None},
        txRetries     : 0 .. par.maxTxRetries,
        pktHistory    : [Node -> Nat]]

(* Packets on the air; nav tells whether the field is positive              *)
Rts(n, d) == [type |-> "RTS", src |-> n, dst |-> d, nav |-> TRUE]
Cts(n, d) == [type |-> "CTS", src |-> n, dst |-> d, nav |-> TRUE]
Ack(n, d) == [type |-> "ACK", src |-> n, dst |-> d, nav |-> FALSE]
Data(p) == [type |-> "DATA", src |-> p.src, dst |-> p.dst, nav |-> FALSE, sn |-> p.sn]
Sync(n, sch) == [type |-> "SYNC", src |-> n, dst |-> Broadcast, nav |-> FALSE,
                 id |-> sch.id, sn |-> sch.sn]

(* startup()                                                                *)
Init ==
    /\ par \in Settings
    /\ mac \in [Node -> {[state |-> "SETUP", timers |-> {t}, wakeups |-> {},
                          table |-> <<>>, shifted |-> FALSE,
                          primaryWakeup |-> TRUE, needResync |-> FALSE,
                          syncPacket |-> None, buffer |-> <<>>, sent |-> 0,
                          txAddr |-> None, txRetries |-> 0,
                          pktHistory |-> [n \in Node |-> 0]] :
                             t \in {"SYNC_SETUP", "SYNC_CREATE"}}]
    /\ air = [n \in Node |-> None]
    /\ delivered = [n \in Node |-> <<>>]
    /\ acked = {}

-----------------------------------------------------------------------------
(* Helpers on the state s of one MAC module                                 *)
Set(s, t) == [s EXCEPT !.timers = @ \cup {t}]
Cancel(s, t) == [s EXCEPT !.timers = @ \ {t}]

(* extendActivePeriod: however long, CHECK_TA is set afterwards             *)
ExtendActivePeriod(s) == Set(s, "CHECK_TA")

PerformCarrierSense(s, state) == Set([s EXCEPT !.state = state], "CARRIER_SENSE")

CheckTxBuffer(s) ==
    IF s.buffer = <<>> THEN s
    ELSE [s EXCEPT !.txAddr = Head(s.buffer).dst, !.txRetries = par.maxTxRetries]

(* Mutant: txAddr and txRetries stay those of the packet popped.            *)
PopUnchecked(s) == [s EXCEPT !.buffer = Tail(@)]

PopTxBuffer(s) == CheckTxBuffer([s EXCEPT !.buffer = Tail(@)])

(* Give up on the packet that has used up its attempts.                     *)
DropFailed(s) ==
    IF s.buffer # <<>> /\ s.txRetries = 0 THEN PopTxBuffer(s) ELSE s

(* resetDefaultState, the part that begins a transmission                   *)
Contend(s) ==
    IF s.needResync
    THEN PerformCarrierSense([s EXCEPT !.syncPacket = s.table[1].sn], "CS_FOR_TX_SYNC")
    ELSE LET t == DropFailed(s)
         IN  IF t.buffer = <<>>
             THEN [t EXCEPT !.state = "ACTIVE"]
             ELSE PerformCarrierSense(t, IF par.useRtsCts /\ t.txAddr # Broadcast
                                         THEN "CS_FOR_TX_RTS" ELSE "CS_FOR_TX_DATA")

ResetDefaultState(s) ==
    IF "CHECK_TA" \notin s.timers
    THEN IF par.disableTAextension
         THEN [s EXCEPT !.state = "SLEEP"]
         ELSE PerformCarrierSense(s, "CS_BEFORE_SLEEP")
    ELSE IF s.primaryWakeup
    THEN Contend(s)
    ELSE [s EXCEPT !.state = "ACTIVE_SILENT"]

Known(s, id) == {i \in DOMAIN s.table : s.table[i].id = id}

(* Mutant: every SYNC of a known schedule is taken.                         *)
ResyncedAlways(s, i, sn, shift) == [s EXCEPT !.table[i].sn = sn]

(* updateScheduleTable of a schedule in the table: a newer SN moves it; the *)
(* frames of a primary schedule may be shifted.                             *)
Resynced(s, i, sn, shift) ==
    LET t == [s EXCEPT !.table[i].sn = sn]
    IN  IF s.table[i].sn >= sn THEN s
        ELSE IF i = 1 THEN Set([t EXCEPT !.shifted = shift], "FRAME_START")
        ELSE t

(* updateScheduleTable of a new schedule: the first one becomes primary.    *)
Added(s, id, sn) ==
    LET t == [s EXCEPT !.table = Append(@, [id |-> id, sn |-> sn])]
    IN  IF s.table # <<>> THEN t
        ELSE ResetDefaultState(
                Set(ExtendActivePeriod([t EXCEPT !.needResync = TRUE,
                                                 !.primaryWakeup = TRUE]), "FRAME_START"))

UpdateScheduleTable(s, id, sn, shift) ==
    IF Known(s, id) # {} THEN Resynced(s, CHOOSE i \in Known(s, id) : TRUE, sn, shift)
    ELSE Added(s, id, sn)

(* Mutant: the active period is not extended.                               *)
CarrierIsBusyOnly(s) ==
    IF s.state \in {"SETUP", "SLEEP"} \cup WaitState THEN s
    ELSE IF par.collisionResolution = 0 /\ s.state \notin CarrierSenseState THEN s
    ELSE [s EXCEPT !.state = "ACTIVE_SILENT"]

CarrierIsBusy(s) ==
    IF s.state \in {"SETUP", "SLEEP"} THEN s
    ELSE LET t == IF par.disableTAextension THEN s ELSE ExtendActivePeriod(s)
         IN  IF par.collisionResolution = 0
             THEN IF s.state \in CarrierSenseState THEN ResetDefaultState(t) ELSE t
             ELSE IF s.state \in WaitState THEN t
             ELSE [t EXCEPT !.state = "ACTIVE_SILENT"]

(* sendDataPacket                                                           *)
DataSent(s) ==
    LET t == IF s.txAddr = Broadcast
             THEN [PopTxBuffer(s) EXCEPT !.state = "IN_TX"]
             ELSE [s EXCEPT !.state = "WAIT_FOR_ACK",
                            !.txRetries = IF par.useRtsCts THEN @ ELSE @ - 1]
    IN  ExtendActivePeriod(Set(t, "TRANSMISSION_TIMEOUT"))

-----------------------------------------------------------------------------
(* The radio.  A node that begins to send, or sleeps, hears nothing.         *)
Heard(f) == [n \in Node |-> IF mac'[n].state = "SLEEP" THEN None ELSE f[n]]

Transmit(n, m) ==
    \E reached \in SUBSET (Node \ {n}) :
        air' = Heard([k \in Node |-> IF k \in reached THEN m ELSE None])

(* n goes on in state s, and what is on the air stays there.                *)
Quietly(n, s) ==
    /\ mac' = [mac EXCEPT ![n] = s]
    /\ air' = Heard(air)
    /\ UNCHANGED <<delivered, acked>>

(* The same, for a packet n has received.                                   *)
Received(n, s) ==
    /\ mac' = [mac EXCEPT ![n] = s]
    /\ air' = Heard([air EXCEPT ![n] = None])

-----------------------------------------------------------------------------
(* timerFiredCallback                                                       *)
Fires(n, t) == t \in mac[n].timers

(* SYNC_SETUP: no schedule was heard                                        *)
SyncSetup(n) ==
    /\ Fires(n, "SYNC_SETUP")
    /\ LET s == Cancel(mac[n], "SYNC_SETUP")
       IN  Quietly(n, IF s.state = "SETUP" THEN Set(s, "SYNC_CREATE") ELSE s)

(* SYNC_CREATE: createPrimarySchedule                                       *)
SyncCreate(n) ==
    /\ Fires(n, "SYNC_CREATE")
    /\ LET s == Cancel(mac[n], "SYNC_CREATE")
       IN  Quietly(n, IF s.state = "SETUP"
                      THEN Set(UpdateScheduleTable(s, n, 0, FALSE), "SYNC_RENEW")
                      ELSE s)

(* SYNC_RENEW, which sets itself again                                      *)
SyncRenew(n) ==
    /\ Fires(n, "SYNC_RENEW")
    /\ mac[n].table[1].sn < par.maxSN
    /\ Quietly(n, [mac[n] EXCEPT !.table[1].sn = @ + 1, !.needResync = TRUE])

(* FRAME_START, which sets itself again                                     *)
FrameStart(n) ==
    /\ Fires(n, "FRAME_START")
    /\ LET s == ExtendActivePeriod(
                   [mac[n] EXCEPT !.primaryWakeup = TRUE,
                                  !.needResync = @ \/ mac[n].shifted,
                                  !.shifted = FALSE,
                                  !.wakeups = {mac[n].table[i].id :
                                                 i \in 2 .. Len(mac[n].table)}])
       IN  Quietly(n, IF s.state \in {"SLEEP", "ACTIVE", "ACTIVE_SILENT"}
                      THEN ResetDefaultState(s) ELSE s)

(* WAKEUP_SILENT + i, for the secondary schedule id                         *)
WakeupSilent(n, id) ==
    /\ id \in mac[n].wakeups
    /\ LET s == ExtendActivePeriod([mac[n] EXCEPT !.wakeups = @ \ {id}])
       IN  Quietly(n, IF s.state = "SLEEP" THEN ResetDefaultState(s) ELSE s)

CheckTA(n) ==
    /\ Fires(n, "CHECK_TA")
    /\ LET s == Cancel(mac[n], "CHECK_TA")
       IN  Quietly(n, IF par.disableTAextension \/ ~par.conservativeTA
                      THEN [s EXCEPT !.primaryWakeup = FALSE, !.state = "SLEEP"]
                      ELSE IF s.state \in {"ACTIVE", "ACTIVE_SILENT", "SLEEP"}
                      THEN PerformCarrierSense(s, "CS_BEFORE_SLEEP")
                      ELSE ExtendActivePeriod(s))

TransmissionTimeout(n) ==
    /\ Fires(n, "TRANSMISSION_TIMEOUT")
    /\ Quietly(n, ResetDefaultState(Cancel(mac[n], "TRANSMISSION_TIMEOUT")))

(* CARRIER_SENSE in a state that does not wait for it, or with a busy       *)
(* channel.  A sense that is not valid yet only sets the timer again.       *)
CarrierSenseInVain(n) ==
    /\ Fires(n, "CARRIER_SENSE")
    /\ LET s == Cancel(mac[n], "CARRIER_SENSE")
       IN  Quietly(n, IF s.state \in CarrierSenseState THEN CarrierIsBusy(s) ELSE s)

(* CARRIER_SENSE with a clear channel: carrierIsClear                       *)
CarrierSenseClear(n) ==
    /\ Fires(n, "CARRIER_SENSE")
    /\ LET s == Cancel(mac[n], "CARRIER_SENSE")
           sending == Set(s, "TRANSMISSION_TIMEOUT")
           Goes(t, m) == mac' = [mac EXCEPT ![n] = t] /\ Transmit(n, m)
       IN  \/ /\ s.state = "CS_FOR_TX_RTS"
              /\ Goes([sending EXCEPT !.state = "WAIT_FOR_CTS", !.txRetries = @ - 1],
                      Rts(n, s.txAddr))
           \/ /\ s.state = "CS_FOR_TX_SYNC"
              /\ Goes([sending EXCEPT !.state = "IN_TX", !.needResync = FALSE,
                                      !.syncPacket = None],
                      Sync(n, [s.table[1] EXCEPT !.sn = s.syncPacket]))
           \/ /\ s.state = "CS_FOR_TX_DATA"
              /\ Goes(DataSent(s), Data(Head(s.buffer)))
           \/ /\ s.state = "CS_BEFORE_SLEEP"
              /\ mac' = [mac EXCEPT ![n] = [s EXCEPT !.primaryWakeup = FALSE,
                                                     !.state = "SLEEP"]]
              /\ air' = Heard(air)
    /\ UNCHANGED <<delivered, acked>>

-----------------------------------------------------------------------------
(* handleRadioControlMessage: CARRIER_SENSE_INTERRUPT                       *)
CarrierSenseInterrupt(n) == Quietly(n, CarrierIsBusy(mac[n]))

(* fromNetworkLayer: the packet is numbered, and buffered if there is room  *)
FromNetworkLayer(n) ==
    /\ mac[n].sent < Len(par.load[n])
    /\ LET k == mac[n].sent + 1
           s == [mac[n] EXCEPT !.sent = k]
           t == [s EXCEPT !.buffer = Append(@, [src |-> n, dst |-> par.load[n][k], sn |-> k])]
       IN  Quietly(n, IF Len(s.buffer) >= par.macBufferSize THEN s
                      ELSE IF Len(t.buffer) = 1 THEN CheckTxBuffer(t)
                      ELSE t)

(* Mutant: the active period is not extended.                               *)
OverheardOnly(s, nav) ==
    [IF par.collisionResolution # 2 /\ nav THEN Set(s, "TRANSMISSION_TIMEOUT") ELSE s
        EXCEPT !.state = "ACTIVE_SILENT"]

(* fromRadioLayer, for a packet to somebody else                            *)
OverheardBy(s, nav) ==
    [ExtendActivePeriod(IF par.collisionResolution # 2 /\ nav
                        THEN Set(s, "TRANSMISSION_TIMEOUT") ELSE s)
        EXCEPT !.state = "ACTIVE_SILENT"]

Overhear(n) ==
    /\ air[n] # None
    /\ air[n].dst \notin {n, Broadcast}
    /\ Received(n, OverheardBy(mac[n], air[n].nav))
    /\ UNCHANGED <<delivered, acked>>

(* fromRadioLayer, for a packet to n                                        *)
Arrives(n, type) ==
    /\ air[n] # None
    /\ air[n].type = type
    /\ air[n].dst \in {n, Broadcast}

ReceiveRts(n) ==
    /\ Arrives(n, "RTS")
    /\ mac' = [mac EXCEPT ![n] = Set([mac[n] EXCEPT !.state = "WAIT_FOR_DATA"],
                                     "TRANSMISSION_TIMEOUT")]
    /\ Transmit(n, Cts(n, air[n].src))
    /\ UNCHANGED <<delivered, acked>>

ReceiveCts(n) ==
    /\ Arrives(n, "CTS")
    /\ LET s == mac[n]
       IN  IF s.state = "WAIT_FOR_CTS" /\ air[n].src = s.txAddr
           THEN /\ mac' = [mac EXCEPT ![n] = DataSent(s)]
                /\ Transmit(n, Data(Head(s.buffer)))
           ELSE Received(n, IF s.state = "WAIT_FOR_CTS" THEN ResetDefaultState(s) ELSE s)
    /\ UNCHANGED <<delivered, acked>>

(* Mutant: a repeated number is new.                                        *)
IsNotOlderPacket(s, m) == s.pktHistory[m.src] <= m.sn

IsNotDuplicatePacket(s, m) == s.pktHistory[m.src] < m.sn

ReceiveData(n) ==
    /\ Arrives(n, "DATA")
    /\ LET m == air[n]
           new == IsNotDuplicatePacket(mac[n], m)
           s == [mac[n] EXCEPT !.pktHistory[m.src] = IF new THEN m.sn ELSE @]
       IN  /\ delivered' = [delivered EXCEPT ![n] =
                 IF new THEN Append(@, [src |-> m.src, dst |-> m.dst, sn |-> m.sn]) ELSE @]
           /\ IF m.dst = Broadcast
              THEN Received(n, s)
              ELSE /\ mac' = [mac EXCEPT ![n] = ExtendActivePeriod(
                        Set([s EXCEPT !.state = "IN_TX"], "TRANSMISSION_TIMEOUT"))]
                   /\ Transmit(n, Ack(n, m.src))
    /\ UNCHANGED acked

(* Mutant: an ACK counts in every state.                                    *)
AnswersHead(s, source) == s.buffer # <<>> /\ source = s.txAddr

IsAwaitedAck(s, source) == s.state = "WAIT_FOR_ACK" /\ source = s.txAddr

ReceiveAck(n) ==
    /\ Arrives(n, "ACK")
    /\ LET s == mac[n]
       IN  IF IsAwaitedAck(s, air[n].src)
           THEN /\ Received(n, ResetDefaultState(PopTxBuffer(Cancel(s, "TRANSMISSION_TIMEOUT"))))
                /\ acked' = acked \cup {Head(s.buffer)}
           ELSE Received(n, s) /\ UNCHANGED acked
    /\ UNCHANGED delivered

ReceiveSync(n) ==
    /\ Arrives(n, "SYNC")
    /\ \E shift \in BOOLEAN :
          Received(n, UpdateScheduleTable(mac[n], air[n].id, air[n].sn, shift))
    /\ UNCHANGED <<delivered, acked>>

Step(n) ==
    \/ SyncSetup(n) \/ SyncCreate(n) \/ SyncRenew(n) \/ FrameStart(n)
    \/ CheckTA(n) \/ TransmissionTimeout(n)
    \/ CarrierSenseInVain(n) \/ CarrierSenseClear(n)
    \/ \E id \in Node : WakeupSilent(n, id)
    \/ CarrierSenseInterrupt(n) \/ FromNetworkLayer(n) \/ Overhear(n)
    \/ ReceiveRts(n) \/ ReceiveCts(n) \/ ReceiveData(n)
    \/ ReceiveAck(n) \/ ReceiveSync(n)

Next == UNCHANGED par /\ \E n \in Node : Step(n)

Spec == Init /\ [][Next]_vars

-----------------------------------------------------------------------------
Message ==
    {None} \cup [type : {"RTS", "CTS", "ACK"}, src : Node, dst : Node \cup Off, nav : BOOLEAN]
           \cup [type : {"DATA"}, src : Node, dst : Address,
                 nav : BOOLEAN, sn : Nat]
           \cup [type : {"SYNC"}, src : Node, dst : {Broadcast}, nav : BOOLEAN,
                 id : Node, sn : SN]

TypeOK ==
    /\ par \in Settings
    /\ mac \in [Node -> Mac]
    /\ air \in [Node -> Message]
    /\ delivered \in [Node -> Seq(DataPacket)]
    /\ acked \in SUBSET DataPacket

(* A node always has the timer that takes it out of its state: whatever     *)
(* packet, interrupt or other timer comes in between, no exchange and no    *)
(* carrier sense is left without its timeout, an idle node will check       *)
(* whether to sleep, and a node with a schedule wakes up for its frame.     *)
NeverStranded ==
    \A n \in Node :
        LET s == mac[n]
        IN  /\ s.state \in WaitState \cup {"IN_TX"} => "TRANSMISSION_TIMEOUT" \in s.timers
            /\ s.state \in CarrierSenseState => "CARRIER_SENSE" \in s.timers
            /\ s.state \in {"ACTIVE", "ACTIVE_SILENT"} => "CHECK_TA" \in s.timers
            /\ s.state = "SETUP" => s.timers \cap {"SYNC_SETUP", "SYNC_CREATE"} # {}
            /\ s.table # <<>> => "FRAME_START" \in s.timers

(* A step of an exchange is about the packet at the head of the buffer, and *)
(* a SYNC to be sent exists: the code's WARNING branches ("invalid          *)
(* MAC_STATE_WAIT_FOR_CTS while buffer is empty", TMAC.cc:537, and those of *)
(* carrierIsClear and sendDataPacket) are never taken.                      *)
ExchangeMatchesHead ==
    \A n \in Node :
        LET s == mac[n]
        IN  /\ s.buffer # <<>> => s.txAddr = Head(s.buffer).dst
            /\ s.state \in {"CS_FOR_TX_RTS", "CS_FOR_TX_DATA", "WAIT_FOR_CTS",
                            "WAIT_FOR_ACK"} => s.buffer # <<>>
            /\ s.state \in {"CS_FOR_TX_RTS", "WAIT_FOR_CTS", "WAIT_FOR_ACK"} =>
                  s.txAddr # Broadcast
            /\ s.state = "CS_FOR_TX_RTS" => s.txRetries > 0
            /\ s.state = "CS_FOR_TX_SYNC" => s.syncPacket # None

(* A packet reaches the network layer of its destination once, and packets  *)
(* of one source in the order they were sent, although DATA is repeated     *)
(* when an ACK is lost and some packets are given up.                       *)
DeliveredOnceInOrder ==
    \A n \in Node : \A i, j \in DOMAIN delivered[n] :
        i < j /\ delivered[n][i].src = delivered[n][j].src =>
            delivered[n][i].sn < delivered[n][j].sn

(* The DATA packet on its way to k, if there is one.                        *)
OnAir(k) ==
    IF air[k] # None /\ air[k].type = "DATA"
    THEN {[src |-> air[k].src, dst |-> air[k].dst, sn |-> air[k].sn]}
    ELSE {}

(* What the network layers may rely on: buffers that are queues, a medium   *)
(* that loses packets, each packet handed up at most once and in order, and *)
(* taken off its buffer only when it was broadcast, acknowledged by its     *)
(* destination or given up.  Schedules, contention, RTS, CTS and the races  *)
(* of their timers add nothing to that.                                     *)
Link == INSTANCE LossyLink WITH
    capacity <- par.macBufferSize,
    given <- [n \in Node |-> mac[n].sent],
    queue <- [n \in Node |-> mac[n].buffer],
    link <- [k \in Node |-> OnAir(k)]

ImplementsLink == Link!Spec

(* An ACK names no packet; still, a packet that was taken off the buffer    *)
(* because of one was received by its destination.                          *)
AckedWasDelivered ==
    \A p \in acked : \E i \in DOMAIN delivered[p.dst] : delivered[p.dst][i] = p

(* No node holds a newer version of a schedule than its author.             *)
AuthorIsNewest ==
    \A n \in Node : \A i \in DOMAIN mac[n].table :
        LET sch == mac[n].table[i]
        IN  /\ mac[sch.id].table # <<>>
            /\ mac[sch.id].table[1].id = sch.id
            /\ sch.sn <= mac[sch.id].table[1].sn

=============================================================================
