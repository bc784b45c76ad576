------------------------------ MODULE TstpMac ------------------------------
(***************************************************************************)
(* The MAC of TSTP, mac/tstpMac/tstp_mac.h, with the parts of TSTP it calls *)
(* for every frame (Router::update and notify in routing/tstp/tstp.cc).     *)
(* A node announces a message with a train of microframes, so that a        *)
(* neighbour that wakes up for a moment hears one, and sends the message    *)
(* behind it.  There are no acknowledgements: a node keeps a message until  *)
(* it hears another node announce it.                                      *)
(*                                                                         *)
(* Messages go from the sensors to the sink.  There is no clock: the one    *)
(* interrupt of a node may come at any moment after it is set, how long a   *)
(* node is silent or backs off is left open, and so is which of its         *)
(* messages is the next.  What the radio does is external: a frame reaches   *)
(* any of the neighbours that listen for it, and the channel may be sensed  *)
(* busy or free.  Identifiers are unique (tstp_mac.h:386 counts the         *)
(* collisions of their hashes), all nodes know where and when they are,     *)
(* neighbours are within RADIO_RANGE, and there are neither keep alives nor *)
(* the synchronous optimisation (by default it is off).  What the sink      *)
(* receives has a time that is past and comes from a peer it trusts, as all *)
(* are by default (startWithKeysEstablished, tstp.cc:205): TSTP::update     *)
(* hands nothing else to notify (tstp.cc:848, 853, 874).                    *)
(***************************************************************************)
EXTENDS Integers, Sequences

CONSTANTS
    Node, Sink,
    Neighbour,      \* Neighbour[n]: the nodes that hear n
    Dist,           \* Dist[n]: here() - sink() of n
    Message,        \* what applications send: records of origin and time
    None,
    Microframes     \* N_MICROFRAMES

ASSUME TstpMacAssumption ==
    /\ Sink \in Node
    /\ Neighbour \in [Node -> SUBSET Node]
    /\ Dist \in [Node -> Nat] /\ \A n \in Node : Dist[n] = 0 <=> n = Sink
    /\ Message \subseteq [origin : Node \ {Sink}, time : Nat \ {0}]
    /\ None \notin Message
    /\ Microframes \in Nat /\ Microframes > 1       \* tstp_mac.h:681

VARIABLES
    mac,            \* mac[n]: the state of the TSTP_MAC of n
    lastMessage,    \* _last_message of the sink
    delivered,      \* what the sink handed to its application (history)
    accepted,       \* messages given to the MAC of their origin (history)
    received,       \* messages the sink has received (history)
    expired         \* messages whose deadline is past

history == <<delivered, accepted, received>>
others == <<lastMessage, history, expired>>
vars == <<mac, lastMessage, history, expired>>

Handler == {"update_tx_schedule", "rx_mf", "rx_data", "cca", "tx_mf", "tx_data"}

Mac == [handler   : Handler,                \* of the interrupt that is set
        power     : {"SLEEP", "LIGHT", "FULL"},
        inRxMf    : BOOLEAN,
        inRxData  : BOOLEAN,
        schedule  : SUBSET Message,         \* _tx_schedule
        pending   : Message \cup {None},    \* _tx_pending
        mf        : Message \cup {None},    \* id of _mf
        count     : 0 .. Microframes,       \* count of _mf
        receiving : Message \cup {None}]    \* _receiving_data_id

TypeOK ==
    /\ mac \in [Node -> Mac]
    /\ lastMessage \in [Node -> Nat]
    /\ delivered \in Seq(Message)
    /\ accepted \subseteq Message /\ received \subseteq Message /\ expired \subseteq Message

Holds(n, msg) == msg \in mac[n].schedule

-----------------------------------------------------------------------------
(* send: a buffer of the same message is replaced.  What the sink sends is  *)
(* what was destined to it, its answers, and nobody else's messages are.    *)
Send(m, msg) == [m EXCEPT !.schedule = @ \cup {msg}]

(* TSTP::fromApplicationLayer                                               *)
SendResponse(msg) ==
    /\ msg \notin accepted
    /\ \A other \in Message \ accepted : other.origin = msg.origin => msg.time <= other.time
    /\ mac' = [mac EXCEPT ![msg.origin] = Send(@, msg)]
    /\ accepted' = accepted \cup {msg}
    /\ UNCHANGED <<lastMessage, delivered, received, expired>>

(* External: time passes.                                                   *)
Expire(msg) ==
    /\ msg \in accepted \ expired
    /\ expired' = expired \cup {msg}
    /\ UNCHANGED <<mac, lastMessage, history>>

-----------------------------------------------------------------------------
(* update_tx_schedule                                                       *)

Unexpired(m) == m.schedule \ expired

FetchFirst(m) == m.schedule                                      \* mutant
Fetch(m) == Unexpired(m)

SleepS(m) == [m EXCEPT !.handler = "rx_mf"]

Contend(m, msg) ==
    [m EXCEPT !.power = "LIGHT",
              !.pending = msg,
              !.mf = msg,
              !.count = Microframes - 1,
              !.handler = "cca"]

UpdateTxSchedule(n) ==
    /\ mac[n].handler = "update_tx_schedule"
    /\ LET m == [mac[n] EXCEPT !.power = "SLEEP", !.inRxData = FALSE, !.inRxMf = FALSE,
                               !.pending = None, !.receiving = None]
           left == [m EXCEPT !.schedule = Unexpired(m)]
       IN  \/ mac' = [mac EXCEPT ![n] = SleepS(m)]          \* _silence > 0
           \/ left.schedule = {} /\ mac' = [mac EXCEPT ![n] = SleepS(left)]
           \/ \E msg \in Fetch(m) : mac' = [mac EXCEPT ![n] = Contend(left, msg)]
    /\ UNCHANGED others

-----------------------------------------------------------------------------
(* Reception of microframes and data.  What a contention, a transmission or *)
(* a reception leaves behind is not read again, and forgotten here.         *)

RxMf(m) ==
    [m EXCEPT !.inRxData = FALSE, !.inRxMf = TRUE,
              !.handler = "update_tx_schedule", !.power = "FULL",
              !.pending = None, !.mf = None, !.count = 0]

RxMfInterrupt(n) ==
    /\ mac[n].handler = "rx_mf"
    /\ mac' = [mac EXCEPT ![n] = RxMf(@)]
    /\ UNCHANGED others

RxDataInterrupt(n) ==
    /\ mac[n].handler = "rx_data"
    /\ mac' = [mac EXCEPT ![n] =
          [@ EXCEPT !.inRxData = TRUE, !.inRxMf = FALSE,
                    !.handler = "update_tx_schedule", !.power = "FULL"]]
    /\ UNCHANGED others

(* Router::update: a message is of use to the nodes that are nearer.        *)
Relevant(x, n) == Dist[x] < Dist[n]

(* pre_notify, Router::update and post_notify for a microframe: a message   *)
(* that is announced by another node is taken off the schedule, unless it is *)
(* destined to this one.                                                   *)
HearMicroframe(m, x, n, msg) ==
    [m EXCEPT !.power = "SLEEP",
              !.inRxMf = FALSE,
              !.schedule = IF x = Sink THEN @ ELSE @ \ {msg},
              !.receiving = IF Relevant(x, n) THEN msg ELSE @,
              !.handler = IF Relevant(x, n) THEN "rx_data" ELSE "update_tx_schedule"]

ListenForMicroframes(n) ==
    {x \in Neighbour[n] : mac[x].power = "FULL" /\ mac[x].inRxMf}

ListenForData(n, msg) ==
    {x \in Neighbour[n] : mac[x].power = "FULL" /\ mac[x].inRxData /\ mac[x].receiving = msg}

(* Router::forward                                                          *)
Forward(x, n, msg) ==
    msg \notin expired /\ Dist[x] < Dist[n]

(* pre_notify and Router::update for data: the node passes it on, the sink  *)
(* answers with it.                                                         *)
GetData(m, x, n, msg) ==
    LET asleep == [m EXCEPT !.power = "SLEEP", !.receiving = None]
    IN  IF Forward(x, n, msg) THEN Send(asleep, msg) ELSE asleep

IsOldMessage(msg) == msg.time < lastMessage[msg.origin]         \* mutant

(* TSTP::notify: only what is newer than the last message of its origin.    *)
IsNotNew(msg) == msg.time <= lastMessage[msg.origin]

Notify(msg) ==
    /\ received' = received \cup {msg}
    /\ IF IsNotNew(msg)
       THEN UNCHANGED <<lastMessage, delivered>>
       ELSE /\ lastMessage' = [lastMessage EXCEPT ![msg.origin] = msg.time]
            /\ delivered' = Append(delivered, msg)

-----------------------------------------------------------------------------
(* Transmission                                                             *)

(* n becomes m, and the microframe of m is heard by the nodes in hearers.   *)
Announce(n, m, hearers) ==
    mac' = [x \in Node |-> IF x = n THEN m
                           ELSE IF x \in hearers THEN HearMicroframe(mac[x], x, n, m.mf)
                           ELSE mac[x]]

CcaBusy(n) ==
    /\ mac[n].handler = "cca"
    /\ mac' = [mac EXCEPT ![n] = RxMf(@)]
    /\ UNCHANGED others

CcaFree(n) ==
    /\ mac[n].handler = "cca"
    /\ \E hearers \in SUBSET ListenForMicroframes(n) :
          Announce(n, [mac[n] EXCEPT !.handler = "tx_mf", !.count = @ - 1], hearers)
    /\ UNCHANGED others

AfterMicroframe(m) ==
    IF m.count > 0 THEN [m EXCEPT !.count = @ - 1] ELSE [m EXCEPT !.handler = "tx_data"]

TxMf(n) ==
    /\ mac[n].handler = "tx_mf"
    /\ \E hearers \in SUBSET ListenForMicroframes(n) :
          Announce(n, AfterMicroframe(mac[n]), hearers)
    /\ UNCHANGED others

Everybody(n) == TRUE                                             \* mutant

(* The answers of the sink are not repeated.                                *)
SendsOnce(n) == n = Sink

AfterData(n) ==
    [mac[n] EXCEPT !.schedule = IF SendsOnce(n) THEN @ \ {mac[n].pending} ELSE @,
                   !.power = IF SendsOnce(n) THEN @ ELSE "SLEEP",
                   !.pending = None, !.mf = None,
                   !.handler = "rx_mf"]

TxData(n) ==
    LET msg == mac[n].pending
    IN  /\ mac[n].handler = "tx_data"
        /\ \E hearers \in SUBSET ListenForData(n, msg) :
             /\ mac' = [x \in Node |-> IF x = n THEN AfterData(n)
                                       ELSE IF x \in hearers THEN GetData(mac[x], x, n, msg)
                                       ELSE mac[x]]
             /\ IF Sink \in hearers
                THEN Notify(msg)
                ELSE UNCHANGED <<lastMessage, delivered, received>>
        /\ UNCHANGED <<accepted, expired>>

-----------------------------------------------------------------------------
(* constructor_epilogue, with an empty schedule                             *)
Init ==
    /\ mac = [n \in Node |->
                [handler |-> "rx_mf", power |-> "SLEEP", inRxMf |-> FALSE, inRxData |-> FALSE,
                 schedule |-> {}, pending |-> None, mf |-> None, count |-> 0,
                 receiving |-> None]]
    /\ lastMessage = [n \in Node |-> 0]
    /\ delivered = <<>> /\ accepted = {} /\ received = {} /\ expired = {}

Interrupt(n) ==
    \/ UpdateTxSchedule(n) \/ RxMfInterrupt(n) \/ RxDataInterrupt(n)
    \/ CcaBusy(n) \/ CcaFree(n) \/ TxMf(n) \/ TxData(n)

Next ==
    \/ \E n \in Node : Interrupt(n)
    \/ \E msg \in Message : SendResponse(msg) \/ Expire(msg)

Spec == Init /\ [][Next]_vars

-----------------------------------------------------------------------------
(* Safety                                                                   *)

(* A message that is not late is never lost: until the sink has it, some    *)
(* node keeps it, although a node drops it on the mere announcement of      *)
(* another (tstp_mac.h:310-344) and relays forward copies of copies.        *)
Custody ==
    \A msg \in accepted \ expired :
        msg \in received \/ \E n \in Node : Holds(n, msg)

(* From the moment a node contends for a message until it has sent it, the  *)
(* message stays in its schedule and is the one it announces: _tx_pending   *)
(* is used by four interrupts after update_tx_schedule set it               *)
(* (tstp_mac.h:640, 805, 828-868).                                          *)
PendingIsScheduled ==
    \A n \in Node :
        mac[n].handler \in {"cca", "tx_mf", "tx_data"} =>
            /\ Holds(n, mac[n].pending)
            /\ mac[n].mf = mac[n].pending

(* The MACs and the forwarding together implement Convergecast: copies only *)
(* move towards the sink, a copy is given up only while another is kept     *)
(* (tstp_mac.h:310-344), and the sink hands up exactly what is news of its  *)
(* origin (tstp.cc:296-316).                                                *)
Collection == INSTANCE Convergecast WITH kept <- [n \in Node |-> mac[n].schedule]

ImplementsConvergecast == Collection!Spec

(* However often a message is announced, repeated and forwarded by several  *)
(* nodes, the application of the sink gets it once (tstp.cc:296-316).       *)
DeliveredOnce ==
    \A i, j \in DOMAIN delivered : i # j => delivered[i] # delivered[j]

=============================================================================
