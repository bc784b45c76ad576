--------------------------- MODULE TstpProofs ----------------------------
(***************************************************************************)
(* Proofs about the two modules of TSTP, each on its own: the MAC with its *)
(* forwarding (TstpMac), for every set of nodes and messages, every        *)
(* topology and any number of microframes; and, below, the key exchange    *)
(* (TstpSecurity), for every number of sensors, expiry of keys and number  *)
(* of receptions of a message.                                             *)
(*                                                                         *)
(* In the MAC, a node never deletes a message on its own: it does so when  *)
(* another node announces it, and a node that announces a message holds    *)
(* it, which is what PendingIsScheduled says.  The sink deletes what it    *)
(* has answered, but it only holds what it has received.                   *)
(***************************************************************************)
EXTENDS TstpMac, TstpSecurity, ListProofs, SequenceTheorems, FiniteSetTheorems,
        TLAPS

Contending == {"cca", "tx_mf", "tx_data"}

(* The part of the invariant about the state m of one node                  *)
NodeOK(m) ==
    /\ m \in Mac
    /\ m.handler \in Contending => m.pending \in m.schedule /\ m.mf = m.pending
    /\ m.handler = "cca" => m.count = Microframes - 1

(* What is in the schedule of the sink are its answers.                     *)
SinkAnswers == mac[Sink].schedule \subseteq received

HistoryType ==
    /\ lastMessage \in [Node -> Nat]
    /\ delivered \in Seq(Message)
    /\ accepted \subseteq Message /\ received \subseteq Message /\ expired \subseteq Message

(* The sink's memory of an origin is not behind what it has delivered.      *)
NotBehind ==
    \A i \in DOMAIN delivered : delivered[i].time <= lastMessage[delivered[i].origin]

MacInv == mac \in [Node -> Mac] /\ \A n \in Node : NodeOK(mac[n])

IInv ==
    /\ MacInv /\ HistoryType
    /\ SinkAnswers /\ Custody
    /\ NotBehind /\ DeliveredOnce

-----------------------------------------------------------------------------
(* What the operations do to the state of a node                            *)

LEMMA MessageFacts ==
  ASSUME NEW msg \in Message
  PROVE  msg.origin \in Node /\ msg.origin # Sink /\ msg.time \in Nat /\ msg # None
BY TstpMacAssumption

LEMMA SendOK ==
  ASSUME NEW m, NodeOK(m), NEW msg \in Message
  PROVE  NodeOK(Send(m, msg)) /\ Send(m, msg).schedule = m.schedule \cup {msg}
BY DEF NodeOK, Send, Mac, Contending

LEMMA RxMfOK ==
  ASSUME NEW m, NodeOK(m)
  PROVE  NodeOK(RxMf(m)) /\ RxMf(m).schedule = m.schedule
<1>1. m \in Mac /\ 0 \in 0 .. Microframes
  BY TstpMacAssumption DEF NodeOK
<1>2. RxMf(m) \in Mac
  BY <1>1 DEF RxMf, Mac, Handler
<1>3. RxMf(m).handler = "update_tx_schedule" /\ RxMf(m).schedule = m.schedule
  BY <1>1 DEF RxMf, Mac
<1> QED
  BY <1>2, <1>3 DEF NodeOK, Contending

(* Hearing a microframe deletes its message, except at the sink.            *)
LEMMA HearOK ==
  ASSUME NEW m, NodeOK(m), NEW x \in Node, NEW n \in Node, NEW msg \in Message
  PROVE  /\ NodeOK(HearMicroframe(m, x, n, msg))
         /\ HearMicroframe(m, x, n, msg).schedule \subseteq m.schedule
         /\ m.schedule \subseteq HearMicroframe(m, x, n, msg).schedule \cup {msg}
BY DEF NodeOK, HearMicroframe, Mac, Contending, Handler

(* Data is kept, or ignored.                                                *)
LEMMA GetDataOK ==
  ASSUME NEW m, NodeOK(m),
         NEW x \in Node, NEW n \in Node, NEW msg \in Message
  PROVE  /\ NodeOK(GetData(m, x, n, msg))
         /\ m.schedule \subseteq GetData(m, x, n, msg).schedule
         /\ GetData(m, x, n, msg).schedule \subseteq m.schedule \cup {msg}
<1> DEFINE asleep == [m EXCEPT !.power = "SLEEP", !.receiving = None]
<1>1. NodeOK(asleep) /\ asleep.schedule = m.schedule
  BY DEF NodeOK, Mac, Contending, Handler
<1>2. GetData(m, x, n, msg) = IF Forward(x, n, msg) THEN Send(asleep, msg) ELSE asleep
  BY DEF GetData
<1> HIDE DEF asleep
<1> QED
  BY <1>1, <1>2, SendOK

LEMMA ContendOK ==
  ASSUME NEW m, NodeOK(m), NEW msg \in m.schedule
  PROVE  NodeOK(Contend(m, msg)) /\ Contend(m, msg).schedule = m.schedule
<1>1. m \in Mac /\ msg \in Message /\ Microframes - 1 \in 0 .. Microframes
  BY TstpMacAssumption DEF NodeOK, Mac
<1>2. Contend(m, msg) \in Mac
  BY <1>1 DEF Contend, Mac, Handler
<1>3. /\ Contend(m, msg).schedule = m.schedule
      /\ Contend(m, msg).pending = msg /\ Contend(m, msg).mf = msg
      /\ Contend(m, msg).count = Microframes - 1
  BY <1>1 DEF Contend, Mac
<1> QED
  BY <1>2, <1>3 DEF NodeOK

(* Sending a microframe keeps the message that is announced.                *)
LEMMA AfterMicroframeOK ==
  ASSUME NEW m, NodeOK(m), m.handler = "tx_mf"
  PROVE  /\ NodeOK(AfterMicroframe(m))
         /\ AfterMicroframe(m).schedule = m.schedule
         /\ AfterMicroframe(m).mf = m.mf
<1>1. m \in Mac /\ m.pending \in m.schedule /\ m.mf = m.pending
  BY DEF NodeOK, Contending
<1>2. CASE m.count > 0
  <2>1. m.count - 1 \in 0 .. Microframes
    BY <1>1, <1>2, TstpMacAssumption DEF Mac
  <2>2. AfterMicroframe(m) = [m EXCEPT !.count = @ - 1]
    BY <1>2 DEF AfterMicroframe
  <2> QED
    BY <1>1, <2>1, <2>2 DEF NodeOK, Mac
<1>3. CASE ~(m.count > 0)
  <2>1. AfterMicroframe(m) = [m EXCEPT !.handler = "tx_data"]
    BY <1>3 DEF AfterMicroframe
  <2> QED
    BY <1>1, <2>1 DEF NodeOK, Mac, Handler
<1> QED
  BY <1>2, <1>3

LEMMA FirstMicroframeOK ==
  ASSUME NEW m, NodeOK(m), m.handler = "cca"
  PROVE  LET sent == [m EXCEPT !.handler = "tx_mf", !.count = @ - 1]
         IN  /\ NodeOK(sent)
             /\ sent.schedule = m.schedule /\ sent.mf = m.mf
<1>1. m \in Mac /\ m.pending \in m.schedule /\ m.mf = m.pending /\ m.count = Microframes - 1
  BY DEF NodeOK, Contending
<1>2. m.count - 1 \in 0 .. Microframes
  BY <1>1, TstpMacAssumption
<1> QED
  BY <1>1, <1>2 DEF NodeOK, Mac, Handler

LEMMA AfterDataOK ==
  ASSUME NEW n \in Node, NodeOK(mac[n])
  PROVE  /\ NodeOK(AfterData(n))
         /\ AfterData(n).schedule \subseteq mac[n].schedule
         /\ n # Sink => AfterData(n).schedule = mac[n].schedule
<1> DEFINE kept == IF SendsOnce(n) THEN mac[n].schedule \ {mac[n].pending}
                                   ELSE mac[n].schedule
<1>1. mac[n] \in Mac /\ kept \subseteq mac[n].schedule
      /\ (n # Sink => kept = mac[n].schedule)
  BY DEF NodeOK, SendsOnce
<1>2. AfterData(n) \in Mac /\ AfterData(n).schedule = kept /\ AfterData(n).handler = "rx_mf"
  BY <1>1 DEF AfterData, Mac, Handler
<1> QED
  BY <1>1, <1>2 DEF NodeOK, Contending

-----------------------------------------------------------------------------
(* When a step keeps the whole invariant.  Of the schedules it needs that   *)
(* the sink gets only what it has received, and that what a node gives up   *)
(* is late, or is the sink's, or is held by another node.                   *)
LEMMA StepKeeps ==
  ASSUME IInv, MacInv', UNCHANGED <<lastMessage, delivered>>, received' = received,
         accepted' \subseteq Message, expired' \subseteq Message, expired \subseteq expired',
         SinkAnswers',
         \A msg \in accepted' \ accepted : \E n \in Node : Holds(n, msg)',
         \A n \in Node : \A msg \in mac[n].schedule \ expired' :
             msg \in received \/ \E k \in Node : Holds(k, msg)'
  PROVE  IInv'
<1>1. HistoryType' /\ NotBehind' /\ DeliveredOnce'
  BY DEF IInv, HistoryType, NotBehind, DeliveredOnce
<1>2. Custody'
  BY DEF IInv, Custody, Holds
<1> QED
  BY <1>1, <1>2 DEF IInv

(* One node changes, and its schedule does not, or only loses what is late. *)
LEMMA OneNodeKeeps ==
  ASSUME IInv, NEW n \in Node, NEW m, mac' = [mac EXCEPT ![n] = m], NodeOK(m),
         m.schedule \subseteq mac[n].schedule,
         mac[n].schedule \ expired \subseteq m.schedule,
         UNCHANGED others
  PROVE  IInv'
<1>1. /\ MacInv /\ SinkAnswers /\ Sink \in Node
      /\ lastMessage' = lastMessage /\ delivered' = delivered /\ accepted' = accepted
      /\ received' = received /\ expired' = expired
  BY TstpMacAssumption DEF IInv, others, history
<1>2. mac'[n] = m /\ \A k \in Node \ {n} : mac'[k] = mac[k]
  BY <1>1 DEF MacInv
<1>3. MacInv'
  <2>1. m \in Mac
    BY DEF NodeOK
  <2> QED
    BY <1>1, <1>2, <2>1 DEF MacInv
<1>4. SinkAnswers'
  BY <1>1, <1>2 DEF SinkAnswers
<1>5. \A k \in Node : \A msg \in mac[k].schedule \ expired' : Holds(k, msg)'
  BY <1>1, <1>2 DEF Holds
<1>6. accepted' \subseteq Message /\ expired' \subseteq Message
  BY <1>1 DEF IInv, HistoryType
<1> QED
  BY <1>1, <1>3, <1>4, <1>5, <1>6, StepKeeps

LEMMA SendResponseKeeps ==
  ASSUME IInv, NEW msg \in Message, SendResponse(msg)
  PROVE  IInv'
<1> DEFINE o == msg.origin
           m == Send(mac[o], msg)
<1>1. /\ o \in Node /\ o # Sink /\ MacInv /\ SinkAnswers /\ Sink \in Node
      /\ mac' = [mac EXCEPT ![o] = m] /\ accepted' = accepted \cup {msg}
      /\ lastMessage' = lastMessage /\ delivered' = delivered
      /\ received' = received /\ expired' = expired
  BY MessageFacts, TstpMacAssumption DEF IInv, SendResponse
<1>2. NodeOK(m) /\ m.schedule = mac[o].schedule \cup {msg} /\ m \in Mac
  <2>1. NodeOK(mac[o])
    BY <1>1 DEF MacInv
  <2>2. NodeOK(m) /\ m.schedule = mac[o].schedule \cup {msg}
    BY <2>1, SendOK
  <2> QED
    BY <2>2 DEF NodeOK
<1> HIDE DEF m, o
<1>3. mac'[o] = m /\ \A k \in Node \ {o} : mac'[k] = mac[k]
  BY <1>1 DEF MacInv
<1>4. MacInv' /\ SinkAnswers'
  BY <1>1, <1>2, <1>3 DEF MacInv, SinkAnswers
<1>5. \A k \in Node : \A x \in mac[k].schedule \ expired' : Holds(k, x)'
  BY <1>1, <1>2, <1>3 DEF Holds
<1>6. Holds(o, msg)'
  BY <1>2, <1>3 DEF Holds
<1>7. accepted' \subseteq Message /\ expired' \subseteq Message
  BY <1>1 DEF IInv, HistoryType
<1> QED
  BY <1>1, <1>4, <1>5, <1>6, <1>7, StepKeeps

LEMMA ExpireKeeps ==
  ASSUME IInv, NEW msg \in Message, Expire(msg)
  PROVE  IInv'
<1>1. /\ mac' = mac /\ lastMessage' = lastMessage /\ delivered' = delivered
      /\ accepted' = accepted /\ received' = received /\ expired' = expired \cup {msg}
  BY DEF Expire, history
<1>2. MacInv' /\ SinkAnswers'
  BY <1>1 DEF IInv, MacInv, SinkAnswers
<1>3. \A k \in Node : \A x \in mac[k].schedule : Holds(k, x)'
  BY <1>1 DEF Holds
<1>4. accepted' \subseteq Message /\ expired' \subseteq Message
  BY <1>1 DEF IInv, HistoryType
<1> QED
  BY <1>1, <1>2, <1>3, <1>4, StepKeeps

LEMMA UpdateTxScheduleKeeps ==
  ASSUME IInv, NEW n \in Node, UpdateTxSchedule(n)
  PROVE  IInv'
<1> DEFINE m == [mac[n] EXCEPT !.power = "SLEEP", !.inRxData = FALSE, !.inRxMf = FALSE,
                               !.pending = None, !.receiving = None]
           left == [m EXCEPT !.schedule = Unexpired(m)]
<1>1. NodeOK(mac[n]) /\ mac[n] \in Mac /\ mac[n].handler = "update_tx_schedule"
      /\ UNCHANGED others
  BY DEF IInv, MacInv, NodeOK, UpdateTxSchedule
<1>2. m \in Mac /\ m.handler = "update_tx_schedule" /\ m.schedule = mac[n].schedule
  BY <1>1 DEF Mac
<1>3. \/ mac' = [mac EXCEPT ![n] = SleepS(m)]
      \/ mac' = [mac EXCEPT ![n] = SleepS(left)]
      \/ \E msg \in Fetch(m) : mac' = [mac EXCEPT ![n] = Contend(left, msg)]
  BY DEF UpdateTxSchedule
<1> HIDE DEF m
<1>4. left \in Mac /\ left.handler = "update_tx_schedule"
      /\ left.schedule = mac[n].schedule \ expired
  <2>1. Unexpired(m) = mac[n].schedule \ expired /\ Unexpired(m) \subseteq Message
    BY <1>2 DEF Unexpired, Mac
  <2> QED
    BY <1>2, <2>1 DEF Mac
<1> HIDE DEF left
<1>5. NodeOK(m) /\ NodeOK(left)
  BY <1>2, <1>4 DEF NodeOK, Contending
<1>6. \A s \in Mac : NodeOK(SleepS(s)) /\ SleepS(s).schedule = s.schedule
  <2> SUFFICES ASSUME NEW s \in Mac
               PROVE  NodeOK(SleepS(s)) /\ SleepS(s).schedule = s.schedule
    OBVIOUS
  <2>1. SleepS(s) \in Mac /\ SleepS(s).handler = "rx_mf" /\ SleepS(s).schedule = s.schedule
    BY DEF SleepS, Mac, Handler
  <2> QED
    BY <2>1 DEF NodeOK, Contending
<1>7. CASE mac' = [mac EXCEPT ![n] = SleepS(m)]
  BY <1>1, <1>2, <1>6, <1>7, OneNodeKeeps
<1>8. CASE mac' = [mac EXCEPT ![n] = SleepS(left)]
  BY <1>1, <1>4, <1>6, <1>8, OneNodeKeeps
<1>9. ASSUME NEW msg \in Fetch(m), mac' = [mac EXCEPT ![n] = Contend(left, msg)]
      PROVE  IInv'
  <2>1. msg \in left.schedule
    BY <1>2, <1>4 DEF Fetch, Unexpired
  <2>2. NodeOK(Contend(left, msg)) /\ Contend(left, msg).schedule = left.schedule
    BY <1>5, <2>1, ContendOK
  <2> QED
    BY <1>1, <1>4, <1>9, <2>2, OneNodeKeeps
<1> QED
  BY <1>3, <1>7, <1>8, <1>9

LEMMA ListenKeeps ==
  ASSUME IInv, NEW n \in Node, RxMfInterrupt(n) \/ CcaBusy(n)
  PROVE  IInv'
<1>1. mac' = [mac EXCEPT ![n] = RxMf(mac[n])] /\ NodeOK(mac[n]) /\ UNCHANGED others
  BY DEF IInv, MacInv, RxMfInterrupt, CcaBusy
<1> QED
  BY <1>1, RxMfOK, OneNodeKeeps

LEMMA RxDataInterruptKeeps ==
  ASSUME IInv, NEW n \in Node, RxDataInterrupt(n)
  PROVE  IInv'
<1> DEFINE m == [mac[n] EXCEPT !.inRxData = TRUE, !.inRxMf = FALSE,
                               !.handler = "update_tx_schedule", !.power = "FULL"]
<1>1. mac' = [mac EXCEPT ![n] = m] /\ mac[n] \in Mac /\ UNCHANGED others
  BY DEF IInv, MacInv, RxDataInterrupt
<1>2. m \in Mac /\ m.handler = "update_tx_schedule" /\ m.schedule = mac[n].schedule
  BY <1>1 DEF Mac, Handler
<1>3. NodeOK(m)
  BY <1>2 DEF NodeOK, Contending
<1> HIDE DEF m
<1> QED
  BY <1>1, <1>2, <1>3, OneNodeKeeps

(* A node that announces a message holds it, so it is held by somebody when *)
(* those who hear the announcement delete it.                               *)
LEMMA AnnounceKeeps ==
  ASSUME IInv, NEW n \in Node, NEW m, NodeOK(m), mac[n].handler \in Contending,
         m.schedule = mac[n].schedule, m.mf = mac[n].mf,
         NEW hearers \in SUBSET Node, Announce(n, m, hearers), UNCHANGED others
  PROVE  IInv'
<1> DEFINE msg == m.mf
<1>1. /\ MacInv /\ SinkAnswers /\ Sink \in Node
      /\ lastMessage' = lastMessage /\ delivered' = delivered /\ accepted' = accepted
      /\ received' = received /\ expired' = expired
  BY TstpMacAssumption DEF IInv, others, history
<1>2. msg \in m.schedule /\ msg \in Message
  BY <1>1 DEF MacInv, NodeOK, Mac
<1>3. mac' = [x \in Node |-> IF x = n THEN m
                             ELSE IF x \in hearers THEN HearMicroframe(mac[x], x, n, msg)
                             ELSE mac[x]]
  BY DEF Announce
<1> HIDE DEF msg
<1>4. \A x \in Node : /\ NodeOK(mac'[x])
                      /\ mac'[x].schedule \subseteq mac[x].schedule
                      /\ mac[x].schedule \subseteq mac'[x].schedule \cup {msg}
  <2> SUFFICES ASSUME NEW x \in Node
               PROVE  /\ NodeOK(mac'[x])
                      /\ mac'[x].schedule \subseteq mac[x].schedule
                      /\ mac[x].schedule \subseteq mac'[x].schedule \cup {msg}
    OBVIOUS
  <2>1. NodeOK(mac[x])
    BY <1>1 DEF MacInv
  <2>2. CASE x = n
    BY <1>3, <2>2
  <2>3. CASE x # n /\ x \in hearers
    <3>1. mac'[x] = HearMicroframe(mac[x], x, n, msg)
      BY <1>3, <2>3
    <3> QED
      BY <1>2, <2>1, <3>1, HearOK
  <2>4. CASE x # n /\ x \notin hearers
    BY <1>3, <2>1, <2>4
  <2> QED
    BY <2>2, <2>3, <2>4
<1>5. MacInv' /\ SinkAnswers'
  <2>1. \A x \in Node : mac'[x] \in Mac
    BY <1>4 DEF NodeOK
  <2> QED
    BY <1>1, <1>3, <1>4, <2>1 DEF MacInv, SinkAnswers
<1>6. Holds(n, msg)'
  BY <1>2, <1>3 DEF Holds
<1>7. \A k \in Node : \A x \in mac[k].schedule \ expired' : \E j \in Node : Holds(j, x)'
  BY <1>4, <1>6 DEF Holds
<1>8. accepted' \subseteq Message /\ expired' \subseteq Message
  BY <1>1 DEF IInv, HistoryType
<1> QED
  BY <1>1, <1>5, <1>7, <1>8, StepKeeps

LEMMA TransmitMicroframeKeeps ==
  ASSUME IInv, NEW n \in Node, CcaFree(n) \/ TxMf(n)
  PROVE  IInv'
<1>1. NodeOK(mac[n]) /\ ListenForMicroframes(n) \subseteq Node
  BY TstpMacAssumption DEF IInv, MacInv, ListenForMicroframes
<1>2. CASE CcaFree(n)
  <2> DEFINE sent == [mac[n] EXCEPT !.handler = "tx_mf", !.count = @ - 1]
  <2>1. mac[n].handler = "cca" /\ UNCHANGED others
    BY <1>2 DEF CcaFree
  <2>2. PICK hearers \in SUBSET ListenForMicroframes(n) : Announce(n, sent, hearers)
    BY <1>2 DEF CcaFree
  <2>3. NodeOK(sent) /\ sent.schedule = mac[n].schedule /\ sent.mf = mac[n].mf
    BY <1>1, <2>1, FirstMicroframeOK
  <2> HIDE DEF sent
  <2> QED
    BY <1>1, <2>1, <2>2, <2>3, AnnounceKeeps DEF Contending
<1>3. CASE TxMf(n)
  <2>1. mac[n].handler = "tx_mf" /\ UNCHANGED others
    BY <1>3 DEF TxMf
  <2>2. PICK hearers \in SUBSET ListenForMicroframes(n) :
           Announce(n, AfterMicroframe(mac[n]), hearers)
    BY <1>3 DEF TxMf
  <2>3. /\ NodeOK(AfterMicroframe(mac[n]))
        /\ AfterMicroframe(mac[n]).schedule = mac[n].schedule
        /\ AfterMicroframe(mac[n]).mf = mac[n].mf
    BY <1>1, <2>1, AfterMicroframeOK
  <2> QED
    BY <1>1, <2>1, <2>2, <2>3, AnnounceKeeps DEF Contending
<1> QED
  BY <1>2, <1>3

(* What the sink hands over is newer than all it handed over of the origin. *)
LEMMA NotifyKeeps ==
  ASSUME HistoryType, NotBehind, DeliveredOnce, NEW msg \in Message, Notify(msg),
         accepted' = accepted, expired' = expired
  PROVE  /\ HistoryType' /\ NotBehind' /\ DeliveredOnce'
         /\ received' = received \cup {msg}
<1>1. received' = received \cup {msg}
  BY DEF Notify
<1>2. CASE IsNotNew(msg)
  <2>1. lastMessage' = lastMessage /\ delivered' = delivered
    BY <1>2 DEF Notify
  <2> QED
    BY <1>1, <2>1 DEF HistoryType, NotBehind, DeliveredOnce
<1>3. CASE ~IsNotNew(msg)
  <2>1. /\ lastMessage' = [lastMessage EXCEPT ![msg.origin] = msg.time]
        /\ delivered' = Append(delivered, msg)
    BY <1>3 DEF Notify
  <2>2. /\ msg.origin \in Node /\ msg.time \in Nat
        /\ lastMessage[msg.origin] \in Nat /\ msg.time > lastMessage[msg.origin]
    BY <1>3, MessageFacts DEF IsNotNew, HistoryType
  <2>3. lastMessage' \in [Node -> Nat] /\ delivered' \in Seq(Message)
    BY <2>1, <2>2 DEF HistoryType
  <2>4. /\ Len(delivered) \in Nat
        /\ DOMAIN delivered = 1 .. Len(delivered)
        /\ DOMAIN delivered' = 1 .. Len(delivered) + 1
        /\ delivered'[Len(delivered) + 1] = msg
        /\ \A i \in DOMAIN delivered : delivered'[i] = delivered[i]
    BY <2>1 DEF HistoryType
  <2>5. \A i \in DOMAIN delivered :
           /\ delivered[i].origin \in Node /\ delivered[i].time \in Nat
           /\ delivered[i].time <= lastMessage[delivered[i].origin]
           /\ delivered[i] # msg
    <3> SUFFICES ASSUME NEW i \in DOMAIN delivered
                 PROVE  /\ delivered[i].origin \in Node /\ delivered[i].time \in Nat
                        /\ delivered[i].time <= lastMessage[delivered[i].origin]
                        /\ delivered[i] # msg
      OBVIOUS
    <3>1. delivered[i] \in Message
      BY <2>4 DEF HistoryType
    <3>2. delivered[i].origin \in Node /\ delivered[i].time \in Nat
      BY <3>1, MessageFacts
    <3>3. delivered[i].time <= lastMessage[delivered[i].origin]
      BY DEF NotBehind
    <3>4. delivered[i] # msg
      BY <2>2, <3>3
    <3> QED
      BY <3>2, <3>3, <3>4
  <2>6. \A o \in Node : lastMessage'[o] \in Nat /\ lastMessage[o] <= lastMessage'[o]
    BY <2>1, <2>2 DEF HistoryType
  <2>7. NotBehind'
    <3> SUFFICES ASSUME NEW i \in DOMAIN delivered'
                 PROVE  delivered'[i].time <= lastMessage'[delivered'[i].origin]
      BY DEF NotBehind
    <3>1. CASE i \in DOMAIN delivered
      <4>1. delivered'[i] = delivered[i]
        BY <2>4, <3>1
      <4>2. lastMessage[delivered[i].origin] \in Nat
        BY <2>5, <3>1 DEF HistoryType
      <4> QED
        BY <2>5, <2>6, <3>1, <4>1, <4>2
    <3>2. CASE i \notin DOMAIN delivered
      <4>1. delivered'[i] = msg
        BY <2>4, <3>2
      <4>2. lastMessage'[msg.origin] = msg.time
        BY <2>1, <2>2 DEF HistoryType
      <4> QED
        BY <2>2, <4>1, <4>2
    <3> QED
      BY <3>1, <3>2
  <2>8. DeliveredOnce'
    BY <2>4, <2>5 DEF DeliveredOnce
  <2> QED
    BY <1>1, <2>3, <2>7, <2>8 DEF HistoryType
<1> QED
  BY <1>2, <1>3

LEMMA TxDataKeeps ==
  ASSUME IInv, NEW n \in Node, TxData(n)
  PROVE  IInv'
<1> DEFINE msg == mac[n].pending
<1>1. /\ MacInv /\ HistoryType /\ SinkAnswers /\ Custody /\ NotBehind /\ DeliveredOnce
      /\ Sink \in Node /\ NodeOK(mac[n]) /\ mac[n].handler = "tx_data"
      /\ accepted' = accepted /\ expired' = expired
      /\ ListenForData(n, msg) \subseteq Node
  BY TstpMacAssumption DEF IInv, MacInv, TxData, ListenForData
<1>2. msg \in mac[n].schedule /\ msg \in Message
  BY <1>1 DEF NodeOK, Mac, Contending
<1>3. PICK hearers \in SUBSET ListenForData(n, msg) :
        /\ mac' = [x \in Node |-> IF x = n THEN AfterData(n)
                                  ELSE IF x \in hearers THEN GetData(mac[x], x, n, msg)
                                  ELSE mac[x]]
        /\ IF Sink \in hearers
           THEN Notify(msg)
           ELSE UNCHANGED <<lastMessage, delivered, received>>
  BY DEF TxData
<1> HIDE DEF msg
<1>4. \A x \in Node : /\ NodeOK(mac'[x])
                      /\ mac'[x].schedule \subseteq
                             mac[x].schedule \cup (IF x \in hearers THEN {msg} ELSE {})
                      /\ x # Sink => mac[x].schedule \subseteq mac'[x].schedule
  <2> SUFFICES ASSUME NEW x \in Node
               PROVE  /\ NodeOK(mac'[x])
                      /\ mac'[x].schedule \subseteq
                             mac[x].schedule \cup (IF x \in hearers THEN {msg} ELSE {})
                      /\ x # Sink => mac[x].schedule \subseteq mac'[x].schedule
    OBVIOUS
  <2>1. NodeOK(mac[x])
    BY <1>1 DEF MacInv
  <2>2. CASE x = n
    <3>1. mac'[x] = AfterData(n)
      BY <1>3, <2>2
    <3> QED
      BY <2>1, <2>2, <3>1, AfterDataOK
  <2>3. CASE x # n /\ x \in hearers
    <3>1. mac'[x] = GetData(mac[x], x, n, msg)
      BY <1>3, <2>3
    <3> QED
      BY <1>2, <2>1, <2>3, <3>1, GetDataOK
  <2>4. CASE x # n /\ x \notin hearers
    BY <1>3, <2>1, <2>4
  <2> QED
    BY <2>2, <2>3, <2>4
<1>5. MacInv'
  <2>1. \A x \in Node : mac'[x] \in Mac
    BY <1>4 DEF NodeOK
  <2> QED
    BY <1>3, <1>4, <2>1 DEF MacInv
<1>6. /\ HistoryType' /\ NotBehind' /\ DeliveredOnce'
      /\ received \subseteq received'
      /\ Sink \in hearers => msg \in received'
  <2>1. CASE Sink \in hearers
    <3>1. Notify(msg)
      BY <1>3, <2>1
    <3> QED
      BY <1>1, <1>2, <3>1, NotifyKeeps
  <2>2. CASE Sink \notin hearers
    <3>1. lastMessage' = lastMessage /\ delivered' = delivered /\ received' = received
      BY <1>3, <2>2
    <3> QED
      BY <1>1, <2>2, <3>1 DEF HistoryType, NotBehind, DeliveredOnce
  <2> QED
    BY <2>1, <2>2
<1>7. SinkAnswers'
  BY <1>1, <1>4, <1>6 DEF SinkAnswers
<1>8. Custody'
  <2> SUFFICES ASSUME NEW x \in accepted \ expired, x \notin received'
               PROVE  \E k \in Node : Holds(k, x)'
    BY <1>1 DEF Custody
  <2>1. PICK k \in Node : x \in mac[k].schedule
    BY <1>1, <1>6 DEF Custody, Holds
  <2>2. k # Sink
    BY <1>1, <1>6, <2>1 DEF SinkAnswers
  <2> QED
    BY <1>4, <2>1, <2>2 DEF Holds
<1> QED
  BY <1>5, <1>6, <1>7, <1>8 DEF IInv

-----------------------------------------------------------------------------
LEMMA InitOK == Init => IInv
<1> SUFFICES ASSUME Init PROVE IInv
  OBVIOUS
<1>1. MacInv
  <2> DEFINE m == [handler |-> "rx_mf", power |-> "SLEEP", inRxMf |-> FALSE, inRxData |-> FALSE,
                   schedule |-> {}, pending |-> None, mf |-> None, count |-> 0,
                   receiving |-> None]
  <2>1. m \in Mac /\ m.handler = "rx_mf"
    BY TstpMacAssumption DEF Mac, Handler
  <2>2. NodeOK(m)
    BY <2>1 DEF NodeOK, Contending
  <2>3. mac = [n \in Node |-> m]
    BY DEF Init
  <2> HIDE DEF m
  <2> QED
    BY <2>1, <2>2, <2>3 DEF MacInv
<1>2. HistoryType
  BY DEF Init, HistoryType
<1>3. SinkAnswers
  BY TstpMacAssumption DEF Init, SinkAnswers
<1>4. Custody /\ NotBehind /\ DeliveredOnce
  BY DEF Init, Custody, NotBehind, DeliveredOnce
<1> QED
  BY <1>1, <1>2, <1>3, <1>4 DEF IInv

LEMMA NextKeeps == IInv /\ [Next]_vars => IInv'
<1> SUFFICES ASSUME IInv, [Next]_vars PROVE IInv'
  OBVIOUS
<1>1. ASSUME NEW n \in Node, Interrupt(n) PROVE IInv'
  BY <1>1, UpdateTxScheduleKeeps, ListenKeeps, RxDataInterruptKeeps,
     TransmitMicroframeKeeps, TxDataKeeps DEF Interrupt
<1>2. ASSUME NEW msg \in Message, SendResponse(msg) PROVE IInv'
  BY <1>2, SendResponseKeeps
<1>3. ASSUME NEW msg \in Message, Expire(msg) PROVE IInv'
  BY <1>3, ExpireKeeps
<1>4. CASE UNCHANGED vars
  <2>1. /\ mac' = mac /\ lastMessage' = lastMessage /\ delivered' = delivered
        /\ accepted' = accepted /\ received' = received /\ expired' = expired
    BY <1>4 DEF vars, history
  <2> QED
    BY <2>1 DEF IInv, MacInv, HistoryType, SinkAnswers, Custody, NotBehind, DeliveredOnce, Holds
<1> QED
  BY <1>1, <1>2, <1>3, <1>4 DEF Next

(* The invariant holds on every network.                                    *)
THEOREM IInvHolds == Spec => []IInv
BY InitOK, NextKeeps, PTL DEF Spec

(* The MAC modules and the sink's memory keep their types.                  *)
THEOREM TypeCorrect == Spec => []TypeOK
<1>1. IInv => TypeOK
  BY DEF IInv, MacInv, HistoryType, TypeOK
<1> QED
  BY <1>1, IInvHolds, PTL

(* A message that is not late is in some schedule until the sink has it.    *)
THEOREM NothingIsLost == Spec => []Custody
<1>1. IInv => Custody
  BY DEF IInv
<1> QED
  BY <1>1, IInvHolds, PTL

(* A node that contends or transmits holds the message it announces.        *)
THEOREM PendingIsHeld == Spec => []PendingIsScheduled
<1>1. IInv => PendingIsScheduled
  BY DEF IInv, MacInv, NodeOK, PendingIsScheduled, Holds, Contending
<1> QED
  BY <1>1, IInvHolds, PTL

(* The application of the sink gets no message twice.                       *)
THEOREM NoDuplicates == Spec => []DeliveredOnce
<1>1. IInv => DeliveredOnce
  BY DEF IInv
<1> QED
  BY <1>1, IInvHolds, PTL

-----------------------------------------------------------------------------
(* The MAC implements Convergecast.  The sink's memory of an origin is the  *)
(* time of the newest message it handed up, and what it received is not     *)
(* newer than that.                                                         *)
LastIsNewest ==
    /\ \A o \in Node :
          \/ lastMessage[o] = 0
          \/ \E i \in DOMAIN delivered :
                delivered[i].origin = o /\ delivered[i].time = lastMessage[o]
    /\ \A msg \in received : msg.time <= lastMessage[msg.origin]

LEMMA NotifyKeepsNewest ==
  ASSUME IInv, LastIsNewest, NEW msg \in Message, Notify(msg)
  PROVE  LastIsNewest'
<1>1. /\ msg.origin \in Node /\ msg.time \in Nat /\ received' = received \cup {msg}
      /\ lastMessage \in [Node -> Nat] /\ delivered \in Seq(Message) /\ received \subseteq Message
  BY MessageFacts DEF IInv, HistoryType, Notify
<1>2. CASE IsNotNew(msg)
  <2>1. lastMessage' = lastMessage /\ delivered' = delivered
    BY <1>2 DEF Notify
  <2> QED
    BY <1>1, <1>2, <2>1 DEF LastIsNewest, IsNotNew
<1>3. CASE ~IsNotNew(msg)
  <2>1. /\ lastMessage' = [lastMessage EXCEPT ![msg.origin] = msg.time]
        /\ delivered' = Append(delivered, msg)
    BY <1>3 DEF Notify
  <2>2. lastMessage[msg.origin] \in Nat /\ lastMessage[msg.origin] < msg.time
    BY <1>1, <1>3 DEF IsNotNew
  <2>3. /\ Len(delivered) \in Nat /\ Len(delivered) + 1 \in DOMAIN delivered'
        /\ delivered'[Len(delivered) + 1] = msg
        /\ \A i \in DOMAIN delivered : i \in DOMAIN delivered' /\ delivered'[i] = delivered[i]
    BY <1>1, <2>1
  <2>4. lastMessage'[msg.origin] = msg.time
        /\ \A o \in Node \ {msg.origin} : lastMessage'[o] = lastMessage[o]
    BY <1>1, <2>1
  <2>5. ASSUME NEW o \in Node
        PROVE  \/ lastMessage'[o] = 0
               \/ \E i \in DOMAIN delivered' :
                     delivered'[i].origin = o /\ delivered'[i].time = lastMessage'[o]
    <3>1. CASE o = msg.origin
      BY <2>3, <2>4, <3>1
    <3>2. CASE o # msg.origin
      BY <2>3, <2>4, <3>2 DEF LastIsNewest
    <3> QED BY <3>1, <3>2
  <2>6. ASSUME NEW x \in received' PROVE x.time <= lastMessage'[x.origin]
    <3>1. CASE x = msg
      BY <1>1, <2>4, <3>1
    <3>2. CASE x # msg
      <4>1. x \in received /\ x.time \in Nat /\ x.origin \in Node
        BY <1>1, <3>2, MessageFacts
      <4>2. x.time <= lastMessage[x.origin] /\ lastMessage[x.origin] \in Nat
        BY <1>1, <4>1 DEF LastIsNewest
      <4>3. CASE x.origin = msg.origin
        BY <1>1, <2>2, <2>4, <4>1, <4>2, <4>3
      <4>4. CASE x.origin # msg.origin
        BY <2>4, <4>1, <4>2, <4>4
      <4> QED BY <4>3, <4>4
    <3> QED BY <3>1, <3>2
  <2> QED BY <2>5, <2>6 DEF LastIsNewest
<1> QED BY <1>2, <1>3

LEMMA NewestKept == IInv /\ LastIsNewest /\ [Next]_vars => LastIsNewest'
<1> SUFFICES ASSUME IInv, LastIsNewest, [Next]_vars PROVE LastIsNewest'
  OBVIOUS
<1>1. ASSUME UNCHANGED <<lastMessage, delivered, received>> PROVE LastIsNewest'
  BY <1>1 DEF LastIsNewest
<1>2. ASSUME NEW n \in Node, TxData(n) PROVE LastIsNewest'
  <2>1. mac[n].pending \in Message
    BY <1>2 DEF IInv, MacInv, NodeOK, Mac, Contending, TxData
  <2>2. Notify(mac[n].pending) \/ UNCHANGED <<lastMessage, delivered, received>>
    BY <1>2 DEF TxData
  <2> QED BY <1>1, <2>1, <2>2, NotifyKeepsNewest
<1>3. ASSUME NEW n \in Node, Interrupt(n) PROVE LastIsNewest'
  BY <1>1, <1>2, <1>3 DEF Interrupt, UpdateTxSchedule, RxMfInterrupt, RxDataInterrupt,
     CcaBusy, CcaFree, TxMf, others, history
<1>4. ASSUME NEW msg \in Message, SendResponse(msg) \/ Expire(msg) PROVE LastIsNewest'
  BY <1>1, <1>4 DEF SendResponse, Expire, history
<1>5. CASE UNCHANGED vars
  BY <1>1, <1>5 DEF vars, history
<1> QED BY <1>3, <1>4, <1>5 DEF Next

LEMMA InitNewest == Init => LastIsNewest
BY DEF Init, LastIsNewest

(* The sink hands up what is news.                                          *)
LEMMA NewsIsNew ==
  ASSUME IInv, LastIsNewest, NEW msg \in Message
  PROVE  Collection!IsNews(msg) <=> ~IsNotNew(msg)
<1>1. /\ msg.origin \in Node /\ msg.time \in Nat \ {0}
      /\ lastMessage[msg.origin] \in Nat
      /\ \A i \in DOMAIN delivered : delivered[i].time \in Nat
  <2>1. msg.origin \in Node /\ msg.time \in Nat \ {0} /\ lastMessage \in [Node -> Nat]
    BY TstpMacAssumption DEF IInv, HistoryType
  <2>2. \A i \in DOMAIN delivered : delivered[i] \in Message
    BY DEF IInv, HistoryType
  <2> QED BY <2>1, <2>2, MessageFacts
<1>2. ASSUME Collection!IsNews(msg) PROVE lastMessage[msg.origin] < msg.time
  <2>1. CASE lastMessage[msg.origin] = 0
    BY <1>1, <2>1
  <2>2. CASE \E i \in DOMAIN delivered :
               delivered[i].origin = msg.origin /\ delivered[i].time = lastMessage[msg.origin]
    BY <1>2, <2>2 DEF Collection!IsNews
  <2> QED BY <1>1, <2>1, <2>2 DEF LastIsNewest
<1>3. ASSUME lastMessage[msg.origin] < msg.time PROVE Collection!IsNews(msg)
  <2> SUFFICES ASSUME NEW i \in DOMAIN delivered, delivered[i].origin = msg.origin
               PROVE  delivered[i].time < msg.time
    BY DEF Collection!IsNews
  <2>1. delivered[i].time <= lastMessage[msg.origin]
    BY DEF IInv, NotBehind
  <2> QED BY <1>1, <1>3, <2>1
<1> QED BY <1>1, <1>2, <1>3 DEF IsNotNew

-----------------------------------------------------------------------------
(* What the steps of the MAC are to the copies.                             *)
LEMMA AcceptService ==
  ASSUME IInv, NEW msg \in Message, SendResponse(msg)
  PROVE  Collection!Accept(msg)
<1> DEFINE o == msg.origin
           m == Send(mac[o], msg)
<1>1. /\ o \in Node /\ mac \in [Node -> Mac] /\ NodeOK(mac[o])
      /\ mac' = [mac EXCEPT ![o] = m]
  BY MessageFacts DEF IInv, MacInv, SendResponse
<1>2. m.schedule = mac[o].schedule \cup {msg}
  BY <1>1, SendOK
<1> HIDE DEF m
<1>3. [n \in Node |-> mac'[n].schedule]
        = [[n \in Node |-> mac[n].schedule] EXCEPT ![o] = @ \cup {msg}]
  BY <1>1, <1>2
<1> QED BY <1>3 DEF SendResponse, Collection!Accept

LEMMA ExpireService ==
  ASSUME NEW msg \in Message, Expire(msg)
  PROVE  Collection!Expire(msg)
BY DEF Expire, history, Collection!Expire

LEMMA SameCopies ==
  ASSUME UNCHANGED others, \A n \in Node : mac'[n].schedule = mac[n].schedule
  PROVE  UNCHANGED Collection!vars
BY DEF others, history, Collection!vars

LEMMA OneNodeCopies ==
  ASSUME IInv, NEW n \in Node, NEW m, mac' = [mac EXCEPT ![n] = m], UNCHANGED others
  PROVE  /\ m.schedule = mac[n].schedule => UNCHANGED Collection!vars
         /\ m.schedule = mac[n].schedule \ expired => Collection!Discard(n)
<1>1. mac'[n] = m /\ \A k \in Node \ {n} : mac'[k] = mac[k]
  BY DEF IInv, MacInv
<1>2. m.schedule = mac[n].schedule => UNCHANGED Collection!vars
  BY <1>1, SameCopies
<1>3. ASSUME m.schedule = mac[n].schedule \ expired PROVE Collection!Discard(n)
  <2>1. \A k \in Node :
           mac'[k].schedule = IF k = n THEN mac[k].schedule \ expired ELSE mac[k].schedule
    BY <1>1, <1>3
  <2>2. [k \in Node |-> mac'[k].schedule]
          = [[k \in Node |-> mac[k].schedule] EXCEPT ![n] = @ \ expired]
    BY <2>1
  <2> QED BY <2>2 DEF Collection!Discard, others, history
<1> QED BY <1>2, <1>3

LEMMA UpdateTxScheduleService ==
  ASSUME IInv, NEW n \in Node, UpdateTxSchedule(n)
  PROVE  Collection!Discard(n) \/ UNCHANGED Collection!vars
<1> DEFINE m == [mac[n] EXCEPT !.power = "SLEEP", !.inRxData = FALSE, !.inRxMf = FALSE,
                               !.pending = None, !.receiving = None]
           left == [m EXCEPT !.schedule = Unexpired(m)]
<1>1. mac[n] \in Mac /\ UNCHANGED others
  BY DEF IInv, MacInv, UpdateTxSchedule
<1>2. m \in Mac /\ m.schedule = mac[n].schedule
  BY <1>1 DEF Mac
<1>3. \/ mac' = [mac EXCEPT ![n] = SleepS(m)]
      \/ mac' = [mac EXCEPT ![n] = SleepS(left)]
      \/ \E msg \in Fetch(m) : mac' = [mac EXCEPT ![n] = Contend(left, msg)]
  BY DEF UpdateTxSchedule
<1> HIDE DEF m
<1>4. left \in Mac /\ left.schedule = mac[n].schedule \ expired
  <2>1. Unexpired(m) = mac[n].schedule \ expired /\ Unexpired(m) \subseteq Message
    BY <1>2 DEF Unexpired, Mac
  <2> QED BY <1>2, <2>1 DEF Mac
<1> HIDE DEF left
<1>5. /\ SleepS(m).schedule = mac[n].schedule
      /\ SleepS(left).schedule = mac[n].schedule \ expired
      /\ \A msg : Contend(left, msg).schedule = mac[n].schedule \ expired
  BY <1>2, <1>4 DEF SleepS, Contend, Mac
<1> QED BY <1>1, <1>3, <1>5, OneNodeCopies

LEMMA ListenService ==
  ASSUME IInv, NEW n \in Node, RxMfInterrupt(n) \/ CcaBusy(n) \/ RxDataInterrupt(n)
  PROVE  UNCHANGED Collection!vars
<1>1. NodeOK(mac[n]) /\ mac[n] \in Mac /\ UNCHANGED others
  BY DEF IInv, MacInv, RxMfInterrupt, CcaBusy, RxDataInterrupt
<1>2. CASE RxMfInterrupt(n) \/ CcaBusy(n)
  <2>1. mac' = [mac EXCEPT ![n] = RxMf(mac[n])]
    BY <1>2 DEF RxMfInterrupt, CcaBusy
  <2>2. RxMf(mac[n]).schedule = mac[n].schedule
    BY <1>1, RxMfOK
  <2> QED BY <1>1, <2>1, <2>2, OneNodeCopies
<1>3. CASE RxDataInterrupt(n)
  <2> DEFINE m == [mac[n] EXCEPT !.inRxData = TRUE, !.inRxMf = FALSE,
                                 !.handler = "update_tx_schedule", !.power = "FULL"]
  <2>1. mac' = [mac EXCEPT ![n] = m]
    BY <1>3 DEF RxDataInterrupt
  <2>2. m.schedule = mac[n].schedule
    BY <1>1 DEF Mac
  <2> HIDE DEF m
  <2> QED BY <1>1, <2>1, <2>2, OneNodeCopies
<1> QED BY <1>2, <1>3

(* Those who hear the announcement of n are relieved.                       *)
LEMMA AnnounceService ==
  ASSUME IInv, NEW n \in Node, NEW m, NodeOK(m), mac[n].handler \in Contending,
         m.schedule = mac[n].schedule, m.mf = mac[n].mf,
         NEW hearers \in SUBSET Neighbour[n], Announce(n, m, hearers), UNCHANGED others
  PROVE  \E msg \in Message : Collection!Relieve(n, msg)
<1> DEFINE msg == m.mf
           relieved == hearers \ {n, Sink}
<1>1. msg \in mac[n].schedule /\ msg \in Message /\ \A x \in Node : mac[x] \in Mac
  BY DEF IInv, MacInv, NodeOK, Mac
<1>2. mac' = [x \in Node |-> IF x = n THEN m
                             ELSE IF x \in hearers THEN HearMicroframe(mac[x], x, n, msg)
                             ELSE mac[x]]
  BY DEF Announce
<1> HIDE DEF msg
<1>3. ASSUME NEW x \in Node
      PROVE  mac'[x].schedule
               = IF x \in relieved THEN mac[x].schedule \ {msg} ELSE mac[x].schedule
  <2>1. CASE x = n
    BY <1>2, <2>1
  <2>2. CASE x # n /\ x \in hearers
    <3>1. mac'[x] = HearMicroframe(mac[x], x, n, msg)
      BY <1>2, <2>2
    <3>2. mac'[x].schedule = IF x = Sink THEN mac[x].schedule ELSE mac[x].schedule \ {msg}
      BY <1>1, <3>1 DEF HearMicroframe, Mac
    <3> QED BY <2>2, <3>2
  <2>3. CASE x \notin hearers /\ x # n
    BY <1>2, <2>3
  <2> QED BY <2>1, <2>2, <2>3
<1>4. [x \in Node |-> mac'[x].schedule]
        = [x \in Node |-> IF x \in relieved THEN mac[x].schedule \ {msg} ELSE mac[x].schedule]
  BY <1>3
<1>5. relieved \in SUBSET (Neighbour[n] \ {n, Sink})
  OBVIOUS
<1> HIDE DEF relieved
<1>6. Collection!Relieve(n, msg)
  BY <1>1, <1>4, <1>5 DEF Collection!Relieve, others, history
<1> QED BY <1>1, <1>6

LEMMA TransmitMicroframeService ==
  ASSUME IInv, NEW n \in Node, CcaFree(n) \/ TxMf(n)
  PROVE  \E msg \in Message : Collection!Relieve(n, msg)
<1>1. NodeOK(mac[n]) /\ ListenForMicroframes(n) \subseteq Neighbour[n]
  BY DEF IInv, MacInv, ListenForMicroframes
<1>2. CASE CcaFree(n)
  <2> DEFINE sent == [mac[n] EXCEPT !.handler = "tx_mf", !.count = @ - 1]
  <2>1. mac[n].handler = "cca" /\ UNCHANGED others
    BY <1>2 DEF CcaFree
  <2>2. PICK hearers \in SUBSET ListenForMicroframes(n) : Announce(n, sent, hearers)
    BY <1>2 DEF CcaFree
  <2>3. NodeOK(sent) /\ sent.schedule = mac[n].schedule /\ sent.mf = mac[n].mf
    BY <1>1, <2>1, FirstMicroframeOK
  <2> HIDE DEF sent
  <2> QED
    BY <1>1, <2>1, <2>2, <2>3, AnnounceService DEF Contending
<1>3. CASE TxMf(n)
  <2>1. mac[n].handler = "tx_mf" /\ UNCHANGED others
    BY <1>3 DEF TxMf
  <2>2. PICK hearers \in SUBSET ListenForMicroframes(n) :
           Announce(n, AfterMicroframe(mac[n]), hearers)
    BY <1>3 DEF TxMf
  <2>3. /\ NodeOK(AfterMicroframe(mac[n]))
        /\ AfterMicroframe(mac[n]).schedule = mac[n].schedule
        /\ AfterMicroframe(mac[n]).mf = mac[n].mf
    BY <1>1, <2>1, AfterMicroframeOK
  <2> QED
    BY <1>1, <2>1, <2>2, <2>3, AnnounceService DEF Contending
<1> QED BY <1>2, <1>3

(* Data is a copy for those who are nearer, and the sink gives up what it   *)
(* has answered.                                                            *)
LEMMA TxDataService ==
  ASSUME IInv, LastIsNewest, NEW n \in Node, TxData(n)
  PROVE  \E msg \in Message : Collection!Hand(n, msg) \/ Collection!Answer(msg)
<1>0. /\ NodeOK(mac[n]) /\ mac[n].handler = "tx_data" /\ \A x \in Node : mac[x] \in Mac
      /\ accepted' = accepted /\ expired' = expired
  BY DEF IInv, MacInv, TxData
<1>a. PICK msg \in Message : msg = mac[n].pending
  BY <1>0 DEF NodeOK, Mac, Contending
<1>1. ListenForData(n, msg) \subseteq Neighbour[n]
  BY DEF ListenForData
<1>2. msg \in mac[n].schedule
  BY <1>0, <1>a DEF NodeOK, Contending
<1>3. PICK hearers \in SUBSET ListenForData(n, msg) :
        /\ mac' = [x \in Node |-> IF x = n THEN AfterData(n)
                                  ELSE IF x \in hearers THEN GetData(mac[x], x, n, msg)
                                  ELSE mac[x]]
        /\ IF Sink \in hearers
           THEN Notify(msg)
           ELSE UNCHANGED <<lastMessage, delivered, received>>
  BY <1>a DEF TxData
<1>4. AfterData(n).schedule = IF n = Sink THEN mac[n].schedule \ {msg} ELSE mac[n].schedule
  BY <1>0, <1>a DEF AfterData, SendsOnce, Mac
<1>5. /\ Sink \in Node /\ Dist[Sink] = 0 /\ Dist[n] \in Nat /\ (n # Sink => 0 < Dist[n])
      /\ \A x \in Node : Dist[x] \in Nat
      /\ Neighbour[n] \subseteq Node
  BY TstpMacAssumption
<1>6. ASSUME NEW x \in Node
      PROVE  GetData(mac[x], x, n, msg).schedule
               = IF msg \notin expired /\ Dist[x] < Dist[n]
                 THEN mac[x].schedule \cup {msg} ELSE mac[x].schedule
  <2> DEFINE asleep == [mac[x] EXCEPT !.power = "SLEEP", !.receiving = None]
  <2>1. asleep \in Mac /\ asleep.schedule = mac[x].schedule
    BY <1>0 DEF Mac
  <2>2. GetData(mac[x], x, n, msg) = IF Forward(x, n, msg) THEN Send(asleep, msg) ELSE asleep
    BY DEF GetData
  <2> HIDE DEF asleep
  <2>3. Send(asleep, msg).schedule = mac[x].schedule \cup {msg}
    BY <2>1 DEF Send, Mac
  <2> QED BY <2>1, <2>2, <2>3 DEF Forward
<1>7. CASE n = Sink
  <2>1. msg \in received /\ IsNotNew(msg)
    BY <1>2, <1>7 DEF IInv, SinkAnswers, LastIsNewest, IsNotNew
  <2>2. received' = received /\ delivered' = delivered
    <3>1. CASE Sink \in hearers
      BY <1>3, <2>1, <3>1 DEF Notify
    <3>2. CASE Sink \notin hearers
      BY <1>3, <3>2
    <3> QED BY <3>1, <3>2
  <2>3. ASSUME NEW x \in Node
        PROVE  mac'[x].schedule
                 = IF x = Sink THEN mac[x].schedule \ {msg} ELSE mac[x].schedule
    <3>1. CASE x = n
      BY <1>3, <1>4, <1>7, <3>1
    <3>2. CASE x # n
      <4>1. ~(Dist[x] < Dist[n])
        BY <1>5, <1>7
      <4> QED BY <1>3, <1>6, <1>7, <3>2, <4>1
    <3> QED BY <3>1, <3>2
  <2>4. [x \in Node |-> mac'[x].schedule]
          = [[x \in Node |-> mac[x].schedule] EXCEPT ![Sink] = @ \ {msg}]
    BY <1>5, <2>3
  <2>5. Collection!Answer(msg)
    BY <1>0, <2>1, <2>2, <2>4 DEF Collection!Answer
  <2> QED BY <2>5
<1>8. CASE n # Sink
  <2> DEFINE near == {x \in hearers : Dist[x] < Dist[n]}
  <2>1. near \in SUBSET Collection!Nearer(n)
    BY <1>1 DEF Collection!Nearer
  <2>2. Sink \in near <=> Sink \in hearers
    BY <1>5, <1>8
  <2>3. ASSUME NEW x \in Node
        PROVE  mac'[x].schedule
                 = IF x \in near /\ msg \notin expired
                   THEN mac[x].schedule \cup {msg} ELSE mac[x].schedule
    <3>1. CASE x = n
      <4>1. x \notin near
        BY <1>5, <3>1
      <4> QED BY <1>3, <1>4, <1>8, <3>1, <4>1
    <3>2. CASE x # n /\ x \in hearers
      <4>1. mac'[x] = GetData(mac[x], x, n, msg)
        BY <1>3, <3>2
      <4> QED BY <1>6, <3>2, <4>1
    <3>3. CASE x # n /\ x \notin hearers
      BY <1>3, <3>3
    <3> QED BY <3>1, <3>2, <3>3
  <2> HIDE DEF near
  <2>4. [x \in Node |-> mac'[x].schedule]
          = [x \in Node |-> IF x \in near /\ msg \notin expired
                            THEN mac[x].schedule \cup {msg} ELSE mac[x].schedule]
    BY <2>3
  <2>5. /\ received' = IF Sink \in near THEN received \cup {msg} ELSE received
        /\ delivered' = IF Sink \in near /\ Collection!IsNews(msg)
                        THEN Append(delivered, msg) ELSE delivered
    <3>1. CASE Sink \in hearers
      <4>1. Notify(msg) /\ Sink \in near
        BY <1>3, <2>2, <3>1
      <4>2. Collection!IsNews(msg) <=> ~IsNotNew(msg)
        BY <1>2, NewsIsNew
      <4>3. CASE IsNotNew(msg)
        BY <4>1, <4>2, <4>3 DEF Notify
      <4>4. CASE ~IsNotNew(msg)
        BY <4>1, <4>2, <4>4 DEF Notify
      <4> QED BY <4>3, <4>4
    <3>2. CASE Sink \notin hearers
      BY <1>3, <2>2, <3>2
    <3> QED BY <3>1, <3>2
  <2>6. Collection!Hand(n, msg)
    BY <1>0, <1>2, <2>1, <2>4, <2>5 DEF Collection!Hand
  <2> QED BY <2>6
<1> QED BY <1>7, <1>8

(* The MAC keeps the promise of Convergecast, on every network: every step  *)
(* hands copies towards the sink, or gives up one that another node keeps,  *)
(* that is late or that the sink has answered (tstp_mac.h:310-344, 640-868).*)
THEOREM KeepsConvergecast == Spec => ImplementsConvergecast
<1>1. Init => Collection!Init
  BY DEF Init, Collection!Init
<1>2. IInv /\ LastIsNewest /\ [Next]_vars => [Collection!Next]_Collection!vars
  <2> SUFFICES ASSUME IInv, LastIsNewest, [Next]_vars
               PROVE  Collection!Next \/ UNCHANGED Collection!vars
    OBVIOUS
  <2>1. ASSUME NEW n \in Node, Interrupt(n)
        PROVE  Collection!Next \/ UNCHANGED Collection!vars
    <3>1. CASE UpdateTxSchedule(n)
      BY <3>1, UpdateTxScheduleService DEF Collection!Next
    <3>2. CASE RxMfInterrupt(n) \/ CcaBusy(n) \/ RxDataInterrupt(n)
      BY <3>2, ListenService
    <3>3. CASE CcaFree(n) \/ TxMf(n)
      BY <3>3, TransmitMicroframeService DEF Collection!Next
    <3>4. CASE TxData(n)
      BY <3>4, TxDataService DEF Collection!Next
    <3> QED BY <2>1, <3>1, <3>2, <3>3, <3>4 DEF Interrupt
  <2>2. ASSUME NEW msg \in Message, SendResponse(msg) \/ Expire(msg)
        PROVE  Collection!Next
    BY <2>2, AcceptService, ExpireService DEF Collection!Next
  <2>3. CASE UNCHANGED vars
    BY <2>3 DEF vars, history, Collection!vars
  <2> QED BY <2>1, <2>2, <2>3 DEF Next
<1> QED
  BY <1>1, <1>2, InitNewest, NewestKept, IInvHolds, PTL
     DEF Spec, ImplementsConvergecast, Collection!Spec

-----------------------------------------------------------------------------
(* The key exchange (TstpSecurity): its inductive invariant.                *)
KeyMessage ==
    [type : {"DH_REQUEST", "DH_RESPONSE", "AUTH_REQUEST", "AUTH_GRANTED"},
     sensor : Sensor, sent : Nat]

Key == [owner : Sensor, creation : Nat]

IsNet(B) == B \in [DOMAIN B -> Nat \ {0}] /\ DOMAIN B \subseteq KeyMessage

SinkTypeOK ==
    /\ pendingPeers \in Seq(Sensor) /\ trustedPeers \in Seq(Sensor)
    /\ authTime \in [Sensor -> Nat \cup {Never}]
    /\ pendingKeys \in Seq(Key)
    /\ dhRequestsOpen \in Nat

SensorTypeOK ==
    /\ sinkPeer \in [Sensor -> {"pending", "trusted"}]
    /\ keys \in [Sensor -> Nat]
    /\ authTimer \in [Sensor -> Nat \cup {Never}]
    /\ bootstrapped \in [Sensor -> BOOLEAN]

SecurityTypeOK ==
    /\ now \in Nat /\ repeatGrants \in BOOLEAN
    /\ SinkTypeOK /\ SensorTypeOK /\ IsNet(net)

(* A peer is in one list, once.                                             *)
ListsOK ==
    /\ Once(pendingPeers) /\ Once(trustedPeers)
    /\ \A n \in Sensor : Contains(pendingPeers, n) <=> ~Contains(trustedPeers, n)

(* The sink takes a peer back only when its key has expired; nothing in net *)
(* is older than half a period.                                             *)
TimesOK ==
    /\ \A n \in Sensor :
          /\ authTime[n] # Never => authTime[n] <= now
          /\ Contains(pendingPeers, n) => authTime[n] = Never \/ KeyExpired(n, now)
          /\ Contains(trustedPeers, n) => authTime[n] # Never
          /\ sinkPeer[n] = "trusted" => authTime[n] # Never
    /\ \A m \in DOMAIN net : m.sent <= now /\ now <= m.sent + 1

(* A grant on its way is the last one the sink made for its sensor.         *)
GrantsOK ==
    \A m \in DOMAIN net : m.type = "AUTH_GRANTED" => authTime[m.sensor] = m.sent

(* A sensor has a secret for its timer, and another one for the grant that  *)
(* is on its way or that a request on its way may still lead to.            *)
Need(n) == IF authTimer[n] # Never THEN 2 ELSE 1

KeysOK ==
    /\ \A n \in Sensor : authTimer[n] # Never => keys[n] > 0
    /\ \A m \in DOMAIN net :
          /\ m.type = "AUTH_GRANTED" => net[m] = 1 /\ keys[m.sensor] >= Need(m.sensor)
          /\ m.type = "AUTH_REQUEST" =>
                \/ keys[m.sensor] >= Need(m.sensor)
                \/ authTime[m.sensor] # Never /\ authTime[m.sensor] >= m.sent - 1

SecurityInv ==
    /\ SecurityTypeOK /\ ListsOK /\ TimesOK /\ GrantsOK
    /\ ~repeatGrants => KeysOK
    /\ KeysWereAskedFor

-----------------------------------------------------------------------------
(* The messages on their way.                                               *)
(* Every message but new was there before, as often or more often.          *)
OnlyNew(new) ==
    /\ IsNet(net')
    /\ \A x \in DOMAIN net' : x # new => x \in DOMAIN net /\ net'[x] <= net[x]

Shrunk ==
    /\ IsNet(net')
    /\ \A x \in DOMAIN net' : x \in DOMAIN net /\ net'[x] <= net[x]

LEMMA RemoveMessage ==
  ASSUME NEW B, IsNet(B), NEW m
  PROVE  LET C == B (-) SetToBag({m})
         IN  /\ IsNet(C)
             /\ \A x \in DOMAIN C : x \in DOMAIN B /\ C[x] <= B[x]
             /\ m \in DOMAIN B /\ B[m] = 1 => m \notin DOMAIN C
             /\ \A x \in DOMAIN B : x # m => x \in DOMAIN C
<1> DEFINE D == [e \in DOMAIN B |-> IF e \in DOMAIN SetToBag({m}) THEN B[e] - SetToBag({m})[e]
                                    ELSE B[e]]
           C == B (-) SetToBag({m})
<1>1. \A e \in DOMAIN B : B[e] \in Nat /\ B[e] > 0 /\ e \in KeyMessage
  BY DEF IsNet
<1>2. DOMAIN D = DOMAIN B /\ \A e \in DOMAIN B : D[e] = IF e = m THEN B[e] - 1 ELSE B[e]
  BY DEF SetToBag
<1>3. C = [e \in {d \in DOMAIN D : D[d] > 0} |-> D[e]]
  BY DEF (-)
<1> HIDE DEF C, D
<1>4. /\ DOMAIN C \subseteq DOMAIN B
      /\ \A x \in DOMAIN C : C[x] = D[x] /\ D[x] > 0
      /\ C = [x \in DOMAIN C |-> C[x]]
  BY <1>2, <1>3
<1>5. \A x \in DOMAIN C : C[x] \in Nat \ {0} /\ C[x] <= B[x]
  BY <1>1, <1>2, <1>4
<1>6. IsNet(C)
  BY <1>1, <1>4, <1>5 DEF IsNet
<1>7. m \in DOMAIN B /\ B[m] = 1 => m \notin DOMAIN C
  BY <1>2, <1>4
<1>8. \A x \in DOMAIN B : x # m => x \in DOMAIN C
  BY <1>1, <1>2, <1>3
<1> QED BY <1>4, <1>5, <1>6, <1>7, <1>8 DEF C

LEMMA AddMessage ==
  ASSUME NEW B, IsNet(B), NEW new \in KeyMessage, repeatGrants \in BOOLEAN
  PROVE  LET C == B (+) Copies(new)
         IN  /\ IsNet(C)
             /\ DOMAIN C = DOMAIN B \cup {new}
             /\ \A x \in DOMAIN B : x # new => C[x] = B[x]
             /\ new \notin DOMAIN B /\ new.type = "AUTH_GRANTED" /\ ~repeatGrants
                  => C[new] = 1
<1> DEFINE k == IF new.type = "AUTH_GRANTED" /\ ~repeatGrants THEN 1 ELSE MaxCopies
           C == B (+) Copies(new)
<1>1. \A e \in DOMAIN B : B[e] \in Nat \ {0} /\ e \in KeyMessage
  BY DEF IsNet
<1>2. k \in Nat \ {0}
  BY TstpAssumption
<1>3. DOMAIN Copies(new) = {new} /\ Copies(new)[new] = k
  BY DEF Copies
<1>4. C = [e \in DOMAIN B \cup {new} |->
              (IF e \in DOMAIN B THEN B[e] ELSE 0) + (IF e = new THEN k ELSE 0)]
  BY <1>3 DEF (+)
<1> HIDE DEF C
<1>5. /\ DOMAIN C = DOMAIN B \cup {new} /\ C = [x \in DOMAIN C |-> C[x]]
      /\ \A x \in DOMAIN B : x # new => C[x] = B[x] + 0
      /\ new \notin DOMAIN B => C[new] = 0 + k
      /\ new \in DOMAIN B => C[new] = B[new] + k
  BY <1>4
<1> HIDE DEF k
<1>6. \A x \in DOMAIN C : C[x] \in Nat \ {0}
  BY <1>1, <1>2, <1>5
<1>7. IsNet(C)
  BY <1>1, <1>5, <1>6 DEF IsNet
<1>8. \A x \in DOMAIN B : x # new => C[x] = B[x]
  BY <1>1, <1>5
<1>9. new \notin DOMAIN B /\ new.type = "AUTH_GRANTED" /\ ~repeatGrants => C[new] = 1
  BY <1>5 DEF k
<1> QED BY <1>5, <1>7, <1>8, <1>9 DEF C

LEMMA ConsumeShrinks ==
  ASSUME IsNet(net), NEW m, Consume(m)
  PROVE  Shrunk /\ (m \in DOMAIN net /\ net[m] = 1 => m \notin DOMAIN net')
BY RemoveMessage DEF Consume, Shrunk

LEMMA ReplyAdds ==
  ASSUME IsNet(net), repeatGrants \in BOOLEAN, NEW m, NEW new \in KeyMessage, Reply(m, new)
  PROVE  /\ OnlyNew(new)
         /\ new \notin DOMAIN net /\ new.type = "AUTH_GRANTED" /\ ~repeatGrants
              => net'[new] = 1
<1> DEFINE C == net (-) SetToBag({m})
<1>1. IsNet(C) /\ \A x \in DOMAIN C : x \in DOMAIN net /\ C[x] <= net[x]
  BY RemoveMessage
<1>2. net' = C (+) Copies(new)
  BY DEF Reply
<1> HIDE DEF C
<1>3. /\ IsNet(net')
      /\ DOMAIN net' = DOMAIN C \cup {new}
      /\ \A x \in DOMAIN C : x # new => net'[x] = C[x]
      /\ new \notin DOMAIN C /\ new.type = "AUTH_GRANTED" /\ ~repeatGrants
           => net'[new] = 1
  BY <1>1, <1>2, AddMessage
<1>4. ASSUME NEW x \in DOMAIN net', x # new PROVE x \in DOMAIN net /\ net'[x] <= net[x]
  <2>1. x \in DOMAIN C /\ net'[x] = C[x]
    BY <1>3, <1>4
  <2> QED BY <1>1, <2>1
<1> QED BY <1>1, <1>3, <1>4 DEF OnlyNew

LEMMA SendAdds ==
  ASSUME IsNet(net), repeatGrants \in BOOLEAN, NEW new \in KeyMessage,
         net' = net (+) Copies(new)
  PROVE  OnlyNew(new)
<1>1. /\ IsNet(net')
      /\ DOMAIN net' = DOMAIN net \cup {new}
      /\ \A x \in DOMAIN net : x # new => net'[x] = net[x]
  BY AddMessage
<1>2. \A x \in DOMAIN net : net[x] <= net[x]
  BY DEF IsNet
<1>3. ASSUME NEW x \in DOMAIN net', x # new PROVE x \in DOMAIN net /\ net'[x] <= net[x]
  <2>1. x \in DOMAIN net /\ net'[x] = net[x]
    BY <1>1, <1>3
  <2> QED BY <1>2, <2>1
<1> QED BY <1>1, <1>3 DEF OnlyNew

LEMMA ExpireShrinks ==
  ASSUME IsNet(net), NEW time
  PROVE  /\ IsNet(ExpireMessages(time))
         /\ \A x \in DOMAIN ExpireMessages(time) :
               x \in DOMAIN net /\ ExpireMessages(time)[x] <= net[x] /\ Alive(x, time)
<1>1. \A e \in DOMAIN net : net[e] \in Nat \ {0} /\ e \in KeyMessage /\ net[e] <= net[e]
  BY DEF IsNet
<1>2. /\ DOMAIN ExpireMessages(time) = {x \in DOMAIN net : Alive(x, time)}
      /\ \A x \in DOMAIN ExpireMessages(time) : ExpireMessages(time)[x] = net[x]
      /\ ExpireMessages(time) = [x \in DOMAIN ExpireMessages(time) |-> ExpireMessages(time)[x]]
  BY DEF ExpireMessages, BagToSet
<1> QED BY <1>1, <1>2 DEF IsNet

-----------------------------------------------------------------------------
(* Every action preserves the inductive invariant.                          *)
LEMMA OnItsWay ==
  ASSUME SecurityInv, NEW m \in DOMAIN net
  PROVE  /\ m \in KeyMessage /\ m.sensor \in Sensor /\ m.sent \in Nat
         /\ net[m] \in Nat /\ net[m] > 0
         /\ now \in Nat /\ m.sent <= now /\ now <= m.sent + 1
BY DEF SecurityInv, SecurityTypeOK, IsNet, TimesOK, KeyMessage

LEMMA NewMessage ==
  ASSUME now \in Nat, NEW n \in Sensor,
         NEW type \in {"DH_REQUEST", "DH_RESPONSE", "AUTH_REQUEST", "AUTH_GRANTED"}
  PROVE  /\ Msg(type, n) \in KeyMessage
         /\ Msg(type, n).type = type /\ Msg(type, n).sensor = n /\ Msg(type, n).sent = now
BY DEF Msg, KeyMessage

(* What the sink keeps while a sensor acts.                                 *)
LEMMA SinkStays ==
  ASSUME SecurityInv, UNCHANGED <<now, sinkVars>>
  PROVE  SinkTypeOK' /\ ListsOK' /\ KeysWereAskedFor'
BY DEF SecurityInv, SecurityTypeOK, SinkTypeOK, ListsOK, KeysWereAskedFor, sinkVars

LEMMA ReceiveDHRequestOK ==
  ASSUME SecurityInv, NEW m \in DOMAIN net, ReceiveDHRequest(m)
  PROVE  SecurityInv'
<1> DEFINE n == m.sensor
           new == Msg("DH_RESPONSE", n)
<1>0. SecurityTypeOK /\ SensorTypeOK /\ IsNet(net) /\ repeatGrants \in BOOLEAN /\ now \in Nat
  BY DEF SecurityInv, SecurityTypeOK
<1>1. n \in Sensor
  BY OnItsWay
<1>2. /\ UNCHANGED <<now, sinkVars, bootstrapped, repeatGrants>>
      /\ StartExchange(n) /\ Reply(m, new)
  BY DEF ReceiveDHRequest, Receive
<1>3. /\ new \in KeyMessage /\ new.type = "DH_RESPONSE" /\ new.sensor = n /\ new.sent = now
  BY <1>0, <1>1, NewMessage
<1> HIDE DEF n, new
<1>4. OnlyNew(new)
  BY <1>0, <1>2, <1>3, ReplyAdds
<1>5. SensorTypeOK'
  BY <1>0, <1>1, <1>2 DEF SensorTypeOK, StartExchange
<1>6. SecurityTypeOK'
  BY <1>0, <1>2, <1>4, <1>5, SinkStays DEF SecurityTypeOK, OnlyNew
<1>7. UNCHANGED authTime
  BY <1>2 DEF sinkVars
<1>8. TimesOK'
  <2>1. ASSUME NEW x \in DOMAIN net' PROVE x.sent <= now' /\ now' <= x.sent + 1
    BY <1>0, <1>2, <1>3, <1>4, <2>1, OnItsWay DEF OnlyNew
  <2>2. ASSUME NEW p \in Sensor, sinkPeer'[p] = "trusted" PROVE authTime'[p] # Never
    <3>1. sinkPeer[p] = "trusted"
      BY <1>0, <1>1, <1>2, <2>2 DEF StartExchange, SensorTypeOK
    <3> QED BY <1>7, <3>1 DEF SecurityInv, TimesOK
  <2> QED BY <1>2, <1>7, <2>1, <2>2 DEF SecurityInv, TimesOK, KeyExpired, sinkVars
<1>9. GrantsOK'
  BY <1>3, <1>4, <1>7 DEF SecurityInv, GrantsOK, OnlyNew
<1>10. ASSUME ~repeatGrants' PROVE KeysOK'
  <2>0. KeysOK
    BY <1>2, <1>10 DEF SecurityInv
  <2>1. /\ keys' = [keys EXCEPT ![n] = @ + 1]
        /\ authTimer' = [authTimer EXCEPT ![n] = now]
        /\ keys \in [Sensor -> Nat] /\ authTimer \in [Sensor -> Nat \cup {Never}]
    BY <1>0, <1>2 DEF StartExchange, SensorTypeOK
  <2>2. \A p \in Sensor : p # n => keys'[p] = keys[p] /\ authTimer'[p] = authTimer[p]
    BY <1>1, <2>1
  <2>3. keys'[n] = keys[n] + 1 /\ keys[n] \in Nat
    BY <1>1, <2>1
  <2>4. ASSUME NEW p \in Sensor, authTimer'[p] # Never PROVE keys'[p] > 0
    BY <2>0, <2>2, <2>3, <2>4 DEF KeysOK
  <2>5. ASSUME NEW p \in Sensor, keys[p] >= Need(p) PROVE keys'[p] >= Need(p)'
    <3>1. CASE p = n
      BY <2>3, <2>5, <3>1 DEF Need
    <3>2. CASE p # n
      BY <2>2, <2>5, <3>2 DEF Need
    <3> QED BY <3>1, <3>2
  <2>6. ASSUME NEW x \in DOMAIN net', x.type = "AUTH_GRANTED"
        PROVE  net'[x] = 1 /\ keys'[x.sensor] >= Need(x.sensor)'
    <3>1. x \in DOMAIN net /\ net'[x] <= net[x] /\ net'[x] \in Nat \ {0}
      BY <1>3, <1>4, <2>6 DEF OnlyNew, IsNet
    <3>2. net[x] = 1 /\ keys[x.sensor] >= Need(x.sensor) /\ x.sensor \in Sensor
      BY <2>0, <2>6, <3>1, OnItsWay DEF KeysOK
    <3> QED BY <2>5, <3>1, <3>2
  <2>7. ASSUME NEW x \in DOMAIN net', x.type = "AUTH_REQUEST"
        PROVE  \/ keys'[x.sensor] >= Need(x.sensor)'
               \/ authTime'[x.sensor] # Never /\ authTime'[x.sensor] >= x.sent - 1
    <3>1. x \in DOMAIN net
      BY <1>3, <1>4, <2>7 DEF OnlyNew
    <3>2. x.sensor \in Sensor
      BY <3>1, OnItsWay
    <3> QED BY <1>7, <2>0, <2>5, <2>7, <3>1, <3>2 DEF KeysOK
  <2> QED BY <2>4, <2>6, <2>7 DEF KeysOK
<1> QED BY <1>2, <1>6, <1>8, <1>9, <1>10, SinkStays DEF SecurityInv

LEMMA AuthRequestOK ==
  ASSUME SecurityInv, NEW n \in Sensor, AuthRequest(n)
  PROVE  SecurityInv'
<1> DEFINE new == Msg("AUTH_REQUEST", n)
<1>0. SecurityTypeOK /\ SensorTypeOK /\ IsNet(net) /\ repeatGrants \in BOOLEAN /\ now \in Nat
  BY DEF SecurityInv, SecurityTypeOK
<1>2. /\ UNCHANGED <<now, sinkVars, sinkPeer, keys, bootstrapped, repeatGrants>>
      /\ keys[n] > 0
      /\ authTimer' = [authTimer EXCEPT ![n] = Never]
      /\ net' = net (+) Copies(new)
  BY DEF AuthRequest
<1>3. /\ new \in KeyMessage /\ new.type = "AUTH_REQUEST" /\ new.sensor = n /\ new.sent = now
  BY <1>0, NewMessage
<1> HIDE DEF new
<1>4. OnlyNew(new)
  BY <1>0, <1>2, <1>3, SendAdds
<1>5. SensorTypeOK'
  BY <1>0, <1>2 DEF SensorTypeOK
<1>6. SecurityTypeOK'
  BY <1>0, <1>2, <1>4, <1>5, SinkStays DEF SecurityTypeOK, OnlyNew
<1>7. UNCHANGED authTime
  BY <1>2 DEF sinkVars
<1>8. TimesOK'
  <2>1. ASSUME NEW x \in DOMAIN net' PROVE x.sent <= now' /\ now' <= x.sent + 1
    BY <1>0, <1>2, <1>3, <1>4, <2>1, OnItsWay DEF OnlyNew
  <2> QED BY <1>2, <1>7, <2>1 DEF SecurityInv, TimesOK, KeyExpired, sinkVars
<1>9. GrantsOK'
  BY <1>3, <1>4, <1>7 DEF SecurityInv, GrantsOK, OnlyNew
<1>10. ASSUME ~repeatGrants' PROVE KeysOK'
  <2>0. KeysOK
    BY <1>2, <1>10 DEF SecurityInv
  <2>1. \A p \in Sensor : authTimer'[p] = IF p = n THEN Never ELSE authTimer[p]
    BY <1>0, <1>2 DEF SensorTypeOK
  <2>2. keys \in [Sensor -> Nat]
    BY <1>0 DEF SensorTypeOK
  <2>4. ASSUME NEW p \in Sensor, authTimer'[p] # Never PROVE keys'[p] > 0
    BY <1>2, <2>0, <2>1, <2>4 DEF KeysOK
  <2>5. ASSUME NEW p \in Sensor, keys[p] >= Need(p) PROVE keys'[p] >= Need(p)'
    BY <1>2, <2>1, <2>2, <2>5 DEF Need
  <2>6. ASSUME NEW x \in DOMAIN net', x.type = "AUTH_GRANTED"
        PROVE  net'[x] = 1 /\ keys'[x.sensor] >= Need(x.sensor)'
    <3>1. x \in DOMAIN net /\ net'[x] <= net[x] /\ net'[x] \in Nat \ {0}
      BY <1>3, <1>4, <2>6 DEF OnlyNew, IsNet
    <3>2. net[x] = 1 /\ keys[x.sensor] >= Need(x.sensor) /\ x.sensor \in Sensor
      BY <2>0, <2>6, <3>1, OnItsWay DEF KeysOK
    <3> QED BY <2>5, <3>1, <3>2
  <2>7. ASSUME NEW x \in DOMAIN net', x.type = "AUTH_REQUEST"
        PROVE  \/ keys'[x.sensor] >= Need(x.sensor)'
               \/ authTime'[x.sensor] # Never /\ authTime'[x.sensor] >= x.sent - 1
    <3>1. CASE x = new
      BY <1>2, <1>3, <2>1, <2>2, <3>1 DEF Need
    <3>2. CASE x # new
      <4>1. x \in DOMAIN net
        BY <1>4, <3>2 DEF OnlyNew
      <4>2. x.sensor \in Sensor
        BY <4>1, OnItsWay
      <4> QED BY <1>7, <2>0, <2>5, <2>7, <4>1, <4>2 DEF KeysOK
    <3> QED BY <3>1, <3>2
  <2> QED BY <2>4, <2>6, <2>7 DEF KeysOK
<1> QED BY <1>2, <1>6, <1>8, <1>9, <1>10, SinkStays DEF SecurityInv

(* A grant on its way is younger than the expiry of the key it is for.      *)
LEMMA GrantIsFresh ==
  ASSUME SecurityInv, NEW m \in DOMAIN net, m.type = "AUTH_GRANTED"
  PROVE  /\ authTime[m.sensor] = m.sent /\ m.sent # Never
         /\ ~KeyExpired(m.sensor, now)
         /\ ~Contains(pendingPeers, m.sensor)
<1>1. /\ m.sensor \in Sensor /\ m.sent \in Nat /\ now \in Nat /\ now <= m.sent + 1
      /\ authTime[m.sensor] = m.sent
  BY OnItsWay DEF SecurityInv, GrantsOK
<1>2. m.sent # Never /\ ~KeyExpired(m.sensor, now)
  BY <1>1, TstpAssumption DEF KeyExpired
<1> QED BY <1>1, <1>2 DEF SecurityInv, TimesOK

LEMMA ReceiveAuthGrantedOK ==
  ASSUME SecurityInv, NEW m \in DOMAIN net, ReceiveAuthGranted(m)
  PROVE  SecurityInv'
<1> DEFINE n == m.sensor
           answered == /\ sinkPeer[n] = "pending" /\ keys[n] > 0
                       /\ TimeWindow(m.sent) = TimeWindow(now)
<1>0. SecurityTypeOK /\ SensorTypeOK /\ IsNet(net) /\ now \in Nat
  BY DEF SecurityInv, SecurityTypeOK
<1>1. n \in Sensor /\ m.sent \in Nat /\ now <= m.sent + 1
  BY OnItsWay
<1>2. /\ UNCHANGED <<now, sinkVars, authTimer, repeatGrants>>
      /\ Consume(m) /\ m.type = "AUTH_GRANTED"
      /\ answered => /\ sinkPeer' = [sinkPeer EXCEPT ![n] = "trusted"]
                     /\ keys' = [keys EXCEPT ![n] = @ - 1]
                     /\ bootstrapped' = [bootstrapped EXCEPT ![n] = TRUE]
      /\ ~answered => UNCHANGED <<sinkPeer, keys, bootstrapped>>
      /\ answered => keys[n] > 0
  BY DEF ReceiveAuthGranted, Receive
<1>3. authTime[n] = m.sent /\ m.sent # Never
  BY <1>2, GrantIsFresh
<1> HIDE DEF answered, n
<1>4. Shrunk /\ (net[m] = 1 => m \notin DOMAIN net')
  BY <1>0, <1>2, ConsumeShrinks
<1>5. SensorTypeOK'
  <2>1. CASE answered
    <3>1. keys \in [Sensor -> Nat] /\ keys[n] - 1 \in Nat
      BY <1>0, <1>1, <1>2, <2>1 DEF SensorTypeOK
    <3>2. keys' \in [Sensor -> Nat]
      BY <1>2, <2>1, <3>1
    <3>3. /\ sinkPeer' \in [Sensor -> {"pending", "trusted"}]
          /\ bootstrapped' \in [Sensor -> BOOLEAN]
      BY <1>0, <1>1, <1>2, <2>1 DEF SensorTypeOK
    <3> QED BY <1>0, <1>2, <3>2, <3>3 DEF SensorTypeOK
  <2>2. CASE ~answered
    BY <1>0, <1>2, <2>2 DEF SensorTypeOK
  <2> QED BY <2>1, <2>2
<1>6. SecurityTypeOK'
  BY <1>0, <1>2, <1>4, <1>5, SinkStays DEF SecurityTypeOK, Shrunk
<1>7. UNCHANGED authTime
  BY <1>2 DEF sinkVars
<1>8. TimesOK'
  <2>1. ASSUME NEW x \in DOMAIN net' PROVE x.sent <= now' /\ now' <= x.sent + 1
    BY <1>2, <1>4, <2>1, OnItsWay DEF Shrunk
  <2>2. ASSUME NEW p \in Sensor, sinkPeer'[p] = "trusted" PROVE authTime'[p] # Never
    <3>1. p = n \/ sinkPeer[p] = "trusted"
      BY <1>0, <1>2, <2>2 DEF SensorTypeOK
    <3> QED BY <1>3, <1>7, <3>1 DEF SecurityInv, TimesOK
  <2> QED BY <1>2, <1>7, <2>1, <2>2 DEF SecurityInv, TimesOK, KeyExpired, sinkVars
<1>9. GrantsOK'
  BY <1>4, <1>7 DEF SecurityInv, GrantsOK, Shrunk
<1>10. ASSUME ~repeatGrants' PROVE KeysOK'
  <2>0. KeysOK
    BY <1>2, <1>10 DEF SecurityInv
  <2>1. net[m] = 1 /\ m \notin DOMAIN net' /\ keys[n] >= Need(n)
    BY <1>2, <1>4, <2>0 DEF KeysOK, n
  <2>2. keys \in [Sensor -> Nat] /\ authTimer' = authTimer
    BY <1>0, <1>2 DEF SensorTypeOK
  <2>3. /\ \A p \in Sensor : p # n => keys'[p] = keys[p]
        /\ keys'[n] = keys[n] \/ keys'[n] = keys[n] - 1
    BY <1>1, <1>2, <2>2
  <2>4. ASSUME NEW p \in Sensor, authTimer'[p] # Never PROVE keys'[p] > 0
    <3>1. CASE p = n
      BY <1>1, <2>1, <2>2, <2>3, <2>4, <3>1 DEF Need
    <3>2. CASE p # n
      BY <2>0, <2>2, <2>3, <2>4, <3>2 DEF KeysOK
    <3> QED BY <3>1, <3>2
  <2>5. ASSUME NEW p \in Sensor, p # n, keys[p] >= Need(p) PROVE keys'[p] >= Need(p)'
    BY <2>2, <2>3, <2>5 DEF Need
  <2>6. ASSUME NEW x \in DOMAIN net', x.type = "AUTH_GRANTED"
        PROVE  net'[x] = 1 /\ keys'[x.sensor] >= Need(x.sensor)'
    <3>1. x \in DOMAIN net /\ net'[x] <= net[x] /\ net'[x] \in Nat \ {0}
      BY <1>4 DEF Shrunk, IsNet
    <3>2. net[x] = 1 /\ keys[x.sensor] >= Need(x.sensor) /\ x.sensor \in Sensor
      BY <2>0, <2>6, <3>1, OnItsWay DEF KeysOK
    <3>3. x.sensor # n
      <4>1. SUFFICES ASSUME x.sensor = n PROVE FALSE
        OBVIOUS
      <4>2. x.sent = m.sent
        BY <1>3, <2>6, <3>1, <4>1, GrantIsFresh
      <4>3. x \in KeyMessage /\ m \in KeyMessage
        BY <3>1, OnItsWay
      <4>4. x = m
        BY <1>2, <2>6, <4>1, <4>2, <4>3 DEF KeyMessage, n
      <4> QED BY <2>1, <4>4
    <3> QED BY <2>5, <3>1, <3>2, <3>3
  <2>7. ASSUME NEW x \in DOMAIN net', x.type = "AUTH_REQUEST"
        PROVE  \/ keys'[x.sensor] >= Need(x.sensor)'
               \/ authTime'[x.sensor] # Never /\ authTime'[x.sensor] >= x.sent - 1
    <3>1. x \in DOMAIN net
      BY <1>4 DEF Shrunk
    <3>2. x.sensor \in Sensor /\ x.sent <= now /\ x.sent \in Nat
      BY <3>1, OnItsWay
    <3>3. CASE x.sensor = n
      BY <1>0, <1>1, <1>3, <1>7, <3>2, <3>3
    <3>4. CASE x.sensor # n
      BY <1>7, <2>0, <2>5, <2>7, <3>1, <3>2, <3>4 DEF KeysOK
    <3> QED BY <3>3, <3>4
  <2> QED BY <2>4, <2>6, <2>7 DEF KeysOK
<1> QED BY <1>2, <1>6, <1>8, <1>9, <1>10, SinkStays DEF SecurityInv

(* What the sensors keep while the sink acts, and nothing is granted.       *)
LEMMA ReceiveDHResponseOK ==
  ASSUME SecurityInv, NEW m \in DOMAIN net, ReceiveDHResponse(m)
  PROVE  SecurityInv'
<1> DEFINE k == [owner |-> m.sensor, creation |-> now]
           taken == RequestIsOpen /\ Contains(pendingPeers, m.sensor)
<1>0. SecurityTypeOK /\ SinkTypeOK /\ IsNet(net) /\ now \in Nat
  BY DEF SecurityInv, SecurityTypeOK
<1>1. k \in Key
  BY <1>0, OnItsWay DEF Key
<1>2. /\ UNCHANGED <<now, pendingPeers, trustedPeers, authTime, sensorVars, repeatGrants>>
      /\ Consume(m)
      /\ taken => /\ dhRequestsOpen' = dhRequestsOpen - 1
                  /\ pendingKeys' = Append(pendingKeys, k)
                  /\ dhRequestsOpen > 0
      /\ ~taken => UNCHANGED <<dhRequestsOpen, pendingKeys>>
  BY DEF ReceiveDHResponse, Receive, RequestAnswered, RequestIsOpen
<1> HIDE DEF taken, k
<1>3. Shrunk
  BY <1>0, <1>2, ConsumeShrinks
<1>4. SinkTypeOK' /\ KeysWereAskedFor'
  <2>1. /\ pendingKeys \in Seq(Key) /\ Len(pendingKeys) \in Nat /\ dhRequestsOpen \in Nat
        /\ Append(pendingKeys, k) \in Seq(Key)
        /\ Len(Append(pendingKeys, k)) = Len(pendingKeys) + 1
    BY <1>0, <1>1, AppendProperties, LenProperties DEF SinkTypeOK
  <2>2. KeysWereAskedFor
    BY DEF SecurityInv
  <2>3. CASE taken
    <3>1. dhRequestsOpen' \in Nat /\ pendingKeys' \in Seq(Key)
      BY <1>2, <2>1, <2>3
    <3>2. Len(pendingKeys') + dhRequestsOpen' = Len(pendingKeys) + dhRequestsOpen
      BY <1>2, <2>1, <2>3
    <3> QED BY <1>0, <1>2, <2>2, <3>1, <3>2 DEF SinkTypeOK, KeysWereAskedFor
  <2>4. CASE ~taken
    BY <1>0, <1>2, <2>1, <2>2, <2>4 DEF SinkTypeOK, KeysWereAskedFor
  <2> QED BY <2>3, <2>4
<1>5. SecurityTypeOK'
  BY <1>0, <1>2, <1>3, <1>4 DEF SecurityTypeOK, Shrunk, SensorTypeOK, sensorVars
<1>6. ListsOK'
  BY <1>2 DEF SecurityInv, ListsOK
<1>7. TimesOK'
  BY <1>2, <1>3 DEF SecurityInv, TimesOK, KeyExpired, sensorVars, Shrunk
<1>8. GrantsOK'
  BY <1>2, <1>3 DEF SecurityInv, GrantsOK, Shrunk
<1>9. ASSUME ~repeatGrants' PROVE KeysOK'
  <2>0. KeysOK
    BY <1>2, <1>9 DEF SecurityInv
  <2>1. UNCHANGED <<keys, authTimer, authTime>>
    BY <1>2 DEF sensorVars
  <2>2. ASSUME NEW x \in DOMAIN net' PROVE x \in DOMAIN net /\ (net[x] = 1 => net'[x] = 1)
    BY <1>3 DEF Shrunk, IsNet
  <2> QED BY <2>0, <2>1, <2>2 DEF KeysOK, Need
<1> QED BY <1>2, <1>4, <1>5, <1>6, <1>7, <1>8, <1>9 DEF SecurityInv

(* The sink takes a request for the first of the keys that fit.             *)
LEMMA MinIsMember ==
  ASSUME NEW S \in SUBSET Nat, S # {}
  PROVE  Min(S) \in S
<1>1. \E n \in S : \A m \in S : n <= m
  BY LeastNatural
<1> QED BY <1>1 DEF Min

LEMMA ReceiveAuthRequestOK ==
  ASSUME SecurityInv, NEW m \in DOMAIN net, ReceiveAuthRequest(m)
  PROVE  SecurityInv'
<1> DEFINE n == m.sensor
           new == Msg("AUTH_GRANTED", n)
           valid == {i \in DOMAIN pendingKeys : ValidRequest(m, i)}
<1>0. SecurityTypeOK /\ SinkTypeOK /\ IsNet(net) /\ now \in Nat /\ repeatGrants \in BOOLEAN
  BY DEF SecurityInv, SecurityTypeOK
<1>1. n \in Sensor /\ m.sent \in Nat /\ now <= m.sent + 1 /\ now # Never
  BY OnItsWay, TstpAssumption
<1>2. /\ UNCHANGED <<now, dhRequestsOpen, sensorVars, repeatGrants>>
      /\ m.type = "AUTH_REQUEST"
      /\ valid # {} => /\ Trust(n) /\ Reply(m, new)
                       /\ pendingKeys' = RemoveAt(pendingKeys, Min(valid))
      /\ valid = {} => /\ Consume(m)
                       /\ UNCHANGED <<pendingPeers, trustedPeers, authTime, pendingKeys>>
  BY DEF ReceiveAuthRequest, Receive
<1>3. /\ new \in KeyMessage /\ new.type = "AUTH_GRANTED" /\ new.sensor = n /\ new.sent = now
  BY <1>0, <1>1, NewMessage
<1>4. /\ Len(pendingKeys) \in Nat /\ DOMAIN pendingKeys = 1 .. Len(pendingKeys)
      /\ pendingKeys \in Seq(Key)
  BY <1>0, LenProperties DEF SinkTypeOK
<1>5. valid # {} => Contains(pendingPeers, n) /\ Min(valid) \in 1 .. Len(pendingKeys)
  <2>1. valid \in SUBSET Nat /\ valid \subseteq 1 .. Len(pendingKeys)
    BY <1>4
  <2>2. ASSUME valid # {} PROVE Min(valid) \in valid
    BY <2>1, <2>2, MinIsMember
  <2> QED BY <2>1, <2>2 DEF ValidRequest
<1> HIDE DEF n, new, valid
<1>6. CASE valid = {}
  <2>1. Shrunk
    BY <1>0, <1>2, <1>6, ConsumeShrinks
  <2>2. UNCHANGED <<now, sinkVars, sensorVars, repeatGrants>>
    BY <1>2, <1>6 DEF sinkVars
  <2>3. SinkTypeOK' /\ ListsOK' /\ KeysWereAskedFor'
    BY <2>2, SinkStays
  <2>4. SecurityTypeOK'
    BY <1>0, <2>1, <2>2, <2>3 DEF SecurityTypeOK, Shrunk, SensorTypeOK, sensorVars
  <2>5. TimesOK'
    BY <2>1, <2>2 DEF SecurityInv, TimesOK, KeyExpired, sensorVars, sinkVars, Shrunk
  <2>6. GrantsOK'
    BY <2>1, <2>2 DEF SecurityInv, GrantsOK, Shrunk, sinkVars
  <2>7. ASSUME ~repeatGrants' PROVE KeysOK'
    <3>0. KeysOK
      BY <2>2, <2>7 DEF SecurityInv
    <3>1. UNCHANGED <<keys, authTimer, authTime>>
      BY <2>2 DEF sensorVars, sinkVars
    <3>2. ASSUME NEW x \in DOMAIN net' PROVE x \in DOMAIN net /\ (net[x] = 1 => net'[x] = 1)
      BY <2>1 DEF Shrunk, IsNet
    <3> QED BY <3>0, <3>1, <3>2 DEF KeysOK, Need
  <2> QED BY <2>2, <2>3, <2>4, <2>5, <2>6, <2>7 DEF SecurityInv
<1>7. CASE valid # {}
  <2>1. /\ pendingPeers' = Only(pendingPeers, Sensor \ {n})
        /\ trustedPeers' = Append(trustedPeers, n)
        /\ authTime' = [authTime EXCEPT ![n] = now]
    BY <1>2, <1>7 DEF Trust
  <2>2. /\ Contains(pendingPeers, n) /\ ~Contains(trustedPeers, n)
        /\ ListsOK /\ pendingPeers \in Seq(Sensor) /\ trustedPeers \in Seq(Sensor)
    BY <1>0, <1>1, <1>5, <1>7 DEF SecurityInv, ListsOK, SinkTypeOK
  <2>3. ASSUME NEW x \in DOMAIN net, x.type = "AUTH_GRANTED" PROVE x.sensor # n
    BY <2>2, <2>3, GrantIsFresh
  <2>4. new \notin DOMAIN net
    BY <1>3, <2>3
  <2>5. OnlyNew(new) /\ (~repeatGrants => net'[new] = 1)
    BY <1>0, <1>2, <1>3, <1>7, <2>4, ReplyAdds
  <2>6. \A p \in Sensor : authTime'[p] = IF p = n THEN now ELSE authTime[p]
    BY <1>0, <2>1 DEF SinkTypeOK
  <2>7. /\ pendingPeers' \in Seq(Sensor) /\ trustedPeers' \in Seq(Sensor)
        /\ \A p : Contains(pendingPeers', p) <=> Contains(pendingPeers, p) /\ p \in Sensor \ {n}
        /\ \A p : Contains(trustedPeers', p) <=> Contains(trustedPeers, p) \/ p = n
        /\ Once(pendingPeers') /\ Once(trustedPeers')
    BY <1>1, <2>1, <2>2, OnlyProperties, AppendOnce DEF ListsOK
  <2>8. ListsOK'
    BY <2>2, <2>7 DEF ListsOK
  <2>9. /\ pendingKeys' \in Seq(Key) /\ Len(pendingKeys') = Len(pendingKeys) - 1
    BY <1>2, <1>4, <1>5, <1>7, RemoveAtProperties
  <2>10. KeysWereAskedFor'
    <3>1. Len(pendingKeys') + dhRequestsOpen' <= Len(pendingKeys) + dhRequestsOpen
      BY <1>0, <1>2, <1>4, <2>9 DEF SinkTypeOK
    <3>2. /\ Len(pendingKeys') + dhRequestsOpen' \in Int
          /\ Len(pendingKeys) + dhRequestsOpen \in Int
      BY <1>0, <1>2, <1>4, <2>9 DEF SinkTypeOK
    <3>3. now \div 2 \in Int
      BY <1>0
    <3> QED BY <1>2, <3>1, <3>2, <3>3 DEF SecurityInv, KeysWereAskedFor
  <2>11. SinkTypeOK'
    BY <1>0, <1>2, <2>1, <2>7, <2>9 DEF SinkTypeOK
  <2>12. SecurityTypeOK'
    BY <1>0, <1>2, <2>5, <2>11 DEF SecurityTypeOK, SensorTypeOK, sensorVars, OnlyNew
  <2>13. TimesOK'
    <3>1. ASSUME NEW x \in DOMAIN net' PROVE x.sent <= now' /\ now' <= x.sent + 1
      BY <1>0, <1>2, <1>3, <2>5, <3>1, OnItsWay DEF OnlyNew
    <3>2. ASSUME NEW p \in Sensor
          PROVE  /\ authTime'[p] # Never => authTime'[p] <= now'
                 /\ Contains(pendingPeers', p) => authTime'[p] = Never \/ KeyExpired(p, now)'
                 /\ Contains(trustedPeers', p) => authTime'[p] # Never
                 /\ sinkPeer'[p] = "trusted" => authTime'[p] # Never
      <4>1. CASE p = n
        BY <1>0, <1>1, <1>2, <2>6, <2>7, <4>1
      <4>2. CASE p # n
        BY <1>2, <2>6, <2>7, <4>2 DEF SecurityInv, TimesOK, KeyExpired, sensorVars
      <4> QED BY <4>1, <4>2
    <3> QED BY <3>1, <3>2 DEF TimesOK
  <2>14. GrantsOK'
    <3>1. ASSUME NEW x \in DOMAIN net', x.type = "AUTH_GRANTED", x # new
          PROVE  authTime'[x.sensor] = x.sent
      <4>1. x \in DOMAIN net
        BY <2>5, <3>1 DEF OnlyNew
      <4>2. x.sensor # n /\ x.sensor \in Sensor
        BY <2>3, <3>1, <4>1, OnItsWay
      <4> QED BY <2>6, <3>1, <4>1, <4>2 DEF SecurityInv, GrantsOK
    <3> QED BY <1>1, <1>3, <2>6, <3>1 DEF GrantsOK
  <2>15. ASSUME ~repeatGrants' PROVE KeysOK'
    <3>0. KeysOK /\ ~repeatGrants
      BY <1>2, <2>15 DEF SecurityInv
    <3>1. UNCHANGED <<keys, authTimer>>
      BY <1>2 DEF sensorVars
    <3>2. \A p : Need(p)' = Need(p)
      BY <3>1 DEF Need
    <3>3. keys[n] >= Need(n)
      <4>1. authTime[n] = Never \/ (authTime[n] \in Nat /\ now - authTime[n] > KeyExpiry)
        BY <1>0, <1>1, <2>2 DEF SecurityInv, TimesOK, KeyExpired, SinkTypeOK
      <4>2. authTime[n] # Never => ~(authTime[n] >= m.sent - 1)
        BY <1>0, <1>1, <4>1, TstpAssumption
      <4> QED BY <1>2, <3>0, <4>2 DEF KeysOK, n
    <3>4. ASSUME NEW x \in DOMAIN net', x.type = "AUTH_GRANTED"
          PROVE  net'[x] = 1 /\ keys'[x.sensor] >= Need(x.sensor)'
      <4>1. CASE x = new
        BY <1>3, <2>5, <3>0, <3>1, <3>2, <3>3, <4>1
      <4>2. CASE x # new
        <5>1. x \in DOMAIN net /\ net'[x] <= net[x] /\ net'[x] \in Nat \ {0}
          BY <2>5, <4>2 DEF OnlyNew, IsNet
        <5>2. net[x] = 1 /\ keys[x.sensor] >= Need(x.sensor)
          BY <3>0, <3>4, <5>1 DEF KeysOK
        <5> QED BY <3>1, <3>2, <5>1, <5>2
      <4> QED BY <4>1, <4>2
    <3>5. ASSUME NEW x \in DOMAIN net', x.type = "AUTH_REQUEST"
          PROVE  \/ keys'[x.sensor] >= Need(x.sensor)'
                 \/ authTime'[x.sensor] # Never /\ authTime'[x.sensor] >= x.sent - 1
      <4>1. x \in DOMAIN net
        BY <1>3, <2>5, <3>5 DEF OnlyNew
      <4>2. x.sensor \in Sensor /\ x.sent <= now /\ x.sent \in Nat
        BY <4>1, OnItsWay
      <4>3. CASE x.sensor = n
        BY <1>0, <1>1, <2>6, <4>2, <4>3
      <4>4. CASE x.sensor # n
        BY <2>6, <3>0, <3>1, <3>2, <3>5, <4>1, <4>2, <4>4 DEF KeysOK
      <4> QED BY <4>3, <4>4
    <3> QED BY <3>0, <3>1, <3>4, <3>5 DEF KeysOK
  <2> QED BY <2>8, <2>10, <2>12, <2>13, <2>14, <2>15 DEF SecurityInv
<1> QED BY <1>6, <1>7

(* As time passes, only a request of the key manager joins the messages     *)
(* that are not too old.                                                    *)
NetOf(time) ==
    /\ IsNet(net')
    /\ \A x \in DOMAIN net' :
          \/ x.type = "DH_REQUEST" /\ x.sent = time
          \/ x \in DOMAIN net /\ net'[x] <= net[x] /\ Alive(x, time)

LEMMA PeersAsked ==
  ASSUME SinkTypeOK, ListsOK, NEW time
  PROVE  /\ StillTrusted(time) \in Seq(Sensor) /\ PendingAgain(time) \in Seq(Sensor)
         /\ Once(StillTrusted(time)) /\ Once(PendingAgain(time))
         /\ \A p \in Sensor :
               /\ Contains(StillTrusted(time), p)
                     <=> Contains(trustedPeers, p) /\ p \notin Expired(time)
               /\ Contains(PendingAgain(time), p)
                     <=> \/ Contains(pendingPeers, p)
                         \/ Contains(trustedPeers, p) /\ p \in Expired(time)
<1> DEFINE back == Only(trustedPeers, Expired(time))
<1>1. pendingPeers \in Seq(Sensor) /\ trustedPeers \in Seq(Sensor)
  BY DEF SinkTypeOK
<1>2. /\ StillTrusted(time) \in Seq(Sensor) /\ Once(StillTrusted(time))
      /\ \A p : Contains(StillTrusted(time), p)
                   <=> Contains(trustedPeers, p) /\ p \in Sensor \ Expired(time)
  BY <1>1, OnlyProperties DEF ListsOK, StillTrusted
<1>3. /\ back \in Seq(Sensor) /\ Once(back)
      /\ \A p : Contains(back, p) <=> Contains(trustedPeers, p) /\ p \in Expired(time)
  BY <1>1, OnlyProperties DEF ListsOK
<1>4. PendingAgain(time) = pendingPeers \o back
  BY DEF PendingAgain
<1>5. \A p : Contains(trustedPeers, p) => p \in Sensor
  BY <1>1, LenProperties, ElementOfSeq DEF Contains
<1> HIDE DEF back
<1>6. \A p : ~(Contains(pendingPeers, p) /\ Contains(back, p))
  BY <1>3, <1>5 DEF ListsOK
<1>7. Once(pendingPeers)
  BY DEF ListsOK
<1>8. /\ PendingAgain(time) \in Seq(Sensor) /\ Once(PendingAgain(time))
      /\ \A p : Contains(PendingAgain(time), p) <=> Contains(pendingPeers, p) \/ Contains(back, p)
  BY <1>1, <1>3, <1>4, <1>6, <1>7, ConcatOnce
<1> QED BY <1>2, <1>3, <1>8

LEMMA KeyManagerNet ==
  ASSUME IsNet(net), repeatGrants \in BOOLEAN, SinkTypeOK, ListsOK,
         NEW time \in Nat, KeyManager(time)
  PROVE  NetOf(time) /\ (dhRequestsOpen' = dhRequestsOpen \/ dhRequestsOpen' = dhRequestsOpen + 1)
<1> DEFINE asked == PendingAgain(time)
           new == [type |-> "DH_REQUEST", sensor |-> Head(asked), sent |-> time]
<1>1. /\ IsNet(ExpireMessages(time))
      /\ \A x \in DOMAIN ExpireMessages(time) :
            x \in DOMAIN net /\ ExpireMessages(time)[x] <= net[x] /\ Alive(x, time)
  BY ExpireShrinks
<1>2. \/ UNCHANGED dhRequestsOpen /\ net' = ExpireMessages(time)
      \/ /\ asked # <<>> /\ dhRequestsOpen' = dhRequestsOpen + 1
         /\ net' = ExpireMessages(time) (+) Copies(new)
  BY DEF KeyManager
<1>3. asked \in Seq(Sensor)
  BY PeersAsked
<1> HIDE DEF asked
<1>4. CASE UNCHANGED dhRequestsOpen /\ net' = ExpireMessages(time)
  BY <1>1, <1>4 DEF NetOf
<1>5. CASE /\ asked # <<>> /\ dhRequestsOpen' = dhRequestsOpen + 1
           /\ net' = ExpireMessages(time) (+) Copies(new)
  <2>1. Head(asked) \in Sensor
    BY <1>3, <1>5, HeadTailProperties
  <2>2. new \in KeyMessage /\ new.type = "DH_REQUEST" /\ new.sent = time
    BY <2>1 DEF KeyMessage
  <2> HIDE DEF new
  <2>3. /\ IsNet(net') /\ DOMAIN net' = DOMAIN ExpireMessages(time) \cup {new}
        /\ \A x \in DOMAIN ExpireMessages(time) : x # new => net'[x] = ExpireMessages(time)[x]
    BY <1>1, <1>5, <2>2, AddMessage
  <2> QED BY <1>1, <1>5, <2>2, <2>3 DEF NetOf
<1> QED BY <1>2, <1>4, <1>5

LEMMA KeyManagerSink ==
  ASSUME SecurityInv, now' = now + 1, now' % 2 = 0, KeyManager(now')
  PROVE  SinkTypeOK' /\ ListsOK' /\ KeysWereAskedFor'
<1>0. /\ SecurityTypeOK /\ SinkTypeOK /\ ListsOK /\ IsNet(net)
      /\ now \in Nat /\ now' \in Nat /\ repeatGrants \in BOOLEAN
  BY DEF SecurityInv, SecurityTypeOK
<1>1. /\ trustedPeers' = StillTrusted(now') /\ pendingPeers' = PendingAgain(now')
      /\ pendingKeys' = Only(pendingKeys, Fresh(now')) /\ UNCHANGED authTime
  BY DEF KeyManager
<1>2. dhRequestsOpen' = dhRequestsOpen \/ dhRequestsOpen' = dhRequestsOpen + 1
  BY <1>0, KeyManagerNet
<1>3. ListsOK' /\ trustedPeers' \in Seq(Sensor) /\ pendingPeers' \in Seq(Sensor)
  <2>1. /\ trustedPeers' \in Seq(Sensor) /\ pendingPeers' \in Seq(Sensor)
        /\ Once(trustedPeers') /\ Once(pendingPeers')
        /\ \A p \in Sensor :
               /\ Contains(trustedPeers', p)
                     <=> Contains(trustedPeers, p) /\ p \notin Expired(now')
               /\ Contains(pendingPeers', p)
                     <=> \/ Contains(pendingPeers, p)
                         \/ Contains(trustedPeers, p) /\ p \in Expired(now')
    BY <1>0, <1>1, PeersAsked
  <2> QED BY <1>0, <2>1 DEF ListsOK
<1>4. /\ pendingKeys' \in Seq(Key) /\ Len(pendingKeys') <= Len(pendingKeys)
      /\ Len(pendingKeys') \in Nat /\ Len(pendingKeys) \in Nat
  BY <1>0, <1>1, OnlyProperties, LenProperties DEF SinkTypeOK
<1>5. SinkTypeOK'
  BY <1>0, <1>1, <1>2, <1>3, <1>4 DEF SinkTypeOK
<1>6. KeysWereAskedFor'
  <2>1. now' \div 2 = (now \div 2) + 1 /\ now \div 2 \in Nat
    BY <1>0
  <2>2. Len(pendingKeys') + dhRequestsOpen' <= Len(pendingKeys) + dhRequestsOpen + 1
    BY <1>0, <1>2, <1>4 DEF SinkTypeOK
  <2>3. /\ Len(pendingKeys') + dhRequestsOpen' \in Int
        /\ Len(pendingKeys) + dhRequestsOpen \in Int
    BY <1>0, <1>2, <1>4 DEF SinkTypeOK
  <2> QED BY <2>1, <2>2, <2>3 DEF SecurityInv, KeysWereAskedFor
<1> QED BY <1>3, <1>5, <1>6

LEMMA TickOK ==
  ASSUME SecurityInv, Tick
  PROVE  SecurityInv'
<1>0. /\ SecurityTypeOK /\ SinkTypeOK /\ SensorTypeOK /\ ListsOK /\ IsNet(net)
      /\ now \in Nat /\ repeatGrants \in BOOLEAN
  BY DEF SecurityInv, SecurityTypeOK
<1>1. /\ now' = now + 1 /\ now' \in Nat /\ UNCHANGED <<sensorVars, repeatGrants>>
      /\ now' % 2 = 0 => KeyManager(now')
      /\ now' % 2 # 0 => net' = ExpireMessages(now') /\ UNCHANGED sinkVars
  BY <1>0 DEF Tick
<1>2. NetOf(now') /\ UNCHANGED authTime
  <2>1. CASE now' % 2 = 0
    BY <1>0, <1>1, <2>1, KeyManagerNet DEF KeyManager
  <2>2. CASE now' % 2 # 0
    <3>1. /\ IsNet(ExpireMessages(now'))
          /\ \A x \in DOMAIN ExpireMessages(now') :
               x \in DOMAIN net /\ ExpireMessages(now')[x] <= net[x] /\ Alive(x, now')
      BY <1>0, ExpireShrinks
    <3> QED BY <1>1, <2>2, <3>1 DEF NetOf, sinkVars
  <2> QED BY <2>1, <2>2
<1>3. SinkTypeOK' /\ ListsOK' /\ KeysWereAskedFor'
  <2>1. CASE now' % 2 = 0
    BY <1>1, <2>1, KeyManagerSink
  <2>2. CASE now' % 2 # 0
    <3>1. now \div 2 <= now' \div 2 /\ now \div 2 \in Int /\ now' \div 2 \in Int
      BY <1>0, <1>1
    <3>2. Len(pendingKeys) + dhRequestsOpen \in Int
      BY <1>0, LenProperties DEF SinkTypeOK
    <3>3. KeysWereAskedFor'
      BY <1>1, <2>2, <3>1, <3>2 DEF SecurityInv, KeysWereAskedFor, sinkVars
    <3> QED BY <1>0, <1>1, <2>2, <3>3 DEF SinkTypeOK, ListsOK, sinkVars
  <2> QED BY <2>1, <2>2
<1>4. ASSUME NEW x \in DOMAIN net'
      PROVE  \/ x.type = "DH_REQUEST" /\ x.sent = now'
             \/ x \in DOMAIN net /\ net'[x] <= net[x] /\ x.sent = now
  <2>1. x \in DOMAIN net => x.sent \in Nat /\ x.sent <= now
    BY OnItsWay
  <2> QED BY <1>0, <1>1, <1>2, <2>1 DEF NetOf, Alive
<1>5. SecurityTypeOK'
  BY <1>0, <1>1, <1>2, <1>3 DEF SecurityTypeOK, NetOf, SensorTypeOK, sensorVars
<1>6. TimesOK'
  <2>1. ASSUME NEW x \in DOMAIN net' PROVE x.sent <= now' /\ now' <= x.sent + 1
    BY <1>0, <1>1, <1>4
  <2>2. ASSUME NEW p \in Sensor
        PROVE  /\ authTime'[p] # Never => authTime'[p] <= now'
               /\ Contains(pendingPeers', p) => authTime'[p] = Never \/ KeyExpired(p, now)'
               /\ Contains(trustedPeers', p) => authTime'[p] # Never
               /\ sinkPeer'[p] = "trusted" => authTime'[p] # Never
    <3>1. authTime[p] \in Nat \cup {Never}
      BY <1>0 DEF SinkTypeOK
    <3>2. /\ authTime[p] # Never => authTime[p] <= now
          /\ Contains(pendingPeers, p) => authTime[p] = Never \/ KeyExpired(p, now)
          /\ Contains(trustedPeers, p) => authTime[p] # Never
          /\ sinkPeer[p] = "trusted" => authTime[p] # Never
      BY DEF SecurityInv, TimesOK
    <3>3. authTime[p] # Never /\ KeyExpired(p, now) => KeyExpired(p, now)'
      BY <1>0, <1>1, <1>2, <3>1, TstpAssumption DEF KeyExpired
    <3>4. /\ Contains(trustedPeers', p) => Contains(trustedPeers, p)
          /\ Contains(pendingPeers', p) => Contains(pendingPeers, p) \/ KeyExpired(p, now)'
      <4>1. CASE now' % 2 = 0
        <5>1. trustedPeers' = StillTrusted(now') /\ pendingPeers' = PendingAgain(now')
          BY <1>1, <4>1 DEF KeyManager
        <5>2. p \in Expired(now') => KeyExpired(p, now)'
          BY <1>2 DEF Expired, KeyExpired
        <5> QED BY <1>0, <5>1, <5>2, PeersAsked
      <4>2. CASE now' % 2 # 0
        BY <1>1, <4>2 DEF sinkVars
      <4> QED BY <4>1, <4>2
    <3>5. UNCHANGED sinkPeer
      BY <1>1 DEF sensorVars
    <3>6. authTime[p] # Never => authTime[p] <= now'
      BY <1>0, <1>1, <3>1, <3>2
    <3> QED BY <1>2, <3>2, <3>3, <3>4, <3>5, <3>6
  <2> QED BY <2>1, <2>2 DEF TimesOK
<1>7. GrantsOK'
  BY <1>2, <1>4 DEF SecurityInv, GrantsOK
<1>8. ASSUME ~repeatGrants' PROVE KeysOK'
  <2>0. KeysOK
    BY <1>1, <1>8 DEF SecurityInv
  <2>1. UNCHANGED <<keys, authTimer, authTime>>
    BY <1>1, <1>2 DEF sensorVars
  <2>2. ASSUME NEW x \in DOMAIN net', x.type # "DH_REQUEST"
        PROVE  x \in DOMAIN net /\ (net[x] = 1 => net'[x] = 1)
    BY <1>2, <1>4, <2>2 DEF NetOf, IsNet
  <2> QED BY <2>0, <2>1, <2>2 DEF KeysOK, Need
<1> QED BY <1>3, <1>5, <1>6, <1>7, <1>8 DEF SecurityInv

-----------------------------------------------------------------------------
(* All sensors are pending at first, in some order.                         *)
LEMMA SecurityInitOK ==
  ASSUME SecurityInit
  PROVE  SecurityInv
<1>1. PICK order \in SetToSeqs(Sensor) : pendingPeers = order
  BY DEF SecurityInit
<1> DEFINE D == 1 .. Cardinality(Sensor)
<1>2. /\ Cardinality(Sensor) \in Nat
      /\ pendingPeers \in [D -> Sensor]
      /\ \A i, j \in D : i # j => pendingPeers[i] # pendingPeers[j]
  BY <1>1, FS_CardinalityType, TstpAssumption DEF SetToSeqs
<1>3. pendingPeers \in Seq(Sensor) /\ Len(pendingPeers) = Cardinality(Sensor)
  BY <1>2, IsASeq
<1>4. \A n \in Sensor : \E i \in D : pendingPeers[i] = n
  <2>1. pendingPeers \in Injection(D, Sensor)
    BY <1>2 DEF Injection, IsInjective
  <2>2. Cardinality(D) = Cardinality(Sensor)
    <3>1. \A n \in Nat : Cardinality(1 .. n) = n
      BY FS_Interval
    <3> QED BY <1>2, <3>1
  <2>3. pendingPeers \in Surjection(D, Sensor)
    BY <2>1, <2>2, FS_Injection, TstpAssumption
  <2> QED BY <2>3 DEF Surjection
<1>5. ListsOK
  <2>1. trustedPeers = <<>> /\ Len(<<>>) = 0 /\ DOMAIN <<>> = {}
    BY DEF SecurityInit
  <2>2. \A n \in Sensor : Contains(pendingPeers, n) /\ ~Contains(trustedPeers, n)
    BY <1>3, <1>4, <2>1 DEF Contains
  <2> QED BY <1>2, <2>1, <2>2 DEF ListsOK, Once
<1>6. SecurityTypeOK
  <2>1. net = [e \in {} |-> 1] /\ DOMAIN net = {}
    BY DEF SecurityInit, EmptyBag, SetToBag
  <2>2. IsNet(net)
    BY <2>1 DEF IsNet
  <2>3. SinkTypeOK
    BY <1>3, EmptySeq DEF SecurityInit, SinkTypeOK
  <2> QED BY <2>2, <2>3 DEF SecurityInit, SecurityTypeOK, SensorTypeOK
<1>7. DOMAIN net = {}
  BY DEF SecurityInit, EmptyBag, SetToBag
<1>8. TimesOK
  <2>1. ASSUME NEW n \in Sensor
        PROVE  authTime[n] = Never /\ ~Contains(trustedPeers, n) /\ sinkPeer[n] = "pending"
    BY <1>5 DEF SecurityInit, Contains
  <2> QED BY <1>7, <2>1 DEF TimesOK
<1>9. GrantsOK /\ KeysOK
  BY <1>7, TstpAssumption DEF SecurityInit, GrantsOK, KeysOK
<1>10. KeysWereAskedFor
  <2>1. Len(pendingKeys) = 0 /\ dhRequestsOpen = 0 /\ now = 0
    BY EmptySeq DEF SecurityInit
  <2> QED BY <2>1 DEF KeysWereAskedFor
<1> QED BY <1>5, <1>6, <1>8, <1>9, <1>10 DEF SecurityInv

LEMMA NextOK ==
  ASSUME SecurityInv, [SecurityNext]_securityVars
  PROVE  SecurityInv'
<1>1. CASE Tick
  BY <1>1, TickOK
<1>2. ASSUME NEW m \in BagToSet(net),
             \/ ReceiveDHRequest(m) \/ ReceiveDHResponse(m)
             \/ ReceiveAuthRequest(m) \/ ReceiveAuthGranted(m)
      PROVE  SecurityInv'
  <2>1. m \in DOMAIN net
    BY DEF BagToSet
  <2> QED BY <1>2, <2>1, ReceiveDHRequestOK, ReceiveDHResponseOK, ReceiveAuthRequestOK,
             ReceiveAuthGrantedOK
<1>3. ASSUME NEW n \in Sensor, AuthRequest(n) PROVE SecurityInv'
  BY <1>3, AuthRequestOK
<1>4. CASE UNCHANGED securityVars
  BY <1>4 DEF securityVars, sinkVars, sensorVars, SecurityInv, SecurityTypeOK, SinkTypeOK, SensorTypeOK, ListsOK,
              TimesOK, GrantsOK, KeysOK, Need, KeyExpired, KeysWereAskedFor
<1> QED BY <1>1, <1>2, <1>3, <1>4 DEF SecurityNext

-----------------------------------------------------------------------------
(* The inductive invariant: types, the two lists apart, the times of grants *)
(* and messages, and a secret for each timer and grant.                     *)
THEOREM InvariantHolds == SecuritySpec => []SecurityInv
<1>1. SecurityInit => SecurityInv
  BY SecurityInitOK
<1>2. SecurityInv /\ [SecurityNext]_securityVars => SecurityInv'
  BY NextOK
<1> QED BY <1>1, <1>2, PTL DEF SecuritySpec

(* The state of the sink and of the sensors has its type (tstp.h:1096-1120).*)
THEOREM SecurityTypeCorrect == SecuritySpec => []SecurityTypeOK
<1>1. SecurityInv => SecurityTypeOK
  BY DEF SecurityInv
<1> QED BY <1>1, InvariantHolds, PTL

(* However the peers are moved between the lists, each is in exactly one of *)
(* them, once (tstp.cc:612-620, 687-688; tstp.h:1064-1072).                 *)
THEOREM ListsApart == SecuritySpec => []PeerInOneList
<1>1. ASSUME SecurityInv PROVE PeerInOneList
  <2> DEFINE u == pendingPeers \o trustedPeers
  <2>1. SUFFICES ASSUME NEW n \in Sensor PROVE Len(Only(u, {n})) = 1
    BY DEF PeerInOneList
  <2>2. /\ pendingPeers \in Seq(Sensor) /\ trustedPeers \in Seq(Sensor) /\ ListsOK
    BY <1>1 DEF SecurityInv, SecurityTypeOK, SinkTypeOK
  <2>3. \A y : ~(Contains(pendingPeers, y) /\ Contains(trustedPeers, y))
    <3>1. \A y : Contains(trustedPeers, y) => y \in Sensor
      BY <2>2, LenProperties, ElementOfSeq DEF Contains
    <3> QED BY <2>2, <3>1 DEF ListsOK
  <2>4. u \in Seq(Sensor) /\ Once(u) /\ Contains(u, n)
    BY <2>2, <2>3, ConcatOnce DEF ListsOK
  <2> HIDE DEF u
  <2> DEFINE t == Only(u, {n})
  <2>5. t \in Seq(Sensor) /\ Once(t) /\ \A x : Contains(t, x) <=> Contains(u, x) /\ x \in {n}
    BY <2>4, OnlyProperties
  <2> HIDE DEF t
  <2>6. Len(t) \in Nat /\ DOMAIN t = 1 .. Len(t)
    BY <2>5, LenProperties
  <2>7. \A i \in 1 .. Len(t) : t[i] = n
    BY <2>5 DEF Contains
  <2>8. Len(t) >= 1
    BY <2>4, <2>5, <2>6 DEF Contains
  <2>9. Len(t) <= 1
    <3>1. 1 \in 1 .. Len(t) /\ (Len(t) > 1 => 2 \in 1 .. Len(t))
      BY <2>6, <2>8
    <3>2. Len(t) > 1 => t[1] = t[2]
      BY <2>7, <3>1
    <3>3. \A i, j \in 1 .. Len(t) : t[i] = t[j] => i = j
      BY <2>5, <2>6 DEF Once
    <3> QED BY <2>6, <3>1, <3>2, <3>3
  <2>10. Len(t) = 1
    BY <2>6, <2>8, <2>9
  <2> QED BY <2>10, Zenon DEF t
<1> QED BY <1>1, InvariantHolds, PTL

(* Provided no grant is received twice, a sensor whose request is due has a *)
(* secret to prove, so the assertion of auth_request holds (tstp.h:858).    *)
THEOREM RequestHasKey == SecuritySpec => []AuthHasKey
<1>1. SecurityInv => AuthHasKey
  BY DEF SecurityInv, KeysOK, AuthHasKey
<1> QED BY <1>1, InvariantHolds, PTL

(* A sensor that trusts the sink is trusted by it, or was until its key     *)
(* expired (tstp.cc:671-752).                                               *)
THEOREM TrustMutual == SecuritySpec => []TrustIsMutual
<1>1. SecurityInv => TrustIsMutual
  BY DEF SecurityInv, ListsOK, TimesOK, TrustIsMutual
<1> QED BY <1>1, InvariantHolds, PTL

(* However often responses are repeated, each request of the sink is good   *)
(* for one key at most (tstp.cc:647-669; tstp.h:1090).                      *)
THEOREM KeysAskedFor == SecuritySpec => []KeysWereAskedFor
<1>1. SecurityInv => KeysWereAskedFor
  BY DEF SecurityInv
<1> QED BY <1>1, InvariantHolds, PTL


-----------------------------------------------------------------------------
(* The key exchange implements TrustLease.  Only the key manager and the    *)
(* sensor that is asked change which requests are on their way.             *)
SameRequests ==
    \A x : x.type = "DH_REQUEST" => (x \in DOMAIN net' <=> x \in DOMAIN net)

LEMMA RequestsKept ==
  ASSUME IsNet(net), repeatGrants \in BOOLEAN
  PROVE  /\ \A m : m.type # "DH_REQUEST" /\ Consume(m) => SameRequests
         /\ \A new \in KeyMessage :
               new.type # "DH_REQUEST" =>
                  /\ net' = net (+) Copies(new) => SameRequests
                  /\ \A m : m.type # "DH_REQUEST" /\ Reply(m, new) => SameRequests
<1>1. ASSUME NEW m, m.type # "DH_REQUEST", Consume(m) PROVE SameRequests
  <2> DEFINE C == net (-) SetToBag({m})
  <2>1. /\ \A x \in DOMAIN C : x \in DOMAIN net
        /\ \A x \in DOMAIN net : x # m => x \in DOMAIN C
    BY RemoveMessage
  <2>2. net' = C
    BY <1>1 DEF Consume
  <2> HIDE DEF C
  <2> QED BY <1>1, <2>1, <2>2 DEF SameRequests
<1>2. ASSUME NEW new \in KeyMessage, new.type # "DH_REQUEST", net' = net (+) Copies(new)
      PROVE  SameRequests
  <2>1. DOMAIN net' = DOMAIN net \cup {new}
    BY <1>2, AddMessage
  <2> QED BY <1>2, <2>1 DEF SameRequests
<1>3. ASSUME NEW new \in KeyMessage, new.type # "DH_REQUEST",
             NEW m, m.type # "DH_REQUEST", Reply(m, new)
      PROVE  SameRequests
  <2> DEFINE C == net (-) SetToBag({m})
  <2>1. /\ IsNet(C) /\ \A x \in DOMAIN C : x \in DOMAIN net
        /\ \A x \in DOMAIN net : x # m => x \in DOMAIN C
    BY RemoveMessage
  <2>2. net' = C (+) Copies(new)
    BY <1>3 DEF Reply
  <2> HIDE DEF C
  <2>3. DOMAIN net' = DOMAIN C \cup {new}
    BY <2>1, <2>2, AddMessage
  <2> QED BY <1>3, <2>1, <2>3 DEF SameRequests
<1> QED BY <1>1, <1>2, <1>3

LEMMA AskedKept ==
  ASSUME SameRequests
  PROVE  {m.sensor : m \in {x \in BagToSet(net') : x.type = "DH_REQUEST"}}
           = {m.sensor : m \in {x \in BagToSet(net) : x.type = "DH_REQUEST"}}
BY DEF SameRequests, BagToSet

LEMMA ReceiveDHRequestLease ==
  ASSUME SecurityInv, NEW m \in DOMAIN net, ReceiveDHRequest(m)
  PROVE  \E n \in Sensor : Lease!StartOver(n)
<1> DEFINE n == m.sensor
           new == Msg("DH_RESPONSE", n)
<1>0. /\ SecurityTypeOK /\ SensorTypeOK /\ IsNet(net) /\ repeatGrants \in BOOLEAN /\ now \in Nat
      /\ n \in Sensor
  BY OnItsWay DEF SecurityInv, SecurityTypeOK
<1>1. /\ UNCHANGED <<now, sinkVars>> /\ m.type = "DH_REQUEST"
      /\ sinkPeer' = [sinkPeer EXCEPT ![n] = "pending"] /\ Reply(m, new)
  BY DEF ReceiveDHRequest, Receive, StartExchange
<1>2. new \in KeyMessage /\ new.type = "DH_RESPONSE"
  BY <1>0, NewMessage
<1>3. OnlyNew(new)
  BY <1>0, <1>1, <1>2, ReplyAdds
<1> HIDE DEF new
<1>4. n \in {x.sensor : x \in {y \in BagToSet(net) : y.type = "DH_REQUEST"}}
  BY <1>1 DEF BagToSet
<1>5. {x.sensor : x \in {y \in BagToSet(net') : y.type = "DH_REQUEST"}}
        \in SUBSET {x.sensor : x \in {y \in BagToSet(net) : y.type = "DH_REQUEST"}}
  BY <1>2, <1>3 DEF OnlyNew, BagToSet
<1> HIDE DEF n
<1>6. {p \in Sensor : sinkPeer'[p] = "trusted"} = {p \in Sensor : sinkPeer[p] = "trusted"} \ {n}
  BY <1>0, <1>1 DEF SensorTypeOK
<1>7. Lease!StartOver(n)
  BY <1>1, <1>4, <1>5, <1>6 DEF Lease!StartOver, sinkVars
<1> QED BY <1>0, <1>7

LEMMA ReceiveDHResponseLease ==
  ASSUME SecurityInv, NEW m \in DOMAIN net, ReceiveDHResponse(m)
  PROVE  UNCHANGED Lease!vars
<1>0. /\ SecurityTypeOK /\ SinkTypeOK /\ IsNet(net) /\ repeatGrants \in BOOLEAN /\ now \in Nat
      /\ m.sensor \in Sensor
  BY OnItsWay DEF SecurityInv, SecurityTypeOK
<1>1. SameRequests
  BY <1>0, RequestsKept DEF ReceiveDHResponse, Receive
<1>2. Len(pendingKeys') + dhRequestsOpen' = Len(pendingKeys) + dhRequestsOpen
  <2>1. CASE UNCHANGED <<dhRequestsOpen, pendingKeys>>
    BY <2>1
  <2>2. CASE /\ dhRequestsOpen' = dhRequestsOpen - 1
             /\ pendingKeys' = Append(pendingKeys, [owner |-> m.sensor, creation |-> now])
    <3>1. /\ pendingKeys \in Seq(Key) /\ dhRequestsOpen \in Nat
          /\ [owner |-> m.sensor, creation |-> now] \in Key
      BY <1>0 DEF SinkTypeOK, Key
    <3>2. Len(pendingKeys') = Len(pendingKeys) + 1 /\ Len(pendingKeys) \in Nat
      BY <2>2, <3>1, AppendProperties, LenProperties
    <3> QED BY <2>2, <3>1, <3>2
  <2> QED BY <2>1, <2>2 DEF ReceiveDHResponse, RequestAnswered
<1>3. UNCHANGED <<now, trustedPeers, authTime, sinkPeer>>
  BY DEF ReceiveDHResponse, sensorVars
<1> QED BY <1>1, <1>2, <1>3, AskedKept DEF Lease!vars

LEMMA AuthRequestLease ==
  ASSUME SecurityInv, NEW n \in Sensor, AuthRequest(n)
  PROVE  UNCHANGED Lease!vars
<1> DEFINE new == Msg("AUTH_REQUEST", n)
<1>0. IsNet(net) /\ repeatGrants \in BOOLEAN /\ now \in Nat
  BY DEF SecurityInv, SecurityTypeOK
<1>1. new \in KeyMessage /\ new.type = "AUTH_REQUEST" /\ net' = net (+) Copies(new)
  BY <1>0, NewMessage DEF AuthRequest
<1> HIDE DEF new
<1>2. SameRequests
  BY <1>0, <1>1, RequestsKept
<1>3. UNCHANGED <<now, trustedPeers, authTime, sinkPeer, pendingKeys, dhRequestsOpen>>
  BY DEF AuthRequest, sinkVars
<1> QED BY <1>2, <1>3, AskedKept DEF Lease!vars

LEMMA ReceiveAuthRequestLease ==
  ASSUME SecurityInv, NEW m \in DOMAIN net, ReceiveAuthRequest(m)
  PROVE  (\E n \in Sensor : Lease!Grant(n)) \/ UNCHANGED Lease!vars
<1> DEFINE valid == {i \in DOMAIN pendingKeys : ValidRequest(m, i)}
<1>0. /\ SecurityTypeOK /\ SinkTypeOK /\ IsNet(net) /\ now \in Nat /\ repeatGrants \in BOOLEAN
      /\ m.sensor \in Sensor
  BY OnItsWay DEF SecurityInv, SecurityTypeOK
<1>a. PICK n \in Sensor : n = m.sensor
  BY <1>0
<1> DEFINE new == Msg("AUTH_GRANTED", n)
<1>2. /\ UNCHANGED <<now, dhRequestsOpen, sinkPeer>>
      /\ m.type = "AUTH_REQUEST"
      /\ valid # {} => /\ Trust(n) /\ Reply(m, new)
                       /\ pendingKeys' = RemoveAt(pendingKeys, Min(valid))
      /\ valid = {} => /\ Consume(m)
                       /\ UNCHANGED <<pendingPeers, trustedPeers, authTime, pendingKeys>>
  BY <1>a DEF ReceiveAuthRequest, Receive, sensorVars
<1>3. new \in KeyMessage /\ new.type = "AUTH_GRANTED"
  BY <1>0, NewMessage
<1>4. /\ Len(pendingKeys) \in Nat /\ DOMAIN pendingKeys = 1 .. Len(pendingKeys)
      /\ pendingKeys \in Seq(Key)
  BY <1>0, LenProperties DEF SinkTypeOK
<1>5. valid # {} => Contains(pendingPeers, n) /\ Min(valid) \in 1 .. Len(pendingKeys)
  <2>1. valid \in SUBSET Nat /\ valid \subseteq 1 .. Len(pendingKeys)
    BY <1>4
  <2>2. ASSUME valid # {} PROVE Min(valid) \in valid
    BY <2>1, <2>2, MinIsMember
  <2> QED BY <1>a, <2>1, <2>2 DEF ValidRequest
<1> HIDE DEF new, valid
<1>6. SameRequests
  BY <1>0, <1>2, <1>3, RequestsKept
<1>7. CASE valid = {}
  BY <1>2, <1>6, <1>7, AskedKept DEF Lease!vars
<1>8. CASE valid # {}
  <2>1. /\ trustedPeers' = Append(trustedPeers, n)
        /\ authTime' = [authTime EXCEPT ![n] = now]
    BY <1>2, <1>8 DEF Trust
  <2>2. ~Contains(trustedPeers, n) /\ trustedPeers \in Seq(Sensor)
    BY <1>0, <1>5, <1>8 DEF SecurityInv, ListsOK, SinkTypeOK
  <2>3. \A p : Contains(trustedPeers', p) <=> Contains(trustedPeers, p) \/ p = n
    BY <2>1, <2>2, AppendOnce
  <2>4. \A p \in Sensor : authTime'[p] = IF p = n THEN now ELSE authTime[p]
    BY <1>0, <2>1 DEF SinkTypeOK
  <2>5. [p \in Sensor |-> IF Contains(trustedPeers', p) THEN authTime'[p] ELSE Never]
          = [[p \in Sensor |-> IF Contains(trustedPeers, p) THEN authTime[p] ELSE Never]
                EXCEPT ![n] = now]
    <3>1. \A p \in Sensor :
             (IF Contains(trustedPeers', p) THEN authTime'[p] ELSE Never)
               = IF p = n THEN now
                 ELSE IF Contains(trustedPeers, p) THEN authTime[p] ELSE Never
      <4> SUFFICES ASSUME NEW p \in Sensor
                   PROVE  (IF Contains(trustedPeers', p) THEN authTime'[p] ELSE Never)
                             = IF p = n THEN now
                               ELSE IF Contains(trustedPeers, p) THEN authTime[p] ELSE Never
        OBVIOUS
      <4>1. CASE p = n
        BY <2>3, <2>4, <4>1
      <4>2. CASE p # n
        BY <2>3, <2>4, <4>2
      <4> QED BY <4>1, <4>2
    <3> QED BY <3>1
  <2>6. Len(pendingKeys') = Len(pendingKeys) - 1 /\ Len(pendingKeys) > 0
    <3>1. PICK i \in 1 .. Len(pendingKeys) : i = Min(valid)
      BY <1>5, <1>8
    <3>2. pendingKeys' = RemoveAt(pendingKeys, i)
      BY <1>2, <1>8, <3>1
    <3>3. Len(RemoveAt(pendingKeys, i)) = Len(pendingKeys) - 1
      BY <1>4, <3>1, RemoveAtProperties
    <3> QED BY <1>4, <3>1, <3>2, <3>3
  <2>7. /\ Len(pendingKeys) + dhRequestsOpen > 0
        /\ Len(pendingKeys') + dhRequestsOpen' = (Len(pendingKeys) + dhRequestsOpen) - 1
    BY <1>0, <1>2, <1>4, <2>6 DEF SinkTypeOK
  <2>8. {p \in Sensor : sinkPeer'[p] = "trusted"} = {p \in Sensor : sinkPeer[p] = "trusted"}
    BY <1>2
  <2>9. Lease!Grant(n)
    BY <1>2, <1>6, <2>2, <2>5, <2>7, <2>8, AskedKept DEF Lease!Grant
  <2> QED BY <2>9
<1> QED BY <1>7, <1>8

LEMMA ReceiveAuthGrantedLease ==
  ASSUME SecurityInv, NEW m \in DOMAIN net, ReceiveAuthGranted(m)
  PROVE  (\E n \in Sensor : Lease!Accept(n)) \/ UNCHANGED Lease!vars
<1>0. /\ SecurityTypeOK /\ SensorTypeOK /\ IsNet(net) /\ repeatGrants \in BOOLEAN
      /\ m.sensor \in Sensor /\ now \in Nat /\ m.sent \in Nat
      /\ m.sent <= now /\ now <= m.sent + 1
  BY OnItsWay DEF SecurityInv, SecurityTypeOK
<1>a. PICK n \in Sensor : n = m.sensor
  BY <1>0
<1>1. /\ UNCHANGED <<now, sinkVars>> /\ m.type = "AUTH_GRANTED"
      /\ \/ UNCHANGED sinkPeer
         \/ /\ TimeWindow(m.sent) = TimeWindow(now)
            /\ sinkPeer' = [sinkPeer EXCEPT ![n] = "trusted"]
  BY <1>a DEF ReceiveAuthGranted, Receive
<1>2. SameRequests
  BY <1>0, <1>1, RequestsKept DEF ReceiveAuthGranted
<1>3. CASE UNCHANGED sinkPeer
  BY <1>1, <1>2, <1>3, AskedKept DEF Lease!vars, sinkVars
<1>4. CASE /\ TimeWindow(m.sent) = TimeWindow(now)
           /\ sinkPeer' = [sinkPeer EXCEPT ![n] = "trusted"]
  <2>1. authTime[n] = m.sent /\ m.sent # Never /\ Contains(trustedPeers, n)
    BY <1>a, <1>1, GrantIsFresh DEF SecurityInv, ListsOK
  <2>2. {p \in Sensor : sinkPeer'[p] = "trusted"}
          = {p \in Sensor : sinkPeer[p] = "trusted"} \cup {n}
    BY <1>0, <1>4 DEF SensorTypeOK
  <2>3. now - m.sent \in {0, 1} /\ m.sent \div Window = now \div Window
    BY <1>0, <1>4 DEF TimeWindow
  <2>4. Lease!Accept(n)
    BY <1>1, <1>2, <2>1, <2>2, <2>3, AskedKept DEF Lease!Accept, sinkVars
  <2> QED BY <2>4
<1> QED BY <1>1, <1>3, <1>4

(* No request of an earlier half period is left when the next one begins.   *)
LEMMA OldRequestsGone ==
  ASSUME SecurityInv, NEW x \in DOMAIN ExpireMessages(now + 1)
  PROVE  x.type # "DH_REQUEST"
<1>1. x \in DOMAIN net /\ Alive(x, now + 1)
  BY ExpireShrinks DEF SecurityInv, SecurityTypeOK
<1>2. x.sent \in Nat /\ now \in Nat /\ x.sent <= now
  BY <1>1, OnItsWay
<1> QED BY <1>1, <1>2 DEF Alive

LEMMA ManageLease ==
  ASSUME SecurityInv, SecurityInv', now' = now + 1, KeyManager(now')
  PROVE  Lease!Manage
<1>0. /\ SecurityTypeOK /\ SinkTypeOK /\ ListsOK /\ IsNet(net) /\ IsNet(net')
      /\ now \in Nat /\ now' \in Nat /\ repeatGrants \in BOOLEAN
      /\ SinkTypeOK' /\ ListsOK' /\ TimesOK'
  BY DEF SecurityInv, SecurityTypeOK
<1>1. /\ trustedPeers' = StillTrusted(now') /\ pendingPeers' = PendingAgain(now')
      /\ pendingKeys' = Only(pendingKeys, Fresh(now')) /\ UNCHANGED authTime
      /\ \/ /\ pendingPeers' = <<>> /\ UNCHANGED dhRequestsOpen
            /\ net' = ExpireMessages(now')
         \/ /\ pendingPeers' # <<>> /\ dhRequestsOpen' = dhRequestsOpen + 1
            /\ net' = ExpireMessages(now')
                 (+) Copies([type |-> "DH_REQUEST", sensor |-> Head(pendingPeers'),
                             sent |-> now'])
  BY DEF KeyManager
<1>2. /\ Len(pendingKeys') <= Len(pendingKeys)
      /\ Len(pendingKeys') \in Nat /\ Len(pendingKeys) \in Nat /\ dhRequestsOpen \in Nat
  BY <1>0, <1>1, OnlyProperties, LenProperties DEF SinkTypeOK
<1> DEFINE L == [p \in Sensor |-> IF Contains(trustedPeers, p) THEN authTime[p] ELSE Never]
           M == [p \in Sensor |-> IF Contains(trustedPeers', p) THEN authTime'[p] ELSE Never]
           E == ExpireMessages(now')
<1>3. M = [p \in Sensor |-> IF L[p] # Never /\ now' - L[p] > KeyExpiry THEN Never ELSE L[p]]
  <2> SUFFICES ASSUME NEW p \in Sensor
               PROVE  M[p] = IF L[p] # Never /\ now' - L[p] > KeyExpiry THEN Never ELSE L[p]
    OBVIOUS
  <2>1. Contains(trustedPeers', p) <=> Contains(trustedPeers, p) /\ p \notin Expired(now')
    BY <1>0, <1>1, PeersAsked
  <2>2. Contains(trustedPeers, p) => (p \in Expired(now') <=> now' - authTime[p] > KeyExpiry)
    <3>1. Contains(trustedPeers, p) => p \in ToSet(trustedPeers)
      BY <1>0, LenProperties DEF Contains, ToSet, SinkTypeOK
    <3> QED BY <3>1 DEF Expired, KeyExpired
  <2>3. Contains(trustedPeers, p) => authTime[p] # Never
    BY DEF SecurityInv, TimesOK
  <2> QED BY <1>1, <2>1, <2>2, <2>3
<1>4. \A p \in Sensor : M[p] # Never <=> Contains(trustedPeers', p)
  BY <1>0 DEF TimesOK
<1>5. \A x \in DOMAIN E : x.type # "DH_REQUEST"
  BY OldRequestsGone
<1>6. CASE /\ pendingPeers' = <<>> /\ UNCHANGED dhRequestsOpen /\ net' = E
  <2>1. \A p \in Sensor : M[p] # Never
    <3>1. \A p \in Sensor : ~Contains(pendingPeers', p)
      BY <1>6 DEF Contains
    <3> QED BY <1>0, <1>4, <3>1 DEF ListsOK
  <2>2. {x.sensor : x \in {y \in BagToSet(net') : y.type = "DH_REQUEST"}} = {}
    BY <1>5, <1>6 DEF BagToSet
  <2>3. Len(pendingKeys') + dhRequestsOpen' \in 0 .. (Len(pendingKeys) + dhRequestsOpen)
    BY <1>2, <1>6
  <2> QED BY <1>3, <2>1, <2>2, <2>3 DEF Lease!Manage, Lease!Ended
<1>7. CASE /\ pendingPeers' # <<>> /\ dhRequestsOpen' = dhRequestsOpen + 1
           /\ net' = E (+) Copies([type |-> "DH_REQUEST", sensor |-> Head(pendingPeers'),
                                   sent |-> now'])
  <2>1. PICK h \in Sensor : h = Head(pendingPeers')
    BY <1>0, <1>7, HeadTailProperties DEF SinkTypeOK
  <2> DEFINE new == [type |-> "DH_REQUEST", sensor |-> h, sent |-> now']
  <2>2. new \in KeyMessage /\ new.type = "DH_REQUEST" /\ new.sensor = h
    BY <1>0 DEF KeyMessage
  <2>3. net' = E (+) Copies(new)
    BY <1>7, <2>1
  <2> HIDE DEF new
  <2>4. IsNet(E)
    BY <1>0, ExpireShrinks
  <2> HIDE DEF E
  <2>5. DOMAIN net' = DOMAIN E \cup {new}
    BY <1>0, <2>2, <2>3, <2>4, AddMessage
  <2>6. {x.sensor : x \in {y \in BagToSet(net') : y.type = "DH_REQUEST"}} = {h}
    BY <1>5, <2>2, <2>5 DEF BagToSet
  <2>7. M[h] = Never
    <3>1. Contains(pendingPeers', h)
      BY <1>0, <1>7, <2>1, HeadTailProperties, LenProperties DEF Contains, SinkTypeOK
    <3> QED BY <1>0, <3>1 DEF ListsOK
  <2>8. Len(pendingKeys') + dhRequestsOpen' \in 1 .. (Len(pendingKeys) + dhRequestsOpen) + 1
    BY <1>2, <1>7
  <2> QED BY <1>3, <2>6, <2>7, <2>8 DEF Lease!Manage, Lease!Ended
<1> QED BY <1>1, <1>6, <1>7

LEMMA TickLease ==
  ASSUME SecurityInv, Tick
  PROVE  Lease!Tick
<1>1. now' = now + 1 /\ UNCHANGED sinkPeer
  BY DEF Tick, sensorVars
<1>2. CASE now' % 2 = 0
  <2>1. Lease!Manage
    BY <1>1, <1>2, TickOK, ManageLease DEF Tick
  <2> QED BY <1>1, <1>2, <2>1 DEF Lease!Tick
<1>3. CASE now' % 2 # 0
  <2>1. net' = ExpireMessages(now + 1) /\ UNCHANGED sinkVars
    BY <1>1, <1>3 DEF Tick
  <2>2. {x.sensor : x \in {y \in BagToSet(net') : y.type = "DH_REQUEST"}} = {}
    BY <2>1, OldRequestsGone DEF BagToSet
  <2> QED BY <1>1, <1>3, <2>1, <2>2 DEF Lease!Tick, sinkVars
<1> QED BY <1>2, <1>3

(* The key exchange keeps the promise of TrustLease, whatever is lost,      *)
(* delayed or repeated: every step ends or grants leases, makes a sensor    *)
(* trust or start over as that allows, or does none of it                   *)
(* (tstp.cc:604-752; tstp.h:1055-1118).                                     *)
THEOREM KeepsTrustLease == SecuritySpec => ImplementsTrustLease
<1>1. SecurityInit => Lease!Init
  <2> SUFFICES ASSUME SecurityInit PROVE Lease!Init
    OBVIOUS
  <2>1. /\ now = 0 /\ trustedPeers = <<>> /\ pendingKeys = <<>> /\ dhRequestsOpen = 0
        /\ sinkPeer = [n \in Sensor |-> "pending"] /\ net = EmptyBag
    BY DEF SecurityInit
  <2>2. \A n : ~Contains(trustedPeers, n)
    BY <2>1 DEF Contains
  <2>3. DOMAIN net = {}
    BY <2>1 DEF EmptyBag, SetToBag
  <2> QED BY <2>1, <2>2, <2>3 DEF Lease!Init, BagToSet
<1>2. SecurityInv /\ [SecurityNext]_securityVars => [Lease!Next]_Lease!vars
  <2> SUFFICES ASSUME SecurityInv, [SecurityNext]_securityVars
               PROVE  Lease!Next \/ UNCHANGED Lease!vars
    OBVIOUS
  <2>1. CASE UNCHANGED securityVars
    BY <2>1 DEF securityVars, sinkVars, sensorVars, Lease!vars
  <2>2. CASE Tick
    BY <2>2, TickLease DEF Lease!Next
  <2>3. ASSUME NEW m \in BagToSet(net),
               \/ ReceiveDHRequest(m) \/ ReceiveDHResponse(m)
               \/ ReceiveAuthRequest(m) \/ ReceiveAuthGranted(m)
        PROVE  Lease!Next \/ UNCHANGED Lease!vars
    <3>1. m \in DOMAIN net
      BY DEF BagToSet
    <3> QED BY <2>3, <3>1, ReceiveDHRequestLease, ReceiveDHResponseLease,
               ReceiveAuthRequestLease, ReceiveAuthGrantedLease DEF Lease!Next
  <2>4. ASSUME NEW n \in Sensor, AuthRequest(n) PROVE UNCHANGED Lease!vars
    BY <2>4, AuthRequestLease
  <2> QED BY <2>1, <2>2, <2>3, <2>4 DEF SecurityNext
<1> QED
  BY <1>1, <1>2, InvariantHolds, PTL DEF SecuritySpec, ImplementsTrustLease, Lease!Spec

=============================================================================
