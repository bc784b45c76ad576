----------------------------- MODULE TMacProofs -----------------------------
(***************************************************************************)
(* Proofs about TMac for every set of nodes, every load and all settings.  *)
(*                                                                         *)
(* A step changes the state of one node and replaces what is on the air,   *)
(* or takes some of it away.  So the invariant has a part about the state  *)
(* of a node alone (NodeOK), which the helpers of the model preserve one   *)
(* by one, and a part that relates nodes to each other and to the packets  *)
(* on the air (AirOK, HistoryOK, AuthorIsNewest), which is preserved by    *)
(* any step that keeps what Keeps and TableForward say.                    *)
(* The last section shows step by step that T-MAC implements LossyLink.    *)
(***************************************************************************)
EXTENDS TMac, SequenceTheorems, TLAPS

-----------------------------------------------------------------------------
(* The state s of node n                                                    *)

(* The buffer holds packets of n in the order of their numbers.             *)
BufferOK(n, b, sent) ==
    /\ \A i \in DOMAIN b : /\ b[i].src = n /\ b[i].sn \in 1 .. sent
                           /\ b[i].dst = par.load[n][b[i].sn]
    /\ \A i, j \in DOMAIN b : i < j => b[i].sn < b[j].sn
    /\ sent <= Len(par.load[n])

TableOK(n, s) ==
    /\ s.table # <<>> <=> "FRAME_START" \in s.timers
    /\ s.needResync => s.table # <<>>
    /\ s.syncPacket # None => s.table # <<>> /\ s.syncPacket <= s.table[1].sn
    /\ "SYNC_RENEW" \in s.timers => s.table # <<>> /\ s.table[1].id = n

(* What does not depend on the state of the protocol                        *)
CoreOK(n, s) ==
    /\ s \in Mac
    /\ BufferOK(n, s.buffer, s.sent)
    /\ TableOK(n, s)
    /\ s.buffer # <<>> => s.txAddr = s.buffer[1].dst

StateOK(s) ==
    /\ s.state \in WaitState \cup {"IN_TX"} => "TRANSMISSION_TIMEOUT" \in s.timers
    /\ s.state \in CarrierSenseState => "CARRIER_SENSE" \in s.timers
    /\ s.state \in {"ACTIVE", "ACTIVE_SILENT"} => "CHECK_TA" \in s.timers
    /\ s.state = "SETUP" => s.timers \cap {"SYNC_SETUP", "SYNC_CREATE"} # {} /\ s.table = <<>>
    /\ s.state \in {"CS_FOR_TX_RTS", "CS_FOR_TX_DATA", "WAIT_FOR_CTS", "WAIT_FOR_ACK"} =>
          s.buffer # <<>>
    /\ s.state \in {"CS_FOR_TX_RTS", "WAIT_FOR_CTS", "WAIT_FOR_ACK"} => s.txAddr # Broadcast
    /\ s.state \in {"CS_FOR_TX_RTS", "CS_FOR_TX_DATA"} => s.txRetries > 0
    /\ s.state \in {"CS_FOR_TX_RTS", "WAIT_FOR_CTS"} => par.useRtsCts
    /\ s.state = "CS_FOR_TX_DATA" /\ par.useRtsCts => s.txAddr = Broadcast
    /\ s.state = "CS_FOR_TX_SYNC" => s.syncPacket # None
    /\ par.disableTAextension /\ s.state \notin {"SETUP", "SLEEP"} \cup WaitState =>
          "CHECK_TA" \in s.timers

NodeOK(n, s) == CoreOK(n, s) /\ StateOK(s)

-----------------------------------------------------------------------------
(* Nodes and packets on the air                                             *)

(* The largest number of a packet of its own that s may have sent           *)
Used(s) == IF s.buffer = <<>> THEN s.sent ELSE s.buffer[1].sn

(* The author of a schedule has it as its primary, in no older version, when *)
(* the nodes are in the states m.                                           *)
Vouched(id, sn, m) ==
    /\ m[id].table # <<>>
    /\ m[id].table[1].id = id /\ sn <= m[id].table[1].sn

(* What is on the air to k, when the nodes are in the states m and have     *)
(* delivered d                                                              *)
DataOK(pkt, m) ==
    /\ pkt.sn \in 1 .. Used(m[pkt.src]) /\ pkt.sn <= Len(par.load[pkt.src])
    /\ pkt.dst = par.load[pkt.src][pkt.sn]
    /\ m[pkt.src].state = "WAIT_FOR_ACK" => pkt.sn = m[pkt.src].buffer[1].sn

AckOK(k, pkt, m, d) ==
    m[k].state = "WAIT_FOR_ACK" /\ m[k].txAddr = pkt.src =>
        \E i \in DOMAIN d[pkt.src] : d[pkt.src][i] = m[k].buffer[1]

AirOK(k, pkt, m, d) ==
    pkt # None =>
        /\ pkt.src # k
        /\ pkt.type = "DATA" => DataOK(pkt, m)
        /\ pkt.type = "ACK" /\ pkt.dst = k => AckOK(k, pkt, m, d)
        /\ pkt.type = "SYNC" => Vouched(pkt.id, pkt.sn, m)

(* The history a node keeps is that of the packets it has delivered.        *)
HistoryOK(n) ==
    /\ \A k \in Node : mac[n].pktHistory[k] <= Used(mac[k])
    /\ \A k \in Node :
          mac[n].pktHistory[k] # 0 =>
             \E i \in DOMAIN delivered[n] :
                delivered[n][i] = [src |-> k, dst |-> par.load[k][mac[n].pktHistory[k]],
                                   sn |-> mac[n].pktHistory[k]]
    /\ \A i \in DOMAIN delivered[n] :
          delivered[n][i].sn <= mac[n].pktHistory[delivered[n][i].src]

NodeInv == mac \in [Node -> Mac] /\ \A n \in Node : NodeOK(n, mac[n])
AirInv == \A k \in Node : AirOK(k, air[k], mac, delivered)
HistoryInv == \A n \in Node : HistoryOK(n)
AckedInv == AckedWasDelivered /\ \A p \in acked : p.dst \in Node

IInv ==
    /\ TypeOK
    /\ NodeInv /\ AirInv /\ HistoryInv
    /\ DeliveredOnceInOrder /\ AckedInv /\ AuthorIsNewest

-----------------------------------------------------------------------------
(* Helpers on the state of one node                                         *)

(* What concerns neither the buffer nor the schedules may change freely.    *)
LEMMA CoreKept ==
  ASSUME NEW n, NEW s, NEW t, CoreOK(n, s), t \in Mac,
         t.buffer = s.buffer, t.sent = s.sent, t.table = s.table, t.txAddr = s.txAddr,
         t.needResync => s.needResync \/ s.table # <<>>,
         t.syncPacket \in {s.syncPacket, None},
         "FRAME_START" \in s.timers <=> "FRAME_START" \in t.timers,
         "SYNC_RENEW" \in t.timers => "SYNC_RENEW" \in s.timers
  PROVE  CoreOK(n, t)
BY DEF CoreOK, TableOK

LEMMA FirstFacts ==
  ASSUME NEW S, NEW q \in Seq(S), q # <<>>
  PROVE  1 \in DOMAIN q /\ q[1] \in S /\ Head(q) = q[1] /\ Len(q) \in Nat \ {0}
OBVIOUS

LEMMA SeqFacts ==
  ASSUME NEW S, NEW q \in Seq(S)
  PROVE  Len(q) \in Nat /\ DOMAIN q = 1 .. Len(q) /\ \A i \in DOMAIN q : q[i] \in S
OBVIOUS

LEMMA TailFacts ==
  ASSUME NEW S, NEW b \in Seq(S), b # <<>>
  PROVE  /\ Tail(b) \in Seq(S) /\ Len(b) \in Nat \ {0}
         /\ DOMAIN b = 1 .. Len(b) /\ DOMAIN Tail(b) = 1 .. Len(b) - 1
         /\ \A i \in DOMAIN Tail(b) : Tail(b)[i] = b[i + 1] /\ i + 1 \in DOMAIN b
         /\ Tail(b) # <<>> => 1 \in DOMAIN Tail(b) /\ 2 \in DOMAIN b /\ Tail(b)[1] = b[2]
OBVIOUS

LEMMA HeadFacts ==
  ASSUME NEW n, NEW s, CoreOK(n, s)
  PROVE  /\ s.sent \in Nat /\ s.buffer \in Seq(DataPacket)
         /\ s.buffer = <<>> => Used(s) = s.sent
         /\ s.buffer # <<>> => /\ 1 \in DOMAIN s.buffer /\ s.buffer[1] \in DataPacket
                               /\ Head(s.buffer) = s.buffer[1] /\ Used(s) = s.buffer[1].sn
         /\ Used(s) \in 0 .. s.sent
<1>1. s.sent \in Nat /\ s.buffer \in Seq(DataPacket)
  BY DEF CoreOK, Mac
<1>2. s.buffer # <<>> => 1 \in DOMAIN s.buffer /\ s.buffer[1] \in DataPacket
                         /\ Head(s.buffer) = s.buffer[1]
  BY <1>1
<1>3. s.buffer # <<>> => s.buffer[1].sn \in 1 .. s.sent
  BY <1>2 DEF CoreOK, BufferOK
<1> QED
  BY <1>1, <1>2, <1>3 DEF Used

(* The next packet has its turn.                                            *)
LEMMA PopOK ==
  ASSUME par \in Parameters, NEW n, NEW s, CoreOK(n, s), s.buffer # <<>>
  PROVE  LET t == PopTxBuffer(s)
         IN  /\ CoreOK(n, t)
             /\ Used(s) <= Used(t)
             /\ t.buffer # <<>> => t.txRetries > 0
             /\ t.state = s.state /\ t.timers = s.timers /\ t.table = s.table
             /\ t.pktHistory = s.pktHistory
             /\ t.needResync = s.needResync /\ t.syncPacket = s.syncPacket
<1> DEFINE r == Tail(s.buffer)
           u == [s EXCEPT !.buffer = r]
           t == PopTxBuffer(s)
<1>1. /\ s \in Mac /\ s.buffer \in Seq(DataPacket) /\ s.sent \in Nat
      /\ par.maxTxRetries \in Nat \ {0}
  BY DEF CoreOK, Mac, Parameters
<1>2. /\ r \in Seq(DataPacket) /\ DOMAIN s.buffer = 1 .. Len(s.buffer)
      /\ \A i \in DOMAIN r : i \in Nat /\ r[i] = s.buffer[i + 1] /\ i + 1 \in DOMAIN s.buffer
      /\ r # <<>> => /\ 1 \in DOMAIN r /\ 2 \in DOMAIN s.buffer /\ r[1] = s.buffer[2]
                     /\ r[1] \in DataPacket /\ Head(r) = r[1]
  BY <1>1, TailFacts
<1>3. BufferOK(n, r, s.sent)
  <2>1. \A i \in DOMAIN r : r[i] = s.buffer[i + 1] /\ i + 1 \in DOMAIN s.buffer /\ i \in Int
    BY <1>2
  <2>2. \A i, j \in DOMAIN r : i < j => i + 1 < j + 1
    BY <2>1
  <2> HIDE DEF r
  <2> QED
    BY <2>1, <2>2 DEF CoreOK, BufferOK
<1>4. /\ u \in Mac /\ u.buffer = r
      /\ u.state = s.state /\ u.timers = s.timers /\ u.table = s.table
      /\ u.pktHistory = s.pktHistory /\ u.sent = s.sent
      /\ u.needResync = s.needResync /\ u.syncPacket = s.syncPacket
  <2> HIDE DEF r
  <2> QED
    BY <1>1, <1>2 DEF Mac
<1>5. t = IF r = <<>> THEN u
          ELSE [u EXCEPT !.txAddr = Head(r).dst, !.txRetries = par.maxTxRetries]
  <2>1. t = CheckTxBuffer(u)
    BY DEF PopTxBuffer
  <2> HIDE DEF u, t, r
  <2> QED
    BY <2>1, <1>4 DEF CheckTxBuffer
<1> HIDE DEF r, u
<1>6. r # <<>> => Head(r).dst \in Address /\ par.maxTxRetries \in 0 .. par.maxTxRetries
  BY <1>1, <1>2 DEF DataPacket
<1>7. /\ t \in Mac /\ t.buffer = r /\ t.sent = s.sent
      /\ r # <<>> => t.txAddr = r[1].dst /\ t.txRetries > 0
      /\ t.state = s.state /\ t.timers = s.timers /\ t.table = s.table
      /\ t.pktHistory = s.pktHistory
      /\ t.needResync = s.needResync /\ t.syncPacket = s.syncPacket
  <2> HIDE DEF t
  <2>1. CASE r = <<>>
    BY <2>1, <1>4, <1>5
  <2>2. CASE r # <<>>
    <3>1. t = [u EXCEPT !.txAddr = r[1].dst, !.txRetries = par.maxTxRetries]
      BY <2>2, <1>2, <1>5
    <3>2. r[1].dst \in Address /\ par.maxTxRetries \in 0 .. par.maxTxRetries
      BY <2>2, <1>1, <1>2 DEF DataPacket
    <3>3. t \in Mac
      BY <3>1, <3>2, <1>4 DEF Mac
    <3>4. /\ t.buffer = u.buffer /\ t.state = u.state /\ t.timers = u.timers
          /\ t.table = u.table /\ t.pktHistory = u.pktHistory /\ t.sent = u.sent
          /\ t.needResync = u.needResync /\ t.syncPacket = u.syncPacket
          /\ t.txAddr = r[1].dst /\ t.txRetries = par.maxTxRetries
      BY <3>1, <1>4 DEF Mac
    <3> QED
      BY <2>2, <3>3, <3>4, <1>1, <1>4
  <2> QED
    BY <2>1, <2>2
<1> HIDE DEF t
<1>8. CoreOK(n, t)
  BY <1>3, <1>7 DEF CoreOK, TableOK
<1>9. Used(s) <= Used(t)
  <2>1. s.buffer[1].sn \in 1 .. s.sent /\ 1 \in DOMAIN s.buffer
    BY <1>1, HeadFacts DEF CoreOK, BufferOK
  <2>2. r # <<>> => s.buffer[1].sn < s.buffer[2].sn
    BY <1>2, <2>1 DEF CoreOK, BufferOK
  <2>3. r # <<>> => r[1].sn \in Nat
    BY <1>2 DEF DataPacket
  <2> QED
    BY <1>1, <1>2, <1>7, <2>1, <2>2, <2>3 DEF Used
<1> QED
  BY <1>7, <1>8, <1>9 DEF t

(* A node that begins something new has not moved its schedules, and has    *)
(* not begun to wait for an acknowledgement.                                *)
Moved(s, t) ==
    /\ t.table = s.table /\ t.pktHistory = s.pktHistory
    /\ Used(s) <= Used(t)
    /\ t.state \notin {"SETUP", "WAIT_FOR_ACK"}

LEMMA DropFailedOK ==
  ASSUME par \in Parameters, NEW n, NEW s, CoreOK(n, s)
  PROVE  LET t == DropFailed(s)
         IN  /\ CoreOK(n, t)
             /\ Used(s) <= Used(t)
             /\ t.buffer # <<>> => t.txRetries > 0
             /\ t.state = s.state /\ t.timers = s.timers /\ t.table = s.table
             /\ t.pktHistory = s.pktHistory
             /\ t.needResync = s.needResync /\ t.syncPacket = s.syncPacket
<1>1. CASE s.buffer # <<>> /\ s.txRetries = 0
  BY <1>1, PopOK DEF DropFailed
<1>2. CASE ~(s.buffer # <<>> /\ s.txRetries = 0)
  <2>1. DropFailed(s) = s
    BY <1>2 DEF DropFailed
  <2>2. s.txRetries \in 0 .. par.maxTxRetries /\ par.maxTxRetries \in Nat
    BY DEF CoreOK, Mac, Parameters
  <2>3. Used(s) <= Used(s)
    BY HeadFacts
  <2> QED
    BY <1>2, <2>1, <2>2, <2>3
<1> QED
  BY <1>1, <1>2

LEMMA PerformCarrierSenseOK ==
  ASSUME par \in Parameters, NEW n, NEW s, CoreOK(n, s), NEW state \in CarrierSenseState,
         state \in {"CS_FOR_TX_RTS", "CS_FOR_TX_DATA"} => s.buffer # <<>> /\ s.txRetries > 0,
         state = "CS_FOR_TX_RTS" => s.txAddr # Broadcast /\ par.useRtsCts,
         state = "CS_FOR_TX_DATA" /\ par.useRtsCts => s.txAddr = Broadcast,
         state = "CS_FOR_TX_SYNC" => s.syncPacket # None,
         par.disableTAextension => "CHECK_TA" \in s.timers
  PROVE  /\ NodeOK(n, PerformCarrierSense(s, state))
         /\ Moved(s, PerformCarrierSense(s, state))
<1> DEFINE t == PerformCarrierSense(s, state)
<1>1. s \in Mac /\ state \in MacState /\ state # "WAIT_FOR_ACK" /\ state # "SETUP"
  BY DEF CoreOK, MacState, CarrierSenseState, CsForTx
<1>2. /\ t \in Mac /\ t.state = state /\ t.timers = s.timers \cup {"CARRIER_SENSE"}
      /\ t.buffer = s.buffer /\ t.sent = s.sent /\ t.table = s.table /\ t.txAddr = s.txAddr
      /\ t.txRetries = s.txRetries /\ t.pktHistory = s.pktHistory
      /\ t.needResync = s.needResync /\ t.syncPacket = s.syncPacket
  BY <1>1 DEF PerformCarrierSense, Set, Mac, Timer
<1> HIDE DEF t
<1>3. CoreOK(n, t)
  BY <1>2, CoreKept
<1>4. StateOK(t)
  BY <1>2, <1>1 DEF StateOK, CarrierSenseState, CsForTx, WaitState
<1>5. Used(s) <= Used(t)
  BY <1>2, HeadFacts DEF Used
<1> QED
  BY <1>1, <1>2, <1>3, <1>4, <1>5 DEF NodeOK, Moved, t

LEMMA ContendOK ==
  ASSUME par \in Parameters, NEW n, NEW s, CoreOK(n, s), "CHECK_TA" \in s.timers
  PROVE  NodeOK(n, Contend(s)) /\ Moved(s, Contend(s))
<1>1. s \in Mac /\ Used(s) \in Nat
  BY HeadFacts DEF CoreOK
<1>2. CASE s.needResync
  <2> DEFINE t == [s EXCEPT !.syncPacket = s.table[1].sn]
  <2>1. s.table # <<>> /\ s.table[1].sn \in SN /\ s.table[1].sn \in Nat
    <3>1. s.table # <<>> /\ s.table \in Seq([id : Node, sn : SN])
      BY <1>1, <1>2 DEF CoreOK, TableOK, Mac
    <3>2. s.table[1] \in [id : Node, sn : SN]
      BY <3>1, FirstFacts
    <3> QED
      BY <3>1, <3>2 DEF SN
  <2>2. /\ t \in Mac /\ t.state = s.state /\ t.timers = s.timers
        /\ t.buffer = s.buffer /\ t.sent = s.sent /\ t.table = s.table /\ t.txAddr = s.txAddr
        /\ t.txRetries = s.txRetries /\ t.pktHistory = s.pktHistory
        /\ t.needResync = s.needResync /\ t.syncPacket = s.table[1].sn
    BY <1>1, <2>1 DEF Mac
  <2>3. Contend(s) = PerformCarrierSense(t, "CS_FOR_TX_SYNC")
    BY <1>2 DEF Contend
  <2> HIDE DEF t
  <2>4. CoreOK(n, t) /\ Used(t) = Used(s)
    BY <2>1, <2>2 DEF CoreOK, TableOK, Used
  <2>5. t.syncPacket # None
    BY <2>1, <2>2, TMacAssumption
  <2>6. NodeOK(n, Contend(s)) /\ Moved(t, Contend(s))
    BY <2>2, <2>3, <2>4, <2>5, PerformCarrierSenseOK DEF CarrierSenseState, CsForTx
  <2> QED
    BY <2>2, <2>4, <2>6 DEF Moved
<1>3. CASE ~s.needResync
  <2> DEFINE t == DropFailed(s)
  <2>1. /\ CoreOK(n, t) /\ Used(s) <= Used(t) /\ Used(t) \in Nat
        /\ t.buffer # <<>> => t.txRetries > 0
        /\ t.timers = s.timers /\ t.table = s.table /\ t.pktHistory = s.pktHistory
        /\ t \in Mac
    <3>1. /\ CoreOK(n, t) /\ Used(s) <= Used(t)
          /\ t.buffer # <<>> => t.txRetries > 0
          /\ t.timers = s.timers /\ t.table = s.table /\ t.pktHistory = s.pktHistory
      BY DropFailedOK
    <3>2. t \in Mac /\ Used(t) \in 0 .. t.sent /\ t.sent \in Nat
      BY <3>1, HeadFacts DEF CoreOK
    <3> QED
      BY <3>1, <3>2
  <2>2. Contend(s) =
          IF t.buffer = <<>>
          THEN [t EXCEPT !.state = "ACTIVE"]
          ELSE PerformCarrierSense(t, IF par.useRtsCts /\ t.txAddr # Broadcast
                                      THEN "CS_FOR_TX_RTS" ELSE "CS_FOR_TX_DATA")
    BY <1>3 DEF Contend
  <2> HIDE DEF t
  <2>3. CASE t.buffer = <<>>
    <3> DEFINE u == [t EXCEPT !.state = "ACTIVE"]
    <3>1. /\ u \in Mac /\ u.state = "ACTIVE" /\ u.timers = t.timers
          /\ u.buffer = t.buffer /\ u.sent = t.sent /\ u.table = t.table /\ u.txAddr = t.txAddr
          /\ u.pktHistory = t.pktHistory
          /\ u.needResync = t.needResync /\ u.syncPacket = t.syncPacket
      BY <2>1 DEF Mac, MacState
    <3> HIDE DEF u
    <3>2. CoreOK(n, u) /\ Used(u) = Used(t)
      BY <3>1, <2>1, CoreKept DEF Used
    <3>3. StateOK(u)
      BY <3>1, <2>1 DEF StateOK, CarrierSenseState, CsForTx, WaitState
    <3> QED
      BY <2>1, <2>2, <2>3, <3>1, <3>2, <3>3 DEF NodeOK, Moved, u
  <2>4. CASE t.buffer # <<>>
    <3> DEFINE state == IF par.useRtsCts /\ t.txAddr # Broadcast
                        THEN "CS_FOR_TX_RTS" ELSE "CS_FOR_TX_DATA"
    <3>1. /\ state \in CarrierSenseState /\ state # "CS_FOR_TX_SYNC"
          /\ state = "CS_FOR_TX_RTS" => t.txAddr # Broadcast /\ par.useRtsCts
          /\ state = "CS_FOR_TX_DATA" /\ par.useRtsCts => t.txAddr = Broadcast
      BY DEF CarrierSenseState, CsForTx
    <3>2. Contend(s) = PerformCarrierSense(t, state)
      BY <2>2, <2>4
    <3> HIDE DEF state
    <3>3. NodeOK(n, Contend(s)) /\ Moved(t, Contend(s))
      BY <2>1, <2>4, <3>1, <3>2, PerformCarrierSenseOK
    <3>4. Used(Contend(s)) \in Nat
      BY <3>3, HeadFacts DEF NodeOK
    <3> QED
      BY <1>1, <2>1, <3>3, <3>4 DEF Moved
  <2> QED
    BY <2>3, <2>4
<1> QED
  BY <1>2, <1>3

LEMMA ResetOK ==
  ASSUME par \in Parameters, NEW n, NEW s, CoreOK(n, s)
  PROVE  NodeOK(n, ResetDefaultState(s)) /\ Moved(s, ResetDefaultState(s))
<1>1. s \in Mac /\ Used(s) \in Nat
  BY HeadFacts DEF CoreOK
<1>2. ASSUME NEW state \in {"SLEEP", "ACTIVE_SILENT"},
             state = "ACTIVE_SILENT" => "CHECK_TA" \in s.timers
      PROVE  NodeOK(n, [s EXCEPT !.state = state]) /\ Moved(s, [s EXCEPT !.state = state])
  <2> DEFINE u == [s EXCEPT !.state = state]
  <2>1. /\ u \in Mac /\ u.state = state /\ u.timers = s.timers
        /\ u.buffer = s.buffer /\ u.sent = s.sent /\ u.table = s.table /\ u.txAddr = s.txAddr
        /\ u.pktHistory = s.pktHistory
        /\ u.needResync = s.needResync /\ u.syncPacket = s.syncPacket
    BY <1>1 DEF Mac, MacState
  <2> HIDE DEF u
  <2>2. CoreOK(n, u) /\ Used(u) = Used(s)
    BY <2>1, CoreKept DEF Used
  <2>3. StateOK(u)
    BY <2>1, <1>2 DEF StateOK, CarrierSenseState, CsForTx, WaitState
  <2> QED
    BY <1>1, <2>1, <2>2, <2>3 DEF NodeOK, Moved, u
<1>3. CASE "CHECK_TA" \notin s.timers
  <2>1. CASE par.disableTAextension
    BY <2>1, <1>2, <1>3 DEF ResetDefaultState
  <2>2. CASE ~par.disableTAextension
    BY <2>2, <1>3, PerformCarrierSenseOK DEF ResetDefaultState, CarrierSenseState
  <2> QED
    BY <2>1, <2>2
<1>4. CASE "CHECK_TA" \in s.timers
  BY <1>2, <1>4, ContendOK DEF ResetDefaultState
<1> QED
  BY <1>3, <1>4

(* A step that sends nothing: the memory of other nodes stays, no number is *)
(* used again, and whoever waits for an acknowledgement did so before, for  *)
(* the same packet.                                                         *)
Keeps(s, t) ==
    /\ t.pktHistory = s.pktHistory
    /\ Used(s) <= Used(t)
    /\ t.state = "WAIT_FOR_ACK" => /\ s.state = "WAIT_FOR_ACK"
                                   /\ t.txAddr = s.txAddr /\ t.buffer[1] = s.buffer[1]

LEMMA LightOK ==
  ASSUME NEW n, NEW s, NEW t, CoreOK(n, s), t \in Mac,
         t.buffer = s.buffer, t.sent = s.sent, t.table = s.table, t.txAddr = s.txAddr,
         t.needResync => s.needResync \/ s.table # <<>>,
         t.syncPacket \in {s.syncPacket, None},
         "FRAME_START" \in s.timers <=> "FRAME_START" \in t.timers,
         "SYNC_RENEW" \in t.timers => "SYNC_RENEW" \in s.timers,
         t.pktHistory = s.pktHistory,
         t.state = "WAIT_FOR_ACK" => s.state = "WAIT_FOR_ACK"
  PROVE  CoreOK(n, t) /\ Keeps(s, t)
<1>1. CoreOK(n, t)
  BY CoreKept
<1>2. Used(t) = Used(s) /\ Used(s) \in Nat
  BY HeadFacts DEF Used
<1> QED
  BY <1>1, <1>2 DEF Keeps

LEMMA ResetAfter ==
  ASSUME par \in Parameters, NEW n, NEW s, NEW t, CoreOK(n, t), CoreOK(n, s),
         t.table = s.table, t.pktHistory = s.pktHistory, Used(s) <= Used(t)
  PROVE  LET u == ResetDefaultState(t)
         IN  NodeOK(n, u) /\ Keeps(s, u) /\ u.table = s.table /\ u.state # "SETUP"
<1> DEFINE u == ResetDefaultState(t)
<1>1. NodeOK(n, u) /\ Moved(t, u)
  BY ResetOK
<1>2. Used(s) \in Nat /\ Used(t) \in Nat /\ Used(u) \in Nat
  BY <1>1, HeadFacts DEF NodeOK
<1> HIDE DEF u
<1>3. Keeps(s, u) /\ u.table = s.table /\ u.state # "SETUP"
  BY <1>1, <1>2 DEF Moved, Keeps
<1> QED
  BY <1>1, <1>3 DEF u

-----------------------------------------------------------------------------
(* What the timers do to the state of a node                                *)

Timers(s, set) == [s EXCEPT !.timers = set]

(* Timers that are no part of the schedule may be set, and those that       *)
(* nothing waits for may be cancelled.                                      *)
LEMMA TimersOK ==
  ASSUME NEW n, NEW s, CoreOK(n, s), NEW set \in SUBSET Timer,
         "FRAME_START" \in s.timers <=> "FRAME_START" \in set,
         "SYNC_RENEW" \in set => "SYNC_RENEW" \in s.timers
  PROVE  LET t == Timers(s, set)
         IN  /\ CoreOK(n, t) /\ Keeps(s, t) /\ Used(t) = Used(s)
             /\ t.timers = set /\ t.state = s.state
             /\ t.buffer = s.buffer /\ t.table = s.table /\ t.txAddr = s.txAddr
             /\ t.txRetries = s.txRetries /\ t.pktHistory = s.pktHistory
             /\ t.syncPacket = s.syncPacket /\ t.needResync = s.needResync
             /\ t.sent = s.sent
<1> DEFINE t == Timers(s, set)
<1>1. /\ t \in Mac /\ t.timers = set /\ t.state = s.state
      /\ t.buffer = s.buffer /\ t.sent = s.sent /\ t.table = s.table /\ t.txAddr = s.txAddr
      /\ t.txRetries = s.txRetries /\ t.pktHistory = s.pktHistory
      /\ t.needResync = s.needResync /\ t.syncPacket = s.syncPacket
  BY DEF CoreOK, Mac, Timers
<1> HIDE DEF t
<1>2. CoreOK(n, t) /\ Keeps(s, t) /\ Used(t) = Used(s)
  BY <1>1, LightOK DEF Used
<1> QED
  BY <1>1, <1>2 DEF t

LEMMA SetIsTimers ==
  ASSUME NEW s, s \in Mac, NEW t
  PROVE  /\ Set(s, t) = Timers(s, s.timers \cup {t})
         /\ Cancel(s, t) = Timers(s, s.timers \ {t})
         /\ ExtendActivePeriod(s) = Timers(s, s.timers \cup {"CHECK_TA"})
BY DEF Set, Cancel, ExtendActivePeriod, Timers, Mac

(* A step of n alone, from s to t, that changes no schedule                 *)
Quiet(n, s, t) == NodeOK(n, t) /\ Keeps(s, t) /\ t.table = s.table

LEMMA GoOn ==
  ASSUME NEW n, NEW s, CoreOK(n, s), NEW state \in MacState
  PROVE  LET t == [s EXCEPT !.state = state]
         IN  /\ CoreOK(n, t) /\ Used(t) = Used(s)
             /\ t.state = state /\ t.timers = s.timers
             /\ t.buffer = s.buffer /\ t.table = s.table /\ t.txAddr = s.txAddr
             /\ t.txRetries = s.txRetries /\ t.pktHistory = s.pktHistory
             /\ t.syncPacket = s.syncPacket /\ t.needResync = s.needResync
             /\ state # "WAIT_FOR_ACK" => Keeps(s, t)
<1> DEFINE t == [s EXCEPT !.state = state]
<1>1. /\ t \in Mac /\ t.timers = s.timers /\ t.state = state
      /\ t.buffer = s.buffer /\ t.sent = s.sent /\ t.table = s.table /\ t.txAddr = s.txAddr
      /\ t.txRetries = s.txRetries /\ t.pktHistory = s.pktHistory
      /\ t.needResync = s.needResync /\ t.syncPacket = s.syncPacket
  BY DEF CoreOK, Mac
<1> HIDE DEF t
<1>2. CoreOK(n, t) /\ Used(t) = Used(s)
  BY <1>1, CoreKept DEF Used
<1>3. state # "WAIT_FOR_ACK" => Keeps(s, t)
  BY <1>1, LightOK
<1> QED
  BY <1>1, <1>2, <1>3 DEF t

(* CHECK_TA                                                                 *)
LEMMA CheckTAOK ==
  ASSUME par \in Parameters, NEW n, NEW s, NodeOK(n, s)
  PROVE  LET c == Cancel(s, "CHECK_TA")
         IN  Quiet(n, s, IF par.disableTAextension \/ ~par.conservativeTA
                         THEN [c EXCEPT !.primaryWakeup = FALSE, !.state = "SLEEP"]
                         ELSE IF c.state \in {"ACTIVE", "ACTIVE_SILENT", "SLEEP"}
                         THEN PerformCarrierSense(c, "CS_BEFORE_SLEEP")
                         ELSE ExtendActivePeriod(c))
<1> DEFINE c == Cancel(s, "CHECK_TA")
           t1 == [c EXCEPT !.primaryWakeup = FALSE, !.state = "SLEEP"]
           t3 == ExtendActivePeriod(c)
<1>1. /\ CoreOK(n, c) /\ Keeps(s, c) /\ Used(c) = Used(s)
      /\ c.timers = s.timers \ {"CHECK_TA"} /\ c.state = s.state
      /\ c.buffer = s.buffer /\ c.table = s.table /\ c.txAddr = s.txAddr
      /\ c.txRetries = s.txRetries /\ c.pktHistory = s.pktHistory
      /\ c.syncPacket = s.syncPacket
  <2>1. s \in Mac /\ CoreOK(n, s) /\ s.timers \ {"CHECK_TA"} \in SUBSET Timer
    BY DEF NodeOK, CoreOK, Mac
  <2>2. c = Timers(s, s.timers \ {"CHECK_TA"})
    BY <2>1, SetIsTimers
  <2> QED
    BY <2>1, <2>2, TimersOK
<1> HIDE DEF c
<1>2. c \in Mac /\ Used(s) \in Nat
  BY <1>1, HeadFacts DEF CoreOK, NodeOK
<1>3. Quiet(n, s, t1)
  <2>1. /\ t1 \in Mac /\ t1.timers = c.timers /\ t1.state = "SLEEP"
        /\ t1.buffer = c.buffer /\ t1.sent = c.sent /\ t1.table = c.table /\ t1.txAddr = c.txAddr
        /\ t1.pktHistory = c.pktHistory
        /\ t1.needResync = c.needResync /\ t1.syncPacket = c.syncPacket
    BY <1>2 DEF Mac, MacState
  <2> HIDE DEF t1
  <2>2. CoreOK(n, t1) /\ Keeps(c, t1)
    BY <1>1, <2>1, LightOK
  <2>3. StateOK(t1)
    BY <2>1 DEF StateOK, WaitState, CarrierSenseState, CsForTx
  <2>4. Keeps(s, t1)
    BY <2>1, <2>2, <1>1 DEF Keeps
  <2> QED
    BY <2>1, <2>2, <2>3, <2>4, <1>1 DEF Quiet, NodeOK
<1>4. CASE ~par.disableTAextension
  <2> DEFINE t2 == PerformCarrierSense(c, "CS_BEFORE_SLEEP")
  <2>1. NodeOK(n, t2) /\ Moved(c, t2)
    BY <1>1, <1>4, PerformCarrierSenseOK DEF CarrierSenseState
  <2> HIDE DEF t2
  <2>2. Quiet(n, s, t2)
    BY <1>1, <2>1 DEF Quiet, Moved, Keeps
  <2>3. c.state \notin {"ACTIVE", "ACTIVE_SILENT", "SLEEP"} => Quiet(n, s, t3)
    <3>1. c.timers \cup {"CHECK_TA"} \in SUBSET Timer
      BY <1>2 DEF Mac, Timer
    <3>2. t3 = Timers(c, c.timers \cup {"CHECK_TA"})
      BY <1>2, SetIsTimers
    <3>3. /\ CoreOK(n, t3) /\ Keeps(c, t3)
          /\ t3.timers = c.timers \cup {"CHECK_TA"} /\ t3.state = c.state
          /\ t3.buffer = c.buffer /\ t3.table = c.table /\ t3.txAddr = c.txAddr
          /\ t3.txRetries = c.txRetries /\ t3.syncPacket = c.syncPacket
      BY <1>1, <3>1, <3>2, TimersOK
    <3> HIDE DEF t3
    <3>4. StateOK(t3)
      BY <1>1, <3>3 DEF NodeOK, StateOK, WaitState, CarrierSenseState, CsForTx
    <3> QED
      BY <1>1, <3>3, <3>4 DEF Quiet, NodeOK, Keeps
  <2> QED
    BY <1>3, <2>2, <2>3 DEF c, t2
<1> QED
  BY <1>3, <1>4 DEF c

(* Everything but the timers is the same.                                   *)
SameButTimers(s, t) ==
    /\ t.state = s.state
    /\ t.buffer = s.buffer /\ t.table = s.table /\ t.txAddr = s.txAddr
    /\ t.txRetries = s.txRetries /\ t.pktHistory = s.pktHistory
    /\ t.syncPacket = s.syncPacket /\ t.needResync = s.needResync
    /\ t.sent = s.sent

LEMMA CancelOK ==
  ASSUME NEW n, NEW s, CoreOK(n, s), NEW timer \in Timer \ {"FRAME_START"}
  PROVE  LET t == Cancel(s, timer)
         IN  /\ CoreOK(n, t) /\ Keeps(s, t) /\ Used(t) = Used(s)
             /\ t.timers = s.timers \ {timer} /\ SameButTimers(s, t)
<1>1. s \in Mac /\ s.timers \ {timer} \in SUBSET Timer
  BY DEF CoreOK, Mac
<1>2. Cancel(s, timer) = Timers(s, s.timers \ {timer})
  BY <1>1, SetIsTimers
<1> QED
  BY <1>1, <1>2, TimersOK DEF SameButTimers

LEMMA SetOK ==
  ASSUME NEW n, NEW s, CoreOK(n, s), NEW timer \in Timer \ {"FRAME_START", "SYNC_RENEW"}
  PROVE  LET t == Set(s, timer)
         IN  /\ CoreOK(n, t) /\ Keeps(s, t) /\ Used(t) = Used(s)
             /\ t.timers = s.timers \cup {timer} /\ SameButTimers(s, t)
<1>1. s \in Mac /\ s.timers \cup {timer} \in SUBSET Timer
  BY DEF CoreOK, Mac
<1>2. Set(s, timer) = Timers(s, s.timers \cup {timer})
  BY <1>1, SetIsTimers
<1> QED
  BY <1>1, <1>2, TimersOK DEF SameButTimers

(* Another timer never strands a node.                                      *)
LEMMA ExtendOK ==
  ASSUME NEW n, NEW s, NodeOK(n, s), NEW timer \in Timer \ {"FRAME_START", "SYNC_RENEW"}
  PROVE  /\ Quiet(n, s, Set(s, timer))
         /\ SameButTimers(s, Set(s, timer))
         /\ Set(s, timer).timers = s.timers \cup {timer}
<1> DEFINE t == Set(s, timer)
<1>1. /\ CoreOK(n, t) /\ Keeps(s, t)
      /\ t.timers = s.timers \cup {timer} /\ SameButTimers(s, t)
  BY SetOK DEF NodeOK
<1> HIDE DEF t
<1>2. StateOK(t)
  BY <1>1 DEF NodeOK, StateOK, SameButTimers, WaitState, CarrierSenseState, CsForTx
<1> QED
  BY <1>1, <1>2 DEF Quiet, NodeOK, SameButTimers, t

LEMMA SetupTimers ==
  /\ {"SYNC_SETUP", "SYNC_CREATE", "CHECK_TA", "CARRIER_SENSE", "TRANSMISSION_TIMEOUT"}
        \subseteq Timer \ {"FRAME_START", "SYNC_RENEW"}
  /\ "FRAME_START" \in Timer /\ "SYNC_RENEW" \in Timer
BY DEF Timer

(* SYNC_SETUP                                                               *)
LEMMA SyncSetupOK ==
  ASSUME NEW n, NEW s, NodeOK(n, s)
  PROVE  LET c == Cancel(s, "SYNC_SETUP")
         IN  Quiet(n, s, IF c.state = "SETUP" THEN Set(c, "SYNC_CREATE") ELSE c)
<1> DEFINE c == Cancel(s, "SYNC_SETUP")
           t == Set(c, "SYNC_CREATE")
<1>1. /\ CoreOK(n, c) /\ Keeps(s, c)
      /\ c.timers = s.timers \ {"SYNC_SETUP"} /\ SameButTimers(s, c)
  BY CancelOK, SetupTimers DEF NodeOK
<1> HIDE DEF c
<1>2. /\ CoreOK(n, t) /\ Keeps(c, t) /\ Used(t) = Used(c)
      /\ t.timers = c.timers \cup {"SYNC_CREATE"} /\ SameButTimers(c, t)
  BY <1>1, SetOK, SetupTimers
<1> HIDE DEF t
<1>3. CASE c.state = "SETUP"
  <2>1. StateOK(t) /\ Keeps(s, t)
    BY <1>1, <1>2, <1>3 DEF NodeOK, StateOK, SameButTimers, Keeps, WaitState, CarrierSenseState, CsForTx
  <2> QED
    BY <1>1, <1>2, <1>3, <2>1 DEF Quiet, NodeOK, SameButTimers, c, t
<1>4. CASE c.state # "SETUP"
  <2>1. StateOK(c)
    BY <1>1, <1>4 DEF NodeOK, StateOK, SameButTimers, WaitState, CarrierSenseState, CsForTx
  <2> QED
    BY <1>1, <1>4, <2>1 DEF Quiet, NodeOK, SameButTimers, c
<1> QED
  BY <1>3, <1>4

(* FRAME_START                                                              *)
LEMMA FrameStartOK ==
  ASSUME par \in Parameters, NEW n, NEW s, NodeOK(n, s), "FRAME_START" \in s.timers
  PROVE  LET t == ExtendActivePeriod(
                     [s EXCEPT !.primaryWakeup = TRUE,
                               !.needResync = @ \/ s.shifted,
                               !.shifted = FALSE,
                               !.wakeups = {s.table[i].id : i \in 2 .. Len(s.table)}])
         IN  Quiet(n, s, IF t.state \in {"SLEEP", "ACTIVE", "ACTIVE_SILENT"}
                         THEN ResetDefaultState(t) ELSE t)
<1> DEFINE r == [s EXCEPT !.primaryWakeup = TRUE,
                          !.needResync = @ \/ s.shifted,
                          !.shifted = FALSE,
                          !.wakeups = {s.table[i].id : i \in 2 .. Len(s.table)}]
           t == ExtendActivePeriod(r)
<1>1. /\ s \in Mac /\ s.table \in Seq([id : Node, sn : SN]) /\ CoreOK(n, s)
      /\ s.needResync \in BOOLEAN /\ s.shifted \in BOOLEAN
  BY DEF NodeOK, CoreOK, Mac
<1>2. {s.table[i].id : i \in 2 .. Len(s.table)} \in SUBSET Node
  <2>1. \A i \in 2 .. Len(s.table) : s.table[i] \in [id : Node, sn : SN]
    <3>1. Len(s.table) \in Nat /\ DOMAIN s.table = 1 .. Len(s.table)
          /\ \A i \in DOMAIN s.table : s.table[i] \in [id : Node, sn : SN]
      BY <1>1, SeqFacts
    <3>2. \A i \in 2 .. Len(s.table) : i \in DOMAIN s.table
      BY <3>1
    <3> QED
      BY <3>1, <3>2
  <2> QED
    BY <2>1
<1>3. /\ r \in Mac /\ r.timers = s.timers /\ r.state = s.state
      /\ r.buffer = s.buffer /\ r.sent = s.sent /\ r.table = s.table /\ r.txAddr = s.txAddr
      /\ r.txRetries = s.txRetries /\ r.pktHistory = s.pktHistory
      /\ r.syncPacket = s.syncPacket
  BY <1>1, <1>2 DEF Mac
<1> HIDE DEF r
<1>4. s.table # <<>>
  BY DEF NodeOK, CoreOK, TableOK
<1>5. CoreOK(n, r) /\ Keeps(s, r)
  BY <1>1, <1>3, <1>4, LightOK
<1>6. StateOK(r)
  BY <1>3 DEF NodeOK, StateOK
<1>7. Quiet(n, r, t)
  BY <1>5, <1>6, ExtendOK, SetupTimers DEF NodeOK, ExtendActivePeriod
<1> HIDE DEF t
<1>8. /\ Used(s) \in Nat /\ Used(r) \in Nat /\ Used(t) \in Nat
      /\ Used(s) <= Used(t) /\ t.pktHistory = s.pktHistory /\ t.table = s.table
  BY <1>1, <1>3, <1>5, <1>7, HeadFacts DEF Quiet, NodeOK, Keeps
<1>9. Quiet(n, s, ResetDefaultState(t))
  BY <1>1, <1>7, <1>8, ResetAfter DEF Quiet, NodeOK
<1>10. Quiet(n, s, t)
  BY <1>3, <1>5, <1>7, <1>8 DEF Quiet, Keeps
<1> QED
  BY <1>9, <1>10 DEF r, t

(* WAKEUP_SILENT                                                            *)
LEMMA WakeupSilentOK ==
  ASSUME par \in Parameters, NEW n, NEW s, NodeOK(n, s), NEW id
  PROVE  LET t == ExtendActivePeriod([s EXCEPT !.wakeups = @ \ {id}])
         IN  Quiet(n, s, IF t.state = "SLEEP" THEN ResetDefaultState(t) ELSE t)
<1> DEFINE r == [s EXCEPT !.wakeups = @ \ {id}]
           t == ExtendActivePeriod(r)
<1>1. s \in Mac /\ CoreOK(n, s)
  BY DEF NodeOK, CoreOK
<1>3. /\ r \in Mac /\ r.timers = s.timers /\ r.state = s.state
      /\ r.buffer = s.buffer /\ r.sent = s.sent /\ r.table = s.table /\ r.txAddr = s.txAddr
      /\ r.txRetries = s.txRetries /\ r.pktHistory = s.pktHistory
      /\ r.syncPacket = s.syncPacket /\ r.needResync = s.needResync
  BY <1>1 DEF Mac
<1> HIDE DEF r
<1>5. CoreOK(n, r) /\ Keeps(s, r)
  BY <1>1, <1>3, LightOK
<1>6. StateOK(r)
  BY <1>3 DEF NodeOK, StateOK
<1>7. Quiet(n, r, t)
  BY <1>5, <1>6, ExtendOK, SetupTimers DEF NodeOK, ExtendActivePeriod
<1> HIDE DEF t
<1>8. /\ Used(s) \in Nat /\ Used(r) \in Nat /\ Used(t) \in Nat
      /\ Used(s) <= Used(t) /\ t.pktHistory = s.pktHistory /\ t.table = s.table
  BY <1>1, <1>3, <1>5, <1>7, HeadFacts DEF Quiet, NodeOK, Keeps
<1>9. Quiet(n, s, ResetDefaultState(t))
  BY <1>1, <1>7, <1>8, ResetAfter DEF Quiet, NodeOK
<1>10. Quiet(n, s, t)
  BY <1>3, <1>5, <1>7, <1>8 DEF Quiet, Keeps
<1> QED
  BY <1>9, <1>10 DEF r, t

(* TRANSMISSION_TIMEOUT                                                     *)
LEMMA TransmissionTimeoutOK ==
  ASSUME par \in Parameters, NEW n, NEW s, NodeOK(n, s)
  PROVE  Quiet(n, s, ResetDefaultState(Cancel(s, "TRANSMISSION_TIMEOUT")))
<1> DEFINE c == Cancel(s, "TRANSMISSION_TIMEOUT")
<1>1. /\ CoreOK(n, c) /\ Keeps(s, c) /\ SameButTimers(s, c)
  BY CancelOK, SetupTimers DEF NodeOK
<1> HIDE DEF c
<1>2. Quiet(n, s, ResetDefaultState(c))
  BY <1>1, ResetAfter DEF Quiet, NodeOK, SameButTimers, Keeps
<1> QED
  BY <1>2 DEF c

(* carrierIsBusy, for a node that has lost at most its CARRIER_SENSE timer   *)
LEMMA BusyOK ==
  ASSUME par \in Parameters, NEW n, NEW s, NodeOK(n, s),
         NEW c, CoreOK(n, c), Keeps(s, c), SameButTimers(s, c),
         s.timers \ {"CARRIER_SENSE"} \subseteq c.timers
  PROVE  Quiet(n, s, CarrierIsBusy(c))
<1>1. /\ CoreOK(n, c) /\ Keeps(s, c) /\ SameButTimers(s, c)
      /\ s.timers \ {"CARRIER_SENSE"} \subseteq c.timers
  OBVIOUS
<1>2. CASE c.state \in {"SETUP", "SLEEP"}
  <2>1. StateOK(c)
    BY <1>1, <1>2 DEF NodeOK, StateOK, SameButTimers, WaitState, CarrierSenseState, CsForTx
  <2> QED
    BY <1>1, <1>2, <2>1 DEF CarrierIsBusy, Quiet, NodeOK, SameButTimers
<1>3. CASE c.state \notin {"SETUP", "SLEEP"}
  <2> DEFINE t == IF par.disableTAextension THEN c ELSE ExtendActivePeriod(c)
  <2>1. /\ CoreOK(n, t) /\ Keeps(c, t) /\ SameButTimers(c, t) /\ c.timers \subseteq t.timers
        /\ par.disableTAextension \/ "CHECK_TA" \in t.timers
    <3>1. CASE par.disableTAextension
      <4>1. Used(c) \in Nat
        BY <1>1, HeadFacts
      <4> QED
        BY <3>1, <4>1, <1>1 DEF Keeps, SameButTimers
    <3>2. CASE ~par.disableTAextension
      BY <3>2, <1>1, SetOK, SetupTimers DEF ExtendActivePeriod
    <3> QED
      BY <3>1, <3>2
  <2>2. CarrierIsBusy(c) =
          IF par.collisionResolution = 0
          THEN IF c.state \in CarrierSenseState THEN ResetDefaultState(t) ELSE t
          ELSE IF c.state \in WaitState THEN t ELSE [t EXCEPT !.state = "ACTIVE_SILENT"]
    BY <1>3 DEF CarrierIsBusy
  <2> HIDE DEF t
  <2>3. Keeps(s, t) /\ SameButTimers(s, t) /\ Used(s) <= Used(t)
    <3>1. Used(s) \in Nat /\ Used(c) \in Nat /\ Used(t) \in Nat
      BY <1>1, <2>1, HeadFacts DEF NodeOK
    <3> QED
      BY <3>1, <1>1, <2>1 DEF Keeps, SameButTimers
  <2>4. Quiet(n, s, ResetDefaultState(t))
    BY <2>1, <2>3, ResetAfter DEF Quiet, NodeOK, SameButTimers
  <2>5. c.state \notin CarrierSenseState => Quiet(n, s, t)
    <3>1. c.state \notin CarrierSenseState => StateOK(t)
      BY <1>1, <2>1, <2>3 DEF NodeOK, StateOK, SameButTimers
    <3> QED
      BY <3>1, <2>1, <2>3 DEF Quiet, NodeOK, SameButTimers
  <2>6. c.state \notin WaitState => Quiet(n, s, [t EXCEPT !.state = "ACTIVE_SILENT"])
    <3> DEFINE u == [t EXCEPT !.state = "ACTIVE_SILENT"]
    <3>1. /\ CoreOK(n, u) /\ Used(u) = Used(t) /\ u.state = "ACTIVE_SILENT"
          /\ u.timers = t.timers /\ u.table = t.table /\ Keeps(t, u)
      BY <2>1, GoOn DEF MacState
    <3> HIDE DEF u
    <3>2. Keeps(s, u)
      BY <2>3, <3>1 DEF Keeps
    <3>3. c.state \notin WaitState => "CHECK_TA" \in u.timers
      BY <1>1, <1>3, <2>1, <3>1 DEF NodeOK, StateOK, SameButTimers
    <3>4. "CHECK_TA" \in u.timers => StateOK(u)
      BY <3>1 DEF StateOK, WaitState, CarrierSenseState, CsForTx
    <3> QED
      BY <2>3, <3>1, <3>2, <3>3, <3>4 DEF Quiet, NodeOK, SameButTimers, u
  <2> QED
    BY <2>2, <2>4, <2>5, <2>6 DEF CarrierSenseState, CsForTx, WaitState
<1> QED
  BY <1>2, <1>3

(* carrierIsBusy, also for a node that has just sensed the carrier          *)
LEMMA CarrierIsBusyOK ==
  ASSUME par \in Parameters, NEW n, NEW s, NodeOK(n, s),
         NEW c \in {s, Cancel(s, "CARRIER_SENSE")}
  PROVE  Quiet(n, s, CarrierIsBusy(c))
<1>1. /\ CoreOK(n, c) /\ Keeps(s, c) /\ SameButTimers(s, c)
      /\ s.timers \ {"CARRIER_SENSE"} \subseteq c.timers
  <2>1. Used(s) \in Nat
    BY HeadFacts DEF NodeOK
  <2>2. CASE c = s
    BY <2>1, <2>2 DEF NodeOK, Keeps, SameButTimers
  <2>3. CASE c = Cancel(s, "CARRIER_SENSE")
    BY <2>3, CancelOK, SetupTimers DEF NodeOK
  <2> QED
    BY <2>2, <2>3
<1> QED
  BY <1>1, BusyOK

(* CARRIER_SENSE in vain                                                    *)
LEMMA SenseInVainOK ==
  ASSUME par \in Parameters, NEW n, NEW s, NodeOK(n, s)
  PROVE  LET c == Cancel(s, "CARRIER_SENSE")
         IN  Quiet(n, s, IF c.state \in CarrierSenseState THEN CarrierIsBusy(c) ELSE c)
<1> DEFINE c == Cancel(s, "CARRIER_SENSE")
<1>1. Quiet(n, s, CarrierIsBusy(c))
  BY CarrierIsBusyOK
<1>2. /\ CoreOK(n, c) /\ Keeps(s, c) /\ SameButTimers(s, c)
      /\ c.timers = s.timers \ {"CARRIER_SENSE"}
  BY CancelOK, SetupTimers DEF NodeOK
<1> HIDE DEF c
<1>3. c.state \notin CarrierSenseState => Quiet(n, s, c)
  BY <1>2 DEF NodeOK, StateOK, SameButTimers, WaitState, CarrierSenseState, CsForTx, Quiet
<1> QED
  BY <1>1, <1>3 DEF c

-----------------------------------------------------------------------------
(* Sending                                                                  *)

(* A step of n in which it sends, from s to t                               *)
Sends(n, s, t) ==
    /\ NodeOK(n, t)
    /\ t.table = s.table /\ t.pktHistory = s.pktHistory
    /\ Used(s) <= Used(t)
    /\ t.state = "WAIT_FOR_ACK" => t.buffer[1] = s.buffer[1]

LEMMA DataSentOK ==
  ASSUME par \in Parameters, NEW n, NEW s, CoreOK(n, s), s.buffer # <<>>,
         s.txAddr = Broadcast \/ par.useRtsCts \/ s.txRetries > 0
  PROVE  Sends(n, s, DataSent(s))
<1>1. /\ s \in Mac /\ Used(s) \in Nat /\ s.txRetries \in 0 .. par.maxTxRetries
      /\ par.maxTxRetries \in Nat
  <2>1. Used(s) \in Nat
    BY HeadFacts
  <2> QED
    BY <2>1 DEF CoreOK, Mac, Parameters
<1> DEFINE u == IF s.txAddr = Broadcast
                THEN [PopTxBuffer(s) EXCEPT !.state = "IN_TX"]
                ELSE [s EXCEPT !.state = "WAIT_FOR_ACK",
                               !.txRetries = IF par.useRtsCts THEN @ ELSE @ - 1]
           v == Set(u, "TRANSMISSION_TIMEOUT")
           t == Set(v, "CHECK_TA")
<1>2. /\ CoreOK(n, u) /\ Used(s) <= Used(u) /\ Used(u) \in Nat
      /\ u.table = s.table /\ u.pktHistory = s.pktHistory
      /\ \/ u.state = "IN_TX"
         \/ /\ u.state = "WAIT_FOR_ACK" /\ u.buffer # <<>> /\ u.txAddr # Broadcast
            /\ u.buffer[1] = s.buffer[1]
  <2>1. CASE s.txAddr = Broadcast
    <3> DEFINE p == PopTxBuffer(s)
    <3>1. /\ CoreOK(n, p) /\ Used(s) <= Used(p)
          /\ p.table = s.table /\ p.pktHistory = s.pktHistory
      BY PopOK
    <3>2. u = [p EXCEPT !.state = "IN_TX"]
      BY <2>1
    <3> HIDE DEF p, u
    <3>3. /\ CoreOK(n, u) /\ Used(u) = Used(p) /\ u.state = "IN_TX"
          /\ u.table = p.table /\ u.pktHistory = p.pktHistory
      <4>1. "IN_TX" \in MacState
        BY DEF MacState
      <4> QED
        BY <3>1, <3>2, <4>1, GoOn
    <3>4. Used(u) \in Nat
      BY <3>3, HeadFacts
    <3> QED
      BY <3>1, <3>3, <3>4
  <2>2. CASE s.txAddr # Broadcast
    <3> DEFINE k == IF par.useRtsCts THEN s.txRetries ELSE s.txRetries - 1
    <3>1. k \in 0 .. par.maxTxRetries
      BY <2>2, <1>1
    <3>2. u = [s EXCEPT !.state = "WAIT_FOR_ACK", !.txRetries = k]
      BY <2>2
    <3> HIDE DEF u, k
    <3>3. /\ u \in Mac /\ u.timers = s.timers /\ u.state = "WAIT_FOR_ACK"
          /\ u.buffer = s.buffer /\ u.sent = s.sent /\ u.table = s.table /\ u.txAddr = s.txAddr
          /\ u.pktHistory = s.pktHistory
          /\ u.needResync = s.needResync /\ u.syncPacket = s.syncPacket
      BY <1>1, <3>1, <3>2 DEF Mac, MacState, WaitState
    <3>4. CoreOK(n, u) /\ Used(u) = Used(s)
      BY <3>3, CoreKept DEF Used
    <3> QED
      BY <1>1, <2>2, <3>3, <3>4
  <2> QED
    BY <2>1, <2>2
<1>3. DataSent(s) = t
  BY DEF DataSent, ExtendActivePeriod
<1> HIDE DEF u
<1>4. /\ CoreOK(n, v) /\ Used(v) = Used(u) /\ SameButTimers(u, v)
      /\ v.timers = u.timers \cup {"TRANSMISSION_TIMEOUT"}
  BY <1>2, SetOK, SetupTimers
<1> HIDE DEF v
<1>5. /\ CoreOK(n, t) /\ Used(t) = Used(v) /\ SameButTimers(v, t)
      /\ t.timers = v.timers \cup {"CHECK_TA"}
  BY <1>4, SetOK, SetupTimers
<1> HIDE DEF t
<1>6. StateOK(t)
  BY <1>2, <1>4, <1>5 DEF StateOK, SameButTimers, WaitState, CarrierSenseState, CsForTx
<1> QED
  BY <1>2, <1>3, <1>4, <1>5, <1>6 DEF Sends, NodeOK, SameButTimers

(* CARRIER_SENSE with a clear channel                                       *)
LEMMA SenseClearOK ==
  ASSUME par \in Parameters, NEW n, NEW s, NodeOK(n, s)
  PROVE  LET c == Cancel(s, "CARRIER_SENSE")
             sending == Set(c, "TRANSMISSION_TIMEOUT")
         IN  /\ SameButTimers(s, c)
             /\ s.state = "CS_FOR_TX_RTS" =>
                   Sends(n, s, [sending EXCEPT !.state = "WAIT_FOR_CTS", !.txRetries = @ - 1])
             /\ s.state = "CS_FOR_TX_SYNC" =>
                   Sends(n, s, [sending EXCEPT !.state = "IN_TX", !.needResync = FALSE,
                                               !.syncPacket = None])
             /\ s.state = "CS_FOR_TX_DATA" => Sends(n, s, DataSent(c))
             /\ s.state = "CS_BEFORE_SLEEP" =>
                   Quiet(n, s, [c EXCEPT !.primaryWakeup = FALSE, !.state = "SLEEP"])
<1> DEFINE c == Cancel(s, "CARRIER_SENSE")
           d == Set(c, "TRANSMISSION_TIMEOUT")
           rts == [d EXCEPT !.state = "WAIT_FOR_CTS", !.txRetries = @ - 1]
           sync == [d EXCEPT !.state = "IN_TX", !.needResync = FALSE, !.syncPacket = None]
           sleep == [c EXCEPT !.primaryWakeup = FALSE, !.state = "SLEEP"]
<1>1. /\ CoreOK(n, c) /\ Used(c) = Used(s) /\ SameButTimers(s, c) /\ Keeps(s, c)
      /\ c.timers = s.timers \ {"CARRIER_SENSE"}
  BY CancelOK, SetupTimers DEF NodeOK
<1> HIDE DEF c
<1>2. /\ CoreOK(n, d) /\ Used(d) = Used(c) /\ SameButTimers(c, d)
      /\ d.timers = c.timers \cup {"TRANSMISSION_TIMEOUT"}
  BY <1>1, SetOK, SetupTimers
<1> HIDE DEF d
<1>3. /\ c \in Mac /\ d \in Mac /\ SameButTimers(s, d) /\ StateOK(s) /\ Used(s) \in Nat
      /\ par.maxTxRetries \in Nat /\ d.txRetries \in 0 .. par.maxTxRetries
  <2>1. Used(s) \in Nat
    BY HeadFacts DEF NodeOK
  <2>2. c \in Mac /\ d \in Mac /\ SameButTimers(s, d) /\ StateOK(s)
    BY <1>1, <1>2 DEF NodeOK, CoreOK, SameButTimers
  <2> QED
    BY <2>1, <2>2 DEF Mac, Parameters
<1>4. s.state = "CS_FOR_TX_RTS" => Sends(n, s, rts)
  <2> SUFFICES ASSUME s.state = "CS_FOR_TX_RTS"  PROVE  Sends(n, s, rts)
    OBVIOUS
  <2>1. s.txRetries > 0 /\ s.buffer # <<>> /\ s.txAddr # Broadcast /\ par.useRtsCts
    BY <1>3 DEF StateOK
  <2>2. d.txRetries - 1 \in 0 .. par.maxTxRetries
    BY <1>3, <2>1 DEF SameButTimers
  <2>3. /\ rts \in Mac /\ rts.timers = d.timers /\ rts.state = "WAIT_FOR_CTS"
        /\ rts.buffer = d.buffer /\ rts.sent = d.sent /\ rts.table = d.table
        /\ rts.txAddr = d.txAddr /\ rts.pktHistory = d.pktHistory
        /\ rts.needResync = d.needResync /\ rts.syncPacket = d.syncPacket
    BY <1>3, <2>2 DEF Mac, MacState, WaitState
  <2> HIDE DEF rts
  <2>4. CoreOK(n, rts) /\ Used(rts) = Used(s)
    BY <1>1, <1>2, <2>3, CoreKept DEF Used
  <2>5. StateOK(rts)
    BY <1>2, <1>3, <2>1, <2>3 DEF StateOK, SameButTimers, WaitState, CarrierSenseState, CsForTx
  <2> QED
    BY <1>3, <2>3, <2>4, <2>5 DEF Sends, NodeOK, SameButTimers
<1>5. s.state = "CS_FOR_TX_SYNC" => Sends(n, s, sync)
  <2> SUFFICES ASSUME s.state = "CS_FOR_TX_SYNC"  PROVE  Sends(n, s, sync)
    OBVIOUS
  <2>1. par.disableTAextension => "CHECK_TA" \in s.timers
    BY <1>3 DEF StateOK, WaitState
  <2>2. /\ sync \in Mac /\ sync.timers = d.timers /\ sync.state = "IN_TX"
        /\ sync.buffer = d.buffer /\ sync.sent = d.sent /\ sync.table = d.table
        /\ sync.txAddr = d.txAddr /\ sync.pktHistory = d.pktHistory
        /\ sync.needResync = FALSE /\ sync.syncPacket = None
    BY <1>3 DEF Mac, MacState
  <2> HIDE DEF sync
  <2>3. CoreOK(n, sync) /\ Used(sync) = Used(s)
    BY <1>1, <1>2, <2>2, CoreKept DEF Used
  <2>4. StateOK(sync)
    BY <1>1, <1>2, <2>1, <2>2 DEF StateOK, WaitState, CarrierSenseState, CsForTx
  <2> QED
    BY <1>3, <2>2, <2>3, <2>4 DEF Sends, NodeOK, SameButTimers
<1>6. s.state = "CS_FOR_TX_DATA" => Sends(n, s, DataSent(c))
  <2> SUFFICES ASSUME s.state = "CS_FOR_TX_DATA"  PROVE  Sends(n, s, DataSent(c))
    OBVIOUS
  <2>1. c.buffer # <<>> /\ (c.txAddr = Broadcast \/ par.useRtsCts \/ c.txRetries > 0)
    BY <1>1, <1>3 DEF StateOK, SameButTimers
  <2>2. Sends(n, c, DataSent(c))
    BY <1>1, <2>1, DataSentOK
  <2> QED
    BY <1>1, <2>2 DEF Sends, SameButTimers
<1>7. Quiet(n, s, sleep)
  <2>1. /\ sleep \in Mac /\ sleep.timers = c.timers /\ sleep.state = "SLEEP"
        /\ sleep.buffer = c.buffer /\ sleep.sent = c.sent /\ sleep.table = c.table
        /\ sleep.txAddr = c.txAddr /\ sleep.pktHistory = c.pktHistory
        /\ sleep.needResync = c.needResync /\ sleep.syncPacket = c.syncPacket
    BY <1>3 DEF Mac, MacState
  <2> HIDE DEF sleep
  <2>2. CoreOK(n, sleep) /\ Keeps(c, sleep)
    BY <1>1, <2>1, LightOK
  <2>3. StateOK(sleep)
    BY <2>1 DEF StateOK, WaitState, CarrierSenseState, CsForTx
  <2> QED
    BY <1>1, <2>1, <2>2, <2>3 DEF Quiet, NodeOK, SameButTimers, Keeps
<1> QED
  BY <1>1, <1>4, <1>5, <1>6, <1>7 DEF c, d

(* ReceiveRts                                                               *)
LEMMA ReceiveRtsOK ==
  ASSUME NEW n, NEW s, NodeOK(n, s)
  PROVE  Sends(n, s, Set([s EXCEPT !.state = "WAIT_FOR_DATA"], "TRANSMISSION_TIMEOUT"))
<1> DEFINE u == [s EXCEPT !.state = "WAIT_FOR_DATA"]
           t == Set(u, "TRANSMISSION_TIMEOUT")
<1>1. CoreOK(n, s) /\ "WAIT_FOR_DATA" \in MacState /\ Used(s) \in Nat
  BY HeadFacts DEF NodeOK, MacState, WaitState
<1>2. /\ CoreOK(n, u) /\ Used(u) = Used(s) /\ u.state = "WAIT_FOR_DATA"
      /\ u.timers = s.timers /\ u.table = s.table /\ u.pktHistory = s.pktHistory
  BY <1>1, GoOn
<1> HIDE DEF u
<1>3. /\ CoreOK(n, t) /\ Used(t) = Used(u) /\ SameButTimers(u, t)
      /\ t.timers = u.timers \cup {"TRANSMISSION_TIMEOUT"}
  BY <1>2, SetOK, SetupTimers
<1> HIDE DEF t
<1>4. StateOK(t)
  BY <1>2, <1>3 DEF StateOK, SameButTimers, WaitState, CarrierSenseState, CsForTx
<1> QED
  BY <1>1, <1>2, <1>3, <1>4 DEF Sends, NodeOK, SameButTimers, u, t

(* Overhear                                                                 *)
LEMMA OverheardByOK ==
  ASSUME NEW n, NEW s, NodeOK(n, s), NEW nav
  PROVE  Quiet(n, s, OverheardBy(s, nav))
<1> DEFINE c == IF par.collisionResolution # 2 /\ nav
                THEN Set(s, "TRANSMISSION_TIMEOUT") ELSE s
           d == Set(c, "CHECK_TA")
           t == [d EXCEPT !.state = "ACTIVE_SILENT"]
<1>0. CoreOK(n, s) /\ Used(s) \in Nat
  BY HeadFacts DEF NodeOK
<1>1. /\ CoreOK(n, c) /\ Used(c) = Used(s) /\ SameButTimers(s, c)
  <2>1. CASE par.collisionResolution # 2 /\ nav
    BY <2>1, <1>0, SetOK, SetupTimers
  <2>2. CASE ~(par.collisionResolution # 2 /\ nav)
    BY <2>2, <1>0 DEF SameButTimers
  <2> QED
    BY <2>1, <2>2
<1>2. OverheardBy(s, nav) = t
  BY DEF OverheardBy, ExtendActivePeriod
<1> HIDE DEF c
<1>3. /\ CoreOK(n, d) /\ Used(d) = Used(c) /\ SameButTimers(c, d)
      /\ d.timers = c.timers \cup {"CHECK_TA"}
  BY <1>1, SetOK, SetupTimers
<1> HIDE DEF d
<1>4. /\ CoreOK(n, t) /\ Used(t) = Used(d) /\ t.state = "ACTIVE_SILENT"
      /\ t.timers = d.timers /\ t.table = d.table /\ t.pktHistory = d.pktHistory
  <2>1. "ACTIVE_SILENT" \in MacState
    BY DEF MacState
  <2> QED
    BY <1>3, <2>1, GoOn
<1> HIDE DEF t
<1>5. StateOK(t)
  BY <1>3, <1>4 DEF StateOK, WaitState, CarrierSenseState, CsForTx
<1> QED
  BY <1>0, <1>1, <1>2, <1>3, <1>4, <1>5 DEF Quiet, NodeOK, Keeps, SameButTimers

-----------------------------------------------------------------------------
(* The buffer                                                               *)

LEMMA AppendFacts ==
  ASSUME NEW S, NEW b \in Seq(S), NEW x \in S
  PROVE  /\ Append(b, x) \in Seq(S) /\ Len(b) \in Nat /\ DOMAIN b = 1 .. Len(b)
         /\ DOMAIN Append(b, x) = 1 .. Len(b) + 1
         /\ \A i \in DOMAIN b : i \in DOMAIN Append(b, x) /\ Append(b, x)[i] = b[i]
         /\ Append(b, x)[Len(b) + 1] = x
         /\ Len(Append(b, x)) = Len(b) + 1 /\ Append(b, x) # <<>>
         /\ b # <<>> => 1 \in DOMAIN b /\ Append(b, x)[1] = b[1] /\ Len(b) >= 1
         /\ b = <<>> => Len(b) = 0 /\ Append(b, x)[1] = x
<1>1. Append(b, x) \in Seq(S) /\ Len(b) \in Nat /\ DOMAIN b = 1 .. Len(b)
  OBVIOUS
<1>2. Len(Append(b, x)) = Len(b) + 1 /\ DOMAIN Append(b, x) = 1 .. Len(b) + 1
  BY <1>1
<1>3. \A i \in 1 .. Len(b) : Append(b, x)[i] = b[i]
  BY <1>1
<1>4. Append(b, x)[Len(b) + 1] = x
  BY <1>1
<1>5. \A i \in DOMAIN b : i \in DOMAIN Append(b, x) /\ Append(b, x)[i] = b[i]
  BY <1>1, <1>2, <1>3
<1>6. Append(b, x) # <<>>
  BY <1>1, <1>2
<1>7. CASE b = <<>>
  <2>1. Len(b) = 0
    BY <1>7
  <2> QED
    BY <1>1, <1>2, <1>4, <1>5, <1>6, <1>7, <2>1
<1>8. CASE b # <<>>
  <2>1. 1 \in DOMAIN b /\ Len(b) >= 1
    BY <1>8, FirstFacts
  <2> QED
    BY <1>1, <1>2, <1>4, <1>5, <1>6, <1>8, <2>1
<1> QED
  BY <1>7, <1>8

(* fromNetworkLayer                                                         *)
LEMMA FromNetworkLayerOK ==
  ASSUME par \in Parameters, NEW n \in Node, NEW s, NodeOK(n, s),
         s.sent < Len(par.load[n])
  PROVE  LET k == s.sent + 1
             u == [s EXCEPT !.sent = k]
             t == [u EXCEPT !.buffer =
                       Append(@, [src |-> n, dst |-> par.load[n][k], sn |-> k])]
         IN  /\ Quiet(n, s, u)
             /\ Len(t.buffer) = 1 => Quiet(n, s, CheckTxBuffer(t))
             /\ Len(t.buffer) # 1 => Quiet(n, s, t)
<1> DEFINE k == s.sent + 1
           p == [src |-> n, dst |-> par.load[n][k], sn |-> k]
           b == Append(s.buffer, p)
           u == [s EXCEPT !.sent = k]
           t == [u EXCEPT !.buffer = Append(@, p)]
<1>1. /\ s \in Mac /\ s.sent \in Nat /\ s.buffer \in Seq(DataPacket) /\ CoreOK(n, s) /\ StateOK(s)
      /\ par.maxTxRetries \in Nat \ {0} /\ par.load \in [Node -> Seq(Address)]
      /\ BufferOK(n, s.buffer, s.sent)
  BY DEF NodeOK, CoreOK, Mac, Parameters, Address
<1>2. k \in Nat /\ k \in 1 .. k /\ k <= Len(par.load[n]) /\ s.sent <= k
      /\ par.load[n][k] \in Address
  <2>1. par.load[n] \in Seq(Address)
    BY <1>1
  <2>2. Len(par.load[n]) \in Nat /\ DOMAIN par.load[n] = 1 .. Len(par.load[n])
        /\ \A i \in DOMAIN par.load[n] : par.load[n][i] \in Address
    BY <2>1, SeqFacts
  <2>3. k \in Nat /\ k \in 1 .. Len(par.load[n])
    BY <1>1, <2>2
  <2> QED
    BY <1>1, <2>2, <2>3
<1>3. p \in DataPacket /\ p.src = n /\ p.sn = k /\ p.dst = par.load[n][k]
  BY <1>2 DEF DataPacket
<1> HIDE DEF p
<1>4. /\ b \in Seq(DataPacket) /\ DOMAIN s.buffer = 1 .. Len(s.buffer) /\ Len(s.buffer) \in Nat
      /\ DOMAIN b = 1 .. Len(s.buffer) + 1
      /\ \A i \in DOMAIN s.buffer : b[i] = s.buffer[i]
      /\ b[Len(s.buffer) + 1] = p
      /\ Len(b) = Len(s.buffer) + 1 /\ b # <<>>
      /\ s.buffer # <<>> => b[1] = s.buffer[1] /\ Len(b) # 1
      /\ s.buffer = <<>> => Len(b) = 1 /\ b[1] = p
  BY <1>1, <1>3, AppendFacts
<1>5. BufferOK(n, s.buffer, k)
  <2>1. \A i \in DOMAIN s.buffer : s.buffer[i].sn \in 1 .. k
    BY <1>1, <1>2 DEF BufferOK
  <2> QED
    BY <1>1, <1>2, <2>1 DEF BufferOK
<1>6. BufferOK(n, b, k)
  <2>1. ASSUME NEW i \in DOMAIN b
        PROVE  b[i].src = n /\ b[i].sn \in 1 .. k /\ b[i].dst = par.load[n][b[i].sn]
    <3>1. CASE i \in DOMAIN s.buffer
      BY <3>1, <1>4, <1>5 DEF BufferOK
    <3>2. CASE i = Len(s.buffer) + 1
      BY <3>2, <1>2, <1>3, <1>4
    <3> QED
      BY <3>1, <3>2, <1>4
  <2>2. ASSUME NEW i \in DOMAIN b, NEW j \in DOMAIN b, i < j
        PROVE  b[i].sn < b[j].sn
    <3>1. i \in DOMAIN s.buffer
      BY <2>2, <1>4
    <3>2. CASE j \in DOMAIN s.buffer
      BY <2>2, <3>1, <3>2, <1>4, <1>5 DEF BufferOK
    <3>3. CASE j = Len(s.buffer) + 1
      BY <3>1, <3>3, <1>1, <1>3, <1>4 DEF BufferOK
    <3> QED
      BY <3>2, <3>3, <1>4
  <2> HIDE DEF b
  <2> QED
    BY <2>1, <2>2, <1>2 DEF BufferOK
<1> HIDE DEF b, k
<1>7. /\ u \in Mac /\ u.timers = s.timers /\ u.state = s.state /\ u.txRetries = s.txRetries
      /\ u.buffer = s.buffer /\ u.sent = k /\ u.table = s.table /\ u.txAddr = s.txAddr
      /\ u.pktHistory = s.pktHistory
      /\ u.needResync = s.needResync /\ u.syncPacket = s.syncPacket
  BY <1>1, <1>2 DEF Mac
<1>8. Quiet(n, s, u)
  <2> HIDE DEF u
  <2>1. CoreOK(n, u)
    BY <1>1, <1>5, <1>7 DEF CoreOK, TableOK
  <2>2. StateOK(u)
    BY <1>1, <1>7 DEF StateOK
  <2>3. Used(s) <= Used(u)
    BY <1>1, <1>2, <1>7, HeadFacts DEF Used
  <2> QED
    BY <1>7, <2>1, <2>2, <2>3 DEF Quiet, NodeOK, Keeps
<1>9. /\ t \in Mac /\ t.timers = s.timers /\ t.state = s.state /\ t.txRetries = s.txRetries
      /\ t.buffer = b /\ t.sent = k /\ t.table = s.table /\ t.txAddr = s.txAddr
      /\ t.pktHistory = s.pktHistory
      /\ t.needResync = s.needResync /\ t.syncPacket = s.syncPacket
  <2>1. t = [u EXCEPT !.buffer = b]
    BY <1>7 DEF b
  <2> HIDE DEF u, t
  <2> QED
    BY <2>1, <1>4, <1>7 DEF Mac
<1> HIDE DEF u, t
<1>10. CASE s.buffer # <<>>
  <2>1. CoreOK(n, t)
    BY <1>1, <1>4, <1>6, <1>9, <1>10 DEF CoreOK, TableOK
  <2>2. StateOK(t)
    BY <1>1, <1>4, <1>9 DEF StateOK
  <2>3. Used(s) <= Used(t)
    BY <1>1, <1>4, <1>9, <1>10, HeadFacts DEF Used
  <2>4. Quiet(n, s, t) /\ Len(t.buffer) # 1
    BY <1>4, <1>9, <1>10, <2>1, <2>2, <2>3 DEF Quiet, NodeOK, Keeps
  <2> QED
    BY <1>8, <2>4 DEF u, t, p, k
<1>11. CASE s.buffer = <<>>
  <2> DEFINE v == CheckTxBuffer(t)
  <2>1. v = [t EXCEPT !.txAddr = p.dst, !.txRetries = par.maxTxRetries]
    <3>1. b # <<>> /\ Head(b) = p
      BY <1>4, <1>11, FirstFacts
    <3> QED
      BY <3>1, <1>9 DEF CheckTxBuffer
  <2> HIDE DEF v
  <2>2. v \in Mac
    <3>1. p.dst \in Address /\ par.maxTxRetries \in 0 .. par.maxTxRetries
      BY <1>1, <1>3 DEF DataPacket
    <3> QED
      BY <2>1, <3>1, <1>9 DEF Mac
  <2>3. /\ v.timers = s.timers /\ v.state = s.state
        /\ v.buffer = b /\ v.sent = k /\ v.table = s.table /\ v.txAddr = p.dst
        /\ v.pktHistory = s.pktHistory
        /\ v.needResync = s.needResync /\ v.syncPacket = s.syncPacket
    BY <2>1, <1>9 DEF Mac
  <2>4. CoreOK(n, v)
    BY <1>1, <1>4, <1>6, <1>11, <2>2, <2>3 DEF CoreOK, TableOK
  <2>5. StateOK(v)
    BY <1>1, <1>4, <1>11, <2>3 DEF StateOK
  <2>6. Used(s) <= Used(v)
    BY <1>1, <1>2, <1>3, <1>4, <1>11, <2>3 DEF Used
  <2>7. s.state # "WAIT_FOR_ACK"
    BY <1>1, <1>11 DEF StateOK
  <2>8. Quiet(n, s, v) /\ Len(t.buffer) = 1
    BY <1>4, <1>9, <1>11, <2>3, <2>4, <2>5, <2>6, <2>7 DEF Quiet, NodeOK, Keeps
  <2> QED
    BY <1>8, <2>8 DEF u, t, p, k, v
<1> QED
  BY <1>10, <1>11

-----------------------------------------------------------------------------
(* What is received                                                         *)

(* ReceiveData: the number is remembered; who answers is sending.           *)
Remembers(n, s, h, t) ==
    /\ NodeOK(n, t) /\ Used(t) = Used(s) /\ t.table = s.table
    /\ t.pktHistory = h
    /\ t.state = "WAIT_FOR_ACK" =>
          s.state = "WAIT_FOR_ACK" /\ t.txAddr = s.txAddr /\ t.buffer = s.buffer

LEMMA ReceiveDataOK ==
  ASSUME NEW n, NEW s, NodeOK(n, s), NEW h \in [Node -> Nat]
  PROVE  LET u == [s EXCEPT !.pktHistory = h]
             t == ExtendActivePeriod(Set([u EXCEPT !.state = "IN_TX"], "TRANSMISSION_TIMEOUT"))
         IN  Remembers(n, s, h, u) /\ Remembers(n, s, h, t)
<1> DEFINE u == [s EXCEPT !.pktHistory = h]
           a == [u EXCEPT !.state = "IN_TX"]
           b == Set(a, "TRANSMISSION_TIMEOUT")
           t == Set(b, "CHECK_TA")
<1>1. /\ s \in Mac /\ CoreOK(n, s) /\ StateOK(s) /\ s.pktHistory \in [Node -> Nat]
      /\ "IN_TX" \in MacState
  BY DEF NodeOK, CoreOK, Mac, MacState
<1>2. /\ u \in Mac /\ u.timers = s.timers /\ u.state = s.state /\ u.txRetries = s.txRetries
      /\ u.buffer = s.buffer /\ u.sent = s.sent /\ u.table = s.table /\ u.txAddr = s.txAddr
      /\ u.pktHistory = h
      /\ u.needResync = s.needResync /\ u.syncPacket = s.syncPacket
  BY <1>1 DEF Mac
<1> HIDE DEF u
<1>3. CoreOK(n, u) /\ StateOK(u) /\ Used(u) = Used(s)
  BY <1>1, <1>2, CoreKept DEF StateOK, Used
<1>4. /\ CoreOK(n, a) /\ Used(a) = Used(u) /\ a.state = "IN_TX"
      /\ a.timers = u.timers /\ a.table = u.table /\ a.pktHistory = u.pktHistory
  BY <1>1, <1>3, GoOn
<1> HIDE DEF a
<1>5. /\ CoreOK(n, b) /\ Used(b) = Used(a) /\ SameButTimers(a, b)
      /\ b.timers = a.timers \cup {"TRANSMISSION_TIMEOUT"}
  BY <1>4, SetOK, SetupTimers
<1> HIDE DEF b
<1>6. /\ CoreOK(n, t) /\ Used(t) = Used(b) /\ SameButTimers(b, t)
      /\ t.timers = b.timers \cup {"CHECK_TA"}
  BY <1>5, SetOK, SetupTimers
<1> HIDE DEF t
<1>7. StateOK(t)
  BY <1>4, <1>5, <1>6 DEF StateOK, SameButTimers, WaitState, CarrierSenseState, CsForTx
<1>8. Remembers(n, s, h, u) /\ Remembers(n, s, h, t)
  BY <1>2, <1>3, <1>4, <1>5, <1>6, <1>7 DEF Remembers, NodeOK, SameButTimers
<1> QED
  BY <1>8 DEF ExtendActivePeriod, u, a, b, t

(* ReceiveAck                                                               *)
LEMMA ReceiveAckOK ==
  ASSUME par \in Parameters, NEW n, NEW s, NodeOK(n, s), s.state = "WAIT_FOR_ACK"
  PROVE  LET t == ResetDefaultState(PopTxBuffer(Cancel(s, "TRANSMISSION_TIMEOUT")))
         IN  Quiet(n, s, t) /\ t.state # "WAIT_FOR_ACK"
<1> DEFINE c == Cancel(s, "TRANSMISSION_TIMEOUT")
           p == PopTxBuffer(c)
           t == ResetDefaultState(p)
<1>1. /\ CoreOK(n, c) /\ Used(c) = Used(s) /\ SameButTimers(s, c)
  BY CancelOK, SetupTimers DEF NodeOK
<1>2. c.buffer # <<>>
  BY <1>1 DEF NodeOK, StateOK, SameButTimers
<1> HIDE DEF c
<1>3. /\ CoreOK(n, p) /\ Used(c) <= Used(p)
      /\ p.table = c.table /\ p.pktHistory = c.pktHistory
  BY <1>1, <1>2, PopOK
<1> HIDE DEF p
<1>4. CoreOK(n, s) /\ p.table = s.table /\ p.pktHistory = s.pktHistory /\ Used(s) <= Used(p)
  BY <1>1, <1>3 DEF NodeOK, SameButTimers
<1>5. Quiet(n, s, t)
  BY <1>3, <1>4, ResetAfter DEF Quiet
<1>6. t.state # "WAIT_FOR_ACK"
  BY <1>3, ResetOK DEF Moved
<1> QED
  BY <1>5, <1>6 DEF c, p, t

-----------------------------------------------------------------------------
(* Schedules                                                                *)

Schedule == [id : Node, sn : SN]

(* A newer version of one schedule                                          *)
LEMMA RaiseFacts ==
  ASSUME NEW q \in Seq(Schedule), NEW i \in DOMAIN q, NEW sn \in SN
  PROVE  LET r == [q EXCEPT ![i].sn = sn]
         IN  /\ r \in Seq(Schedule) /\ DOMAIN r = DOMAIN q /\ r # <<>>
             /\ r[i] = [id |-> q[i].id, sn |-> sn]
             /\ \A j \in DOMAIN q : j # i => r[j] = q[j]
<1> DEFINE x == [id |-> q[i].id, sn |-> sn]
           r == [q EXCEPT ![i] = x]
<1>1. Len(q) \in Nat /\ DOMAIN q = 1 .. Len(q) /\ \A j \in DOMAIN q : q[j] \in Schedule
  BY SeqFacts
<1>2. x \in Schedule /\ [q EXCEPT ![i].sn = sn] = r
  <2>1. q[i] \in Schedule
    BY <1>1
  <2>2. x \in Schedule /\ [q[i] EXCEPT !.sn = sn] = x
    BY <2>1 DEF Schedule
  <2> HIDE DEF x
  <2>3. [q EXCEPT ![i].sn = sn] = [q EXCEPT ![i] = [q[i] EXCEPT !.sn = sn]]
    OBVIOUS
  <2> QED
    BY <2>2, <2>3
<1> HIDE DEF x
<1>3. /\ DOMAIN r = 1 .. Len(q) /\ r[i] = x /\ \A j \in DOMAIN q : j # i => r[j] = q[j]
      /\ r = [j \in 1 .. Len(q) |-> r[j]]
  BY <1>1
<1>4. \A j \in 1 .. Len(q) : r[j] \in Schedule
  BY <1>1, <1>2, <1>3
<1>5. r \in Seq(Schedule)
  <2> DEFINE f(j) == r[j]
  <2>1. [j \in 1 .. Len(q) |-> f(j)] \in Seq(Schedule)
    BY <1>1, <1>4
  <2> QED
    BY <2>1, <1>3
<1>6. r # <<>>
  BY <1>1, <1>3
<1> QED
  BY <1>1, <1>2, <1>3, <1>5, <1>6 DEF x

LEMMA RaiseOK ==
  ASSUME NEW n, NEW s, NodeOK(n, s), NEW i \in DOMAIN s.table, NEW sn \in SN,
         s.table[i].sn < sn,
         NEW t, t \in Mac, t.table = [s.table EXCEPT ![i].sn = sn],
         t.timers = s.timers, t.state = s.state, t.txRetries = s.txRetries,
         t.buffer = s.buffer, t.sent = s.sent, t.txAddr = s.txAddr,
         t.pktHistory = s.pktHistory, t.syncPacket = s.syncPacket
  PROVE  NodeOK(n, t) /\ Keeps(s, t)
<1>1. /\ s \in Mac /\ CoreOK(n, s) /\ StateOK(s) /\ TableOK(n, s)
      /\ s.table \in Seq(Schedule) /\ s.syncPacket \in SN \cup {None}
  BY DEF NodeOK, CoreOK, Mac, Schedule
<1>2. /\ t.table \in Seq(Schedule) /\ DOMAIN t.table = DOMAIN s.table /\ t.table # <<>>
      /\ t.table[i] = [id |-> s.table[i].id, sn |-> sn]
      /\ \A j \in DOMAIN s.table : j # i => t.table[j] = s.table[j]
  BY <1>1, RaiseFacts
<1>3. s.table # <<>> /\ 1 \in DOMAIN s.table /\ s.table[1] \in Schedule
  <2>1. s.table # <<>>
    BY <1>1, SeqFacts
  <2> QED
    BY <1>1, <2>1, FirstFacts
<1>4. t.table[1].id = s.table[1].id /\ s.table[1].sn <= t.table[1].sn /\ t.table[1].sn \in Nat
      /\ s.table[1].sn \in Nat
  BY <1>2, <1>3 DEF Schedule, SN
<1>5. TableOK(n, t)
  <2>1. t.syncPacket # None => t.syncPacket <= t.table[1].sn
    <3>1. t.syncPacket # None => t.syncPacket \in Nat /\ t.syncPacket <= s.table[1].sn
      BY <1>1 DEF TableOK, SN
    <3> QED
      BY <1>4, <3>1
  <2> QED
    BY <1>1, <1>2, <1>3, <1>4, <2>1 DEF TableOK
<1>6. CoreOK(n, t)
  BY <1>1, <1>5 DEF CoreOK
<1>7. StateOK(t)
  BY <1>1, <1>3 DEF StateOK
<1>8. Used(t) = Used(s) /\ Used(s) \in Nat
  BY <1>1, HeadFacts DEF Used
<1> QED
  BY <1>6, <1>7, <1>8 DEF NodeOK, Keeps

(* SYNC_RENEW                                                               *)
LEMMA SyncRenewOK ==
  ASSUME par \in Parameters, NEW n, NEW s, NodeOK(n, s), "SYNC_RENEW" \in s.timers,
         s.table[1].sn < par.maxSN
  PROVE  LET sn == s.table[1].sn + 1
             t == [s EXCEPT !.table[1].sn = @ + 1, !.needResync = TRUE]
         IN  /\ NodeOK(n, t) /\ Keeps(s, t)
             /\ 1 \in DOMAIN s.table /\ s.table[1].id = n /\ sn \in SN /\ s.table[1].sn < sn
             /\ t.table = [s.table EXCEPT ![1].sn = sn]
<1> DEFINE sn == s.table[1].sn + 1
           r == [s.table EXCEPT ![1].sn = sn]
           t == [s EXCEPT !.table[1].sn = @ + 1, !.needResync = TRUE]
<1>1. /\ s \in Mac /\ s.table \in Seq(Schedule) /\ TableOK(n, s)
  BY DEF NodeOK, CoreOK, Mac, Schedule
<1>2. s.table # <<>> /\ s.table[1].id = n /\ 1 \in DOMAIN s.table /\ s.table[1] \in Schedule
  BY <1>1, FirstFacts DEF TableOK
<1>3. sn \in SN /\ s.table[1].sn < sn
  BY <1>2 DEF Schedule, SN, Parameters
<1>4. r \in Seq(Schedule)
  BY <1>1, <1>2, <1>3, RaiseFacts
<1>5. t = [s EXCEPT !.table = r, !.needResync = TRUE]
  BY <1>1 DEF Mac
<1> HIDE DEF r, t
<1>6. /\ t \in Mac /\ t.timers = s.timers /\ t.state = s.state /\ t.txRetries = s.txRetries
      /\ t.buffer = s.buffer /\ t.sent = s.sent /\ t.table = r /\ t.txAddr = s.txAddr
      /\ t.pktHistory = s.pktHistory /\ t.syncPacket = s.syncPacket
  BY <1>1, <1>4, <1>5 DEF Mac, Schedule
<1>7. t.table = [s.table EXCEPT ![1].sn = sn]
  BY <1>6 DEF r
<1> HIDE DEF sn
<1>8. NodeOK(n, t) /\ Keeps(s, t)
  BY <1>2, <1>3, <1>6, <1>7, RaiseOK
<1> QED
  BY <1>2, <1>3, <1>7, <1>8 DEF t, sn

(* updateScheduleTable of a known schedule                                  *)
LEMMA ResyncedOK ==
  ASSUME NEW n, NEW s, NodeOK(n, s), NEW i \in DOMAIN s.table, NEW sn \in SN,
         NEW shift \in BOOLEAN, s.table[i].sn < sn
  PROVE  LET t == Resynced(s, i, sn, shift)
         IN  /\ NodeOK(n, t) /\ Keeps(s, t)
             /\ t.table = [s.table EXCEPT ![i].sn = sn]
<1> DEFINE r == [s.table EXCEPT ![i].sn = sn]
           u == [s EXCEPT !.table[i].sn = sn]
           v == [u EXCEPT !.shifted = shift]
           t == Resynced(s, i, sn, shift)
<1>1. /\ s \in Mac /\ s.table \in Seq(Schedule) /\ TableOK(n, s)
      /\ "FRAME_START" \in s.timers
  <2>1. /\ s \in Mac /\ s.table \in Seq(Schedule) /\ TableOK(n, s)
    BY DEF NodeOK, CoreOK, Mac, Schedule
  <2>2. s.table # <<>>
    BY <2>1, SeqFacts
  <2> QED
    BY <2>1, <2>2 DEF TableOK
<1>2. r \in Seq(Schedule) /\ s.table[i] \in Schedule
  BY <1>1, RaiseFacts, SeqFacts
<1>3. u = [s EXCEPT !.table = r]
  BY <1>1 DEF Mac
<1>4. ~(s.table[i].sn >= sn)
  BY <1>2 DEF Schedule, SN
<1>5. t = IF i = 1 THEN Set(v, "FRAME_START") ELSE u
  BY <1>4 DEF Resynced
<1> HIDE DEF r, t, u
<1>6. /\ u \in Mac /\ u.timers = s.timers /\ u.state = s.state /\ u.txRetries = s.txRetries
      /\ u.buffer = s.buffer /\ u.sent = s.sent /\ u.table = r /\ u.txAddr = s.txAddr
      /\ u.pktHistory = s.pktHistory /\ u.syncPacket = s.syncPacket
  BY <1>1, <1>2, <1>3 DEF Mac, Schedule
<1>7. /\ v \in Mac /\ v.timers = s.timers /\ v.state = s.state /\ v.txRetries = s.txRetries
      /\ v.buffer = s.buffer /\ v.sent = s.sent /\ v.table = r /\ v.txAddr = s.txAddr
      /\ v.pktHistory = s.pktHistory /\ v.syncPacket = s.syncPacket
  BY <1>6 DEF Mac
<1> HIDE DEF v
<1>8. Set(v, "FRAME_START") = v
  BY <1>1, <1>7 DEF Set, Mac
<1>9. /\ t \in Mac /\ t.timers = s.timers /\ t.state = s.state /\ t.txRetries = s.txRetries
      /\ t.buffer = s.buffer /\ t.sent = s.sent /\ t.table = r /\ t.txAddr = s.txAddr
      /\ t.pktHistory = s.pktHistory /\ t.syncPacket = s.syncPacket
  BY <1>5, <1>6, <1>7, <1>8
<1>10. t.table = [s.table EXCEPT ![i].sn = sn]
  BY <1>9 DEF r
<1>11. NodeOK(n, t) /\ Keeps(s, t)
  BY <1>9, <1>10, RaiseOK
<1> QED
  BY <1>10, <1>11 DEF t

(* updateScheduleTable of a new schedule                                    *)
LEMMA AddedOK ==
  ASSUME par \in Parameters, NEW n, NEW s, CoreOK(n, s), s.table # <<>> => StateOK(s),
         NEW id \in Node, NEW sn \in SN
  PROVE  LET t == Added(s, id, sn)
         IN  /\ NodeOK(n, t) /\ Keeps(s, t)
             /\ t.table = Append(s.table, [id |-> id, sn |-> sn])
<1> DEFINE x == [id |-> id, sn |-> sn]
           q == Append(s.table, x)
           u == [s EXCEPT !.table = Append(@, [id |-> id, sn |-> sn])]
<1>1. /\ s \in Mac /\ CoreOK(n, s) /\ TableOK(n, s)
      /\ s.table \in Seq(Schedule) /\ s.syncPacket \in SN \cup {None}
  BY DEF CoreOK, Mac, Schedule
<1>2. x \in Schedule
  BY DEF Schedule
<1> HIDE DEF x
<1>3. /\ q \in Seq(Schedule) /\ q # <<>>
      /\ s.table # <<>> => q[1] = s.table[1]
      /\ s.table = <<>> => q[1] = x
  BY <1>1, <1>2, AppendFacts
<1>4. u = [s EXCEPT !.table = q]
  BY DEF x
<1> HIDE DEF q, u
<1>5. /\ u \in Mac /\ u.timers = s.timers /\ u.state = s.state /\ u.txRetries = s.txRetries
      /\ u.buffer = s.buffer /\ u.sent = s.sent /\ u.table = q /\ u.txAddr = s.txAddr
      /\ u.pktHistory = s.pktHistory /\ u.syncPacket = s.syncPacket
      /\ u.needResync = s.needResync
  BY <1>1, <1>3, <1>4 DEF Mac, Schedule
<1>6. Used(s) \in Nat /\ Used(u) = Used(s)
  BY <1>1, <1>5, HeadFacts DEF Used
<1>7. CASE s.table # <<>>
  <2>1. TableOK(n, u)
    BY <1>1, <1>3, <1>5, <1>7 DEF TableOK
  <2>2. CoreOK(n, u) /\ StateOK(u)
    BY <1>1, <1>5, <1>7, <2>1 DEF CoreOK, StateOK
  <2>3. Keeps(s, u) /\ u.table = q
    BY <1>5, <1>6 DEF Keeps
  <2>4. Added(s, id, sn) = u
    BY <1>7 DEF Added, u
  <2> QED
    BY <2>2, <2>3, <2>4 DEF NodeOK, q, x
<1>8. CASE s.table = <<>>
  <2> DEFINE v == [u EXCEPT !.needResync = TRUE, !.primaryWakeup = TRUE]
             e == ExtendActivePeriod(v)
             w == Set(e, "FRAME_START")
             t == ResetDefaultState(w)
  <2>1. /\ v \in Mac /\ v.timers = s.timers
        /\ v.buffer = s.buffer /\ v.sent = s.sent /\ v.table = q /\ v.txAddr = s.txAddr
        /\ v.pktHistory = s.pktHistory /\ v.syncPacket = s.syncPacket
    BY <1>5 DEF Mac
  <2> HIDE DEF v
  <2>2. "CHECK_TA" \in Timer /\ "FRAME_START" \in Timer
    BY DEF Timer
  <2>3. /\ w \in Mac /\ w.timers = s.timers \cup {"CHECK_TA", "FRAME_START"}
        /\ w.buffer = s.buffer /\ w.sent = s.sent /\ w.table = q /\ w.txAddr = s.txAddr
        /\ w.pktHistory = s.pktHistory /\ w.syncPacket = s.syncPacket
    <3>1. /\ e \in Mac /\ e.timers = s.timers \cup {"CHECK_TA"}
          /\ e.buffer = s.buffer /\ e.sent = s.sent /\ e.table = q /\ e.txAddr = s.txAddr
          /\ e.pktHistory = s.pktHistory /\ e.syncPacket = s.syncPacket
      BY <2>1, <2>2 DEF ExtendActivePeriod, Set, Mac
    <3> HIDE DEF e
    <3> QED
      BY <3>1, <2>2 DEF Set, Mac
  <2> HIDE DEF e, w
  <2>4. s.syncPacket = None /\ "SYNC_RENEW" \notin s.timers
    BY <1>1, <1>8 DEF TableOK
  <2>5. TableOK(n, w)
    BY <1>3, <2>3, <2>4 DEF TableOK
  <2>6. CoreOK(n, w) /\ Used(w) = Used(s)
    BY <1>1, <2>3, <2>5 DEF CoreOK, Used
  <2>7. NodeOK(n, t) /\ Moved(w, t)
    BY <2>6, ResetOK
  <2>8. Keeps(s, t) /\ t.table = q
    BY <1>6, <2>3, <2>6, <2>7 DEF Moved, Keeps
  <2>9. Added(s, id, sn) = t
    BY <1>8 DEF Added, u, v, e, w
  <2> HIDE DEF t
  <2> QED
    BY <2>7, <2>8, <2>9 DEF q, x
<1> QED
  BY <1>7, <1>8

(* ReceiveSync.  r is q with a newer version of the schedule of id.         *)
Raises(q, r, id, sn) ==
    \E i \in DOMAIN q : /\ q[i].id = id /\ q[i].sn < sn
                        /\ r = [q EXCEPT ![i].sn = sn]

LEMMA UpdateScheduleTableOK ==
  ASSUME par \in Parameters, NEW n, NEW s, CoreOK(n, s), s.table # <<>> => StateOK(s),
         NEW id \in Node, NEW sn \in SN, NEW shift \in BOOLEAN
  PROVE  LET t == UpdateScheduleTable(s, id, sn, shift)
         IN  \/ t = s /\ s.table # <<>>
             \/ /\ NodeOK(n, t) /\ Keeps(s, t)
                /\ \/ t.table = Append(s.table, [id |-> id, sn |-> sn])
                   \/ Raises(s.table, t.table, id, sn)
<1>1. CASE Known(s, id) = {}
  BY <1>1, AddedOK DEF UpdateScheduleTable
<1>2. CASE Known(s, id) # {}
  <2> DEFINE i == CHOOSE j \in Known(s, id) : TRUE
  <2>1. i \in DOMAIN s.table /\ s.table[i].id = id
    BY <1>2 DEF Known
  <2>2. UpdateScheduleTable(s, id, sn, shift) = Resynced(s, i, sn, shift)
    BY <1>2 DEF UpdateScheduleTable
  <2> HIDE DEF i
  <2>3. s.table \in Seq(Schedule) /\ s.table # <<>>
    <3>1. s.table \in Seq(Schedule)
      BY DEF CoreOK, Mac, Schedule
    <3> QED
      BY <2>1, <3>1, SeqFacts
  <2>4. CASE s.table[i].sn < sn
    <3> DEFINE t == Resynced(s, i, sn, shift)
    <3>1. NodeOK(n, s)
      BY <2>3 DEF NodeOK
    <3>2. NodeOK(n, t) /\ Keeps(s, t) /\ t.table = [s.table EXCEPT ![i].sn = sn]
      BY <2>1, <2>4, <3>1, ResyncedOK
    <3> HIDE DEF t
    <3>3. Raises(s.table, t.table, id, sn)
      BY <2>1, <2>4, <3>2 DEF Raises
    <3> QED
      BY <2>2, <3>2, <3>3 DEF t
  <2>5. CASE ~(s.table[i].sn < sn)
    <3>1. s.table[i] \in Schedule
      BY <2>1, <2>3, SeqFacts
    <3>2. s.table[i].sn >= sn
      BY <2>5, <3>1 DEF Schedule, SN
    <3> QED
      BY <2>2, <2>3, <3>2 DEF Resynced
  <2> QED
    BY <2>4, <2>5
<1> QED
  BY <1>1, <1>2

(* SYNC_CREATE                                                              *)
LEMMA SyncCreateOK ==
  ASSUME par \in Parameters, NEW n \in Node, NEW s, NodeOK(n, s)
  PROVE  LET c == Cancel(s, "SYNC_CREATE")
             t == IF c.state = "SETUP"
                  THEN Set(UpdateScheduleTable(c, n, 0, FALSE), "SYNC_RENEW")
                  ELSE c
         IN  /\ NodeOK(n, t) /\ Keeps(s, t)
             /\ \/ t.table = s.table
                \/ s.table = <<>> /\ t.table = Append(s.table, [id |-> n, sn |-> 0])
<1> DEFINE c == Cancel(s, "SYNC_CREATE")
           a == Added(c, n, 0)
           t == Set(a, "SYNC_RENEW")
<1>1. /\ CoreOK(n, c) /\ Used(c) = Used(s) /\ SameButTimers(s, c) /\ Keeps(s, c)
      /\ c.timers = s.timers \ {"SYNC_CREATE"} /\ StateOK(s)
  BY CancelOK, SetupTimers DEF NodeOK
<1> HIDE DEF c
<1>2. CASE c.state # "SETUP"
  <2>1. StateOK(c)
    BY <1>1, <1>2 DEF StateOK, SameButTimers, WaitState, CarrierSenseState, CsForTx
  <2> QED
    BY <1>1, <1>2, <2>1 DEF NodeOK, SameButTimers, c
<1>3. CASE c.state = "SETUP"
  <2>1. c.table = <<>> /\ s.table = <<>>
    BY <1>1, <1>3 DEF StateOK, SameButTimers
  <2>2. UpdateScheduleTable(c, n, 0, FALSE) = a
    BY <2>1 DEF UpdateScheduleTable, Known
  <2>3. 0 \in SN
    BY DEF SN, Parameters
  <2>4. NodeOK(n, a) /\ Keeps(c, a) /\ a.table = Append(c.table, [id |-> n, sn |-> 0])
    BY <1>1, <2>1, <2>3, AddedOK
  <2> HIDE DEF a
  <2>5. a.table # <<>> /\ a.table[1].id = n
    <3>1. [id |-> n, sn |-> 0] \in Schedule /\ c.table \in Seq(Schedule)
      BY <2>3, <1>1 DEF Schedule, CoreOK, Mac
    <3> QED
      BY <2>1, <2>4, <3>1, AppendFacts
  <2>6. /\ t \in Mac /\ t.timers = a.timers \cup {"SYNC_RENEW"} /\ SameButTimers(a, t)
    <3>1. a \in Mac /\ "SYNC_RENEW" \in Timer
      BY <2>4 DEF NodeOK, CoreOK, Timer
    <3> QED
      BY <3>1 DEF Set, Mac, SameButTimers
  <2> HIDE DEF t
  <2>7. CoreOK(n, t) /\ StateOK(t)
    BY <2>4, <2>5, <2>6
       DEF NodeOK, CoreOK, TableOK, StateOK, SameButTimers, WaitState, CarrierSenseState, CsForTx
  <2>8. Keeps(s, t)
    <3>1. Used(t) = Used(a)
      BY <2>6 DEF Used, SameButTimers
    <3> QED
      BY <1>1, <2>4, <2>6, <3>1 DEF Keeps, SameButTimers
  <2> QED
    BY <1>3, <2>1, <2>2, <2>4, <2>6, <2>7, <2>8 DEF NodeOK, SameButTimers, t, c
<1> QED
  BY <1>2, <1>3

-----------------------------------------------------------------------------
(* From the state of one node to that of all                                *)

(* n keeps its primary schedule, in no older version, and every other entry *)
(* of its table is one it had, or one that its author vouches for.          *)
TableForward(n, s, t) ==
    /\ s.table # <<>> => /\ t.table # <<>> /\ t.table[1].id = s.table[1].id
                         /\ s.table[1].sn <= t.table[1].sn
    /\ \A i \in DOMAIN t.table :
          \/ \E j \in DOMAIN s.table : t.table[i] = s.table[j]
          \/ i = 1 /\ t.table[1].id = n
          \/ Vouched(t.table[i].id, t.table[i].sn, mac)

LEMMA TableFacts ==
  ASSUME NEW n, NEW s, CoreOK(n, s)
  PROVE  /\ s.table \in Seq(Schedule)
         /\ \A i \in DOMAIN s.table : s.table[i] \in Schedule /\ s.table[i].id \in Node
                                      /\ s.table[i].sn \in SN /\ s.table[i].sn \in Nat
         /\ s.table # <<>> => 1 \in DOMAIN s.table
<1>1. s.table \in Seq(Schedule)
  BY DEF CoreOK, Mac, Schedule
<1>2. \A i \in DOMAIN s.table : s.table[i] \in Schedule
  BY <1>1, SeqFacts
<1>3. s.table # <<>> => 1 \in DOMAIN s.table
  BY <1>1, FirstFacts
<1> QED
  BY <1>1, <1>2, <1>3 DEF Schedule, SN

LEMMA SameTable ==
  ASSUME NEW n, NEW s, NEW t, CoreOK(n, s), t.table = s.table
  PROVE  TableForward(n, s, t)
BY TableFacts DEF TableForward

LEMMA RaisedTable ==
  ASSUME NEW n, NEW s, NEW t, CoreOK(n, s), NEW i \in DOMAIN s.table, NEW sn \in SN,
         s.table[i].sn < sn, t.table = [s.table EXCEPT ![i].sn = sn],
         \/ i = 1 /\ s.table[1].id = n
         \/ Vouched(s.table[i].id, sn, mac)
  PROVE  TableForward(n, s, t)
<1>1. /\ s.table \in Seq(Schedule)
      /\ \A j \in DOMAIN s.table : s.table[j].sn \in Nat
      /\ s.table # <<>> => 1 \in DOMAIN s.table
  BY TableFacts
<1>2. /\ DOMAIN t.table = DOMAIN s.table /\ t.table # <<>>
      /\ t.table[i] = [id |-> s.table[i].id, sn |-> sn]
      /\ \A j \in DOMAIN s.table : j # i => t.table[j] = s.table[j]
  BY <1>1, RaiseFacts
<1>3. t.table[i].id = s.table[i].id /\ t.table[i].sn = sn
  BY <1>2
<1>4. /\ 1 \in DOMAIN s.table /\ s.table[1].sn \in Nat /\ sn \in Nat
      /\ t.table[1].id = s.table[1].id /\ s.table[1].sn <= t.table[1].sn
  <2>1. s.table # <<>>
    BY <1>1, SeqFacts
  <2>2. 1 \in DOMAIN s.table /\ s.table[1].sn \in Nat /\ sn \in Nat
    BY <1>1, <2>1 DEF SN
  <2> QED
    BY <1>1, <1>2, <1>3, <2>2
<1>5. ASSUME NEW j \in DOMAIN t.table
      PROVE  \/ \E k \in DOMAIN s.table : t.table[j] = s.table[k]
             \/ j = 1 /\ t.table[1].id = n
             \/ Vouched(t.table[j].id, t.table[j].sn, mac)
  <2>1. CASE j = i
    BY <1>3, <1>4, <2>1
  <2>2. CASE j # i
    BY <1>2, <1>5, <2>2
  <2> QED
    BY <2>1, <2>2
<1> QED
  BY <1>2, <1>4, <1>5 DEF TableForward

LEMMA AppendedTable ==
  ASSUME NEW n, NEW s, NEW t, CoreOK(n, s), NEW id \in Node, NEW sn \in SN,
         t.table = Append(s.table, [id |-> id, sn |-> sn]),
         \/ s.table = <<>> /\ id = n
         \/ Vouched(id, sn, mac)
  PROVE  TableForward(n, s, t)
<1> DEFINE x == [id |-> id, sn |-> sn]
<1>1. /\ s.table \in Seq(Schedule) /\ x \in Schedule /\ x.id = id /\ x.sn = sn
      /\ \A j \in DOMAIN s.table : s.table[j].sn \in Nat
      /\ s.table # <<>> => 1 \in DOMAIN s.table
  BY TableFacts DEF Schedule
<1> HIDE DEF x
<1>2. t.table = Append(s.table, x)
  BY DEF x
<1>3. /\ DOMAIN s.table = 1 .. Len(s.table) /\ Len(s.table) \in Nat /\ t.table # <<>>
      /\ DOMAIN t.table = 1 .. Len(s.table) + 1
      /\ \A i \in DOMAIN s.table : t.table[i] = s.table[i]
      /\ t.table[Len(s.table) + 1] = x
      /\ s.table # <<>> => t.table[1] = s.table[1]
      /\ s.table = <<>> => Len(s.table) = 0
  BY <1>1, <1>2, AppendFacts
<1>4. \A i \in DOMAIN t.table : i \in DOMAIN s.table \/ i = Len(s.table) + 1
  BY <1>3
<1> QED
  BY <1>1, <1>3, <1>4 DEF TableForward

LEMMA NodesNext ==
  ASSUME NodeInv, par' = par, NEW n \in Node, NEW t, NodeOK(n, t), mac' = [mac EXCEPT ![n] = t]
  PROVE  NodeInv'
<1>1. mac' \in [Node -> Mac] /\ \A k \in Node : mac'[k] = IF k = n THEN t ELSE mac[k]
  BY DEF NodeInv, NodeOK, CoreOK
<1>2. \A k \in Node : NodeOK(k, mac'[k])
  BY <1>1 DEF NodeInv
<1>3. Mac' = Mac
  BY DEF Mac, SN
<1>4. \A k \in Node : CoreOK(k, mac[k])'
  BY <1>2, <1>3 DEF NodeOK, CoreOK, BufferOK, TableOK
<1>5. \A k \in Node : StateOK(mac[k])'
  BY <1>2 DEF NodeOK, StateOK
<1> QED
  BY <1>1, <1>3, <1>4, <1>5 DEF NodeInv, NodeOK

LEMMA UsedNext ==
  ASSUME NodeInv, NEW n \in Node, NEW t, NodeOK(n, t), Used(mac[n]) <= Used(t),
         mac' = [mac EXCEPT ![n] = t], NEW k \in Node
  PROVE  Used(mac[k]) \in Nat /\ Used(mac'[k]) \in Nat /\ Used(mac[k]) <= Used(mac'[k])
<1>1. mac'[k] = IF k = n THEN t ELSE mac[k]
  BY DEF NodeInv
<1>2. Used(mac[k]) \in Nat /\ Used(t) \in Nat
  BY HeadFacts DEF NodeInv, NodeOK
<1> QED
  BY <1>1, <1>2

LEMMA VouchedNext ==
  ASSUME NodeInv, NEW n \in Node, NEW t, NodeOK(n, t), TableForward(n, mac[n], t),
         mac' = [mac EXCEPT ![n] = t],
         NEW id \in Node, NEW sn \in Nat, Vouched(id, sn, mac)
  PROVE  Vouched(id, sn, mac')
<1>1. mac'[id] = IF id = n THEN t ELSE mac[id]
  BY DEF NodeInv
<1>2. CASE id = n
  <2>1. mac[n].table # <<>> /\ mac[n].table[1].sn \in Nat /\ t.table # <<>> /\ t.table[1].sn \in Nat
    BY <1>2, TableFacts DEF NodeInv, NodeOK, Vouched, TableForward
  <2> QED
    BY <1>1, <1>2, <2>1 DEF Vouched, TableForward
<1>3. CASE id # n
  BY <1>1, <1>3 DEF Vouched
<1> QED
  BY <1>2, <1>3

LEMMA AuthorsNext ==
  ASSUME NodeInv, AuthorIsNewest, NEW n \in Node, NEW t, NodeOK(n, t),
         TableForward(n, mac[n], t), mac' = [mac EXCEPT ![n] = t]
  PROVE  AuthorIsNewest'
<1>1. \A k \in Node : mac'[k] = IF k = n THEN t ELSE mac[k]
  BY DEF NodeInv
<1>2. \A k \in Node : \A i \in DOMAIN mac[k].table :
         Vouched(mac[k].table[i].id, mac[k].table[i].sn, mac)
  BY DEF AuthorIsNewest, Vouched
<1>3. ASSUME NEW k \in Node, NEW i \in DOMAIN mac'[k].table
      PROVE  Vouched(mac'[k].table[i].id, mac'[k].table[i].sn, mac')
  <2>1. CASE k # n
    <3>1. mac'[k] = mac[k] /\ mac[k].table[i].id \in Node /\ mac[k].table[i].sn \in Nat
      BY <1>1, <1>3, <2>1, TableFacts DEF NodeInv, NodeOK
    <3> QED
      BY <1>2, <1>3, <3>1, VouchedNext
  <2>2. CASE k = n
    <3>1. mac'[k] = t /\ i \in DOMAIN t.table
      BY <1>1, <1>3, <2>2
    <3>2. t.table[i].id \in Node /\ t.table[i].sn \in Nat /\ t.table # <<>>
      <4>1. t.table[i].id \in Node /\ t.table[i].sn \in Nat /\ t.table \in Seq(Schedule)
        BY <3>1, TableFacts DEF NodeOK
      <4> QED
        BY <3>1, <4>1, SeqFacts
    <3>3. CASE Vouched(t.table[i].id, t.table[i].sn, mac)
      BY <3>1, <3>2, <3>3, VouchedNext
    <3>4. CASE \E j \in DOMAIN mac[n].table : t.table[i] = mac[n].table[j]
      <4>1. Vouched(t.table[i].id, t.table[i].sn, mac)
        BY <1>2, <3>4
      <4> QED
        BY <3>1, <3>2, <4>1, VouchedNext
    <3>5. CASE i = 1 /\ t.table[1].id = n
      BY <1>1, <3>1, <3>2, <3>5 DEF Vouched
    <3> QED
      BY <3>1, <3>3, <3>4, <3>5 DEF TableForward
  <2> QED
    BY <2>1, <2>2
<1> QED
  BY <1>3 DEF AuthorIsNewest, Vouched

LEMMA HistoryNext ==
  ASSUME NodeInv, HistoryInv, delivered \in [Node -> Seq(DataPacket)],
         NEW n \in Node, NEW t, NodeOK(n, t), Used(mac[n]) <= Used(t),
         t.pktHistory = mac[n].pktHistory, mac' = [mac EXCEPT ![n] = t],
         par' = par, delivered' = delivered
  PROVE  HistoryInv'
<1>1. \A k \in Node : mac'[k].pktHistory = mac[k].pktHistory
  BY DEF NodeInv
<1>2. \A k \in Node : Used(mac[k]) \in Nat /\ Used(mac'[k]) \in Nat /\ Used(mac[k]) <= Used(mac'[k])
  BY UsedNext
<1>3. \A j, k \in Node : mac[j].pktHistory[k] \in Nat
  BY DEF NodeInv, Mac
<1>4. \A j, k \in Node : mac'[j].pktHistory[k] <= Used(mac'[k])
  BY <1>1, <1>2, <1>3 DEF HistoryInv, HistoryOK
<1>5. \A k \in Node : Used(mac[k])' = Used(mac'[k])
  BY DEF Used
<1> QED
  BY <1>1, <1>4, <1>5 DEF HistoryInv, HistoryOK

(* What is on the air was sent before.                                      *)
LEMMA AirNext ==
  ASSUME par \in Parameters, NodeInv, AirInv, air \in [Node -> Message],
         NEW n \in Node, NEW t, NodeOK(n, t), Used(mac[n]) <= Used(t),
         t.state = "WAIT_FOR_ACK" =>
            /\ mac[n].state = "WAIT_FOR_ACK"
            /\ t.txAddr = mac[n].txAddr /\ t.buffer[1] = mac[n].buffer[1],
         TableForward(n, mac[n], t), mac' = [mac EXCEPT ![n] = t], NEW k \in Node
  PROVE  AirOK(k, air[k], mac', delivered)
<1> DEFINE m == air[k]
<1>1. \A j \in Node : mac'[j] = IF j = n THEN t ELSE mac[j]
  BY DEF NodeInv
<1>2. SUFFICES ASSUME m # None
      PROVE  /\ m.src # k
             /\ m.type = "DATA" => DataOK(m, mac')
             /\ m.type = "ACK" /\ m.dst = k => AckOK(k, m, mac', delivered)
             /\ m.type = "SYNC" => Vouched(m.id, m.sn, mac')
  BY DEF AirOK
<1>3. /\ m \in Message \ {None} /\ m.src \in Node
      /\ m.src # k
      /\ m.type = "DATA" => DataOK(m, mac) /\ m.sn \in Nat
      /\ m.type = "ACK" /\ m.dst = k => AckOK(k, m, mac, delivered)
      /\ m.type = "SYNC" => Vouched(m.id, m.sn, mac) /\ m.id \in Node /\ m.sn \in Nat
  <2>1. m \in Message \ {None} /\ AirOK(k, m, mac, delivered)
    BY <1>2 DEF AirInv
  <2>2. /\ m.src \in Node /\ (m.type = "DATA" => m.sn \in Nat)
        /\ m.type = "SYNC" => m.id \in Node /\ m.sn \in Nat
    BY <2>1 DEF Message, SN
  <2> QED
    BY <1>2, <2>1, <2>2 DEF AirOK
<1> HIDE DEF m
<1>4. m.type = "DATA" => DataOK(m, mac')
  <2> SUFFICES ASSUME m.type = "DATA"  PROVE  DataOK(m, mac')
    OBVIOUS
  <2>1. /\ Used(mac[m.src]) \in Nat /\ Used(mac'[m.src]) \in Nat
        /\ Used(mac[m.src]) <= Used(mac'[m.src])
    BY <1>3, UsedNext
  <2>2. mac'[m.src].state = "WAIT_FOR_ACK" => m.sn = mac'[m.src].buffer[1].sn
    BY <1>1, <1>3 DEF DataOK
  <2> QED
    BY <1>3, <2>1, <2>2 DEF DataOK
<1>5. m.type = "ACK" /\ m.dst = k => AckOK(k, m, mac', delivered)
  BY <1>1, <1>3 DEF AckOK
<1>6. m.type = "SYNC" => Vouched(m.id, m.sn, mac')
  BY <1>3, VouchedNext
<1> QED
  BY <1>3, <1>4, <1>5, <1>6

(* A step of one node in which nothing is sent                              *)
LEMMA QuietStepOK ==
  ASSUME IInv, par' = par, NEW n \in Node, NEW t, NodeOK(n, t), Keeps(mac[n], t),
         TableForward(n, mac[n], t), mac' = [mac EXCEPT ![n] = t],
         air' \in [Node -> Message], \A k \in Node : air'[k] \in {air[k], None},
         delivered' = delivered,
         acked' \in SUBSET DataPacket, AckedInv'
  PROVE  IInv'
<1>1. /\ par \in Settings /\ par \in Parameters /\ NodeInv /\ AirInv /\ HistoryInv
      /\ AuthorIsNewest /\ air \in [Node -> Message] /\ delivered \in [Node -> Seq(DataPacket)]
  BY TMacAssumption DEF IInv, TypeOK
<1>2. NodeInv'
  BY <1>1, NodesNext
<1>3. HistoryInv'
  BY <1>1, HistoryNext DEF Keeps
<1>4. AuthorIsNewest'
  BY <1>1, AuthorsNext
<1>5. AirInv'
  <2>1. \A k \in Node : AirOK(k, air[k], mac', delivered)
    BY <1>1, AirNext DEF Keeps
  <2>2. \A k \in Node : AirOK(k, air'[k], mac', delivered)
    BY <2>1 DEF AirOK
  <2> QED
    BY <2>2 DEF AirInv, AirOK, DataOK, AckOK, Vouched, Used
<1>6. TypeOK'
  <2>1. Message' = Message
    BY DEF Message, SN
  <2> QED
    BY <1>1, <1>2, <2>1 DEF TypeOK, NodeInv
<1>7. DeliveredOnceInOrder'
  BY DEF IInv, DeliveredOnceInOrder
<1> QED
  BY <1>2, <1>3, <1>4, <1>5, <1>6, <1>7 DEF IInv

(* A step of n in which it sends a packet that is no acknowledgement        *)
LEMMA SendStepOK ==
  ASSUME IInv, par' = par, NEW n \in Node, NEW t, Sends(n, mac[n], t),
         mac' = [mac EXCEPT ![n] = t],
         NEW m \in Message, m.src = n, m.type # "ACK", Transmit(n, m),
         m.type = "DATA" => DataOK(m, mac'),
         m.type = "SYNC" => m.id \in Node /\ m.sn \in Nat /\ Vouched(m.id, m.sn, mac),
         UNCHANGED <<delivered, acked>>
  PROVE  IInv'
<1>1. /\ par \in Settings /\ par \in Parameters /\ NodeInv /\ AirInv /\ HistoryInv
      /\ AuthorIsNewest /\ air \in [Node -> Message] /\ delivered \in [Node -> Seq(DataPacket)]
      /\ NodeOK(n, t) /\ NodeOK(n, mac[n])
  BY TMacAssumption DEF IInv, TypeOK, Sends, NodeInv
<1>2. NodeInv'
  BY <1>1, NodesNext
<1>3. HistoryInv'
  BY <1>1, HistoryNext DEF Sends
<1>4. TableForward(n, mac[n], t)
  BY <1>1, SameTable DEF Sends, NodeOK
<1>5. AuthorIsNewest'
  BY <1>1, <1>4, AuthorsNext
<1>6. /\ air' \in [Node -> Message]
      /\ \A k \in Node : air'[k] = None \/ (air'[k] = m /\ k # n)
  BY DEF Transmit, Heard, Message
<1>7. m.type = "SYNC" => Vouched(m.id, m.sn, mac')
  BY <1>1, <1>4, VouchedNext
<1>8. AirInv'
  <2>1. \A k \in Node : AirOK(k, air'[k], mac', delivered)
    BY <1>6, <1>7 DEF AirOK
  <2> QED
    BY <2>1 DEF AirInv, AirOK, DataOK, AckOK, Vouched, Used
<1>9. TypeOK'
  <2>1. Message' = Message
    BY DEF Message, SN
  <2> QED
    BY <1>1, <1>2, <1>6, <2>1 DEF IInv, TypeOK, NodeInv
<1>10. DeliveredOnceInOrder' /\ AckedInv'
  BY DEF IInv, DeliveredOnceInOrder, AckedInv, AckedWasDelivered
<1> QED
  BY <1>2, <1>3, <1>5, <1>8, <1>9, <1>10 DEF IInv

-----------------------------------------------------------------------------
(* The steps of one node                                                    *)

(* A step in which a node sends nothing, and may take what is on its way to *)
(* it                                                                       *)
LEMMA TakeStepOK ==
  ASSUME IInv, par' = par, NEW n \in Node, NEW t, NodeOK(n, t), Keeps(mac[n], t),
         TableForward(n, mac[n], t), mac' = [mac EXCEPT ![n] = t],
         air' = Heard(air) \/ air' = Heard([air EXCEPT ![n] = None]),
         UNCHANGED <<delivered, acked>>
  PROVE  IInv'
<1>1. air \in [Node -> Message] /\ None \in Message /\ acked \in SUBSET DataPacket
  BY DEF IInv, TypeOK, Message
<1>2. air' \in [Node -> Message] /\ \A k \in Node : air'[k] \in {air[k], None}
  BY <1>1 DEF Heard
<1>3. AckedInv'
  BY DEF IInv, AckedInv, AckedWasDelivered
<1> QED
  BY <1>1, <1>2, <1>3, QuietStepOK

LEMMA QuietlyOK ==
  ASSUME IInv, par' = par, NEW n \in Node, NEW t, Quiet(n, mac[n], t), Quietly(n, t)
  PROVE  IInv'
<1>1. TableForward(n, mac[n], t)
  BY SameTable DEF Quiet, IInv, NodeInv, NodeOK
<1> QED
  BY <1>1, TakeStepOK DEF Quiet, Quietly

LEMMA ReceivedOK ==
  ASSUME IInv, par' = par, NEW n \in Node, NEW t, Quiet(n, mac[n], t), Received(n, t),
         UNCHANGED <<delivered, acked>>
  PROVE  IInv'
<1>1. TableForward(n, mac[n], t)
  BY SameTable DEF Quiet, IInv, NodeInv, NodeOK
<1> QED
  BY <1>1, TakeStepOK DEF Quiet, Received

LEMMA IInvFacts ==
  ASSUME IInv
  PROVE  /\ par \in Settings /\ par \in Parameters
         /\ air \in [Node -> Message] /\ delivered \in [Node -> Seq(DataPacket)]
         /\ acked \in SUBSET DataPacket /\ mac \in [Node -> Mac]
         /\ \A n \in Node : NodeOK(n, mac[n]) /\ CoreOK(n, mac[n]) /\ mac[n] \in Mac
BY TMacAssumption DEF IInv, TypeOK, NodeInv, NodeOK, CoreOK

(* A node as it is does nothing new.                                        *)
LEMMA StayOK ==
  ASSUME NEW n, NEW s, NodeOK(n, s)
  PROVE  Quiet(n, s, s)
BY HeadFacts DEF NodeOK, Quiet, Keeps

(* The timers of the protocol, CARRIER_SENSE_INTERRUPT and fromNetworkLayer *)
LEMMA TimerStepsOK ==
  ASSUME IInv, par' = par, NEW n \in Node,
         \/ SyncSetup(n) \/ FrameStart(n) \/ (\E id \in Node : WakeupSilent(n, id))
         \/ CheckTA(n) \/ TransmissionTimeout(n) \/ CarrierSenseInVain(n)
         \/ CarrierSenseInterrupt(n) \/ FromNetworkLayer(n)
  PROVE  IInv'
<1> DEFINE s == mac[n]
<1>1. par \in Parameters /\ NodeOK(n, s)
  BY IInvFacts
<1>2. CASE SyncSetup(n)
  BY <1>1, <1>2, SyncSetupOK, QuietlyOK DEF SyncSetup
<1>3. CASE FrameStart(n)
  BY <1>1, <1>3, FrameStartOK, QuietlyOK DEF FrameStart, Fires
<1>4. CASE \E id \in Node : WakeupSilent(n, id)
  BY <1>1, <1>4, WakeupSilentOK, QuietlyOK DEF WakeupSilent
<1>5. CASE CheckTA(n)
  BY <1>1, <1>5, CheckTAOK, QuietlyOK DEF CheckTA
<1>6. CASE TransmissionTimeout(n)
  BY <1>1, <1>6, TransmissionTimeoutOK, QuietlyOK DEF TransmissionTimeout
<1>7. CASE CarrierSenseInVain(n)
  BY <1>1, <1>7, SenseInVainOK, QuietlyOK DEF CarrierSenseInVain
<1>8. CASE CarrierSenseInterrupt(n)
  BY <1>1, <1>8, CarrierIsBusyOK, QuietlyOK DEF CarrierSenseInterrupt
<1>9. CASE FromNetworkLayer(n)
  <2> DEFINE k == s.sent + 1
             u == [s EXCEPT !.sent = k]
             t == [u EXCEPT !.buffer = Append(@, [src |-> n, dst |-> par.load[n][k], sn |-> k])]
             x == IF Len(u.buffer) >= par.macBufferSize THEN u
                  ELSE IF Len(t.buffer) = 1 THEN CheckTxBuffer(t) ELSE t
  <2>1. Quietly(n, x) /\ s.sent < Len(par.load[n])
    BY <1>9 DEF FromNetworkLayer
  <2>2. /\ Quiet(n, s, u)
        /\ Len(t.buffer) = 1 => Quiet(n, s, CheckTxBuffer(t))
        /\ Len(t.buffer) # 1 => Quiet(n, s, t)
    BY <1>1, <2>1, FromNetworkLayerOK
  <2> HIDE DEF t, u
  <2>3. Quiet(n, s, x)
    BY <2>2
  <2> HIDE DEF x
  <2> QED
    BY <2>1, <2>3, QuietlyOK
<1> QED
  BY <1>2, <1>3, <1>4, <1>5, <1>6, <1>7, <1>8, <1>9

(* What has arrived at a node                                               *)
LEMMA ArrivedFacts ==
  ASSUME IInv, NEW n \in Node, air[n] # None
  PROVE  /\ air[n] \in Message \ {None} /\ AirOK(n, air[n], mac, delivered)
         /\ air[n].src \in Node \ {n}
         /\ air[n].type \in {"RTS", "CTS", "ACK"} => air[n].dst \in Node \cup Off
         /\ air[n].type = "DATA" => air[n].dst \in Address /\ air[n].sn \in Nat
         /\ air[n].type = "SYNC" => air[n].id \in Node /\ air[n].sn \in SN
<1>1. air[n] \in Message \ {None} /\ AirOK(n, air[n], mac, delivered)
  BY IInvFacts DEF IInv, AirInv
<1>2. /\ air[n].src \in Node
      /\ air[n].type \in {"RTS", "CTS", "ACK"} => air[n].dst \in Node \cup Off
      /\ air[n].type = "DATA" => air[n].dst \in Address /\ air[n].sn \in Nat
      /\ air[n].type = "SYNC" => air[n].id \in Node /\ air[n].sn \in SN
  BY <1>1 DEF Message
<1> QED
  BY <1>1, <1>2 DEF AirOK

(* Schedules are made, renewed and heard of.                                *)
LEMMA SyncCreateStep ==
  ASSUME IInv, par' = par, NEW n \in Node, SyncCreate(n)
  PROVE  IInv'
<1> DEFINE s == mac[n]
           c == Cancel(s, "SYNC_CREATE")
           t == IF c.state = "SETUP"
                THEN Set(UpdateScheduleTable(c, n, 0, FALSE), "SYNC_RENEW")
                ELSE c
<1>1. par \in Parameters /\ NodeOK(n, s) /\ CoreOK(n, s)
  BY IInvFacts
<1>2. Quietly(n, t)
  BY DEF SyncCreate
<1>3. /\ NodeOK(n, t) /\ Keeps(s, t)
      /\ \/ t.table = s.table
         \/ s.table = <<>> /\ t.table = Append(s.table, [id |-> n, sn |-> 0])
  BY <1>1, SyncCreateOK
<1> HIDE DEF t, c
<1>4. 0 \in SN
  BY <1>1 DEF SN, Parameters
<1>5. TableForward(n, s, t)
  BY <1>1, <1>3, <1>4, SameTable, AppendedTable
<1> QED
  BY <1>2, <1>3, <1>5, TakeStepOK DEF Quietly

LEMMA SyncRenewStep ==
  ASSUME IInv, par' = par, NEW n \in Node, SyncRenew(n)
  PROVE  IInv'
<1> DEFINE s == mac[n]
           sn == s.table[1].sn + 1
           t == [s EXCEPT !.table[1].sn = @ + 1, !.needResync = TRUE]
<1>1. par \in Parameters /\ NodeOK(n, s) /\ CoreOK(n, s)
  BY IInvFacts
<1>2. Quietly(n, t) /\ "SYNC_RENEW" \in s.timers /\ s.table[1].sn < par.maxSN
  BY DEF SyncRenew, Fires
<1>3. /\ NodeOK(n, t) /\ Keeps(s, t)
      /\ 1 \in DOMAIN s.table /\ s.table[1].id = n /\ sn \in SN /\ s.table[1].sn < sn
      /\ t.table = [s.table EXCEPT ![1].sn = sn]
  BY <1>1, <1>2, SyncRenewOK
<1> HIDE DEF t, sn
<1>4. TableForward(n, s, t)
  BY <1>1, <1>3, RaisedTable
<1> QED
  BY <1>2, <1>3, <1>4, TakeStepOK DEF Quietly

LEMMA ReceiveSyncStep ==
  ASSUME IInv, par' = par, NEW n \in Node, ReceiveSync(n)
  PROVE  IInv'
<1> DEFINE s == mac[n]
           m == air[n]
<1>1. par \in Parameters /\ NodeOK(n, s) /\ CoreOK(n, s) /\ StateOK(s)
  BY IInvFacts DEF NodeOK
<1>2. m.id \in Node /\ m.sn \in SN /\ Vouched(m.id, m.sn, mac)
  BY ArrivedFacts DEF ReceiveSync, Arrives, AirOK
<1>3. PICK shift \in BOOLEAN : Received(n, UpdateScheduleTable(s, m.id, m.sn, shift))
  BY DEF ReceiveSync
<1> HIDE DEF s, m
<1> DEFINE t == UpdateScheduleTable(s, m.id, m.sn, shift)
<1>4. \/ t = s /\ s.table # <<>>
      \/ /\ NodeOK(n, t) /\ Keeps(s, t)
         /\ \/ t.table = Append(s.table, [id |-> m.id, sn |-> m.sn])
            \/ Raises(s.table, t.table, m.id, m.sn)
  BY <1>1, <1>2, UpdateScheduleTableOK
<1>5. Received(n, t) /\ UNCHANGED <<delivered, acked>>
  BY <1>3 DEF ReceiveSync
<1> HIDE DEF t
<1>6. CASE t = s
  BY <1>1, <1>5, <1>6, StayOK, ReceivedOK DEF s
<1>7. CASE /\ NodeOK(n, t) /\ Keeps(s, t)
           /\ \/ t.table = Append(s.table, [id |-> m.id, sn |-> m.sn])
              \/ Raises(s.table, t.table, m.id, m.sn)
  <2>1. ASSUME Raises(s.table, t.table, m.id, m.sn)  PROVE  TableForward(n, s, t)
    <3>1. PICK i \in DOMAIN s.table : /\ s.table[i].id = m.id /\ s.table[i].sn < m.sn
                                      /\ t.table = [s.table EXCEPT ![i].sn = m.sn]
      BY <2>1 DEF Raises
    <3> QED
      BY <1>1, <1>2, <3>1, RaisedTable
  <2>2. TableForward(n, s, t)
    BY <1>1, <1>2, <1>7, <2>1, AppendedTable
  <2> QED
    BY <1>5, <1>7, <2>2, TakeStepOK DEF Received, s
<1> QED
  BY <1>4, <1>6, <1>7

LEMMA OverhearStep ==
  ASSUME IInv, par' = par, NEW n \in Node, Overhear(n)
  PROVE  IInv'
<1>1. NodeOK(n, mac[n])
  BY IInvFacts
<1> QED
  BY <1>1, OverheardByOK, ReceivedOK DEF Overhear

(* An ACK: the packet acknowledged is at the head of the buffer.            *)
LEMMA ReceiveAckStep ==
  ASSUME IInv, par' = par, NEW n \in Node, ReceiveAck(n)
  PROVE  IInv'
<1> DEFINE s == mac[n]
           m == air[n]
           t == ResetDefaultState(PopTxBuffer(Cancel(s, "TRANSMISSION_TIMEOUT")))
<1>1. par \in Parameters /\ NodeOK(n, s) /\ CoreOK(n, s)
  BY IInvFacts
<1>2. CASE ~IsAwaitedAck(s, m.src)
  <2>1. Received(n, s) /\ UNCHANGED <<delivered, acked>>
    BY <1>2 DEF ReceiveAck
  <2> QED
    BY <1>1, <2>1, StayOK, ReceivedOK
<1>3. CASE IsAwaitedAck(s, m.src)
  <2>1. /\ Received(n, t) /\ acked' = acked \cup {Head(s.buffer)} /\ delivered' = delivered
        /\ m # None /\ m.type = "ACK" /\ m.dst \in {n, Broadcast}
    BY <1>3 DEF ReceiveAck, Arrives
  <2>2. s.state = "WAIT_FOR_ACK" /\ s.txAddr = m.src
    BY <1>3 DEF IsAwaitedAck
  <2>3. Quiet(n, s, t) /\ TableForward(n, s, t)
    BY <1>1, <2>2, ReceiveAckOK, SameTable DEF Quiet
  <2>4. m.dst = n /\ m.src \in Node
    BY <2>1, ArrivedFacts, TMacAssumption
  <2>5. PICK i \in DOMAIN delivered[m.src] : delivered[m.src][i] = s.buffer[1]
    BY <2>1, <2>2, <2>4, ArrivedFacts DEF AirOK, AckOK
  <2>6. /\ Head(s.buffer) = s.buffer[1] /\ s.buffer[1] \in DataPacket
        /\ s.buffer[1].dst = m.src
    BY <1>1, <2>2, HeadFacts DEF NodeOK, CoreOK, StateOK
  <2> HIDE DEF t, s, m
  <2>7. AckedInv'
    BY <2>1, <2>4, <2>5, <2>6 DEF AckedInv, AckedWasDelivered, IInv
  <2>8. air' = Heard([air EXCEPT ![n] = None]) /\ mac' = [mac EXCEPT ![n] = t]
    BY <2>1 DEF Received
  <2>9. air' \in [Node -> Message] /\ \A k \in Node : air'[k] \in {air[k], None}
    BY <2>8, IInvFacts DEF Heard, Message
  <2>10. acked' \in SUBSET DataPacket
    BY <2>1, <2>6, IInvFacts
  <2> QED
    BY <2>1, <2>3, <2>7, <2>8, <2>9, <2>10, QuietStepOK DEF Quiet, s
<1> QED
  BY <1>2, <1>3

(* sendDataPacket: the packet at the head of the buffer goes on the air.    *)
LEMMA DataStepOK ==
  ASSUME IInv, par' = par, NEW n \in Node, NEW t, Sends(n, mac[n], t),
         mac' = [mac EXCEPT ![n] = t], mac[n].buffer # <<>>,
         Transmit(n, Data(Head(mac[n].buffer))), UNCHANGED <<delivered, acked>>
  PROVE  IInv'
<1> DEFINE s == mac[n]
           m == Data(Head(s.buffer))
<1>1. NodeOK(n, s) /\ CoreOK(n, s) /\ mac \in [Node -> Mac]
  BY IInvFacts
<1>2. /\ 1 \in DOMAIN s.buffer /\ s.buffer[1] \in DataPacket /\ Head(s.buffer) = s.buffer[1]
      /\ Used(s) = s.buffer[1].sn /\ s.sent \in Nat
  BY <1>1, HeadFacts
<1>3. /\ s.buffer[1].src = n /\ s.buffer[1].sn \in 1 .. s.sent
      /\ s.buffer[1].dst = par.load[n][s.buffer[1].sn] /\ s.sent <= Len(par.load[n])
  BY <1>1, <1>2 DEF CoreOK, BufferOK
<1>4. /\ m.type = "DATA" /\ m.src = n /\ m.sn = s.buffer[1].sn /\ m.dst = s.buffer[1].dst
      /\ m \in Message
  BY <1>2, <1>3 DEF Data, Message, DataPacket
<1> HIDE DEF m
<1>5. DataOK(m, mac')
  <2>1. mac'[n] = t /\ NodeOK(n, t) /\ Used(s) <= Used(t)
        /\ (t.state = "WAIT_FOR_ACK" => t.buffer[1] = s.buffer[1])
    BY <1>1 DEF Sends
  <2>2. Used(t) \in Nat
    BY <2>1, HeadFacts DEF NodeOK
  <2>3. Len(par.load[n]) \in Nat
    BY IInvFacts DEF Parameters
  <2> QED
    BY <1>2, <1>3, <1>4, <2>1, <2>2, <2>3 DEF DataOK
<1> QED
  BY <1>4, <1>5, SendStepOK DEF m

(* A step that sends a packet for one node that is neither DATA nor ACK     *)
LEMMA ControlStepOK ==
  ASSUME IInv, par' = par, NEW n \in Node, NEW t, Sends(n, mac[n], t),
         mac' = [mac EXCEPT ![n] = t],
         NEW m \in Message, m.src = n, m.type \in {"RTS", "CTS"}, Transmit(n, m),
         UNCHANGED <<delivered, acked>>
  PROVE  IInv'
BY SendStepOK

LEMMA CarrierSenseClearStep ==
  ASSUME IInv, par' = par, NEW n \in Node, CarrierSenseClear(n)
  PROVE  IInv'
<1> DEFINE s == mac[n]
           c == Cancel(s, "CARRIER_SENSE")
           sending == Set(c, "TRANSMISSION_TIMEOUT")
           tRts == [sending EXCEPT !.state = "WAIT_FOR_CTS", !.txRetries = @ - 1]
           tSync == [sending EXCEPT !.state = "IN_TX", !.needResync = FALSE,
                                    !.syncPacket = None]
           tSleep == [c EXCEPT !.primaryWakeup = FALSE, !.state = "SLEEP"]
           mSync == Sync(n, [c.table[1] EXCEPT !.sn = c.syncPacket])
<1>1. par \in Parameters /\ NodeOK(n, s) /\ CoreOK(n, s) /\ StateOK(s) /\ s \in Mac
  BY IInvFacts DEF NodeOK
<1>2. /\ SameButTimers(s, c)
      /\ s.state = "CS_FOR_TX_RTS" => Sends(n, s, tRts)
      /\ s.state = "CS_FOR_TX_SYNC" => Sends(n, s, tSync)
      /\ s.state = "CS_FOR_TX_DATA" => Sends(n, s, DataSent(c))
      /\ s.state = "CS_BEFORE_SLEEP" => Quiet(n, s, tSleep)
  BY <1>1, SenseClearOK
<1>3. /\ \/ c.state = "CS_FOR_TX_RTS" /\ mac' = [mac EXCEPT ![n] = tRts]
                                      /\ Transmit(n, Rts(n, c.txAddr))
         \/ c.state = "CS_FOR_TX_SYNC" /\ mac' = [mac EXCEPT ![n] = tSync]
                                       /\ Transmit(n, mSync)
         \/ c.state = "CS_FOR_TX_DATA" /\ mac' = [mac EXCEPT ![n] = DataSent(c)]
                                       /\ Transmit(n, Data(Head(c.buffer)))
         \/ c.state = "CS_BEFORE_SLEEP" /\ mac' = [mac EXCEPT ![n] = tSleep]
                                        /\ air' = Heard(air)
      /\ UNCHANGED <<delivered, acked>>
  BY DEF CarrierSenseClear
<1>4. /\ c.state = s.state /\ c.txAddr = s.txAddr /\ c.table = s.table
      /\ c.syncPacket = s.syncPacket /\ c.buffer = s.buffer
  BY <1>2 DEF SameButTimers
<1> HIDE DEF c, tRts, tSync, tSleep
<1>5. CASE s.state = "CS_FOR_TX_RTS"
  <2>1. s.buffer # <<>> /\ s.txAddr # Broadcast /\ s.txAddr = s.buffer[1].dst
    BY <1>1, <1>5 DEF StateOK, CoreOK
  <2>2. s.buffer[1] \in DataPacket
    BY <1>1, <2>1, HeadFacts
  <2>3. s.txAddr \in Node \cup Off
    BY <2>1, <2>2 DEF DataPacket, Address
  <2>4. Rts(n, s.txAddr) \in Message /\ Rts(n, s.txAddr).src = n /\ Rts(n, s.txAddr).type = "RTS"
    BY <2>3 DEF Rts, Message
  <2> QED
    BY <1>2, <1>3, <1>4, <1>5, <2>4, ControlStepOK
<1>6. CASE s.state = "CS_FOR_TX_SYNC"
  <2>1. s.syncPacket \in SN /\ s.table # <<>> /\ s.syncPacket <= s.table[1].sn
    BY <1>1, <1>6 DEF StateOK, CoreOK, TableOK, Mac
  <2>2. /\ 1 \in DOMAIN s.table /\ s.table[1] \in Schedule /\ s.table[1].id \in Node
        /\ s.table[1].sn \in Nat /\ s.syncPacket \in Nat
    BY <1>1, <2>1, TableFacts DEF SN
  <2>3. /\ mSync.type = "SYNC" /\ mSync.src = n /\ mSync.id = s.table[1].id
        /\ mSync.sn = s.syncPacket /\ mSync \in Message
    BY <1>4, <2>1, <2>2 DEF Sync, Message, Schedule
  <2>4. Vouched(s.table[1].id, s.table[1].sn, mac)
    BY <2>2 DEF IInv, AuthorIsNewest, Vouched
  <2>5. 1 \in DOMAIN mac[s.table[1].id].table
        /\ mac[s.table[1].id].table[1].sn \in Nat
    BY <2>2, <2>4, IInvFacts, TableFacts DEF Vouched
  <2>6. Vouched(s.table[1].id, s.syncPacket, mac)
    BY <2>1, <2>2, <2>4, <2>5 DEF Vouched
  <2> HIDE DEF mSync
  <2>7. /\ mac' = [mac EXCEPT ![n] = tSync] /\ Transmit(n, mSync)
        /\ UNCHANGED <<delivered, acked>> /\ Sends(n, s, tSync)
    BY <1>2, <1>3, <1>4, <1>6
  <2>8. mSync.id \in Node /\ mSync.sn \in Nat /\ Vouched(mSync.id, mSync.sn, mac)
    BY <2>2, <2>3, <2>6
  <2> QED
    BY <2>3, <2>7, <2>8, SendStepOK
<1>7. CASE s.state = "CS_FOR_TX_DATA"
  <2>1. s.buffer # <<>>
    BY <1>1, <1>7 DEF StateOK
  <2> QED
    BY <1>2, <1>3, <1>4, <1>7, <2>1, DataStepOK
<1>8. CASE s.state = "CS_BEFORE_SLEEP"
  <2>1. Quietly(n, tSleep)
    BY <1>3, <1>4, <1>8 DEF Quietly
  <2> QED
    BY <1>2, <1>8, <2>1, QuietlyOK
<1> QED
  BY <1>3, <1>4, <1>5, <1>6, <1>7, <1>8

LEMMA ReceiveRtsStep ==
  ASSUME IInv, par' = par, NEW n \in Node, ReceiveRts(n)
  PROVE  IInv'
<1> DEFINE s == mac[n]
           t == Set([s EXCEPT !.state = "WAIT_FOR_DATA"], "TRANSMISSION_TIMEOUT")
           m == Cts(n, air[n].src)
<1>1. NodeOK(n, s) /\ air[n].src \in Node
  BY IInvFacts, ArrivedFacts DEF ReceiveRts, Arrives
<1>2. mac' = [mac EXCEPT ![n] = t] /\ Transmit(n, m) /\ UNCHANGED <<delivered, acked>>
  BY DEF ReceiveRts
<1>3. Sends(n, s, t)
  BY <1>1, ReceiveRtsOK
<1>4. m \in Message /\ m.src = n /\ m.type = "CTS"
  BY <1>1 DEF Cts, Message
<1> HIDE DEF t, m
<1> QED
  BY <1>2, <1>3, <1>4, ControlStepOK

LEMMA ReceiveCtsStep ==
  ASSUME IInv, par' = par, NEW n \in Node, ReceiveCts(n)
  PROVE  IInv'
<1> DEFINE s == mac[n]
<1>1. par \in Parameters /\ NodeOK(n, s) /\ CoreOK(n, s) /\ StateOK(s)
  BY IInvFacts DEF NodeOK
<1>2. UNCHANGED <<delivered, acked>>
  BY DEF ReceiveCts
<1>3. CASE s.state = "WAIT_FOR_CTS" /\ air[n].src = s.txAddr
  <2>1. mac' = [mac EXCEPT ![n] = DataSent(s)] /\ Transmit(n, Data(Head(s.buffer)))
    BY <1>3 DEF ReceiveCts
  <2>2. s.buffer # <<>> /\ par.useRtsCts
    BY <1>1, <1>3 DEF StateOK
  <2>3. Sends(n, s, DataSent(s))
    BY <1>1, <2>2, DataSentOK
  <2> QED
    BY <1>2, <2>1, <2>2, <2>3, DataStepOK
<1>4. CASE ~(s.state = "WAIT_FOR_CTS" /\ air[n].src = s.txAddr)
  <2> DEFINE t == IF s.state = "WAIT_FOR_CTS" THEN ResetDefaultState(s) ELSE s
  <2>1. Received(n, t)
    BY <1>4 DEF ReceiveCts
  <2>2. Quiet(n, s, ResetDefaultState(s)) /\ Quiet(n, s, s)
    BY <1>1, StayOK, ResetAfter, HeadFacts DEF Quiet
  <2>3. Quiet(n, s, t)
    BY <2>2
  <2> HIDE DEF t
  <2> QED
    BY <1>2, <2>1, <2>3, ReceivedOK
<1> QED
  BY <1>3, <1>4

-----------------------------------------------------------------------------
(* ReceiveData: a packet is delivered, and acknowledged                     *)

(* What a node has delivered stays delivered.                               *)
Grows(d, e) ==
    \A k \in Node : \A i \in DOMAIN d[k] : i \in DOMAIN e[k] /\ e[k][i] = d[k][i]

LEMMA AirGrows ==
  ASSUME NEW k \in Node, NEW pkt, NEW m, NEW d, NEW e,
         pkt \in Message, AirOK(k, pkt, m, d), Grows(d, e)
  PROVE  AirOK(k, pkt, m, e)
<1>1. CASE pkt # None /\ pkt.type = "ACK" /\ pkt.dst = k
  <2>1. pkt.src \in Node
    BY <1>1 DEF Message
  <2>2. AckOK(k, pkt, m, d)
    BY <1>1 DEF AirOK
  <2>3. AckOK(k, pkt, m, e)
    BY <2>1, <2>2 DEF AckOK, Grows
  <2> QED
    BY <1>1, <2>3 DEF AirOK
<1>2. CASE ~(pkt # None /\ pkt.type = "ACK" /\ pkt.dst = k)
  BY <1>2 DEF AirOK
<1> QED
  BY <1>1, <1>2

(* The packet that arrives at n                                             *)
Arrived(n) == [src |-> air[n].src, dst |-> air[n].dst, sn |-> air[n].sn]

LEMMA DataFacts ==
  ASSUME IInv, NEW n \in Node, Arrives(n, "DATA")
  PROVE  LET m == air[n]
         IN  /\ m.src \in Node \ {n} /\ m.dst \in Address /\ m.sn \in Nat
             /\ Arrived(n) \in DataPacket
             /\ DataOK(m, mac) /\ m.sn \in 1 .. Used(mac[m.src])
             /\ Arrived(n) = [src |-> m.src, dst |-> par.load[m.src][m.sn], sn |-> m.sn]
             /\ Used(mac[m.src]) \in Nat
             /\ mac[n].pktHistory \in [Node -> Nat]
<1> DEFINE m == air[n]
<1>1. m # None /\ m.type = "DATA"
  BY DEF Arrives
<1>2. m.src \in Node \ {n} /\ m.dst \in Address /\ m.sn \in Nat /\ DataOK(m, mac)
  BY <1>1, ArrivedFacts DEF AirOK
<1>3. Used(mac[m.src]) \in Nat
  BY <1>2, IInvFacts, HeadFacts
<1>4. mac[n].pktHistory \in [Node -> Nat]
  BY IInvFacts DEF Mac
<1> QED
  BY <1>2, <1>3, <1>4 DEF DataOK, Arrived, DataPacket

LEMMA DeliveredFacts ==
  ASSUME IInv, NEW n \in Node, Arrives(n, "DATA"), ReceiveData(n)
  PROVE  LET new == IsNotDuplicatePacket(mac[n], air[n])
         IN  /\ delivered' \in [Node -> Seq(DataPacket)] /\ Grows(delivered, delivered')
             /\ \A k \in Node : k # n => delivered'[k] = delivered[k]
             /\ ~new => delivered'[n] = delivered[n]
             /\ new => /\ \E i \in DOMAIN delivered'[n] : delivered'[n][i] = Arrived(n)
                       /\ \A i \in DOMAIN delivered'[n] :
                             \/ i = Len(delivered[n]) + 1 /\ delivered'[n][i] = Arrived(n)
                             \/ i \in 1 .. Len(delivered[n]) /\ i \in DOMAIN delivered[n]
                                /\ delivered'[n][i] = delivered[n][i]
<1> DEFINE new == IsNotDuplicatePacket(mac[n], air[n])
<1>1. /\ delivered \in [Node -> Seq(DataPacket)] /\ Arrived(n) \in DataPacket
      /\ delivered' = [delivered EXCEPT ![n] = IF new THEN Append(@, Arrived(n)) ELSE @]
  BY IInvFacts, DataFacts DEF ReceiveData, Arrived
<1> HIDE DEF new
<1>2. \A k \in Node : k # n => delivered'[k] = delivered[k]
  BY <1>1
<1>3. delivered'[n] = IF new THEN Append(delivered[n], Arrived(n)) ELSE delivered[n]
  BY <1>1
<1>4. delivered' \in [Node -> Seq(DataPacket)]
  <2>1. Append(delivered[n], Arrived(n)) \in Seq(DataPacket)
    BY <1>1, AppendFacts
  <2> QED
    BY <1>1, <2>1
<1>5. CASE ~new
  BY <1>1, <1>2, <1>3, <1>4, <1>5 DEF Grows, new
<1>6. CASE new
  <2>1. LET a == Append(delivered[n], Arrived(n)) b == delivered[n]
        IN  /\ Len(b) \in Nat /\ DOMAIN b = 1 .. Len(b) /\ DOMAIN a = 1 .. Len(b) + 1
            /\ \A i \in DOMAIN b : i \in DOMAIN a /\ a[i] = b[i]
            /\ a[Len(b) + 1] = Arrived(n)
    BY <1>1, AppendFacts
  <2>2. Len(delivered[n]) + 1 \in DOMAIN delivered'[n]
    BY <1>3, <1>6, <2>1
  <2>3. Grows(delivered, delivered')
    BY <1>2, <1>3, <1>6, <2>1 DEF Grows
  <2> QED
    BY <1>2, <1>3, <1>4, <1>6, <2>1, <2>2, <2>3 DEF new
<1> QED
  BY <1>5, <1>6

LEMMA ReceiveDataStep ==
  ASSUME IInv, par' = par, NEW n \in Node, ReceiveData(n)
  PROVE  IInv'
<1> DEFINE s == mac[n]
           m == air[n]
           new == IsNotDuplicatePacket(s, m)
           v == IF new THEN m.sn ELSE s.pktHistory[m.src]
           h == [s.pktHistory EXCEPT ![m.src] = v]
           u == [s EXCEPT !.pktHistory = h]
           t == ExtendActivePeriod(Set([u EXCEPT !.state = "IN_TX"], "TRANSMISSION_TIMEOUT"))
<1>1. /\ par \in Parameters /\ NodeOK(n, s) /\ CoreOK(n, s) /\ mac \in [Node -> Mac]
      /\ NodeInv /\ AirInv /\ HistoryInv /\ AuthorIsNewest /\ air \in [Node -> Message]
  BY IInvFacts DEF IInv
<1>2. Arrives(n, "DATA") /\ acked' = acked
  BY DEF ReceiveData
<1>3. /\ m.src \in Node \ {n} /\ m.dst \in Address /\ m.sn \in Nat
      /\ Arrived(n) \in DataPacket
      /\ DataOK(m, mac) /\ m.sn \in 1 .. Used(mac[m.src])
      /\ Arrived(n) = [src |-> m.src, dst |-> par.load[m.src][m.sn], sn |-> m.sn]
      /\ Used(mac[m.src]) \in Nat
      /\ s.pktHistory \in [Node -> Nat]
  BY <1>2, DataFacts
<1>4. v \in Nat /\ (new <=> s.pktHistory[m.src] < m.sn)
  BY <1>3 DEF IsNotDuplicatePacket
<1>5. \/ /\ mac' = [mac EXCEPT ![n] = u] /\ air' = Heard([air EXCEPT ![n] = None])
      \/ /\ mac' = [mac EXCEPT ![n] = t] /\ Transmit(n, Ack(n, m.src))
  <2>1. [s EXCEPT !.pktHistory[m.src] = IF new THEN m.sn ELSE @] = u
    <3>1. s \in Mac
      BY <1>1
    <3> QED
      BY <1>3, <3>1 DEF Mac
  <2> QED
    BY <2>1 DEF ReceiveData, Received
<1>6. Remembers(n, s, h, u) /\ Remembers(n, s, h, t)
  <2> HIDE DEF s
  <2>1. h \in [Node -> Nat] /\ NodeOK(n, s)
    BY <1>1, <1>3, <1>4
  <2> HIDE DEF h
  <2> QED
    BY <2>1, ReceiveDataOK
<1> HIDE DEF u, t
<1>7. PICK x \in {u, t} : /\ mac' = [mac EXCEPT ![n] = x]
                          /\ \/ air' = Heard([air EXCEPT ![n] = None])
                             \/ Transmit(n, Ack(n, m.src))
  BY <1>5
<1>8. /\ NodeOK(n, x) /\ Used(x) = Used(s) /\ x.table = s.table
      /\ x.pktHistory = [s.pktHistory EXCEPT ![m.src] = v]
      /\ x.state = "WAIT_FOR_ACK" =>
            s.state = "WAIT_FOR_ACK" /\ x.txAddr = s.txAddr /\ x.buffer = s.buffer
  BY <1>6, <1>7 DEF Remembers
<1>9. /\ delivered' \in [Node -> Seq(DataPacket)] /\ Grows(delivered, delivered')
      /\ \A k \in Node : k # n => delivered'[k] = delivered[k]
      /\ ~new => delivered'[n] = delivered[n]
      /\ new => /\ \E i \in DOMAIN delivered'[n] : delivered'[n][i] = Arrived(n)
                /\ \A i \in DOMAIN delivered'[n] :
                      \/ i = Len(delivered[n]) + 1 /\ delivered'[n][i] = Arrived(n)
                      \/ i \in 1 .. Len(delivered[n]) /\ i \in DOMAIN delivered[n]
                         /\ delivered'[n][i] = delivered[n][i]
  BY <1>2, DeliveredFacts
<1>10. /\ \A k \in Node : mac'[k] = IF k = n THEN x ELSE mac[k]
       /\ \A k \in Node : /\ Used(mac[k]) \in Nat /\ Used(mac'[k]) \in Nat
                          /\ Used(mac[k]) <= Used(mac'[k])
  <2>1. Used(s) \in Nat
    BY <1>1, HeadFacts
  <2>2. Used(s) <= Used(x)
    BY <1>8, <2>1
  <2> QED
    BY <1>1, <1>7, <1>8, <2>2, UsedNext
<1> HIDE DEF s, m, new, v
<1>11. NodeInv' /\ AuthorIsNewest' /\ TableForward(n, mac[n], x)
  BY <1>1, <1>7, <1>8, NodesNext, AuthorsNext, SameTable DEF s
<1>12. HistoryOK(n)
  BY <1>1 DEF HistoryInv
<1>13. HistoryInv'
  <2>1. ASSUME NEW j \in Node, j # n  PROVE  HistoryOK(j)'
    <3>1. HistoryOK(j) /\ mac'[j] = mac[j] /\ delivered'[j] = delivered[j]
      BY <1>1, <1>9, <1>10, <2>1 DEF HistoryInv
    <3>2. mac[j].pktHistory \in [Node -> Nat]
      BY <1>1 DEF Mac
    <3>3. \A k \in Node : mac'[j].pktHistory[k] <= Used(mac'[k])
      BY <3>1, <3>2, <1>10 DEF HistoryOK
    <3> QED
      BY <3>1, <3>3 DEF HistoryOK
  <2>2. \A k \in Node : mac'[n].pktHistory[k] = IF k = m.src THEN v ELSE s.pktHistory[k]
    BY <1>3, <1>8, <1>10
  <2>3. s.pktHistory[m.src] <= v /\ v <= Used(mac[m.src])
    BY <1>3, <1>4, <1>12 DEF HistoryOK, s, v
  <2>4. \A k \in Node : mac'[n].pktHistory[k] <= Used(mac'[k])
    BY <2>2, <2>3, <1>3, <1>4, <1>10, <1>12 DEF HistoryOK, s
  <2>5. ASSUME NEW k \in Node, mac'[n].pktHistory[k] # 0
        PROVE  \E i \in DOMAIN delivered'[n] :
                  delivered'[n][i] = [src |-> k, dst |-> par.load[k][mac'[n].pktHistory[k]],
                                      sn |-> mac'[n].pktHistory[k]]
    <3>1. CASE k = m.src /\ new
      <4>1. mac'[n].pktHistory[k] = m.sn
        BY <2>2, <3>1 DEF v
      <4> QED
        BY <1>3, <1>9, <3>1, <4>1
    <3>2. CASE ~(k = m.src /\ new)
      <4>1. mac'[n].pktHistory[k] = s.pktHistory[k]
        BY <2>2, <3>2 DEF v
      <4>2. PICK i \in DOMAIN delivered[n] :
               delivered[n][i] = [src |-> k, dst |-> par.load[k][s.pktHistory[k]],
                                  sn |-> s.pktHistory[k]]
        BY <1>12, <2>5, <4>1 DEF HistoryOK, s
      <4>3. i \in DOMAIN delivered'[n] /\ delivered'[n][i] = delivered[n][i]
        BY <1>9 DEF Grows
      <4> QED
        BY <4>1, <4>2, <4>3
    <3> QED
      BY <3>1, <3>2
  <2>6. ASSUME NEW i \in DOMAIN delivered'[n]
        PROVE  delivered'[n][i].sn <= mac'[n].pktHistory[delivered'[n][i].src]
    <3>1. CASE new /\ delivered'[n][i] = Arrived(n)
      BY <1>3, <2>2, <3>1 DEF v
    <3>2. CASE i \in DOMAIN delivered[n] /\ delivered'[n][i] = delivered[n][i]
      <4>1. delivered[n][i].src \in Node /\ delivered[n][i].sn \in Nat
        <5>1. delivered[n] \in Seq(DataPacket)
          BY IInvFacts
        <5>2. delivered[n][i] \in DataPacket
          BY <3>2, <5>1, SeqFacts
        <5> QED
          BY <5>2 DEF DataPacket
      <4>2. delivered[n][i].sn <= s.pktHistory[delivered[n][i].src]
        BY <1>12, <3>2 DEF HistoryOK, s
      <4>3. mac'[n].pktHistory[delivered[n][i].src] >= s.pktHistory[delivered[n][i].src]
        BY <1>3, <1>4, <2>2, <2>3, <4>1
      <4>4. mac'[n].pktHistory[delivered[n][i].src] \in Nat
        BY <1>3, <1>4, <2>2, <4>1
      <4> QED
        BY <1>3, <3>2, <4>1, <4>2, <4>3, <4>4
    <3> QED
      BY <1>9, <3>1, <3>2
  <2>7. HistoryOK(n)'
    BY <2>4, <2>5, <2>6 DEF HistoryOK
  <2> QED
    BY <2>1, <2>7 DEF HistoryInv
<1>14. DeliveredOnceInOrder'
  <2>1. ASSUME NEW i \in DOMAIN delivered'[n], NEW j \in DOMAIN delivered'[n], i < j,
               delivered'[n][i].src = delivered'[n][j].src
        PROVE  delivered'[n][i].sn < delivered'[n][j].sn
    <3>1. CASE ~new
      BY <1>9, <2>1, <3>1 DEF IInv, DeliveredOnceInOrder
    <3>2. CASE new
      <4>0. delivered[n] \in Seq(DataPacket) /\ Len(delivered[n]) \in Nat
        <5>1. delivered[n] \in Seq(DataPacket)
          BY IInvFacts
        <5> QED
          BY <5>1, SeqFacts
      <4>1. i \in 1 .. Len(delivered[n]) /\ i \in DOMAIN delivered[n]
            /\ delivered'[n][i] = delivered[n][i]
        <5>1. j \in 1 .. Len(delivered[n]) + 1 /\ i \in Int
          BY <1>9, <3>2, <4>0
        <5> QED
          BY <1>9, <2>1, <3>2, <4>0, <5>1
      <4>2. CASE delivered'[n][j] = Arrived(n)
        <5>1. delivered[n][i].src = m.src
          BY <1>3, <2>1, <4>1, <4>2
        <5>2. delivered[n][i].sn <= s.pktHistory[m.src]
          BY <1>12, <4>1, <5>1 DEF HistoryOK, s
        <5>3. delivered[n][i].sn \in Nat
          <6>1. delivered[n][i] \in DataPacket
            BY <4>0, <4>1, SeqFacts
          <6> QED
            BY <6>1 DEF DataPacket
        <5> QED
          BY <1>3, <1>4, <3>2, <4>1, <4>2, <5>2, <5>3
      <4>3. CASE j \in DOMAIN delivered[n] /\ delivered'[n][j] = delivered[n][j]
        BY <2>1, <4>1, <4>3 DEF IInv, DeliveredOnceInOrder
      <4> QED
        BY <1>9, <3>2, <4>2, <4>3
    <3> QED
      BY <3>1, <3>2
  <2> QED
    BY <1>9, <2>1 DEF IInv, DeliveredOnceInOrder
<1>15. AckedInv'
  BY <1>2, <1>9 DEF IInv, AckedInv, AckedWasDelivered, Grows
<1>16. \A k \in Node : AirOK(k, air[k], mac', delivered')
  <2>1. \A k \in Node : AirOK(k, air[k], mac', delivered)
    BY <1>1, <1>7, <1>8, <1>10, <1>11, AirNext DEF s
  <2> QED
    BY <1>1, <1>9, <2>1, AirGrows
<1>17. ASSUME air' = Heard([air EXCEPT ![n] = None])
       PROVE  air' \in [Node -> Message] /\ \A k \in Node : AirOK(k, air'[k], mac', delivered')
  <2>1. air' \in [Node -> Message] /\ \A k \in Node : air'[k] \in {air[k], None}
    BY <1>1, <1>17 DEF Heard, Message
  <2>2. \A k \in Node : AirOK(k, air'[k], mac', delivered')
    BY <1>16, <2>1 DEF AirOK
  <2> QED
    BY <2>1, <2>2
<1>18. ASSUME Transmit(n, Ack(n, m.src))
       PROVE  air' \in [Node -> Message] /\ \A k \in Node : AirOK(k, air'[k], mac', delivered')
  <2> DEFINE a == Ack(n, m.src)
  <2>1. /\ a.type = "ACK" /\ a.src = n /\ a.dst = m.src /\ a \in Message
    BY <1>3 DEF Ack, Message
  <2>2. PICK reached \in SUBSET (Node \ {n}) :
           air' = Heard([k \in Node |-> IF k \in reached THEN a ELSE None])
    BY <1>18 DEF Transmit
  <2>3. /\ air' \in [Node -> Message]
        /\ \A k \in Node : air'[k] = None \/ (air'[k] = a /\ k # n)
    BY <2>1, <2>2 DEF Heard, Message
  <2>4. ASSUME mac'[m.src].state = "WAIT_FOR_ACK"
        PROVE  \E i \in DOMAIN delivered'[n] :
                  delivered'[n][i] = mac'[m.src].buffer[1]
    <3> DEFINE k == m.src
               b == mac[k].buffer
    <3>1. k \in Node /\ k # n /\ mac'[k] = mac[k] /\ m.sn = b[1].sn
      BY <1>3, <1>10, <2>4 DEF DataOK, m
    <3>2. CoreOK(k, mac[k]) /\ b # <<>>
      BY <2>4, <3>1, IInvFacts DEF NodeOK, StateOK
    <3>3. /\ b[1] \in DataPacket /\ b[1].src = k /\ b[1].dst = par.load[k][b[1].sn]
          /\ Used(mac[k]) = b[1].sn
      BY <3>2, HeadFacts DEF CoreOK, BufferOK
    <3>4. b[1] = [src |-> k, dst |-> par.load[k][m.sn], sn |-> m.sn]
      BY <3>1, <3>3 DEF DataPacket
    <3>5. b[1] = Arrived(n)
      BY <1>3, <3>4
    <3> HIDE DEF k, b
    <3>6. CASE new
      BY <1>9, <3>1, <3>5, <3>6 DEF k, b
    <3>7. CASE ~new
      <4>1. s.pktHistory[k] = m.sn /\ m.sn # 0
        <5>1. s.pktHistory[k] <= Used(mac[k])
          BY <1>12, <3>1 DEF HistoryOK, s
        <5>2. s.pktHistory[k] \in Nat /\ ~(s.pktHistory[k] < m.sn)
          BY <1>3, <1>4, <3>7 DEF k
        <5> QED
          BY <1>3, <3>1, <3>3, <5>1, <5>2 DEF k
      <4>2. PICK i \in DOMAIN delivered[n] :
               delivered[n][i] = [src |-> k, dst |-> par.load[k][m.sn], sn |-> m.sn]
        BY <1>12, <3>1, <4>1 DEF HistoryOK, s
      <4> QED
        BY <1>9, <3>1, <3>4, <3>7, <4>2 DEF k, b
    <3> QED
      BY <3>6, <3>7
  <2> HIDE DEF a
  <2>5. ASSUME NEW k \in Node  PROVE  AirOK(k, air'[k], mac', delivered')
    <3>1. CASE air'[k] = None
      BY <3>1 DEF AirOK
    <3>2. CASE air'[k] = a /\ k # n
      <4>1. k = m.src => AckOK(k, a, mac', delivered')
        BY <2>1, <2>4 DEF AckOK
      <4> QED
        BY <2>1, <3>2, <4>1 DEF AirOK
    <3> QED
      BY <2>3, <3>1, <3>2
  <2> QED
    BY <2>3, <2>5
<1>19. air' \in [Node -> Message] /\ \A k \in Node : AirOK(k, air'[k], mac', delivered')
  BY <1>7, <1>17, <1>18
<1>20. AirInv'
  BY <1>19 DEF AirInv, AirOK, DataOK, AckOK, Vouched, Used
<1>21. TypeOK'
  <2>1. Message' = Message
    BY DEF Message, SN
  <2>2. mac' \in [Node -> Mac]'
    BY <1>11 DEF NodeInv
  <2> QED
    BY <1>2, <1>9, <1>19, <2>1, <2>2 DEF IInv, TypeOK
<1> QED
  BY <1>11, <1>13, <1>14, <1>15, <1>20, <1>21 DEF IInv

-----------------------------------------------------------------------------
(* The theorems                                                             *)

LEMMA InitOK ==
  ASSUME Init
  PROVE  IInv
<1>1. par \in Parameters /\ par \in Settings
  BY TMacAssumption DEF Init
<1>2. 0 \in SN /\ 0 \in 0 .. par.maxTxRetries
  BY <1>1 DEF Parameters, SN
<1>3. ASSUME NEW n \in Node
      PROVE  /\ mac[n] \in Mac /\ mac[n].state = "SETUP"
             /\ mac[n].timers \cap {"SYNC_SETUP", "SYNC_CREATE"} # {}
             /\ "FRAME_START" \notin mac[n].timers /\ "SYNC_RENEW" \notin mac[n].timers
             /\ mac[n].table = <<>> /\ mac[n].buffer = <<>> /\ mac[n].sent = 0
             /\ mac[n].needResync = FALSE /\ mac[n].syncPacket = None
             /\ mac[n].pktHistory = [k \in Node |-> 0]
  <2>1. PICK t \in {"SYNC_SETUP", "SYNC_CREATE"} :
           mac[n] = [state |-> "SETUP", timers |-> {t}, wakeups |-> {},
                     table |-> <<>>, shifted |-> FALSE,
                     primaryWakeup |-> TRUE, needResync |-> FALSE,
                     syncPacket |-> None, buffer |-> <<>>, sent |-> 0,
                     txAddr |-> None, txRetries |-> 0,
                     pktHistory |-> [k \in Node |-> 0]]
    BY DEF Init
  <2>2. <<>> \in Seq([id : Node, sn : SN]) /\ <<>> \in Seq(DataPacket)
    OBVIOUS
  <2>3. "SETUP" \in MacState /\ {t} \in SUBSET Timer
    BY DEF MacState, Timer
  <2>4. [k \in Node |-> 0] \in [Node -> Nat]
    OBVIOUS
  <2>5. mac[n] \in Mac
    BY <1>2, <2>1, <2>2, <2>3, <2>4 DEF Mac
  <2>6. mac[n].timers = {t}
    BY <2>1
  <2>7. /\ {t} \cap {"SYNC_SETUP", "SYNC_CREATE"} # {}
        /\ "FRAME_START" \notin {t} /\ "SYNC_RENEW" \notin {t}
    OBVIOUS
  <2>8. /\ mac[n].state = "SETUP" /\ mac[n].table = <<>> /\ mac[n].buffer = <<>>
        /\ mac[n].sent = 0 /\ mac[n].needResync = FALSE /\ mac[n].syncPacket = None
    BY <2>1
  <2>9. mac[n].pktHistory = [k \in Node |-> 0]
    BY <2>1
  <2> QED
    BY <2>5, <2>6, <2>7, <2>8, <2>9
<1>4. \A n \in Node : NodeOK(n, mac[n])
  <2> SUFFICES ASSUME NEW n \in Node  PROVE  NodeOK(n, mac[n])
    OBVIOUS
  <2>1. BufferOK(n, <<>>, 0)
    <3>1. Len(par.load[n]) \in Nat
      BY <1>1 DEF Parameters
    <3> QED
      BY <3>1 DEF BufferOK
  <2>2. CoreOK(n, mac[n])
    BY <1>3, <2>1 DEF CoreOK, TableOK
  <2>3. StateOK(mac[n])
    BY <1>3 DEF StateOK, WaitState, CarrierSenseState, CsForTx
  <2> QED
    BY <2>2, <2>3 DEF NodeOK
<1>5. mac \in [Node -> Mac]
  <2>1. mac = [n \in Node |-> mac[n]]
    BY DEF Init
  <2> QED
    BY <1>3, <2>1
<1>6. air = [n \in Node |-> None] /\ delivered = [n \in Node |-> <<>>] /\ acked = {}
  BY DEF Init
<1>7. TypeOK
  BY <1>1, <1>5, <1>6 DEF TypeOK, Message
<1>8. AirInv
  BY <1>6 DEF AirInv, AirOK
<1>9. HistoryInv
  <2> SUFFICES ASSUME NEW n \in Node  PROVE  HistoryOK(n)
    BY DEF HistoryInv
  <2>1. DOMAIN delivered[n] = {}
    BY <1>6
  <2>2. \A k \in Node : mac[n].pktHistory[k] = 0 /\ Used(mac[k]) = 0
    BY <1>3 DEF Used
  <2> QED
    BY <2>1, <2>2 DEF HistoryOK
<1>10. DeliveredOnceInOrder /\ AckedInv
  BY <1>6 DEF DeliveredOnceInOrder, AckedInv, AckedWasDelivered
<1>11. AuthorIsNewest
  <2>1. DOMAIN <<>> = {}
    OBVIOUS
  <2>2. \A n \in Node : mac[n].table = <<>>
    BY <1>3
  <2>3. \A n \in Node : DOMAIN mac[n].table = {}
    BY <2>1, <2>2, Zenon
  <2> QED
    BY <2>3 DEF AuthorIsNewest
<1> QED
  BY <1>4, <1>5, <1>7, <1>8, <1>9, <1>10, <1>11 DEF IInv, NodeInv

LEMMA StepOK ==
  ASSUME IInv, [Next]_vars
  PROVE  IInv'
<1>1. CASE UNCHANGED vars
  <2>1. TypeOK'
    BY <1>1 DEF IInv, TypeOK, vars, Message, SN, Mac
  <2>2. NodeInv'
    <3>1. Mac' = Mac /\ par' = par /\ mac' = mac /\ NodeInv
      BY <1>1 DEF IInv, vars, Mac, SN
    <3>2. ASSUME NEW n \in Node, NodeOK(n, mac[n])  PROVE  NodeOK(n, mac[n])'
      <4>1. CoreOK(n, mac[n])'
        BY <3>1, <3>2 DEF NodeOK, CoreOK, TableOK, BufferOK
      <4>2. StateOK(mac[n])'
        BY <3>1, <3>2 DEF NodeOK, StateOK
      <4> QED
        BY <4>1, <4>2 DEF NodeOK
    <3> QED
      BY <3>1, <3>2 DEF NodeInv
  <2>3. AirInv' /\ HistoryInv'
    BY <1>1 DEF IInv, AirInv, AirOK, DataOK, AckOK, Vouched, HistoryInv, HistoryOK, Used, vars
  <2>4. DeliveredOnceInOrder' /\ AckedInv' /\ AuthorIsNewest'
    BY <1>1 DEF IInv, DeliveredOnceInOrder, AckedInv, AckedWasDelivered, AuthorIsNewest, vars
  <2> QED
    BY <2>1, <2>2, <2>3, <2>4 DEF IInv
<1>2. ASSUME NEW n \in Node, par' = par, Step(n)  PROVE  IInv'
  BY <1>2, TimerStepsOK, SyncCreateStep, SyncRenewStep, CarrierSenseClearStep, OverhearStep,
     ReceiveRtsStep, ReceiveCtsStep, ReceiveDataStep, ReceiveAckStep, ReceiveSyncStep
     DEF Step
<1> QED
  BY <1>1, <1>2 DEF Next

(* The inductive invariant holds in every state.                            *)
THEOREM Invariance == Spec => []IInv
<1>1. Init => IInv
  BY InitOK
<1>2. IInv /\ [Next]_vars => IInv'
  BY StepOK
<1> QED
  BY <1>1, <1>2, PTL DEF Spec

(* The state of every node and every packet on the air has its type: no     *)
(* retry counter leaves its range, and no schedule or buffer holds an entry *)
(* the code could not have made.                                            *)
THEOREM TypeCorrect == Spec => []TypeOK
<1>1. IInv => TypeOK
  BY DEF IInv
<1> QED
  BY <1>1, Invariance, PTL

(* Whatever comes in between, a node has the timer that takes it out of its *)
(* state (setTimer and cancelTimer throughout TMAC.cc).                     *)
THEOREM NodesGoOn == Spec => []NeverStranded
<1>1. IInv => NeverStranded
  BY DEF IInv, NodeInv, NodeOK, CoreOK, StateOK, TableOK, NeverStranded
<1> QED
  BY <1>1, Invariance, PTL

(* The branches of carrierIsClear, sendDataPacket and receiveCtsFrame that  *)
(* log a WARNING because the buffer is empty or there is no SYNC to send    *)
(* are never taken.                                                         *)
THEOREM ExchangesMatch == Spec => []ExchangeMatchesHead
<1>1. ASSUME IInv, NEW n \in Node
      PROVE  LET s == mac[n]
             IN  /\ s.buffer # <<>> => s.txAddr = Head(s.buffer).dst
                 /\ s.state \in {"CS_FOR_TX_RTS", "CS_FOR_TX_DATA", "WAIT_FOR_CTS",
                                 "WAIT_FOR_ACK"} => s.buffer # <<>>
                 /\ s.state \in {"CS_FOR_TX_RTS", "WAIT_FOR_CTS", "WAIT_FOR_ACK"} =>
                       s.txAddr # Broadcast
                 /\ s.state = "CS_FOR_TX_RTS" => s.txRetries > 0
                 /\ s.state = "CS_FOR_TX_SYNC" => s.syncPacket # None
  <2>1. CoreOK(n, mac[n]) /\ StateOK(mac[n])
    BY <1>1, IInvFacts DEF NodeOK
  <2>2. mac[n].buffer # <<>> => Head(mac[n].buffer) = mac[n].buffer[1]
    BY <2>1, HeadFacts
  <2> QED
    BY <2>1, <2>2 DEF CoreOK, StateOK
<1>2. IInv => ExchangeMatchesHead
  BY <1>1 DEF ExchangeMatchesHead
<1> QED
  BY <1>2, Invariance, PTL

(* isNotDuplicatePacket lets every packet through once, and those of one    *)
(* source in their order.                                                   *)
THEOREM OnceInOrder == Spec => []DeliveredOnceInOrder
<1>1. IInv => DeliveredOnceInOrder
  BY DEF IInv
<1> QED
  BY <1>1, Invariance, PTL

(* receiveAckFrame takes a packet off the buffer only when its destination  *)
(* has it, although an ACK names no packet.                                 *)
THEOREM AcksAreTrue == Spec => []AckedWasDelivered
<1>1. IInv => AckedWasDelivered
  BY DEF IInv, AckedInv
<1> QED
  BY <1>1, Invariance, PTL

(* updateScheduleTable never gives a node a newer version of a schedule     *)
(* than its author has.                                                     *)
THEOREM AuthorsLead == Spec => []AuthorIsNewest
<1>1. IInv => AuthorIsNewest
  BY DEF IInv
<1> QED
  BY <1>1, Invariance, PTL

-----------------------------------------------------------------------------
(* TMac implements LossyLink                                                *)

(* What the helpers do to the queue of a node, whatever else is in the      *)
(* record: most of them nothing, and those that begin a transmission may    *)
(* give up on a packet that has used up its attempts.                       *)
HasQueue(s) == {"buffer", "sent", "txAddr", "txRetries"} \subseteq DOMAIN s

SameQueue(s, t) ==
    /\ HasQueue(t)
    /\ t.buffer = s.buffer /\ t.sent = s.sent
    /\ t.txAddr = s.txAddr /\ t.txRetries = s.txRetries

Popped(s, t) ==
    /\ HasQueue(t)
    /\ s.buffer # <<>> /\ t.buffer = Tail(s.buffer) /\ t.sent = s.sent
    /\ t.buffer # <<>> => t.txRetries = par.maxTxRetries

GivesUp(s, t) == SameQueue(s, t) \/ (s.txRetries = 0 /\ Popped(s, t))

(* A packet for all has its attempts until it is sent.                      *)
Untried(s) == s.buffer # <<>> /\ s.txAddr = Broadcast => s.txRetries # 0

LEMMA MacHasQueue ==
  ASSUME NEW s \in Mac
  PROVE  HasQueue(s)
BY DEF Mac, HasQueue

(* Timers and the state are no part of the queue.                           *)
LEMMA SetKeepsQueue ==
  ASSUME NEW s, HasQueue(s), NEW timer
  PROVE  SameQueue(s, Set(s, timer)) /\ SameQueue(s, Cancel(s, timer))
BY DEF Set, Cancel, SameQueue, HasQueue

LEMMA StateKeepsQueue ==
  ASSUME NEW s, HasQueue(s), NEW state
  PROVE  SameQueue(s, [s EXCEPT !.state = state])
BY DEF SameQueue, HasQueue

LEMMA ExtendKeepsQueue ==
  ASSUME NEW s, HasQueue(s)
  PROVE  SameQueue(s, ExtendActivePeriod(s))
BY SetKeepsQueue DEF ExtendActivePeriod

LEMMA SenseKeepsQueue ==
  ASSUME NEW s, HasQueue(s), NEW state
  PROVE  SameQueue(s, PerformCarrierSense(s, state))
<1> DEFINE t == [s EXCEPT !.state = state]
<1>1. SameQueue(s, t)
  BY StateKeepsQueue
<1> HIDE DEF t
<1>2. SameQueue(t, Set(t, "CARRIER_SENSE"))
  BY <1>1, SetKeepsQueue DEF SameQueue
<1> QED
  BY <1>1, <1>2 DEF SameQueue, PerformCarrierSense, t

LEMMA SameThenGivesUp ==
  ASSUME NEW s, NEW t, NEW u, SameQueue(s, t), GivesUp(t, u)
  PROVE  GivesUp(s, u)
BY DEF SameQueue, GivesUp, Popped

LEMMA GivesUpThenSame ==
  ASSUME NEW s, NEW t, NEW u, GivesUp(s, t), SameQueue(t, u)
  PROVE  GivesUp(s, u)
BY DEF SameQueue, GivesUp, Popped

LEMMA CheckTxBufferQueue ==
  ASSUME NEW s, HasQueue(s)
  PROVE  LET t == CheckTxBuffer(s)
         IN  /\ HasQueue(t) /\ t.buffer = s.buffer /\ t.sent = s.sent
             /\ s.buffer # <<>> => t.txRetries = par.maxTxRetries /\ t.txAddr = Head(s.buffer).dst
BY DEF CheckTxBuffer, HasQueue

LEMMA PopTxBufferQueue ==
  ASSUME NEW s, HasQueue(s), s.buffer # <<>>
  PROVE  Popped(s, PopTxBuffer(s))
<1> DEFINE t == [s EXCEPT !.buffer = Tail(@)]
<1>1. HasQueue(t) /\ t.buffer = Tail(s.buffer) /\ t.sent = s.sent
  BY DEF HasQueue
<1> HIDE DEF t
<1>2. Popped(s, CheckTxBuffer(t))
  BY <1>1, CheckTxBufferQueue DEF Popped
<1> QED
  BY <1>2 DEF PopTxBuffer, t

LEMMA DropFailedQueue ==
  ASSUME NEW s, HasQueue(s)
  PROVE  /\ GivesUp(s, DropFailed(s))
         /\ s.txRetries # 0 \/ s.buffer = <<>> => DropFailed(s) = s
BY PopTxBufferQueue DEF DropFailed, GivesUp, SameQueue

LEMMA ContendQueue ==
  ASSUME NEW s, HasQueue(s)
  PROVE  /\ GivesUp(s, Contend(s))
         /\ s.txRetries # 0 \/ s.buffer = <<>> => SameQueue(s, Contend(s))
<1> DEFINE a == [s EXCEPT !.syncPacket = s.table[1].sn]
           t == DropFailed(s)
<1>1. SameQueue(s, a)
  BY DEF SameQueue, HasQueue
<1>2. GivesUp(s, t) /\ (s.txRetries # 0 \/ s.buffer = <<>> => SameQueue(s, t))
  BY DropFailedQueue DEF SameQueue
<1>3. HasQueue(t) /\ HasQueue(a)
  BY <1>1, <1>2 DEF GivesUp, SameQueue, Popped
<1> HIDE DEF a, t
<1>4. CASE s.needResync
  <2>1. SameQueue(a, PerformCarrierSense(a, "CS_FOR_TX_SYNC"))
    BY <1>3, SenseKeepsQueue
  <2>2. SameQueue(s, Contend(s))
    BY <1>1, <1>4, <2>1 DEF Contend, SameQueue, a
  <2> QED
    BY <2>2 DEF GivesUp
<1>5. CASE ~s.needResync
  <2>1. \/ Contend(s) = [t EXCEPT !.state = "ACTIVE"]
        \/ \E state : Contend(s) = PerformCarrierSense(t, state)
    BY <1>5 DEF Contend, t
  <2>2. SameQueue(t, Contend(s))
    BY <1>3, <2>1, StateKeepsQueue, SenseKeepsQueue
  <2> QED
    BY <1>2, <2>2, GivesUpThenSame DEF SameQueue
<1> QED
  BY <1>4, <1>5

LEMMA ResetQueue ==
  ASSUME NEW s, HasQueue(s)
  PROVE  /\ GivesUp(s, ResetDefaultState(s))
         /\ s.txRetries # 0 \/ s.buffer = <<>> => SameQueue(s, ResetDefaultState(s))
<1> DEFINE r == ResetDefaultState(s)
<1>1. \/ r = Contend(s)
      \/ \E state : r = [s EXCEPT !.state = state]
      \/ r = PerformCarrierSense(s, "CS_BEFORE_SLEEP")
  BY DEF ResetDefaultState
<1> HIDE DEF r
<1>2. r = Contend(s) \/ SameQueue(s, r)
  BY <1>1, StateKeepsQueue, SenseKeepsQueue
<1> QED
  BY <1>2, ContendQueue DEF GivesUp, r

LEMMA BusyQueue ==
  ASSUME NEW s, HasQueue(s)
  PROVE  GivesUp(s, CarrierIsBusy(s))
<1> DEFINE t == IF par.disableTAextension THEN s ELSE ExtendActivePeriod(s)
           b == CarrierIsBusy(s)
<1>1. SameQueue(s, t) /\ HasQueue(t)
  BY ExtendKeepsQueue DEF SameQueue
<1>2. b \in {s, t, ResetDefaultState(t), [t EXCEPT !.state = "ACTIVE_SILENT"]}
  BY DEF CarrierIsBusy
<1> HIDE DEF b, t
<1>3. /\ GivesUp(t, t) /\ GivesUp(t, ResetDefaultState(t))
      /\ GivesUp(t, [t EXCEPT !.state = "ACTIVE_SILENT"]) /\ GivesUp(s, s)
  BY <1>1, ResetQueue, StateKeepsQueue DEF GivesUp, SameQueue
<1> QED
  BY <1>1, <1>2, <1>3, SameThenGivesUp DEF b

LEMMA UpdateScheduleQueue ==
  ASSUME NEW s, HasQueue(s), NEW id, NEW sn, NEW shift
  PROVE  GivesUp(s, UpdateScheduleTable(s, id, sn, shift))
<1>1. ASSUME NEW i  PROVE  SameQueue(s, Resynced(s, i, sn, shift))
  <2> DEFINE t == [s EXCEPT !.table[i].sn = sn]
             x == [t EXCEPT !.shifted = shift]
  <2>1. SameQueue(s, t)
    BY DEF SameQueue, HasQueue
  <2>2. SameQueue(t, x)
    BY <2>1 DEF SameQueue, HasQueue
  <2> HIDE DEF x, t
  <2>3. SameQueue(x, Set(x, "FRAME_START"))
    BY <2>2, SetKeepsQueue DEF SameQueue
  <2>4. Resynced(s, i, sn, shift) \in {s, t, Set(x, "FRAME_START")}
    BY DEF Resynced, t, x
  <2> QED
    BY <2>1, <2>2, <2>3, <2>4 DEF SameQueue
<1>2. GivesUp(s, Added(s, id, sn))
  <2> DEFINE t == [s EXCEPT !.table = Append(@, [id |-> id, sn |-> sn])]
             x == [t EXCEPT !.needResync = TRUE, !.primaryWakeup = TRUE]
             y == Set(ExtendActivePeriod(x), "FRAME_START")
  <2>1. SameQueue(s, t)
    BY DEF SameQueue, HasQueue
  <2>2. SameQueue(t, x)
    BY <2>1 DEF SameQueue, HasQueue
  <2> HIDE DEF x, t
  <2>3. SameQueue(x, y)
    <3>1. SameQueue(x, ExtendActivePeriod(x))
      BY <2>2, ExtendKeepsQueue DEF SameQueue
    <3> QED
      BY <3>1, SetKeepsQueue DEF SameQueue
  <2> HIDE DEF y
  <2>4. SameQueue(s, y) /\ HasQueue(y)
    BY <2>1, <2>2, <2>3 DEF SameQueue
  <2>5. GivesUp(s, ResetDefaultState(y))
    BY <2>4, ResetQueue, SameThenGivesUp
  <2>6. Added(s, id, sn) \in {t, ResetDefaultState(y)}
    BY DEF Added, t, x, y
  <2> QED
    BY <2>1, <2>5, <2>6 DEF GivesUp
<1> QED
  BY <1>1, <1>2 DEF UpdateScheduleTable, GivesUp

-----------------------------------------------------------------------------
(* The steps of LossyLink                                                   *)

(* What is on the air for k is what was there in f, or nothing.             *)
LEMMA CarriesOK ==
  ASSUME NEW f, \A k \in Node : OnAir(k)' \in {f[k], {}}
  PROVE  Link!Carries(f)
<1> DEFINE lost == {k \in Node : OnAir(k)' = {}}
<1>1. \A k \in Node : OnAir(k)' = IF k \in lost THEN {} ELSE f[k]
  OBVIOUS
<1> HIDE DEF lost
<1>2. [k \in Node |-> OnAir(k)]' = [k \in Node |-> IF k \in lost THEN {} ELSE f[k]]
  BY <1>1
<1>3. lost \in SUBSET Node
  BY DEF lost
<1> QED
  BY <1>2, <1>3 DEF Link!Carries

(* The queue of a node after a step of n, which goes to the state t         *)
LEMMA QueuesNext ==
  ASSUME mac \in [Node -> Mac], NEW n \in Node, NEW t, mac' = [mac EXCEPT ![n] = t]
  PROVE  /\ t.buffer = mac[n].buffer =>
               [k \in Node |-> mac[k].buffer]' = [k \in Node |-> mac[k].buffer]
         /\ t.buffer = Tail(mac[n].buffer) => Link!Pop(n)
         /\ t.sent = mac[n].sent =>
               [k \in Node |-> mac[k].sent]' = [k \in Node |-> mac[k].sent]
<1>1. \A k \in Node : mac'[k] = IF k = n THEN t ELSE mac[k]
  OBVIOUS
<1> QED
  BY <1>1 DEF Link!Pop

(* What is on its way to a node after a step in which none sends            *)
LEMMA OnAirKept ==
  ASSUME NEW k \in Node, air'[k] \in {air[k], None}
  PROVE  OnAir(k)' \in {OnAir(k), {}}
BY DEF OnAir

(* Nobody waits with an untried packet for all.                             *)
UntriedInv == \A n \in Node : Untried(mac[n])

LEMMA UntriedNext ==
  ASSUME mac \in [Node -> Mac], UntriedInv, NEW n \in Node, NEW t,
         mac' = [mac EXCEPT ![n] = t], Untried(t)
  PROVE  UntriedInv'
<1>1. \A k \in Node : mac'[k] = IF k = n THEN t ELSE mac[k]
  OBVIOUS
<1>2. \A k \in Node : Untried(mac'[k])
  BY <1>1 DEF UntriedInv
<1> QED
  BY <1>2 DEF UntriedInv, Untried

LEMMA UntriedKept ==
  ASSUME par \in Parameters, NEW s, Untried(s), NEW t, GivesUp(s, t) \/ Popped(s, t)
  PROVE  Untried(t)
<1>1. par.maxTxRetries # 0
  BY DEF Parameters
<1> QED
  BY <1>1 DEF Untried, GivesUp, SameQueue, Popped

(* A step in which n sends nothing is Lose, or GiveUp if a packet has used  *)
(* up its attempts.                                                         *)
LEMMA LoseOrGiveUp ==
  ASSUME IInv, UntriedInv, par' = par, NEW n \in Node, NEW t, GivesUp(mac[n], t),
         mac' = [mac EXCEPT ![n] = t], \A k \in Node : OnAir(k)' \in {OnAir(k), {}},
         UNCHANGED <<delivered, acked>>
  PROVE  Link!Next /\ UntriedInv'
<1> DEFINE s == mac[n]
<1>1. mac \in [Node -> Mac] /\ par \in Parameters /\ CoreOK(n, s) /\ Untried(s)
  BY IInvFacts DEF UntriedInv
<1>2. Link!Carries([k \in Node |-> OnAir(k)])
  BY CarriesOK
<1>3. CASE SameQueue(s, t)
  <2>1. Link!Lose
    BY <1>1, <1>2, <1>3, QueuesNext DEF Link!Lose, SameQueue
  <2> QED
    BY <1>1, <2>1, UntriedKept, UntriedNext DEF Link!Next
<1>4. CASE s.txRetries = 0 /\ Popped(s, t)
  <2>1. s.buffer # <<>> /\ Head(s.buffer) = s.buffer[1]
    BY <1>1, <1>4, HeadFacts DEF Popped
  <2>2. Head(s.buffer).dst # Broadcast
    BY <1>1, <1>4, <2>1 DEF CoreOK, Untried
  <2>3. /\ [k \in Node |-> mac[k].buffer][n] = s.buffer
        /\ par.macBufferSize' = par.macBufferSize
    OBVIOUS
  <2>4. Link!GiveUp(n)
    BY <1>1, <1>2, <1>4, <2>1, <2>2, <2>3, QueuesNext DEF Link!GiveUp, Popped
  <2> QED
    BY <1>1, <2>4, UntriedKept, UntriedNext DEF Link!Next
<1> QED
  BY <1>3, <1>4 DEF GivesUp

LEMMA QuietlyLink ==
  ASSUME IInv, UntriedInv, par' = par, NEW n \in Node, NEW t, GivesUp(mac[n], t),
         \/ Quietly(n, t)
         \/ Received(n, t) /\ UNCHANGED <<delivered, acked>>
  PROVE  Link!Next /\ UntriedInv'
<1>1. /\ mac' = [mac EXCEPT ![n] = t] /\ UNCHANGED <<delivered, acked>>
      /\ \A k \in Node : air'[k] \in {air[k], None}
  BY IInvFacts DEF Quietly, Received, Heard
<1>2. \A k \in Node : OnAir(k)' \in {OnAir(k), {}}
  BY <1>1, OnAirKept
<1> QED
  BY <1>1, <1>2, LoseOrGiveUp

(* A packet that is no DATA leaves nothing on the air for this purpose.     *)
LEMMA ControlOnAir ==
  ASSUME NEW n \in Node, NEW m, m.type # "DATA", Transmit(n, m)
  PROVE  \A k \in Node : OnAir(k)' = {}
BY DEF Transmit, Heard, OnAir

LEMMA ControlLink ==
  ASSUME IInv, UntriedInv, par' = par, NEW n \in Node, NEW t, SameQueue(mac[n], t) \/
            (HasQueue(t) /\ t.buffer = mac[n].buffer /\ t.sent = mac[n].sent
             /\ Untried(t)),
         mac' = [mac EXCEPT ![n] = t], NEW m, m.type # "DATA", Transmit(n, m),
         UNCHANGED <<delivered, acked>>
  PROVE  Link!Next /\ UntriedInv'
<1>1. mac \in [Node -> Mac] /\ par \in Parameters /\ Untried(mac[n])
  BY IInvFacts DEF UntriedInv
<1>2. \A k \in Node : OnAir(k)' \in {[j \in Node |-> OnAir(j)][k], {}}
  BY ControlOnAir
<1>3. Link!Carries([k \in Node |-> OnAir(k)])
  BY <1>2, CarriesOK
<1>4. t.buffer = mac[n].buffer /\ t.sent = mac[n].sent /\ Untried(t)
  BY <1>1, UntriedKept DEF SameQueue, GivesUp
<1>5. Link!Lose
  BY <1>1, <1>3, <1>4, QueuesNext DEF Link!Lose
<1> QED
  BY <1>1, <1>4, <1>5, UntriedNext DEF Link!Next

(* sendDataPacket: the head of the buffer goes on the air.                  *)
LEMMA DataSentQueue ==
  ASSUME par \in Parameters, NEW s, HasQueue(s), s.buffer # <<>>, Untried(s)
  PROVE  LET t == DataSent(s)
         IN  /\ t.sent = s.sent /\ Untried(t)
             /\ t.buffer = IF s.txAddr = Broadcast THEN Tail(s.buffer) ELSE s.buffer
<1> DEFINE p == PopTxBuffer(s)
           a == [p EXCEPT !.state = "IN_TX"]
           b == [s EXCEPT !.state = "WAIT_FOR_ACK",
                          !.txRetries = IF par.useRtsCts THEN @ ELSE @ - 1]
           t == IF s.txAddr = Broadcast THEN a ELSE b
           e == Set(t, "TRANSMISSION_TIMEOUT")
           d == ExtendActivePeriod(e)
<1>1. Popped(s, p) /\ HasQueue(p)
  BY PopTxBufferQueue DEF Popped
<1> HIDE DEF p
<1>2. SameQueue(p, a)
  BY <1>1, StateKeepsQueue
<1>3. Popped(s, a)
  BY <1>1, <1>2 DEF Popped, SameQueue
<1>4. HasQueue(b) /\ b.buffer = s.buffer /\ b.sent = s.sent /\ b.txAddr = s.txAddr
  BY DEF HasQueue
<1>5. HasQueue(a) /\ Untried(a)
  BY <1>3, UntriedKept DEF Popped
<1> HIDE DEF a, b
<1>6. /\ HasQueue(t) /\ t.sent = s.sent /\ Untried(t)
      /\ t.buffer = IF s.txAddr = Broadcast THEN Tail(s.buffer) ELSE s.buffer
  BY <1>3, <1>4, <1>5 DEF Popped, Untried
<1> HIDE DEF t
<1>7. SameQueue(t, e)
  BY <1>6, SetKeepsQueue
<1>8. HasQueue(e)
  BY <1>7 DEF SameQueue
<1> HIDE DEF e
<1>9. SameQueue(e, d)
  BY <1>8, ExtendKeepsQueue
<1>10. DataSent(s) = d
  BY DEF DataSent, d, e, t, a, b, p
<1> QED
  BY <1>6, <1>7, <1>9, <1>10 DEF SameQueue, Untried

LEMMA SendLink ==
  ASSUME IInv, UntriedInv, par' = par, NEW n \in Node, mac[n].buffer # <<>>,
         NEW c, SameQueue(mac[n], c), mac' = [mac EXCEPT ![n] = DataSent(c)],
         Transmit(n, Data(Head(mac[n].buffer))), UNCHANGED <<delivered, acked>>
  PROVE  Link!Next /\ UntriedInv'
<1> DEFINE s == mac[n]
           t == DataSent(c)
           p == Head(s.buffer)
           f == [k \in Node |-> IF k = n THEN {} ELSE {p}]
<1>1. mac \in [Node -> Mac] /\ par \in Parameters /\ CoreOK(n, s) /\ Untried(s)
  BY IInvFacts DEF UntriedInv
<1>2. p \in DataPacket /\ s.txAddr = p.dst
  BY <1>1, HeadFacts DEF CoreOK
<1>3. Untried(c) /\ HasQueue(c)
  BY <1>1 DEF Untried, SameQueue
<1>4. /\ t.sent = s.sent /\ Untried(t)
      /\ t.buffer = IF p.dst = Broadcast THEN Tail(s.buffer) ELSE s.buffer
  BY <1>1, <1>2, <1>3, DataSentQueue DEF SameQueue
<1> HIDE DEF t
<1>5. \A k \in Node : air'[k] = None \/ (k # n /\ air'[k] = Data(p))
  BY DEF Transmit, Heard
<1>6. [src |-> Data(p).src, dst |-> Data(p).dst, sn |-> Data(p).sn] = p
  BY <1>2 DEF Data, DataPacket
<1>7. \A k \in Node : OnAir(k)' \in {f[k], {}}
  <2> TAKE k \in Node
  <2>1. CASE air'[k] = None
    BY <2>1 DEF OnAir
  <2>2. CASE k # n /\ air'[k] = Data(p)
    <3>1. OnAir(k)' \in {{p}, {}}
      BY <1>6, <2>2 DEF OnAir
    <3> QED
      BY <2>2, <3>1
  <2> QED
    BY <1>5, <2>1, <2>2
<1>8. Link!Carries(f)
  BY <1>7, CarriesOK
<1>9. [k \in Node |-> mac[k].buffer][n] = s.buffer
  OBVIOUS
<1>10. mac' = [mac EXCEPT ![n] = t]
  BY DEF t
<1>11. Link!Send(n)
  BY <1>1, <1>4, <1>8, <1>9, <1>10, QueuesNext DEF Link!Send
<1> QED
  BY <1>1, <1>4, <1>10, <1>11, UntriedNext DEF Link!Next

LEMMA CarrierSenseClearLink ==
  ASSUME IInv, UntriedInv, par' = par, NEW n \in Node, CarrierSenseClear(n)
  PROVE  Link!Next /\ UntriedInv'
<1> DEFINE c == Cancel(mac[n], "CARRIER_SENSE")
           b == Set(c, "TRANSMISSION_TIMEOUT")
<1>1. NodeOK(n, mac[n]) /\ HasQueue(mac[n])
  BY IInvFacts, MacHasQueue
<1>2. SameQueue(mac[n], c) /\ c.state = mac[n].state /\ c.txAddr = mac[n].txAddr
  <2>1. mac[n] \in Mac
    BY IInvFacts
  <2> QED
    BY <1>1, <2>1, SetKeepsQueue DEF Cancel, Mac, SameQueue
<1>3. SameQueue(c, b)
  BY <1>2, SetKeepsQueue DEF SameQueue
<1>4. SameQueue(mac[n], b)
  BY <1>2, <1>3 DEF SameQueue
<1>5. UNCHANGED <<delivered, acked>>
  BY DEF CarrierSenseClear
<1>6. CASE /\ c.state = "CS_FOR_TX_RTS"
           /\ mac' = [mac EXCEPT ![n] =
                         [b EXCEPT !.state = "WAIT_FOR_CTS", !.txRetries = @ - 1]]
           /\ Transmit(n, Rts(n, c.txAddr))
  <2> DEFINE t == [b EXCEPT !.state = "WAIT_FOR_CTS", !.txRetries = @ - 1]
  <2>1. c.txAddr # Broadcast
    BY <1>1, <1>2, <1>6 DEF NodeOK, StateOK
  <2> HIDE DEF b, c
  <2>2. HasQueue(t) /\ t.buffer = mac[n].buffer /\ t.sent = mac[n].sent /\ t.txAddr = c.txAddr
    BY <1>2, <1>4 DEF SameQueue, HasQueue
  <2> HIDE DEF t
  <2>3. Untried(t)
    BY <2>1, <2>2 DEF Untried
  <2>4. Rts(n, c.txAddr).type # "DATA"
    BY DEF Rts
  <2> QED
    BY <1>5, <1>6, <2>2, <2>3, <2>4, ControlLink DEF t
<1>7. CASE /\ mac' = [mac EXCEPT ![n] =
                         [b EXCEPT !.state = "IN_TX", !.needResync = FALSE,
                                   !.syncPacket = None]]
           /\ Transmit(n, Sync(n, [c.table[1] EXCEPT !.sn = c.syncPacket]))
  <2> DEFINE t == [b EXCEPT !.state = "IN_TX", !.needResync = FALSE, !.syncPacket = None]
             m == Sync(n, [c.table[1] EXCEPT !.sn = c.syncPacket])
  <2> HIDE DEF b, c
  <2>1. SameQueue(b, t)
    BY <1>4 DEF SameQueue, HasQueue
  <2>2. SameQueue(mac[n], t)
    BY <1>4, <2>1 DEF SameQueue
  <2>3. m.type # "DATA"
    BY DEF Sync
  <2> HIDE DEF t, m
  <2> QED
    BY <1>5, <1>7, <2>2, <2>3, ControlLink DEF t, m
<1>8. CASE /\ c.state = "CS_FOR_TX_DATA"
           /\ mac' = [mac EXCEPT ![n] = DataSent(c)]
           /\ Transmit(n, Data(Head(c.buffer)))
  <2>1. c.buffer = mac[n].buffer /\ mac[n].buffer # <<>>
    BY <1>1, <1>2, <1>8 DEF SameQueue, NodeOK, StateOK
  <2> HIDE DEF c, b
  <2>2. Transmit(n, Data(Head(mac[n].buffer)))
    BY <1>8, <2>1
  <2> QED
    BY <1>2, <1>5, <1>8, <2>1, <2>2, SendLink
<1>9. CASE /\ mac' = [mac EXCEPT ![n] = [c EXCEPT !.primaryWakeup = FALSE, !.state = "SLEEP"]]
           /\ air' = Heard(air)
  <2> DEFINE t == [c EXCEPT !.primaryWakeup = FALSE, !.state = "SLEEP"]
  <2> HIDE DEF c
  <2>1. SameQueue(c, t)
    BY <1>2 DEF SameQueue, HasQueue
  <2>2. GivesUp(mac[n], t)
    BY <1>2, <2>1 DEF SameQueue, GivesUp
  <2> HIDE DEF t
  <2>3. Quietly(n, t)
    BY <1>5, <1>9 DEF Quietly, t
  <2> QED
    BY <2>2, <2>3, QuietlyLink
<1> QED
  BY <1>6, <1>7, <1>8, <1>9 DEF CarrierSenseClear

LEMMA ReceiveRtsLink ==
  ASSUME IInv, UntriedInv, par' = par, NEW n \in Node, ReceiveRts(n)
  PROVE  Link!Next /\ UntriedInv'
<1> DEFINE a == [mac[n] EXCEPT !.state = "WAIT_FOR_DATA"]
           t == Set(a, "TRANSMISSION_TIMEOUT")
           m == Cts(n, air[n].src)
<1>1. SameQueue(mac[n], a)
  BY IInvFacts, MacHasQueue, StateKeepsQueue
<1> HIDE DEF a
<1>2. SameQueue(a, t)
  BY <1>1, SetKeepsQueue DEF SameQueue
<1>3. SameQueue(mac[n], t)
  BY <1>1, <1>2 DEF SameQueue
<1>4. m.type # "DATA"
  BY DEF Cts
<1>5. mac' = [mac EXCEPT ![n] = t] /\ Transmit(n, m) /\ UNCHANGED <<delivered, acked>>
  BY DEF ReceiveRts, a
<1> HIDE DEF t, m
<1> QED
  BY <1>3, <1>4, <1>5, ControlLink

LEMMA ReceiveCtsLink ==
  ASSUME IInv, UntriedInv, par' = par, NEW n \in Node, ReceiveCts(n)
  PROVE  Link!Next /\ UntriedInv'
<1> DEFINE s == mac[n]
<1>1. NodeOK(n, s) /\ HasQueue(s)
  BY IInvFacts, MacHasQueue
<1>2. SameQueue(s, s)
  BY <1>1 DEF SameQueue
<1>3. CASE s.state = "WAIT_FOR_CTS" /\ air[n].src = s.txAddr
  <2>1. s.buffer # <<>>
    BY <1>1, <1>3 DEF NodeOK, StateOK
  <2>2. /\ mac' = [mac EXCEPT ![n] = DataSent(s)] /\ Transmit(n, Data(Head(s.buffer)))
        /\ UNCHANGED <<delivered, acked>>
    BY <1>3 DEF ReceiveCts
  <2> QED
    BY <1>2, <2>1, <2>2, SendLink
<1>4. CASE ~(s.state = "WAIT_FOR_CTS" /\ air[n].src = s.txAddr)
  <2> DEFINE t == IF s.state = "WAIT_FOR_CTS" THEN ResetDefaultState(s) ELSE s
  <2>1. Received(n, t) /\ UNCHANGED <<delivered, acked>>
    BY <1>4 DEF ReceiveCts
  <2>2. GivesUp(s, t)
    BY <1>1, <1>2, ResetQueue DEF GivesUp
  <2> HIDE DEF t
  <2> QED
    BY <2>1, <2>2, QuietlyLink
<1> QED
  BY <1>3, <1>4

(* The test for duplicates, as the network layer sees it                    *)
LEMMA NewerThanDelivered ==
  ASSUME IInv, NEW n \in Node, Arrives(n, "DATA")
  PROVE  IsNotDuplicatePacket(mac[n], air[n]) <=>
            \A i \in DOMAIN delivered[n] :
               delivered[n][i].src = Arrived(n).src => delivered[n][i].sn < Arrived(n).sn
<1> DEFINE m == air[n]
           h == mac[n].pktHistory[m.src]
           d == delivered[n]
<1>1. /\ m.src \in Node /\ m.sn \in Nat /\ h \in Nat /\ 1 <= m.sn
      /\ Arrived(n).src = m.src /\ Arrived(n).sn = m.sn
  <2>1. /\ m.src \in Node /\ m.sn \in Nat /\ m.sn \in 1 .. Used(mac[m.src])
        /\ Used(mac[m.src]) \in Nat /\ mac[n].pktHistory \in [Node -> Nat]
    BY DataFacts
  <2>2. h \in Nat /\ 1 <= m.sn
    BY <2>1
  <2> QED
    BY <2>1, <2>2 DEF Arrived
<1>2. HistoryOK(n) /\ d \in Seq(DataPacket)
  BY IInvFacts DEF IInv, HistoryInv
<1>3. \A i \in DOMAIN d : d[i].src = m.src => d[i].sn \in Nat /\ d[i].sn <= h
  <2> TAKE i \in DOMAIN d
  <2>1. d[i] \in DataPacket
    BY <1>2, SeqFacts
  <2> QED
    BY <1>2, <2>1 DEF HistoryOK, DataPacket
<1>4. ASSUME h # 0  PROVE  \E i \in DOMAIN d : d[i].src = m.src /\ d[i].sn = h
  <2>1. PICK i \in DOMAIN d : d[i] = [src |-> m.src, dst |-> par.load[m.src][h], sn |-> h]
    BY <1>1, <1>2, <1>4 DEF HistoryOK
  <2> QED
    BY <2>1
<1>5. IsNotDuplicatePacket(mac[n], m) <=> h < m.sn
  BY DEF IsNotDuplicatePacket
<1> HIDE DEF h, m, d
<1>6. ASSUME h < m.sn, NEW i \in DOMAIN d, d[i].src = m.src  PROVE  d[i].sn < m.sn
  BY <1>1, <1>3, <1>6
<1>7. ASSUME ~(h < m.sn)  PROVE  \E i \in DOMAIN d : d[i].src = m.src /\ ~(d[i].sn < m.sn)
  <2>1. h # 0
    BY <1>1, <1>7
  <2> QED
    BY <1>4, <1>7, <2>1
<1>8. (h < m.sn) <=> \A i \in DOMAIN d : d[i].src = m.src => d[i].sn < m.sn
  BY <1>6, <1>7
<1> QED
  BY <1>1, <1>5, <1>8 DEF m, d

LEMMA ReceiveDataLink ==
  ASSUME IInv, UntriedInv, par' = par, NEW n \in Node, ReceiveData(n)
  PROVE  Link!Next /\ UntriedInv'
<1> DEFINE s == mac[n]
           m == air[n]
           p == Arrived(n)
           new == IsNotDuplicatePacket(s, m)
           u == [s EXCEPT !.pktHistory[m.src] = IF new THEN m.sn ELSE @]
           a == [u EXCEPT !.state = "IN_TX"]
           b == Set(a, "TRANSMISSION_TIMEOUT")
           t == IF m.dst = Broadcast THEN u ELSE ExtendActivePeriod(b)
           f == [[k \in Node |-> OnAir(k)] EXCEPT ![n] = {}]
<1>1. Arrives(n, "DATA") /\ m # None /\ m.type = "DATA" /\ m.dst \in {n, Broadcast}
  BY DEF ReceiveData, Arrives
<1>2. /\ mac \in [Node -> Mac] /\ par \in Parameters /\ Untried(s) /\ HasQueue(s)
      /\ air \in [Node -> Message] /\ delivered \in [Node -> Seq(DataPacket)]
  BY IInvFacts, MacHasQueue DEF UntriedInv
<1>3. OnAir(n) = {p} /\ p.dst = m.dst
  BY <1>1 DEF OnAir, Arrived
<1>4. /\ delivered' = [delivered EXCEPT ![n] = IF new THEN Append(@, p) ELSE @]
      /\ acked' = acked
      /\ \/ m.dst = Broadcast /\ Received(n, t)
         \/ m.dst # Broadcast /\ mac' = [mac EXCEPT ![n] = t] /\ Transmit(n, Ack(n, m.src))
  BY DEF ReceiveData, Arrived
<1>5. SameQueue(s, u)
  BY <1>2 DEF SameQueue, HasQueue
<1> HIDE DEF u
<1>6. SameQueue(u, a)
  BY <1>5, StateKeepsQueue DEF SameQueue
<1> HIDE DEF a
<1>7. SameQueue(a, b)
  BY <1>6, SetKeepsQueue DEF SameQueue
<1> HIDE DEF b
<1>8. SameQueue(b, ExtendActivePeriod(b))
  BY <1>7, ExtendKeepsQueue DEF SameQueue
<1>9. SameQueue(s, t)
  BY <1>5, <1>6, <1>7, <1>8 DEF SameQueue
<1> HIDE DEF t, p, new
<1>10. mac' = [mac EXCEPT ![n] = t]
  BY <1>4 DEF Received
<1>11. \A k \in Node : OnAir(k)' \in {f[k], {}}
  <2>1. CASE m.dst = Broadcast
    <3>1. \A k \in Node : air'[k] \in {IF k = n THEN None ELSE air[k], None}
      BY <1>2, <1>4, <2>1 DEF Received, Heard
    <3>2. \A k \in Node : k # n => OnAir(k)' \in {OnAir(k), {}}
      BY <3>1, OnAirKept
    <3>3. OnAir(n)' = {}
      BY <3>1 DEF OnAir
    <3> QED
      BY <3>2, <3>3
  <2>2. CASE m.dst # Broadcast
    <3>1. Ack(n, m.src).type # "DATA"
      BY DEF Ack
    <3> QED
      BY <1>4, <2>2, <3>1, ControlOnAir
  <2> QED
    BY <2>1, <2>2
<1>12. Link!Carries(f)
  BY <1>11, CarriesOK
<1>13. new <=> \A i \in DOMAIN delivered[n] :
                 delivered[n][i].src = p.src => delivered[n][i].sn < p.sn
  BY <1>1, NewerThanDelivered DEF new, p
<1>14. /\ p \in [k \in Node |-> OnAir(k)][n] /\ p.dst \in {n, Broadcast}
  BY <1>1, <1>3
<1> HIDE DEF m, f
<1>15. Link!Receive(n, p)
  <2>1. delivered' = [delivered EXCEPT ![n] =
                         IF \A i \in DOMAIN delivered[n] :
                               delivered[n][i].src = p.src => delivered[n][i].sn < p.sn
                         THEN Append(@, p) ELSE @]
    BY <1>4, <1>13
  <2>2. /\ [k \in Node |-> mac[k].buffer]' = [k \in Node |-> mac[k].buffer]
        /\ [k \in Node |-> mac[k].sent]' = [k \in Node |-> mac[k].sent]
    BY <1>2, <1>9, <1>10, QueuesNext DEF SameQueue
  <2> QED
    BY <1>4, <1>12, <1>14, <2>1, <2>2 DEF Link!Receive, f
<1> QED
  BY <1>2, <1>9, <1>10, <1>14, <1>15, UntriedKept, UntriedNext DEF Link!Next, GivesUp

LEMMA ReceiveAckLink ==
  ASSUME IInv, UntriedInv, par' = par, NEW n \in Node, ReceiveAck(n)
  PROVE  Link!Next /\ UntriedInv'
<1> DEFINE s == mac[n]
           m == air[n]
           c == Cancel(s, "TRANSMISSION_TIMEOUT")
           q == PopTxBuffer(c)
           t == ResetDefaultState(q)
           p == Head(s.buffer)
<1>1. /\ mac \in [Node -> Mac] /\ par \in Parameters /\ NodeOK(n, s) /\ CoreOK(n, s)
      /\ Untried(s) /\ HasQueue(s)
  BY IInvFacts, MacHasQueue DEF UntriedInv
<1>2. CASE ~IsAwaitedAck(s, m.src)
  <2>1. Received(n, s) /\ UNCHANGED <<delivered, acked>>
    BY <1>2 DEF ReceiveAck
  <2> QED
    BY <1>1, <2>1, QuietlyLink DEF GivesUp, SameQueue
<1>3. CASE IsAwaitedAck(s, m.src)
  <2>1. /\ Received(n, t) /\ acked' = acked \cup {p} /\ delivered' = delivered
        /\ m # None /\ m.type = "ACK" /\ m.dst \in {n, Broadcast}
    BY <1>3 DEF ReceiveAck, Arrives
  <2>2. s.state = "WAIT_FOR_ACK" /\ s.txAddr = m.src
    BY <1>3 DEF IsAwaitedAck
  <2>3. m.dst = n /\ m.src \in Node
    BY <2>1, ArrivedFacts, TMacAssumption
  <2>4. PICK i \in DOMAIN delivered[m.src] : delivered[m.src][i] = s.buffer[1]
    BY <2>1, <2>2, <2>3, ArrivedFacts DEF AirOK, AckOK
  <2>5. s.buffer # <<>> /\ p = s.buffer[1] /\ p.dst = m.src
    BY <1>1, <2>2, HeadFacts DEF NodeOK, CoreOK, StateOK
  <2>6. SameQueue(s, c)
    BY <1>1, SetKeepsQueue
  <2> HIDE DEF c
  <2>7. Popped(c, q)
    BY <2>5, <2>6, PopTxBufferQueue DEF SameQueue
  <2> HIDE DEF q
  <2>8. q.txRetries # 0 \/ q.buffer = <<>>
    BY <1>1, <2>7 DEF Popped, Parameters
  <2>9. SameQueue(q, t)
    BY <2>7, <2>8, ResetQueue DEF Popped
  <2>10. Popped(s, t)
    BY <2>6, <2>7, <2>9 DEF SameQueue, Popped
  <2> HIDE DEF t, m, p
  <2>11. /\ mac' = [mac EXCEPT ![n] = t]
         /\ \A k \in Node : air'[k] \in {air[k], None}
    BY <2>1, IInvFacts DEF Received, Heard
  <2>12. Link!Carries([k \in Node |-> OnAir(k)])
    BY <2>11, OnAirKept, CarriesOK
  <2>13. [k \in Node |-> mac[k].buffer][n] = s.buffer
    OBVIOUS
  <2>14. Link!Acknowledge(n)
    BY <1>1, <2>1, <2>3, <2>4, <2>5, <2>10, <2>11, <2>12, <2>13, QueuesNext
       DEF Link!Acknowledge, Popped, p
  <2> QED
    BY <1>1, <2>10, <2>11, <2>14, UntriedKept, UntriedNext DEF Link!Next
<1> QED
  BY <1>2, <1>3

LEMMA FromNetworkLayerLink ==
  ASSUME IInv, UntriedInv, par' = par, NEW n \in Node, FromNetworkLayer(n)
  PROVE  Link!Next /\ UntriedInv'
<1> DEFINE s == mac[n]
           k == s.sent + 1
           p == [src |-> n, dst |-> par.load[n][k], sn |-> k]
           u == [s EXCEPT !.sent = k]
           t == [u EXCEPT !.buffer = Append(@, p)]
           x == IF Len(u.buffer) >= par.macBufferSize THEN u
                ELSE IF Len(t.buffer) = 1 THEN CheckTxBuffer(t) ELSE t
<1>1. /\ mac \in [Node -> Mac] /\ par \in Parameters /\ CoreOK(n, s) /\ Untried(s)
      /\ HasQueue(s) /\ s.buffer \in Seq(DataPacket) /\ s.sent \in Nat
  BY IInvFacts, MacHasQueue DEF UntriedInv, Mac
<1>2. Quietly(n, x) /\ s.sent < Len(par.load[n])
  BY DEF FromNetworkLayer
<1>3. par.load[n][k] \in Address
  <2>1. par.load[n] \in Seq(Address)
    BY <1>1 DEF Parameters, Address
  <2>2. k \in DOMAIN par.load[n]
    BY <1>1, <1>2, <2>1
  <2> QED
    BY <2>1, <2>2, SeqFacts
<1>4. p \in DataPacket
  BY <1>1, <1>3 DEF DataPacket
<1> HIDE DEF p
<1>5. /\ HasQueue(u) /\ u.buffer = s.buffer /\ u.sent = k
      /\ u.txAddr = s.txAddr /\ u.txRetries = s.txRetries
  BY <1>1 DEF HasQueue
<1> HIDE DEF u
<1>6. /\ HasQueue(t) /\ t.buffer = Append(s.buffer, p) /\ t.sent = k
      /\ t.txAddr = s.txAddr /\ t.txRetries = s.txRetries
  BY <1>5 DEF HasQueue
<1>7. /\ Append(s.buffer, p) # <<>> /\ (s.buffer # <<>> => Len(s.buffer) >= 1)
      /\ Len(Append(s.buffer, p)) = Len(s.buffer) + 1 /\ Len(s.buffer) \in Nat
  BY <1>1, <1>4, AppendFacts
<1> HIDE DEF t
<1>8. /\ CheckTxBuffer(t).buffer = t.buffer /\ CheckTxBuffer(t).sent = t.sent
      /\ CheckTxBuffer(t).txRetries = par.maxTxRetries
  BY <1>6, <1>7, CheckTxBufferQueue
<1>9. /\ x.sent = k
      /\ x.buffer = IF Len(s.buffer) >= par.macBufferSize THEN s.buffer
                    ELSE Append(s.buffer, p)
  BY <1>5, <1>6, <1>8
<1>10. Untried(x)
  <2>1. Untried(u)
    BY <1>1, <1>5 DEF Untried
  <2>2. Untried(CheckTxBuffer(t))
    BY <1>1, <1>8 DEF Untried, Parameters
  <2>3. Len(t.buffer) # 1 => s.buffer # <<>>
    BY <1>6, <1>7
  <2>4. Len(t.buffer) # 1 => Untried(t)
    BY <1>1, <1>6, <2>3 DEF Untried
  <2> QED
    BY <2>1, <2>2, <2>4
<1> HIDE DEF x
<1>11. /\ mac' = [mac EXCEPT ![n] = x] /\ UNCHANGED <<delivered, acked>>
       /\ \A j \in Node : air'[j] \in {air[j], None}
  BY <1>2, IInvFacts DEF Quietly, Heard
<1>12. Link!Carries([j \in Node |-> OnAir(j)])
  BY <1>11, OnAirKept, CarriesOK
<1>13. \A j \in Node : mac'[j] = IF j = n THEN x ELSE mac[j]
  BY <1>1, <1>11
<1> DEFINE given == [j \in Node |-> mac[j].sent]
           queue == [j \in Node |-> mac[j].buffer]
           b == IF Len(s.buffer) >= par.macBufferSize THEN s.buffer ELSE Append(s.buffer, p)
<1>14. given' = [given EXCEPT ![n] = @ + 1] /\ given'[n] = k
  BY <1>9, <1>13
<1>15. queue' = [queue EXCEPT ![n] = b] /\ queue[n] = s.buffer
  BY <1>9, <1>13
<1>16. p = [src |-> n, dst |-> par.load[n][k], sn |-> given'[n]]
  BY <1>14 DEF p
<1>17. queue' = [queue EXCEPT ![n] =
                    IF Len(@) >= par.macBufferSize THEN @
                    ELSE Append(@, [src |-> n, dst |-> par.load[n][k], sn |-> given'[n]])]
  <2> HIDE DEF queue, given
  <2> QED
    BY <1>15, <1>16
<1> HIDE DEF s, k, p
<1>18. PICK dst \in Address : dst = par.load[n][k]
  BY <1>3
<1>19. Link!Give(n, dst)
  BY <1>11, <1>12, <1>14, <1>17, <1>18 DEF Link!Give
<1>20. Link!Next
  BY <1>19 DEF Link!Next
<1> QED
  BY <1>1, <1>10, <1>11, <1>20, UntriedNext

(* The timers, and the other packets                                        *)
LEMMA TimerStepsLink ==
  ASSUME IInv, UntriedInv, par' = par, NEW n \in Node,
         \/ SyncSetup(n) \/ SyncCreate(n) \/ SyncRenew(n) \/ FrameStart(n)
         \/ (\E id \in Node : WakeupSilent(n, id)) \/ CheckTA(n)
  PROVE  Link!Next /\ UntriedInv'
<1> DEFINE s == mac[n]
<1>1. HasQueue(s) /\ GivesUp(s, s)
  BY IInvFacts, MacHasQueue DEF GivesUp, SameQueue
<1>2. \A timer : SameQueue(s, Cancel(s, timer)) /\ HasQueue(Cancel(s, timer))
  BY <1>1, SetKeepsQueue DEF SameQueue
<1>3. CASE SyncSetup(n)
  <2> DEFINE c == Cancel(s, "SYNC_SETUP")
             t == IF c.state = "SETUP" THEN Set(c, "SYNC_CREATE") ELSE c
  <2>1. Quietly(n, t)
    BY <1>3 DEF SyncSetup
  <2>2. SameQueue(s, c)
    BY <1>2
  <2> HIDE DEF c
  <2>3. SameQueue(c, Set(c, "SYNC_CREATE"))
    BY <2>2, SetKeepsQueue DEF SameQueue
  <2>4. GivesUp(s, t)
    BY <2>2, <2>3 DEF GivesUp, SameQueue
  <2> HIDE DEF t
  <2> QED
    BY <2>1, <2>4, QuietlyLink
<1>4. CASE SyncCreate(n)
  <2> DEFINE c == Cancel(s, "SYNC_CREATE")
             r == UpdateScheduleTable(c, n, 0, FALSE)
             t == IF c.state = "SETUP" THEN Set(r, "SYNC_RENEW") ELSE c
  <2>1. Quietly(n, t)
    BY <1>4 DEF SyncCreate
  <2>2. SameQueue(s, c) /\ HasQueue(c)
    BY <1>2
  <2> HIDE DEF c
  <2>3. GivesUp(c, r)
    BY <2>2, UpdateScheduleQueue
  <2> HIDE DEF r
  <2>4. SameQueue(r, Set(r, "SYNC_RENEW"))
    BY <2>3, SetKeepsQueue DEF GivesUp, SameQueue, Popped
  <2>5. GivesUp(s, Set(r, "SYNC_RENEW"))
    BY <2>2, <2>3, <2>4, SameThenGivesUp, GivesUpThenSame
  <2>6. GivesUp(s, t)
    BY <2>2, <2>5 DEF GivesUp
  <2> HIDE DEF t
  <2> QED
    BY <2>1, <2>6, QuietlyLink
<1>5. CASE SyncRenew(n)
  <2> DEFINE t == [s EXCEPT !.table[1].sn = @ + 1, !.needResync = TRUE]
  <2>1. Quietly(n, t)
    BY <1>5 DEF SyncRenew
  <2>2. GivesUp(s, t)
    BY <1>1 DEF GivesUp, SameQueue, HasQueue
  <2> HIDE DEF t
  <2> QED
    BY <2>1, <2>2, QuietlyLink
<1>6. CASE FrameStart(n)
  <2> DEFINE a == [s EXCEPT !.primaryWakeup = TRUE, !.needResync = @ \/ s.shifted,
                            !.shifted = FALSE,
                            !.wakeups = {s.table[i].id : i \in 2 .. Len(s.table)}]
             e == ExtendActivePeriod(a)
             t == IF e.state \in {"SLEEP", "ACTIVE", "ACTIVE_SILENT"}
                  THEN ResetDefaultState(e) ELSE e
  <2>1. Quietly(n, t)
    BY <1>6 DEF FrameStart
  <2>2. SameQueue(s, a)
    BY <1>1 DEF SameQueue, HasQueue
  <2> HIDE DEF a
  <2>3. SameQueue(a, e)
    BY <2>2, ExtendKeepsQueue DEF SameQueue
  <2>4. SameQueue(s, e) /\ HasQueue(e)
    BY <2>2, <2>3 DEF SameQueue
  <2> HIDE DEF e
  <2>5. GivesUp(s, ResetDefaultState(e))
    BY <2>4, ResetQueue, SameThenGivesUp
  <2>6. GivesUp(s, t)
    BY <2>4, <2>5 DEF GivesUp
  <2> HIDE DEF t
  <2> QED
    BY <2>1, <2>6, QuietlyLink
<1>7. ASSUME NEW id \in Node, WakeupSilent(n, id)
      PROVE  Link!Next /\ UntriedInv'
  <2> DEFINE a == [s EXCEPT !.wakeups = @ \ {id}]
             e == ExtendActivePeriod(a)
             t == IF e.state = "SLEEP" THEN ResetDefaultState(e) ELSE e
  <2>1. Quietly(n, t)
    BY <1>7 DEF WakeupSilent
  <2>2. SameQueue(s, a)
    BY <1>1 DEF SameQueue, HasQueue
  <2> HIDE DEF a
  <2>3. SameQueue(a, e)
    BY <2>2, ExtendKeepsQueue DEF SameQueue
  <2>4. SameQueue(s, e) /\ HasQueue(e)
    BY <2>2, <2>3 DEF SameQueue
  <2> HIDE DEF e
  <2>5. GivesUp(s, ResetDefaultState(e))
    BY <2>4, ResetQueue, SameThenGivesUp
  <2>6. GivesUp(s, t)
    BY <2>4, <2>5 DEF GivesUp
  <2> HIDE DEF t
  <2> QED
    BY <2>1, <2>6, QuietlyLink
<1>8. CASE CheckTA(n)
  <2> DEFINE c == Cancel(s, "CHECK_TA")
             z == [c EXCEPT !.primaryWakeup = FALSE, !.state = "SLEEP"]
             t == IF par.disableTAextension \/ ~par.conservativeTA THEN z
                  ELSE IF c.state \in {"ACTIVE", "ACTIVE_SILENT", "SLEEP"}
                  THEN PerformCarrierSense(c, "CS_BEFORE_SLEEP")
                  ELSE ExtendActivePeriod(c)
  <2>1. Quietly(n, t)
    BY <1>8 DEF CheckTA
  <2>2. SameQueue(s, c) /\ HasQueue(c)
    BY <1>2
  <2> HIDE DEF c
  <2>3. /\ SameQueue(c, z) /\ SameQueue(c, ExtendActivePeriod(c))
        /\ SameQueue(c, PerformCarrierSense(c, "CS_BEFORE_SLEEP"))
    BY <2>2, ExtendKeepsQueue, SenseKeepsQueue DEF SameQueue, HasQueue
  <2> HIDE DEF z
  <2>4. GivesUp(s, t)
    BY <2>2, <2>3 DEF GivesUp, SameQueue
  <2> HIDE DEF t
  <2> QED
    BY <2>1, <2>4, QuietlyLink
<1> QED
  BY <1>3, <1>4, <1>5, <1>6, <1>7, <1>8

LEMMA OtherStepsLink ==
  ASSUME IInv, UntriedInv, par' = par, NEW n \in Node,
         \/ TransmissionTimeout(n) \/ CarrierSenseInVain(n) \/ CarrierSenseInterrupt(n)
         \/ Overhear(n) \/ ReceiveSync(n)
  PROVE  Link!Next /\ UntriedInv'
<1> DEFINE s == mac[n]
<1>1. HasQueue(s) /\ GivesUp(s, s)
  BY IInvFacts, MacHasQueue DEF GivesUp, SameQueue
<1>2. \A timer : /\ SameQueue(s, Cancel(s, timer)) /\ HasQueue(Cancel(s, timer))
                 /\ SameQueue(s, Set(s, timer)) /\ HasQueue(Set(s, timer))
  BY <1>1, SetKeepsQueue DEF SameQueue
<1>3. CASE TransmissionTimeout(n)
  <2> DEFINE c == Cancel(s, "TRANSMISSION_TIMEOUT")
             t == ResetDefaultState(c)
  <2>1. Quietly(n, t)
    BY <1>3 DEF TransmissionTimeout
  <2>2. SameQueue(s, c) /\ HasQueue(c)
    BY <1>2
  <2> HIDE DEF c
  <2>3. GivesUp(s, t)
    BY <2>2, ResetQueue, SameThenGivesUp
  <2> HIDE DEF t
  <2> QED
    BY <2>1, <2>3, QuietlyLink
<1>4. CASE CarrierSenseInVain(n)
  <2> DEFINE c == Cancel(s, "CARRIER_SENSE")
             t == IF c.state \in CarrierSenseState THEN CarrierIsBusy(c) ELSE c
  <2>1. Quietly(n, t)
    BY <1>4 DEF CarrierSenseInVain
  <2>2. SameQueue(s, c) /\ HasQueue(c)
    BY <1>2
  <2> HIDE DEF c
  <2>3. GivesUp(s, CarrierIsBusy(c))
    BY <2>2, BusyQueue, SameThenGivesUp
  <2>4. GivesUp(s, t)
    BY <2>2, <2>3 DEF GivesUp
  <2> HIDE DEF t
  <2> QED
    BY <2>1, <2>4, QuietlyLink
<1>5. CASE CarrierSenseInterrupt(n)
  BY <1>1, <1>5, BusyQueue, QuietlyLink DEF CarrierSenseInterrupt
<1>6. CASE Overhear(n)
  <2> DEFINE r == IF par.collisionResolution # 2 /\ air[n].nav
                  THEN Set(s, "TRANSMISSION_TIMEOUT") ELSE s
             e == ExtendActivePeriod(r)
             t == [e EXCEPT !.state = "ACTIVE_SILENT"]
  <2>1. Received(n, t) /\ UNCHANGED <<delivered, acked>>
    BY <1>6 DEF Overhear, OverheardBy
  <2>2. SameQueue(s, r) /\ HasQueue(r)
    BY <1>1, <1>2 DEF SameQueue
  <2> HIDE DEF r
  <2>3. SameQueue(r, e) /\ HasQueue(e)
    BY <2>2, ExtendKeepsQueue DEF SameQueue
  <2> HIDE DEF e
  <2>4. SameQueue(e, t)
    BY <2>3, StateKeepsQueue
  <2>5. GivesUp(s, t)
    BY <2>2, <2>3, <2>4 DEF GivesUp, SameQueue
  <2> HIDE DEF t
  <2> QED
    BY <2>1, <2>5, QuietlyLink
<1>7. CASE ReceiveSync(n)
  <2>1. PICK shift \in BOOLEAN :
           Received(n, UpdateScheduleTable(s, air[n].id, air[n].sn, shift))
    BY <1>7 DEF ReceiveSync
  <2>2. UNCHANGED <<delivered, acked>>
    BY <1>7 DEF ReceiveSync
  <2> DEFINE t == UpdateScheduleTable(s, air[n].id, air[n].sn, shift)
  <2>3. GivesUp(s, t)
    BY <1>1, UpdateScheduleQueue
  <2> HIDE DEF t
  <2> QED
    BY <2>1, <2>2, <2>3, QuietlyLink DEF t
<1> QED
  BY <1>3, <1>4, <1>5, <1>6, <1>7

LEMMA InitLink ==
  ASSUME Init
  PROVE  Link!Init /\ UntriedInv
<1>1. /\ par \in Parameters /\ par.macBufferSize \in Nat
  BY TMacAssumption DEF Init, Parameters
<1>2. \A n \in Node : mac[n].sent = 0 /\ mac[n].buffer = <<>>
  BY DEF Init
<1>3. \A k \in Node : OnAir(k) = {}
  BY DEF Init, OnAir
<1>4. delivered = [n \in Node |-> <<>>] /\ acked = {}
  BY DEF Init
<1>5. Link!Init
  BY <1>1, <1>2, <1>3, <1>4 DEF Link!Init
<1>6. UntriedInv
  BY <1>2 DEF UntriedInv, Untried
<1> QED
  BY <1>5, <1>6

(* T-MAC keeps the promise of LossyLink: every step of the protocol gives,  *)
(* sends, hands up, acknowledges, gives up or loses a packet as it allows,  *)
(* or changes nothing there.                                                *)
THEOREM KeepsLinkPromise == Spec => ImplementsLink
<1>1. Init => Link!Init /\ UntriedInv
  BY InitLink
<1>2. IInv /\ UntriedInv /\ [Next]_vars => [Link!Next]_Link!vars /\ UntriedInv'
  <2> SUFFICES ASSUME IInv, UntriedInv, [Next]_vars
               PROVE  [Link!Next]_Link!vars /\ UntriedInv'
    OBVIOUS
  <2>1. ASSUME par' = par, NEW n \in Node, Step(n)
        PROVE  Link!Next /\ UntriedInv'
    BY <2>1, TimerStepsLink, OtherStepsLink, CarrierSenseClearLink, FromNetworkLayerLink,
       ReceiveRtsLink, ReceiveCtsLink, ReceiveDataLink, ReceiveAckLink DEF Step
  <2>2. CASE UNCHANGED vars
    <3>1. UNCHANGED <<par, mac, air, delivered, acked>>
      BY <2>2 DEF vars
    <3>2. \A k \in Node : OnAir(k)' = OnAir(k)
      BY <3>1 DEF OnAir
    <3>3. UNCHANGED Link!vars
      BY <3>1, <3>2 DEF Link!vars
    <3>4. UntriedInv'
      BY <3>1 DEF UntriedInv, Untried
    <3> QED
      BY <3>3, <3>4
  <2> QED
    BY <2>1, <2>2 DEF Next
<1>3. Spec => []IInv
  BY Invariance
<1> QED
  BY <1>1, <1>2, <1>3, PTL DEF Spec, ImplementsLink, Link!Spec

=============================================================================
