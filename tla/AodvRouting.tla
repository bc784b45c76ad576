----------------------------- MODULE AodvRouting -----------------------------
(***************************************************************************)
(* AODV route discovery, reply, data forwarding and link breaks among      *)
(* several nodes: node/communication/routing/aodvRouting/AodvRouting.cc.   *)
(* One action is one call the simulation kernel makes into a node: a       *)
(* packet from the application or from the MAC, or a timer callback.       *)
(*                                                                         *)
(* What the radio and the MAC do to packets is external: a packet that was *)
(* sent stays in net until it is received, in any order; one that is never *)
(* received was lost.  A broadcast is one copy per neighbour.  Timers fire *)
(* at any moment while armed, in the order of their queue, which is the    *)
(* order of insertion because every entry of a queue has the same delay.   *)
(* How long a route lives is the subject of AodvLifetime: here it may      *)
(* expire at any time.  RREP acknowledgements are left out: a RREQ from a  *)
(* blacklisted neighbour is one more lost packet.  A RERR that waits for   *)
(* the RERR rate limiter is a RERR in net.  A timer callback that finds    *)
(* several destinations expired handles them one after the other, as       *)
(* consecutive steps here.                                                 *)
(***************************************************************************)
EXTENDS AodvTable, Lists, FiniteSets

CONSTANTS
    Neighbour,      \* [Node -> SUBSET Node]: who hears whom
    Packet,         \* application packets, records [id, src, dst]
    NetDiameter,    \* netDiameter
    RreqRetries,    \* rreqRetries
    NetBufferSize,  \* netBufferSize
    Dist,           \* Dist[n][d]: a lower bound of the hops from n to d
    MaxRreqID,      \* bound on the RREQs one node originates
    MaxDrops,       \* bound on expired rreqBroadcast records, all nodes
    MaxExpiries,    \* bound on expired routes, all nodes
    MaxBreaks       \* bound on missed hellos, all nodes

ASSUME NeighbourAssumption == Neighbour \in [Node -> SUBSET Node]
ASSUME DistAssumption ==
    /\ Dist \in [Node -> [Node -> Nat]]
    /\ \A n \in Node : Dist[n][n] = 0
    /\ \A m, d \in Node : \A n \in Neighbour[m] : Dist[n][d] <= Dist[m][d] + 1
ASSUME BoundAssumption ==
    /\ NetDiameter \in Nat /\ RreqRetries \in Nat /\ NetBufferSize \in Nat
    /\ MaxRreqID \in Nat /\ MaxDrops \in Nat /\ MaxExpiries \in Nat /\ MaxBreaks \in Nat
ASSUME PacketAssumption == Packet \subseteq [id : Nat, src : Node, dst : Node]

VARIABLES
    rt,             \* rt[n]: the routing table
    currSeqNum,     \* currSeqNum[n]
    currRreqID,     \* currRreqID[n]
    rreqBroadcast,  \* rreqBroadcast[n]: <<originator, rreqID>> already broadcast, oldest first
    rreqRequest,    \* rreqRequest[n]: requests waiting for a reply, [dest, canceled]
    rreqRetryCount, \* rreqRetryCount[n][d]
    rreqBuffer,     \* rreqBuffer[n]: RREQs waiting for the rate limiter
    rateLimited,    \* rateLimited[n]: AODV_RREQ_RATE_LIMIT_TIMER is armed
    TXBuffer,       \* TXBuffer[n]: data packets waiting for a route
    helloing,       \* helloing[n]: AODV_HELLO_MESSAGE_REFRESH_TIMER is armed
    heard,          \* heard[n]: neighbours with a running hello expiry (hmeluc > 0)
    net,            \* packets in flight
    unsent,         \* application packets not yet handed down
    delivered,      \* application packets that reached their destination
    left            \* what the bounds still allow: [drops, expiries, breaks]

tableVars == <<rt, currSeqNum>>
rreqVars == <<currRreqID, rreqBroadcast, rreqRequest, rreqRetryCount,
              rreqBuffer, rateLimited>>
dataVars == <<TXBuffer, unsent, delivered>>
helloVars == <<helloing, heard>>
vars == <<tableVars, rreqVars, dataVars, helloVars, net, left>>

-----------------------------------------------------------------------------
(* Packets in flight.  src is setSource(SELF), to the node that receives    *)
(* this copy.                                                               *)
RreqFields == [orig : Node, id : Nat, dest : Node, hops : Nat, sseq : Nat, dseq : Nat]

Message ==
    [type : {"RREQ"}, src : Node, to : Node, q : RreqFields]
    \cup [type : {"RREP"}, src : Node, to : Node,
          orig : Node, dest : Node, dseq : Nat, hops : Nat]
    \cup [type : {"RERR"}, src : Node, to : Node,
          seqs : UNION {[D -> Nat] : D \in SUBSET Node}]
    \cup [type : {"DATA"}, src : Node, to : Node, p : Packet]

Rreq(n, m, q) == [type |-> "RREQ", src |-> n, to |-> m, q |-> q]

Rrep(n, m, orig, dest, dseq, hops) ==
    [type |-> "RREP", src |-> n, to |-> m,
     orig |-> orig, dest |-> dest, dseq |-> dseq, hops |-> hops]

Rerr(n, m, seqs) == [type |-> "RERR", src |-> n, to |-> m, seqs |-> seqs]

Data(n, m, p) == [type |-> "DATA", src |-> n, to |-> m, p |-> p]

(* toMacLayer(packet, BROADCAST_MAC_ADDRESS)                                *)
Broadcast(n, q) == {Rreq(n, m, q) : m \in Neighbour[n]}

(* A copy for a node out of range is lost at once.                          *)
Transmit(received, sent) ==
    net' = (net \ received) \cup {m \in sent : m.to \in Neighbour[m.src]}

Init ==
    /\ rt = [n \in Node |-> EmptyTable]
    /\ currSeqNum = [n \in Node |-> 1]
    /\ currRreqID = [n \in Node |-> 0]
    /\ rreqBroadcast = [n \in Node |-> <<>>]
    /\ rreqRequest = [n \in Node |-> <<>>]
    /\ rreqRetryCount = [n \in Node |-> [d \in Node |-> 0]]
    /\ rreqBuffer = [n \in Node |-> <<>>]
    /\ rateLimited = [n \in Node |-> FALSE]
    /\ TXBuffer = [n \in Node |-> <<>>]
    /\ helloing = [n \in Node |-> FALSE]
    /\ heard = [n \in Node |-> {}]
    /\ net = {}
    /\ unsent = Packet
    /\ delivered = {}
    /\ left = [drops |-> MaxDrops, expiries |-> MaxExpiries, breaks |-> MaxBreaks]

-----------------------------------------------------------------------------
(* Sending RREQs                                                            *)

IsRequested(n, d) == \E i \in DOMAIN rreqRequest[n] : rreqRequest[n][i].dest = d

(* isRreqRequstActive(dest): canceled entries count as well                 *)
IsRreqRequestActive(n, d) ==
    \/ IsRequested(n, d)
    \/ \E i \in DOMAIN rreqBuffer[n] : rreqBuffer[n][i].dest = d

(* setRreqExpirationTimer(dest), added to the queue r                       *)
WithExpiration(n, d, r) ==
    IF \E i \in DOMAIN r : r[i].dest = d
    THEN r
    ELSE Append(r, [dest |-> d, canceled |-> FALSE])

(* checkExpireEntry(&rreqBroadcast, orig, id), and setRreqBoardcastDropTimer *)
(* that adds the record                                                     *)
WasBroadcast(n, q) ==
    \E i \in DOMAIN rreqBroadcast[n] : rreqBroadcast[n][i] = <<q.orig, q.id>>

RememberBroadcast(n, q) ==
    rreqBroadcast' = [rreqBroadcast EXCEPT ![n] =
        IF WasBroadcast(n, q) THEN @ ELSE Append(@, <<q.orig, q.id>>)]

(* The RREQ q goes on the air: the retry count of its destination grows,    *)
(* its identity is remembered, a request of this node's own starts waiting, *)
(* and the rate limiter is armed.  r is rreqRequest[n] at that moment.      *)
TransmitRreq(n, q, r) ==
    /\ rreqRetryCount' = [rreqRetryCount EXCEPT ![n][q.dest] = @ + 1]
    /\ RememberBroadcast(n, q)
    /\ rreqRequest' = [rreqRequest EXCEPT ![n] =
           IF q.orig = n THEN WithExpiration(n, q.dest, r) ELSE r]
    /\ rateLimited' = [rateLimited EXCEPT ![n] = TRUE]

(* sendRreqRequest: at once, or into rreqBuffer while the limiter is armed  *)
SendRreqRequest(n, q, r, received) ==
    IF ~rateLimited[n]
    THEN /\ TransmitRreq(n, q, r)
         /\ Transmit(received, Broadcast(n, q))
         /\ UNCHANGED rreqBuffer
    ELSE /\ rreqBuffer' = [rreqBuffer EXCEPT ![n] = Append(@, q)]
         /\ rreqRequest' = [rreqRequest EXCEPT ![n] = r]
         /\ Transmit(received, {})
         /\ UNCHANGED <<rreqRetryCount, rreqBroadcast, rateLimited>>

(* A node that has no route for d asks for one with a new number and id.    *)
OriginateRreq(n, d, received) ==
    /\ currRreqID[n] < MaxRreqID
    /\ currSeqNum' = [currSeqNum EXCEPT ![n] = @ + 1]
    /\ currRreqID' = [currRreqID EXCEPT ![n] = @ + 1]
    /\ SendRreqRequest(n, [orig |-> n, id |-> currRreqID'[n], dest |-> d, hops |-> 0,
                           sseq |-> currSeqNum'[n], dseq |-> rt[n][d].seq],
                       rreqRequest[n], received)

(* bufferPacket: a packet that finds the buffer full is deleted             *)
BufferPacket(n, p) ==
    TXBuffer' = [TXBuffer EXCEPT ![n] =
        IF Len(@) >= NetBufferSize THEN @ ELSE Append(@, p)]

-----------------------------------------------------------------------------
(* fromApplicationLayer for a unicast destination                           *)
FromApplicationLayer(n, p) ==
    /\ p \in unsent /\ p.src = n
    /\ unsent' = unsent \ {p}
    /\ IF IsRouteValid(rt[n], p.dst)
       THEN /\ Transmit({}, {Data(n, rt[n][p.dst].next, p)})
            /\ UNCHANGED <<tableVars, rreqVars, TXBuffer>>
       ELSE /\ IF ~IsRreqRequestActive(n, p.dst)
               THEN OriginateRreq(n, p.dst, {})
               ELSE UNCHANGED <<currSeqNum, rreqVars, net>>
            /\ BufferPacket(n, p)
            /\ UNCHANGED rt
    /\ UNCHANGED <<delivered, helloVars, left>>

(* fromMacLayer, AODV_DATA_PACKET: processDataPackage                       *)
ProcessData(n, m) ==
    /\ m \in net /\ m.type = "DATA" /\ m.to = n
    /\ IF m.p.dst = n
       THEN /\ delivered' = delivered \cup {m.p}
            /\ Transmit({m}, {})
            /\ UNCHANGED <<tableVars, rreqVars, TXBuffer>>
       ELSE /\ UNCHANGED <<delivered, rt>>
            /\ IF IsRouteValid(rt[n], m.p.dst)
               THEN /\ Transmit({m}, {Data(n, rt[n][m.p.dst].next, m.p)})
                    /\ UNCHANGED <<currSeqNum, rreqVars, TXBuffer>>
               ELSE IF ~IsRreqRequestActive(n, m.p.dst)
               THEN /\ OriginateRreq(n, m.p.dst, {m})
                    /\ BufferPacket(n, m.p)
               ELSE /\ Transmit({m}, {})
                    /\ UNCHANGED <<currSeqNum, rreqVars, TXBuffer>>
    /\ UNCHANGED <<unsent, helloVars, left>>

-----------------------------------------------------------------------------
(* fromMacLayer, AODV_RREQ_PACKET: processAodvRreqPackage.  The previous    *)
(* hop gets a route without a sequence number in any case; a RREQ already   *)
(* broadcast goes no further.                                               *)
RouteToPrevHop(n, src) == UpdateEntry(rt[n], src, 0, 1, src)

(* The route to the originator, without the hop to this node.               *)
RouteUncounted(n, m) ==
    UpdateEntry(RouteToPrevHop(n, m.src), m.q.orig, m.q.sseq, m.q.hops, m.src)

RouteToOriginator(n, m) ==
    UpdateEntry(RouteToPrevHop(n, m.src), m.q.orig, m.q.sseq, m.q.hops + 1, m.src)

ProcessRreq(n, m) ==
    /\ m \in net /\ m.type = "RREQ" /\ m.to = n
    /\ IF WasBroadcast(n, m.q)
       THEN /\ rt' = [rt EXCEPT ![n] = RouteToPrevHop(n, m.src)]
            /\ Transmit({m}, {})
            /\ UNCHANGED <<currSeqNum, rreqVars>>
       ELSE IF m.q.dest # n
       THEN \* forward it
            /\ rt' = [rt EXCEPT ![n] = RouteToOriginator(n, m)]
            /\ LET known == rt'[n][m.q.dest].seq
                   dseq == IF known > m.q.dseq THEN known ELSE m.q.dseq
               IN SendRreqRequest(n, [m.q EXCEPT !.hops = @ + 1, !.dseq = dseq],
                                  rreqRequest[n], {m})
            /\ UNCHANGED <<currSeqNum, currRreqID>>
       ELSE \* answer it, from an entry for oneself if there is one
            LET t == RouteToOriginator(n, m)
                self == HasEntry(t, n)
                own == IF m.q.dseq = currSeqNum[n] THEN currSeqNum[n] + 1
                                                   ELSE currSeqNum[n]
                dseq == IF self THEN t[n].seq ELSE own
                back == t[m.q.orig].next
            IN  /\ rt' = [rt EXCEPT ![n] = t]
                /\ currSeqNum' = [currSeqNum EXCEPT ![n] = IF self THEN @ ELSE own]
                /\ RememberBroadcast(n, m.q)
                /\ Transmit({m}, {Rrep(n, back, m.q.orig, n, dseq, t[n].hops)})
                /\ UNCHANGED <<currRreqID, rreqRequest, rreqRetryCount,
                               rreqBuffer, rateLimited>>
    /\ UNCHANGED <<dataVars, helloVars, left>>

-----------------------------------------------------------------------------
(* processPackagesInBuffer(dest, drop): the buffered packets for d are sent *)
(* to the next hop of its entry, or deleted; the others stay, in order.     *)
PacketsFor(n, d) == {p \in Packet : \E i \in DOMAIN TXBuffer[n] :
                                        TXBuffer[n][i] = p /\ p.dst = d}

(* A flush that leaves what it sent in the buffer.                          *)
AllPackets(n, d) == TXBuffer[n]

OtherPackets(n, d) == Only(TXBuffer[n], {p \in Packet : p.dst # d})

(* cancelExpireEntry(&rreqRequest, dest)                                    *)
Canceled(r, d) ==
    [i \in DOMAIN r |-> IF r[i].dest = d THEN [r[i] EXCEPT !.canceled = TRUE] ELSE r[i]]

CancelRequest(n, d) ==
    rreqRequest' = [rreqRequest EXCEPT ![n] = Canceled(@, d)]

(* fromMacLayer, AODV_RREP_PACKET: processAodvRrepPackage                   *)
ProcessRrep(n, m) ==
    /\ m \in net /\ m.type = "RREP" /\ m.to = n
    /\ helloing' = [helloing EXCEPT ![n] = TRUE]
    /\ LET t == UpdateEntry(RouteToPrevHop(n, m.src),
                            m.dest, m.dseq, m.hops + 1, m.src)
           back == t[m.orig].next
       IN  IF m.orig # n
           THEN IF m.hops < NetDiameter /\ back # NoNode
                THEN /\ rt' = [rt EXCEPT ![n] =
                            IF m.dest # n THEN UpdatePrecursor(t, m.dest, back) ELSE t]
                     /\ Transmit({m}, {Rrep(n, back, m.orig, m.dest, m.dseq, m.hops + 1)})
                     /\ UNCHANGED <<rreqVars, TXBuffer>>
                ELSE /\ rt' = [rt EXCEPT ![n] = t]
                     /\ Transmit({m}, {})
                     /\ UNCHANGED <<rreqVars, TXBuffer>>
           ELSE /\ rt' = [rt EXCEPT ![n] = t]
                /\ rreqRetryCount' = [rreqRetryCount EXCEPT ![n][m.dest] = 0]
                /\ Transmit({m}, {Data(n, t[m.dest].next, p) : p \in PacketsFor(n, m.dest)})
                /\ TXBuffer' = [TXBuffer EXCEPT ![n] = OtherPackets(n, m.dest)]
                /\ CancelRequest(n, m.dest)
                /\ UNCHANGED <<currRreqID, rreqBroadcast, rreqBuffer, rateLimited>>
    /\ UNCHANGED <<currSeqNum, unsent, delivered, heard, left>>

-----------------------------------------------------------------------------
(* sendRerrMessage(affDest, affPrecur): the first precursor's message takes *)
(* the destinations out of the list, so the messages to the others are      *)
(* empty.  Empty messages change nothing at the receiver and are left out;  *)
(* which precursor is first depends on the order of the lists.              *)
SendRerr(n, t, dests, precs, received) ==
    IF dests = {} \/ precs = {}
    THEN Transmit(received, {})
    ELSE \E p \in precs :
            Transmit(received, {Rerr(n, p, [d \in dests |-> t[d].seq])})

(* fromMacLayer, AODV_RERR_PACKET: processAodvRerrPackage                   *)
ProcessRerr(n, m) ==
    /\ m \in net /\ m.type = "RERR" /\ m.to = n
    /\ LET affected == DOMAIN m.seqs
           t == UpdateSeqNums(rt[n], m.seqs)
           u == ForwardLinkBroken(t, m.src, affected)
       IN  /\ rt' = [rt EXCEPT ![n] = u]
           /\ SendRerr(n, u, affected, Precursors(t, RoutedOver(t, m.src, affected)), {m})
    /\ UNCHANGED <<currSeqNum, rreqVars, dataVars, helloVars, left>>

(* fromMacLayer, AODV_HELLO_MESSAGE_PACKET: processHelloMsg.  Hellos are    *)
(* sent over and over while the refresh timer runs, so they are not kept in *)
(* net: a neighbour that sends them may be heard at any time.               *)
ProcessHello(n, m) ==
    /\ helloing[m] /\ n \in Neighbour[m]
    /\ m \notin heard[n]
    /\ heard' = [heard EXCEPT ![n] = @ \cup {m}]
    /\ UNCHANGED <<tableVars, rreqVars, dataVars, helloing, net, left>>

-----------------------------------------------------------------------------
(* timerFiredCallback                                                       *)

(* AODV_RREQ_BROADCAST_DROP_TIMER                                           *)
RreqBroadcastDrop(n) ==
    /\ left.drops > 0
    /\ rreqBroadcast[n] # <<>>
    /\ rreqBroadcast' = [rreqBroadcast EXCEPT ![n] = Tail(@)]
    /\ left' = [left EXCEPT !.drops = @ - 1]
    /\ UNCHANGED <<tableVars, currRreqID, rreqRequest, rreqRetryCount, rreqBuffer,
                   rateLimited, dataVars, helloVars, net>>

(* Giving up on a destination, without the packets that wait for it.        *)
GiveUpQuietly(n) ==
    /\ rreqRequest[n] # <<>>
    /\ rreqRequest' = [rreqRequest EXCEPT ![n] = Tail(@)]
    /\ rreqRetryCount' = [rreqRetryCount EXCEPT ![n][Head(rreqRequest[n]).dest] = 0]
    /\ UNCHANGED <<currRreqID, rreqBroadcast, rreqBuffer, rateLimited, net, TXBuffer,
                   tableVars, unsent, delivered, helloVars, left>>

(* AODV_RREQ_EXPIRATION_TIMER                                               *)
RreqExpiration(n) ==
    /\ rreqRequest[n] # <<>>
    /\ LET d == Head(rreqRequest[n]).dest
           rest == Tail(rreqRequest[n])
       IN  IF Head(rreqRequest[n]).canceled
           THEN /\ rreqRequest' = [rreqRequest EXCEPT ![n] = rest]
                /\ UNCHANGED <<currRreqID, rreqBroadcast, rreqRetryCount, rreqBuffer,
                               rateLimited, TXBuffer, net>>
           ELSE IF rreqRetryCount[n][d] < RreqRetries
           THEN \* send another RREQ, with the same sequence number
                /\ currRreqID[n] < MaxRreqID
                /\ currRreqID' = [currRreqID EXCEPT ![n] = @ + 1]
                /\ SendRreqRequest(n, [orig |-> n, id |-> currRreqID'[n], dest |-> d,
                                       hops |-> 0, sseq |-> currSeqNum[n],
                                       dseq |-> rt[n][d].seq], rest, {})
                /\ UNCHANGED TXBuffer
           ELSE \* give up
                /\ rreqRequest' = [rreqRequest EXCEPT ![n] = rest]
                /\ rreqRetryCount' = [rreqRetryCount EXCEPT ![n][d] = 0]
                /\ TXBuffer' = [TXBuffer EXCEPT ![n] = OtherPackets(n, d)]
                /\ UNCHANGED <<currRreqID, rreqBroadcast, rreqBuffer, rateLimited, net>>
    /\ UNCHANGED <<tableVars, unsent, delivered, helloVars, left>>

(* AODV_RREQ_RATE_LIMIT_TIMER: processrreqBuffer, which re-arms the timer,  *)
(* or nothing when no RREQ waits                                            *)
RreqRateLimit(n) ==
    /\ rateLimited[n]
    /\ IF rreqBuffer[n] # <<>>
       THEN /\ TransmitRreq(n, Head(rreqBuffer[n]), rreqRequest[n])
            /\ Transmit({}, Broadcast(n, Head(rreqBuffer[n])))
            /\ rreqBuffer' = [rreqBuffer EXCEPT ![n] = Tail(@)]
            /\ UNCHANGED currRreqID
       ELSE /\ rateLimited' = [rateLimited EXCEPT ![n] = FALSE]
            /\ UNCHANGED <<currRreqID, rreqBroadcast, rreqRequest, rreqRetryCount,
                           rreqBuffer, net>>
    /\ UNCHANGED <<tableVars, dataVars, helloVars, left>>

(* AODV_ROUTING_TABLE_ENTRY_EXPIRATION_TIMER, for the destination whose     *)
(* last lifetime entry ran out                                              *)
RouteExpiration(n, d) ==
    /\ left.expiries > 0
    /\ IsRouteValid(rt[n], d)
    /\ rt' = [rt EXCEPT ![n] = UpdateState(@, d, "INVALID")]
    /\ left' = [left EXCEPT !.expiries = @ - 1]
    /\ UNCHANGED <<currSeqNum, rreqVars, dataVars, helloVars, net>>

(* AODV_HELLO_MESSAGE_EXPIRE_TIMER, for a neighbour whose hellos stopped    *)
HelloExpiration(n, m) ==
    /\ left.breaks > 0
    /\ m \in heard[n]
    /\ heard' = [heard EXCEPT ![n] = @ \ {m}]
    /\ LET broken == RoutedOver(rt[n], m, Node)
           t == ReportLinkBroken(rt[n], m)
       IN  /\ rt' = [rt EXCEPT ![n] = t]
           /\ SendRerr(n, t, broken, Precursors(rt[n], broken), {})
    /\ left' = [left EXCEPT !.breaks = @ - 1]
    /\ UNCHANGED <<currSeqNum, rreqVars, dataVars, helloing>>

-----------------------------------------------------------------------------
Receive(n) == \E m \in net : ProcessData(n, m) \/ ProcessRreq(n, m)
                               \/ ProcessRrep(n, m) \/ ProcessRerr(n, m)

Next ==
    \E n \in Node :
        \/ \E p \in Packet : FromApplicationLayer(n, p)
        \/ Receive(n)
        \/ \E m \in Node : ProcessHello(n, m) \/ HelloExpiration(n, m)
        \/ RreqBroadcastDrop(n)
        \/ RreqExpiration(n)
        \/ RreqRateLimit(n)
        \/ \E d \in Node : RouteExpiration(n, d)

Spec == Init /\ [][Next]_vars

-----------------------------------------------------------------------------
RoutingTypeOK ==
    /\ rt \in [Node -> Table]
    /\ currSeqNum \in [Node -> Nat]
    /\ currRreqID \in [Node -> 0 .. MaxRreqID]
    /\ rreqBroadcast \in [Node -> Seq(Node \X Nat)]
    /\ rreqRequest \in [Node -> Seq([dest : Node, canceled : BOOLEAN])]
    /\ rreqRetryCount \in [Node -> [Node -> Nat]]
    /\ rreqBuffer \in [Node -> Seq(RreqFields)]
    /\ rateLimited \in [Node -> BOOLEAN]
    /\ helloing \in [Node -> BOOLEAN]
    /\ heard \in [Node -> SUBSET Node]
    /\ net \in SUBSET Message
    /\ left \in [drops : Nat, expiries : Nat, breaks : Nat]

DataTypeOK ==
    /\ TXBuffer \in [Node -> Seq(Packet)]
    /\ unsent \in SUBSET Packet
    /\ delivered \in SUBSET Packet

TypeOK == RoutingTypeOK /\ DataTypeOK

Sent(type) == {m \in net : m.type = type}

RreqsAt(n) == {rreqBuffer[n][i] : i \in DOMAIN rreqBuffer[n]}

(* A hop count is never smaller than the real distance, in the tables and   *)
(* in everything on the way to one: hops are counted once per transmission, *)
(* also for RREQs that wait in rreqBuffer, and an update never combines the *)
(* hops of one route with the next hop of another.                          *)
HopsNeverUnderestimate ==
    /\ \A n, d \in Node : HasEntry(rt[n], d) => Dist[n][d] <= rt[n][d].hops
    /\ \A n \in Node : \A q \in RreqsAt(n) : Dist[n][q.orig] <= q.hops
    /\ \A m \in Sent("RREQ") : Dist[m.src][m.q.orig] <= m.q.hops
    /\ \A m \in Sent("RREP") : Dist[m.src][m.dest] <= m.hops

(* A next hop is a node this node has heard, and it is the destination or   *)
(* has an entry for it too: no packet is handed to a node that never heard  *)
(* of its destination, whatever expired or broke in the meantime.           *)
NextHopKnowsDestination ==
    \A n, d \in Node : HasEntry(rt[n], d) =>
        LET next == rt[n][d].next
        IN  /\ next \in Node
            /\ n \in Neighbour[next]
            /\ next = d \/ HasEntry(rt[next], d)

(* A RREP that is passed on has made its receiver a precursor of the route  *)
(* it will install, so that a later RERR can reach it.                      *)
RrepHasPrecursor ==
    \A m \in Sent("RREP") : m.src # m.dest => m.to \in rt[m.src][m.dest].prec

(* An application packet is in one place at most: not sent twice when the   *)
(* buffer is flushed, not both buffered and forwarded, not delivered again. *)
PacketInOnePlace ==
    \A p \in Packet :
        LET onAir == {m \in Sent("DATA") : m.p = p}
            slots == {s \in Node \X (1 .. Cardinality(Packet)) :
                        s[2] \in DOMAIN TXBuffer[s[1]] /\ TXBuffer[s[1]][s[2]] = p}
        IN  /\ Cardinality(onAir) + Cardinality(slots) <= 1
            /\ onAir \cup slots # {} => p \notin unsent \cup delivered
            /\ p \notin unsent \cap delivered

(* The copies of the application packet p among the messages N.             *)
OnAir(N, p) == {m \in N : m.type = "DATA" /\ m.p = p}

WaitsAt(p) == {n \in Node : \E i \in 1 .. Len(TXBuffer[n]) : TXBuffer[n][i] = p}

At(what, n) == [what |-> what, node |-> n]

(* Where p is: not handed down yet, handed up, on the air, in a buffer, or  *)
(* lost.                                                                    *)
Place(p) ==
    IF p \in unsent THEN At("source", NoNode)
    ELSE IF p \in delivered THEN At("delivered", NoNode)
    ELSE IF OnAir(net, p) # {} THEN At("air", (CHOOSE m \in OnAir(net, p) : TRUE).to)
    ELSE IF WaitsAt(p) # {} THEN At("buffer", CHOOSE n \in WaitsAt(p) : TRUE)
    ELSE At("lost", NoNode)

(* What the applications may rely on, whatever the routes are: every packet *)
(* is in one place at a time, moves from neighbour to neighbour, is dropped *)
(* by its own node only for lack of room or over a one-way link, leaves a   *)
(* buffer together with all that wait for the same destination, and is      *)
(* handed up once, at its destination.                                      *)
Service == INSTANCE Datagrams WITH
    Capacity <- NetBufferSize,
    place <- [p \in Packet |-> Place(p)]

ImplementsDatagrams == Service!Spec

(* RFC 3561, "It uses destination sequence numbers to ensure loop freedom   *)
(* at all times (even in the face of anomalous delivery of routing control  *)
(* messages)" (rfc3561.txt:35-37): the valid next hops towards a            *)
(* destination never form a cycle, so no set of nodes keeps a packet among  *)
(* its members.                                                             *)
LoopFree ==
    \A d \in Node : \A S \in (SUBSET (Node \ {d})) \ {{}} :
        \E n \in S : ~(IsRouteValid(rt[n], d) /\ rt[n][d].next \in S)

(* The timers that give up on a request run on, whatever happens to the     *)
(* packets; that a packet is received is never assumed.                     *)
FairSpec ==
    /\ Spec
    /\ \A n \in Node : WF_vars(RreqExpiration(n)) /\ WF_vars(RreqRateLimit(n))

(* A request is due to be repeated, and the bound has no RREQ left for it.  *)
OutOfRreqs(n) ==
    /\ currRreqID[n] = MaxRreqID
    /\ rreqRequest[n] # <<>>
    /\ LET r == Head(rreqRequest[n])
       IN  ~r.canceled /\ rreqRetryCount[n][r.dest] < RreqRetries

(* A packet does not wait for a route for ever: it is sent when one is      *)
(* found, or given up with the last request.  Only where the bound ends the *)
(* requests of its node before that is nothing said.                        *)
BufferedPacketLeaves ==
    \A n \in Node, p \in Packet :
        PacketsFor(n, p.dst) # {} ~> PacketsFor(n, p.dst) = {} \/ OutOfRreqs(n)

=============================================================================
