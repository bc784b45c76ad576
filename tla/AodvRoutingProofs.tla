-------------------------- MODULE AodvRoutingProofs --------------------------
(***************************************************************************)
(* Proofs about AodvRouting for every set of nodes, radio topology, set of *)
(* packets and bound, and, below, about AodvLifetime for every set of      *)
(* destinations, timeout and bound.                                        *)
(***************************************************************************)
EXTENDS AodvRouting, AodvLifetime, ListProofs, SequenceTheorems, FiniteSetTheorems, TLAPS

(* updateEntry(d, ...) leaves an entry for d that is the offered route or   *)
(* the route there was, and touches no other destination.                   *)
Updated(t, u, d, hops, next) ==
    /\ u \in Table
    /\ HasEntry(u, d)
    /\ \A e \in Node \ {d} : u[e] = t[e]
    /\ u[d].prec = t[d].prec
    /\ \/ u[d].hops = hops /\ u[d].next = next
       \/ HasEntry(t, d) /\ u[d].hops = t[d].hops /\ u[d].next = t[d].next

LEMMA UpdateEntryProperties ==
  ASSUME NEW t \in Table, NEW d \in Node, NEW seq \in Nat, NEW hops \in Nat,
         NEW next \in Node
  PROVE  Updated(t, UpdateEntry(t, d, seq, hops, next), d, hops, next)
BY DEF Updated, UpdateEntry, Overwrites, Table, Entry, States, HasEntry

(* updatePrecursor(d, p) adds p to the entry for d and keeps all routes.    *)
PrecursorAdded(t, u, d, p) ==
    /\ u \in Table
    /\ HasEntry(t, d) => p \in u[d].prec
    /\ \A e \in Node : /\ HasEntry(u, e) <=> HasEntry(t, e)
                       /\ u[e].hops = t[e].hops
                       /\ u[e].next = t[e].next
                       /\ t[e].prec \subseteq u[e].prec

LEMMA UpdatePrecursorProperties ==
  ASSUME NEW t \in Table, NEW d \in Node, NEW p \in Node
  PROVE  PrecursorAdded(t, UpdatePrecursor(t, d, p), d, p)
BY DEF PrecursorAdded, UpdatePrecursor, Table, Entry, States, HasEntry

(* The operations that only change states and sequence numbers.             *)
SameRoutes(t, u) ==
    /\ u \in Table
    /\ \A d \in Node : /\ HasEntry(u, d) <=> HasEntry(t, d)
                       /\ u[d].hops = t[d].hops
                       /\ u[d].next = t[d].next
                       /\ u[d].prec = t[d].prec

LEMMA UpdateStateKeepsRoutes ==
  ASSUME NEW t \in Table, NEW d \in Node
  PROVE  SameRoutes(t, UpdateState(t, d, "INVALID"))
BY DEF SameRoutes, UpdateState, Table, Entry, States, HasEntry

LEMMA UpdateSeqNumsKeepsRoutes ==
  ASSUME NEW t \in Table, NEW D \in SUBSET Node, NEW seqs \in [D -> Nat]
  PROVE  SameRoutes(t, UpdateSeqNums(t, seqs))
BY DEF SameRoutes, UpdateSeqNums, Table, Entry, States, HasEntry

LEMMA ReportLinkBrokenKeepsRoutes ==
  ASSUME NEW t \in Table, NEW neib \in Node
  PROVE  SameRoutes(t, ReportLinkBroken(t, neib))
<1> DEFINE u == ReportLinkBroken(t, neib)
<1>1. ASSUME NEW d \in Node
      PROVE  /\ u[d] \in Entry
             /\ HasEntry(u, d) <=> HasEntry(t, d)
             /\ u[d].hops = t[d].hops /\ u[d].next = t[d].next /\ u[d].prec = t[d].prec
  <2>1. t[d] \in Entry
    BY DEF Table
  <2>2. CASE d \in RoutedOver(t, neib, Node)
    <3>1. u[d] = [t[d] EXCEPT !.state = "INVALID", !.seq = @ + 1]
      BY <2>2 DEF ReportLinkBroken
    <3>2. HasEntry(t, d)
      BY <2>2 DEF RoutedOver, IsRouteValid, HasEntry
    <3>3. /\ u[d].state = "INVALID" /\ u[d].seq = t[d].seq + 1
          /\ u[d].hops = t[d].hops /\ u[d].next = t[d].next
          /\ u[d].prec = t[d].prec
      BY <2>1, <3>1 DEF Entry
    <3>4. u[d] = [state |-> "INVALID", seq |-> t[d].seq + 1, hops |-> t[d].hops,
                  next |-> t[d].next, prec |-> t[d].prec]
      BY <2>1, <3>1 DEF Entry
    <3>5. u[d] \in Entry
      BY <2>1, <3>4 DEF Entry, States
    <3> QED BY <3>2, <3>3, <3>5 DEF HasEntry
  <2>3. CASE d \notin RoutedOver(t, neib, Node)
    <3>1. u[d] = t[d]
      BY <2>3 DEF ReportLinkBroken
    <3> QED BY <2>1, <3>1 DEF HasEntry
  <2> QED BY <2>2, <2>3
<1>2. u \in Table
  BY <1>1 DEF Table, ReportLinkBroken
<1> QED BY <1>1, <1>2 DEF SameRoutes

LEMMA ForwardLinkBrokenKeepsRoutes ==
  ASSUME NEW t \in Table, NEW src \in Node, NEW D \in SUBSET Node
  PROVE  SameRoutes(t, ForwardLinkBroken(t, src, D))
BY DEF SameRoutes, ForwardLinkBroken, RoutedOver, IsRouteValid, Table, Entry, States, HasEntry

-----------------------------------------------------------------------------
(* The invariant behind HopsNeverUnderestimate and NextHopKnowsDestination: *)
(* what a node says about a destination, in its table, in a RREQ it holds   *)
(* back or in a packet in flight, was learned over links that exist, counts *)
(* them, and left an entry behind at every node it passed.  r stands for    *)
(* the tables of all nodes.                                                 *)
KnownAt(r, n, d, hops) == Dist[n][d] <= hops /\ (n = d \/ HasEntry(r[n], d))

RouteOK(r, n, d, hops, via) ==
    /\ Dist[n][d] <= hops
    /\ via \in Node
    /\ n \in Neighbour[via]
    /\ via = d \/ HasEntry(r[via], d)

TableOK(r, n, t) ==
    /\ t \in Table
    /\ \A d \in Node : HasEntry(t, d) => RouteOK(r, n, d, t[d].hops, t[d].next)

RrepOK(r, m) ==
    /\ KnownAt(r, m.src, m.dest, m.hops)
    /\ m.src = m.dest \/ m.to \in r[m.src][m.dest].prec

MessageOK(r, m) ==
    /\ m \in Message
    /\ m.to \in Neighbour[m.src]
    /\ m.type = "RREQ" => KnownAt(r, m.src, m.q.orig, m.q.hops)
    /\ m.type = "RREP" => RrepOK(r, m)

BufferOK(r, n, buf) ==
    /\ buf \in Seq(RreqFields)
    /\ \A i \in DOMAIN buf : KnownAt(r, n, buf[i].orig, buf[i].hops)

TablesInv == rt \in [Node -> Table] /\ \A n \in Node : TableOK(rt, n, rt[n])

BuffersInv ==
    /\ rreqBuffer \in [Node -> Seq(RreqFields)]
    /\ \A n \in Node : BufferOK(rt, n, rreqBuffer[n])

NetInv == \A m \in net : MessageOK(rt, m)

(* Entries are never removed and precursors are never forgotten, so what    *)
(* was known stays known.                                                   *)
TableGrows(t, u) ==
    \A d \in Node : /\ HasEntry(t, d) => HasEntry(u, d)
                    /\ t[d].prec \subseteq u[d].prec

Grows(r, s) == \A n \in Node : TableGrows(r[n], s[n])

LEMMA KnownStaysKnown ==
  ASSUME NEW r, NEW s, Grows(r, s), NEW n \in Node, NEW d \in Node, NEW hops
  PROVE  /\ KnownAt(r, n, d, hops) => KnownAt(s, n, d, hops)
         /\ \A via : RouteOK(r, n, d, hops, via) => RouteOK(s, n, d, hops, via)
BY DEF Grows, TableGrows, KnownAt, RouteOK

LEMMA BufferStaysOK ==
  ASSUME NEW r, NEW s, Grows(r, s), NEW n \in Node, NEW buf, BufferOK(r, n, buf)
  PROVE  BufferOK(s, n, buf)
<1>1. ASSUME NEW i \in DOMAIN buf PROVE KnownAt(s, n, buf[i].orig, buf[i].hops)
  <2>1. buf[i] \in RreqFields
    BY ElementOfSeq, LenProperties DEF BufferOK
  <2>2. buf[i].orig \in Node
    BY <2>1 DEF RreqFields
  <2> QED BY <2>2, KnownStaysKnown DEF BufferOK
<1> QED BY <1>1 DEF BufferOK

LEMMA MessageStaysOK ==
  ASSUME NEW r, NEW s, Grows(r, s), NEW m, MessageOK(r, m)
  PROVE  MessageOK(s, m)
<1>1. m.type = "RREQ" => m.src \in Node /\ m.q.orig \in Node
  BY DEF MessageOK, Message, RreqFields
<1>2. m.type = "RREP" => m.src \in Node /\ m.dest \in Node
  BY DEF MessageOK, Message
<1>3. m.type = "RREP" => RrepOK(s, m)
  BY <1>2, KnownStaysKnown DEF MessageOK, RrepOK, Grows, TableGrows
<1> QED BY <1>1, <1>3, KnownStaysKnown DEF MessageOK

LEMMA TableStaysOK ==
  ASSUME NEW r, NEW s, Grows(r, s), NEW n \in Node, NEW t, TableOK(r, n, t)
  PROVE  TableOK(s, n, t)
BY KnownStaysKnown DEF TableOK

(* A route learned from a neighbour that knows the destination is sound.    *)
LEMMA LearnedRoute ==
  ASSUME NEW r, NEW src \in Node, NEW n \in Neighbour[src], NEW d \in Node,
         NEW hops \in Nat, KnownAt(r, src, d, hops)
  PROVE  n \in Node /\ RouteOK(r, n, d, hops + 1, src)
<1>1. n \in Node
  BY NeighbourAssumption
<1>2. Dist[n][d] <= Dist[src][d] + 1 /\ Dist[n][d] \in Nat /\ Dist[src][d] \in Nat
  BY <1>1, DistAssumption
<1> QED BY <1>1, <1>2 DEF KnownAt, RouteOK

LEMMA LearnRoute ==
  ASSUME NEW r, NEW src \in Node, NEW n \in Neighbour[src], NEW d \in Node,
         NEW hops \in Nat, KnownAt(r, src, d, hops),
         NEW t, TableOK(r, n, t), NEW seq \in Nat,
         NEW h \in Nat, h = hops + 1
  PROVE  LET u == UpdateEntry(t, d, seq, h, src)
         IN  /\ TableOK(r, n, u)
             /\ HasEntry(u, d)
             /\ TableGrows(t, u)
<1> DEFINE u == UpdateEntry(t, d, seq, h, src)
<1>0. t \in Table
  BY DEF TableOK
<1>1. Updated(t, u, d, h, src)
  BY <1>0, UpdateEntryProperties
<1> HIDE DEF u
<1>2. RouteOK(r, n, d, h, src)
  BY LearnedRoute
<1>3. ASSUME NEW e \in Node, HasEntry(u, e)
      PROVE  RouteOK(r, n, e, u[e].hops, u[e].next)
  <2>1. CASE e = d
    BY <1>1, <1>2, <2>1 DEF TableOK, Updated
  <2>2. CASE e # d
    BY <1>1, <1>3, <2>2 DEF TableOK, HasEntry, Updated
  <2> QED BY <2>1, <2>2
<1>4. TableGrows(t, u)
  BY <1>1 DEF HasEntry, TableGrows, Updated
<1> QED BY <1>1, <1>3, <1>4 DEF TableOK, Updated, u

LEMMA SameRoutesOK ==
  ASSUME NEW r, NEW n \in Node, NEW t, NEW u, TableOK(r, n, t), SameRoutes(t, u)
  PROVE  TableOK(r, n, u) /\ TableGrows(t, u)
BY DEF TableOK, SameRoutes, TableGrows

-----------------------------------------------------------------------------
Request == [dest : Node, canceled : BOOLEAN]

IInv ==
    /\ RoutingTypeOK /\ unsent \in SUBSET Packet
    /\ TablesInv /\ BuffersInv /\ NetInv

(* What is sent may be received when it is a message, and true of the       *)
(* tables after the step.                                                   *)
LEMMA TransmitOK ==
  ASSUME NetInv, Grows(rt, rt'), NEW received, NEW sent, Transmit(received, sent),
         \A m \in sent : /\ m.src \in Node
                         /\ m.to \in Node => m \in Message
                         /\ m.type = "RREQ" => KnownAt(rt', m.src, m.q.orig, m.q.hops)
                         /\ m.type = "RREP" => RrepOK(rt', m)
  PROVE  net' \in SUBSET Message /\ NetInv'
<1> SUFFICES ASSUME NEW m \in net' PROVE MessageOK(rt', m)
  BY DEF NetInv, MessageOK
<1>1. CASE m \in net
  BY <1>1, MessageStaysOK DEF NetInv
<1>2. CASE m \in sent /\ m.to \in Neighbour[m.src]
  <2>1. m.to \in Node
    BY <1>2, NeighbourAssumption
  <2> QED BY <1>2, <2>1 DEF MessageOK
<1> QED BY <1>1, <1>2 DEF Transmit

LEMMA BuffersStayOK ==
  ASSUME BuffersInv, Grows(rt, rt'), UNCHANGED rreqBuffer
  PROVE  BuffersInv'
BY BufferStaysOK DEF BuffersInv

(* One table changes, and stays sound.                                      *)
LEMMA TablesStayOK ==
  ASSUME TablesInv, NEW n \in Node, NEW t, rt' = [rt EXCEPT ![n] = t], TableOK(rt, n, t),
         TableGrows(rt[n], t)
  PROVE  Grows(rt, rt') /\ TablesInv'
<1>1. rt \in [Node -> Table] /\ t \in Table
  BY DEF TablesInv, TableOK
<1>2. Grows(rt, rt')
  BY <1>1 DEF Grows, TableGrows
<1>3. ASSUME NEW m \in Node PROVE TableOK(rt', m, rt'[m])
  <2>1. TableOK(rt, m, rt'[m])
    BY <1>1 DEF TablesInv
  <2> QED BY <1>2, <2>1, TableStaysOK
<1> QED BY <1>1, <1>2, <1>3 DEF TablesInv

LEMMA SameTablesStayOK ==
  ASSUME TablesInv, UNCHANGED rt
  PROVE  Grows(rt, rt') /\ TablesInv'
BY DEF TablesInv, Grows, TableGrows

-----------------------------------------------------------------------------
(* The part of the state the RREQ operators change keeps its type.          *)
RreqTypeOK ==
    /\ rreqBroadcast \in [Node -> Seq(Node \X Nat)]
    /\ rreqRequest \in [Node -> Seq(Request)]
    /\ rreqRetryCount \in [Node -> [Node -> Nat]]
    /\ rateLimited \in [Node -> BOOLEAN]

LEMMA RememberBroadcastType ==
  ASSUME RreqTypeOK, NEW n \in Node, NEW q \in RreqFields, RememberBroadcast(n, q)
  PROVE  rreqBroadcast' \in [Node -> Seq(Node \X Nat)]
<1>1. <<q.orig, q.id>> \in Node \X Nat
  BY DEF RreqFields
<1>2. Append(rreqBroadcast[n], <<q.orig, q.id>>) \in Seq(Node \X Nat)
  BY <1>1, AppendProperties DEF RreqTypeOK
<1> QED BY <1>2 DEF RememberBroadcast, RreqTypeOK

LEMMA TransmitRreqType ==
  ASSUME RreqTypeOK, NEW n \in Node, NEW q \in RreqFields, NEW r \in Seq(Request),
         TransmitRreq(n, q, r)
  PROVE  RreqTypeOK'
<1>0. q.orig \in Node /\ q.id \in Nat /\ q.dest \in Node
  BY DEF RreqFields
<1>1. rreqRetryCount' \in [Node -> [Node -> Nat]]
  <2>1. rreqRetryCount[n] \in [Node -> Nat]
    BY DEF RreqTypeOK
  <2>2. [rreqRetryCount[n] EXCEPT ![q.dest] = @ + 1] \in [Node -> Nat]
    BY <1>0, <2>1
  <2>3. rreqRetryCount' = [rreqRetryCount EXCEPT ![n] =
                              [rreqRetryCount[n] EXCEPT ![q.dest] = @ + 1]]
    BY DEF TransmitRreq, RreqTypeOK
  <2> QED BY <2>2, <2>3 DEF RreqTypeOK
<1>2. rreqBroadcast' \in [Node -> Seq(Node \X Nat)]
  BY RememberBroadcastType DEF TransmitRreq
<1>3. rreqRequest' \in [Node -> Seq(Request)]
  <2>1. [dest |-> q.dest, canceled |-> FALSE] \in Request
    BY <1>0 DEF Request
  <2>2. WithExpiration(n, q.dest, r) \in Seq(Request)
    BY <2>1, AppendProperties DEF WithExpiration
  <2> QED BY <2>2 DEF TransmitRreq, RreqTypeOK
<1>4. rateLimited' \in [Node -> BOOLEAN]
  BY DEF TransmitRreq, RreqTypeOK
<1> QED BY <1>1, <1>2, <1>3, <1>4 DEF RreqTypeOK

(* A RREQ is broadcast, or held back, with what is known at n.              *)
LEMMA BroadcastOK ==
  ASSUME NEW r, NEW n \in Node, NEW q \in RreqFields, KnownAt(r, n, q.orig, q.hops),
         NEW m \in Broadcast(n, q)
  PROVE  /\ m.src \in Node
         /\ m.to \in Node => m \in Message
         /\ m.type = "RREQ" => KnownAt(r, m.src, m.q.orig, m.q.hops)
         /\ m.type = "RREP" => RrepOK(r, m)
<1>1. PICK to \in Neighbour[n] : m = Rreq(n, to, q)
  BY DEF Broadcast
<1>2. m.type = "RREQ" /\ m.src = n /\ m.q = q /\ m.to = to
  BY <1>1 DEF Rreq
<1>3. to \in Node => m \in Message
  BY <1>1 DEF Rreq, Message
<1> QED BY <1>2, <1>3

LEMMA AppendBufferOK ==
  ASSUME NEW r, NEW n \in Node, NEW buf, BufferOK(r, n, buf), NEW q \in RreqFields,
         KnownAt(r, n, q.orig, q.hops)
  PROVE  BufferOK(r, n, Append(buf, q))
<1>1. /\ Append(buf, q) \in Seq(RreqFields)
      /\ \A i \in 1 .. Len(buf) : Append(buf, q)[i] = buf[i]
      /\ Append(buf, q)[Len(buf) + 1] = q
      /\ Len(Append(buf, q)) = Len(buf) + 1 /\ Len(buf) \in Nat
      /\ DOMAIN Append(buf, q) = 1 .. Len(Append(buf, q)) /\ DOMAIN buf = 1 .. Len(buf)
  BY AppendProperties, LenProperties DEF BufferOK
<1>2. ASSUME NEW i \in DOMAIN Append(buf, q)
      PROVE  KnownAt(r, n, Append(buf, q)[i].orig, Append(buf, q)[i].hops)
  <2>1. CASE i \in 1 .. Len(buf)
    BY <1>1, <2>1 DEF BufferOK
  <2>2. CASE i = Len(buf) + 1
    BY <1>1, <2>2
  <2> QED BY <1>1, <1>2, <2>1, <2>2
<1> QED BY <1>1, <1>2 DEF BufferOK

LEMMA TailBufferOK ==
  ASSUME NEW r, NEW n \in Node, NEW buf, BufferOK(r, n, buf), buf # <<>>
  PROVE  /\ BufferOK(r, n, Tail(buf))
         /\ Head(buf) \in RreqFields
         /\ KnownAt(r, n, Head(buf).orig, Head(buf).hops)
<1>1. /\ Head(buf) \in RreqFields /\ Head(buf) = buf[1] /\ 1 \in DOMAIN buf
      /\ Tail(buf) \in Seq(RreqFields)
      /\ Len(Tail(buf)) = Len(buf) - 1 /\ Len(buf) \in Nat
      /\ \A i \in 1 .. Len(Tail(buf)) : Tail(buf)[i] = buf[i + 1]
      /\ DOMAIN Tail(buf) = 1 .. Len(Tail(buf)) /\ DOMAIN buf = 1 .. Len(buf)
  BY HeadTailProperties, LenProperties, EmptySeq DEF BufferOK
<1>2. ASSUME NEW i \in DOMAIN Tail(buf)
      PROVE  KnownAt(r, n, Tail(buf)[i].orig, Tail(buf)[i].hops)
  <2>1. i + 1 \in DOMAIN buf /\ Tail(buf)[i] = buf[i + 1]
    BY <1>1, <1>2
  <2> QED BY <2>1 DEF BufferOK
<1> QED BY <1>1, <1>2 DEF BufferOK

LEMMA SendRreqRequestOK ==
  ASSUME IInv, Grows(rt, rt'), NEW n \in Node, NEW q \in RreqFields,
         NEW r \in Seq(Request), KnownAt(rt', n, q.orig, q.hops), NEW received,
         SendRreqRequest(n, q, r, received)
  PROVE  RreqTypeOK' /\ BuffersInv' /\ net' \in SUBSET Message /\ NetInv'
<1>0. RreqTypeOK /\ BuffersInv /\ NetInv
  BY DEF IInv, RoutingTypeOK, RreqTypeOK, Request
<1>1. CASE ~rateLimited[n]
  <2>1. TransmitRreq(n, q, r) /\ Transmit(received, Broadcast(n, q)) /\ UNCHANGED rreqBuffer
    BY <1>1 DEF SendRreqRequest
  <2>2. net' \in SUBSET Message /\ NetInv'
    BY <1>0, <2>1, TransmitOK, BroadcastOK
  <2> QED BY <1>0, <2>1, <2>2, TransmitRreqType, BuffersStayOK
<1>2. CASE rateLimited[n]
  <2>1. /\ rreqBuffer' = [rreqBuffer EXCEPT ![n] = Append(@, q)]
        /\ rreqRequest' = [rreqRequest EXCEPT ![n] = r]
        /\ Transmit(received, {})
        /\ UNCHANGED <<rreqRetryCount, rreqBroadcast, rateLimited>>
    BY <1>2 DEF SendRreqRequest
  <2>2. RreqTypeOK'
    BY <1>0, <2>1 DEF RreqTypeOK
  <2>3. BufferOK(rt', n, Append(rreqBuffer[n], q))
    BY <1>0, BufferStaysOK, AppendBufferOK DEF BuffersInv
  <2>4. ASSUME NEW m \in Node PROVE BufferOK(rt', m, rreqBuffer'[m])
    <3>1. CASE m = n
      BY <1>0, <2>1, <2>3, <3>1 DEF BuffersInv
    <3>2. CASE m # n
      <4>1. rreqBuffer'[m] = rreqBuffer[m]
        BY <1>0, <2>1, <3>2 DEF BuffersInv
      <4> QED BY <1>0, <4>1, BufferStaysOK DEF BuffersInv
    <3> QED BY <3>1, <3>2
  <2>6. rreqBuffer' \in [Node -> Seq(RreqFields)]
    BY <1>0, <2>1, <2>3 DEF BuffersInv, BufferOK
  <2>7. BuffersInv'
    BY <2>4, <2>6 DEF BuffersInv
  <2>5. net' \in SUBSET Message /\ NetInv'
    BY <1>0, <2>1, TransmitOK
  <2> QED BY <2>2, <2>5, <2>7
<1> QED BY <1>1, <1>2

-----------------------------------------------------------------------------
(* The rest of the type invariant.                                          *)
RestTypeOK ==
    /\ currSeqNum \in [Node -> Nat]
    /\ currRreqID \in [Node -> 0 .. MaxRreqID]
    /\ helloing \in [Node -> BOOLEAN]
    /\ heard \in [Node -> SUBSET Node]
    /\ left \in [drops : Nat, expiries : Nat, breaks : Nat]
    /\ unsent \in SUBSET Packet

LEMMA IInvParts ==
  IInv <=> /\ TablesInv /\ RreqTypeOK /\ BuffersInv /\ RestTypeOK
           /\ net \in SUBSET Message /\ NetInv
BY DEF IInv, RoutingTypeOK, TablesInv, RreqTypeOK, Request, BuffersInv, RestTypeOK

LEMMA IInvNext ==
  ASSUME TablesInv', RreqTypeOK', BuffersInv', RestTypeOK', net' \in SUBSET Message, NetInv'
  PROVE  IInv'
BY DEF IInv, RoutingTypeOK, TablesInv, RreqTypeOK, Request, BuffersInv, RestTypeOK

LEMMA EntryFields ==
  ASSUME NEW t \in Table, NEW d \in Node
  PROVE  t[d].seq \in Nat /\ t[d].hops \in Nat /\ t[d].next \in Node \cup {NoNode}
         /\ t[d].prec \in SUBSET Node
BY DEF Table, Entry

LEMMA OriginateRreqOK ==
  ASSUME IInv, UNCHANGED rt, NEW n \in Node, NEW d \in Node, NEW received,
         OriginateRreq(n, d, received)
  PROVE  /\ RreqTypeOK' /\ BuffersInv' /\ net' \in SUBSET Message /\ NetInv'
         /\ currSeqNum' \in [Node -> Nat]
         /\ currRreqID' \in [Node -> 0 .. MaxRreqID]
<1>0. TablesInv /\ RreqTypeOK /\ RestTypeOK /\ Grows(rt, rt')
  BY IInvParts DEF Grows, TableGrows
<1>1. currSeqNum' \in [Node -> Nat] /\ currRreqID' \in [Node -> 0 .. MaxRreqID]
  BY <1>0, BoundAssumption DEF OriginateRreq, RestTypeOK
<1> DEFINE q == [orig |-> n, id |-> currRreqID'[n], dest |-> d, hops |-> 0,
                 sseq |-> currSeqNum'[n], dseq |-> rt[n][d].seq]
<1>2. q \in RreqFields
  <2>1. rt[n] \in Table
    BY <1>0 DEF TablesInv
  <2> QED BY <1>1, <2>1, EntryFields DEF RreqFields
<1>3. KnownAt(rt', n, q.orig, q.hops)
  BY DistAssumption DEF KnownAt
<1>4. rreqRequest[n] \in Seq(Request)
  BY <1>0 DEF RreqTypeOK
<1>5. SendRreqRequest(n, q, rreqRequest[n], received)
  BY DEF OriginateRreq
<1> HIDE DEF q
<1> QED BY <1>0, <1>1, <1>2, <1>3, <1>4, <1>5, SendRreqRequestOK

(* A packet in flight that was received came from a neighbour.              *)
LEMMA ReceivedMessage ==
  ASSUME IInv, NEW n \in Node, NEW m \in net, m.to = n
  PROVE  /\ m \in Message /\ m.src \in Node /\ n \in Neighbour[m.src]
         /\ m.type = "RREQ" => KnownAt(rt, m.src, m.q.orig, m.q.hops)
         /\ m.type = "RREP" => RrepOK(rt, m)
BY DEF IInv, NetInv, MessageOK, Message

LEMMA RouteToPrevHopOK ==
  ASSUME TablesInv, NEW src \in Node, NEW n \in Node, n \in Neighbour[src]
  PROVE  /\ TableOK(rt, n, RouteToPrevHop(n, src))
         /\ TableGrows(rt[n], RouteToPrevHop(n, src))
<1>1. KnownAt(rt, src, src, 0)
  BY DistAssumption DEF KnownAt
<1>2. TableOK(rt, n, rt[n])
  BY DEF TablesInv
<1>3. 0 \in Nat /\ 1 \in Nat /\ 1 = 0 + 1
  OBVIOUS
<1> QED BY <1>1, <1>2, <1>3, LearnRoute DEF RouteToPrevHop

LEMMA LearnBothRoutes ==
  ASSUME TablesInv, NEW src \in Node, NEW n \in Node, n \in Neighbour[src],
         NEW d \in Node, NEW hops \in Nat, KnownAt(rt, src, d, hops), NEW seq \in Nat,
         NEW h \in Nat, h = hops + 1
  PROVE  LET u == UpdateEntry(RouteToPrevHop(n, src), d, seq, h, src)
         IN  /\ TableOK(rt, n, u)
             /\ HasEntry(u, d)
             /\ TableGrows(rt[n], u)
<1>1. TableOK(rt, n, RouteToPrevHop(n, src))
  BY RouteToPrevHopOK
<1>2. TableGrows(rt[n], RouteToPrevHop(n, src))
  BY RouteToPrevHopOK
<1>3. LET u == UpdateEntry(RouteToPrevHop(n, src), d, seq, h, src)
      IN  /\ TableOK(rt, n, u)
          /\ HasEntry(u, d)
          /\ TableGrows(RouteToPrevHop(n, src), u)
  BY <1>1, LearnRoute
<1> QED BY <1>2, <1>3 DEF TableGrows

-----------------------------------------------------------------------------
(* Every action preserves IInv.                                             *)
LEMMA FromApplicationLayerOK ==
  ASSUME IInv, NEW n \in Node, NEW p \in Packet, FromApplicationLayer(n, p)
  PROVE  IInv'
<1>0. /\ TablesInv /\ RreqTypeOK /\ BuffersInv /\ RestTypeOK /\ NetInv
      /\ net \in SUBSET Message
      /\ p.dst \in Node
  BY IInvParts, PacketAssumption
<1>1. UNCHANGED rt
  BY DEF FromApplicationLayer, tableVars
<1>2. Grows(rt, rt') /\ TablesInv'
  BY <1>0, <1>1, SameTablesStayOK
<1>3. unsent' \in SUBSET Packet /\ UNCHANGED <<helloing, heard, left>>
  BY <1>0 DEF FromApplicationLayer, RestTypeOK, helloVars
<1>4. CASE IsRouteValid(rt[n], p.dst)
  <2>1. /\ Transmit({}, {Data(n, rt[n][p.dst].next, p)})
        /\ UNCHANGED <<currSeqNum, rreqVars>>
    BY <1>4 DEF FromApplicationLayer, tableVars
  <2>2. net' \in SUBSET Message /\ NetInv'
    BY <1>0, <1>2, <2>1, TransmitOK DEF Data, Message
  <2> QED BY <1>0, <1>2, <1>3, <2>1, <2>2, BuffersStayOK, IInvNext
          DEF rreqVars, RreqTypeOK, RestTypeOK
<1>5. CASE ~IsRouteValid(rt[n], p.dst) /\ ~IsRreqRequestActive(n, p.dst)
  <2>1. OriginateRreq(n, p.dst, {})
    BY <1>5 DEF FromApplicationLayer
  <2>2. /\ RreqTypeOK' /\ BuffersInv' /\ net' \in SUBSET Message /\ NetInv'
        /\ currSeqNum' \in [Node -> Nat]
        /\ currRreqID' \in [Node -> 0 .. MaxRreqID]
    BY <1>0, <1>1, <2>1, OriginateRreqOK
  <2> QED BY <1>0, <1>2, <1>3, <2>2, IInvNext DEF RestTypeOK
<1>6. CASE ~IsRouteValid(rt[n], p.dst) /\ IsRreqRequestActive(n, p.dst)
  <2>1. UNCHANGED <<currSeqNum, rreqVars, net>>
    BY <1>6 DEF FromApplicationLayer
  <2>2. NetInv'
    BY <1>0, <1>2, <2>1, MessageStaysOK DEF NetInv
  <2> QED BY <1>0, <1>2, <1>3, <2>1, <2>2, BuffersStayOK, IInvNext
          DEF rreqVars, RreqTypeOK, RestTypeOK
<1> QED BY <1>4, <1>5, <1>6

LEMMA ProcessDataOK ==
  ASSUME IInv, NEW n \in Node, NEW m \in net, ProcessData(n, m)
  PROVE  IInv'
<1>0. /\ TablesInv /\ RreqTypeOK /\ BuffersInv /\ RestTypeOK /\ NetInv
      /\ net \in SUBSET Message
      /\ m.p \in Packet /\ m.p.dst \in Node
  BY IInvParts, PacketAssumption DEF ProcessData, Message
<1>1. UNCHANGED rt
  BY DEF ProcessData, tableVars
<1>2. Grows(rt, rt') /\ TablesInv'
  BY <1>0, <1>1, SameTablesStayOK
<1>3. UNCHANGED <<unsent, helloing, heard, left>>
  BY DEF ProcessData, helloVars
<1>4. ASSUME Transmit({m}, {}) \/ Transmit({m}, {Data(n, rt[n][m.p.dst].next, m.p)}),
             UNCHANGED <<currSeqNum, rreqVars>>
      PROVE  IInv'
  <2>2. net' \in SUBSET Message /\ NetInv'
    BY <1>0, <1>2, <1>4, TransmitOK DEF Data, Message
  <2> QED BY <1>0, <1>2, <1>3, <1>4, <2>2, BuffersStayOK, IInvNext
          DEF rreqVars, RreqTypeOK, RestTypeOK
<1>5. ASSUME OriginateRreq(n, m.p.dst, {m}) PROVE IInv'
  <2>2. /\ RreqTypeOK' /\ BuffersInv' /\ net' \in SUBSET Message /\ NetInv'
        /\ currSeqNum' \in [Node -> Nat]
        /\ currRreqID' \in [Node -> 0 .. MaxRreqID]
    BY <1>0, <1>1, <1>5, OriginateRreqOK
  <2> QED BY <1>0, <1>2, <1>3, <2>2, IInvNext DEF RestTypeOK
<1> QED BY <1>4, <1>5 DEF ProcessData, tableVars

LEMMA ProcessRreqOK ==
  ASSUME IInv, NEW n \in Node, NEW m \in net, ProcessRreq(n, m)
  PROVE  IInv'
<1>0. /\ TablesInv /\ RreqTypeOK /\ BuffersInv /\ RestTypeOK /\ NetInv
      /\ net \in SUBSET Message
  BY IInvParts
<1>1. /\ m.type = "RREQ" /\ m.src \in Node /\ n \in Neighbour[m.src]
      /\ m.q \in RreqFields /\ KnownAt(rt, m.src, m.q.orig, m.q.hops)
  BY ReceivedMessage DEF ProcessRreq, Message
<1>2. /\ m.q.orig \in Node /\ m.q.id \in Nat /\ m.q.dest \in Node /\ m.q.hops \in Nat
      /\ m.q.sseq \in Nat /\ m.q.dseq \in Nat
  BY <1>1 DEF RreqFields
<1>3. UNCHANGED <<unsent, helloing, heard, left>>
  BY DEF ProcessRreq, dataVars, helloVars
<1>4. CASE WasBroadcast(n, m.q)
  <2>1. /\ rt' = [rt EXCEPT ![n] = RouteToPrevHop(n, m.src)]
        /\ Transmit({m}, {})
        /\ UNCHANGED <<currSeqNum, rreqVars>>
    BY <1>4 DEF ProcessRreq
  <2>2. /\ TableOK(rt, n, RouteToPrevHop(n, m.src))
        /\ TableGrows(rt[n], RouteToPrevHop(n, m.src))
    BY <1>0, <1>1, RouteToPrevHopOK
  <2>3. Grows(rt, rt') /\ TablesInv'
    BY <1>0, <2>1, <2>2, TablesStayOK
  <2>4. net' \in SUBSET Message /\ NetInv'
    BY <1>0, <2>1, <2>3, TransmitOK
  <2> QED BY <1>0, <1>3, <2>1, <2>3, <2>4, BuffersStayOK, IInvNext
          DEF rreqVars, RreqTypeOK, RestTypeOK
<1> DEFINE t == RouteToOriginator(n, m)
<1>5. /\ m.q.hops + 1 \in Nat /\ t \in Table
      /\ TableOK(rt, n, t) /\ HasEntry(t, m.q.orig)
      /\ TableGrows(rt[n], t)
  <2>1. m.q.hops + 1 \in Nat
    BY <1>2
  <2>2. /\ TableOK(rt, n, t) /\ HasEntry(t, m.q.orig)
        /\ TableGrows(rt[n], t)
    BY <1>0, <1>1, <1>2, <2>1, LearnBothRoutes DEF RouteToOriginator
  <2> QED BY <2>1, <2>2 DEF TableOK
<1> HIDE DEF t
<1>6. CASE ~WasBroadcast(n, m.q) /\ m.q.dest # n
  <2> DEFINE known == rt'[n][m.q.dest].seq
             dseq == IF known > m.q.dseq THEN known ELSE m.q.dseq
             q == [m.q EXCEPT !.hops = @ + 1, !.dseq = dseq]
  <2>1. /\ rt' = [rt EXCEPT ![n] = t]
        /\ SendRreqRequest(n, q, rreqRequest[n], {m})
        /\ UNCHANGED <<currSeqNum, currRreqID>>
    BY <1>6 DEF ProcessRreq, t
  <2>2. Grows(rt, rt') /\ TablesInv'
    BY <1>0, <1>5, <2>1, TablesStayOK
  <2>3. rt'[n] = t
    BY <1>0, <2>1 DEF TablesInv
  <2>4. known \in Nat
    BY <1>2, <1>5, <2>3, EntryFields
  <2>5. dseq \in Nat
    BY <1>2, <2>4
  <2>6. q \in RreqFields /\ q.orig = m.q.orig /\ q.hops = m.q.hops + 1
    BY <1>1, <1>5, <2>5 DEF RreqFields
  <2>7. KnownAt(rt', n, q.orig, q.hops)
    <3>1. RouteOK(rt, n, m.q.orig, m.q.hops + 1, m.src)
      BY <1>1, <1>2, LearnedRoute
    <3> QED BY <1>5, <2>3, <2>6, <3>1 DEF KnownAt, RouteOK
  <2>8. rreqRequest[n] \in Seq(Request)
    BY <1>0 DEF RreqTypeOK
  <2>9. SendRreqRequest(n, q, rreqRequest[n], {m})
    BY <2>1
  <2> HIDE DEF q
  <2>10. RreqTypeOK' /\ BuffersInv' /\ net' \in SUBSET Message /\ NetInv'
    BY <2>2, <2>6, <2>7, <2>8, <2>9, SendRreqRequestOK
  <2> QED BY <1>0, <1>3, <2>1, <2>2, <2>10, IInvNext DEF RestTypeOK
<1>7. CASE ~WasBroadcast(n, m.q) /\ m.q.dest = n
  <2> DEFINE own == IF m.q.dseq = currSeqNum[n] THEN currSeqNum[n] + 1 ELSE currSeqNum[n]
             dseq == IF HasEntry(t, n) THEN t[n].seq ELSE own
             rrep == Rrep(n, t[m.q.orig].next, m.q.orig, n, dseq, t[n].hops)
  <2>1. /\ rt' = [rt EXCEPT ![n] = t]
        /\ currSeqNum' = [currSeqNum EXCEPT ![n] = IF HasEntry(t, n) THEN @ ELSE own]
        /\ RememberBroadcast(n, m.q)
        /\ Transmit({m}, {rrep})
        /\ UNCHANGED <<currRreqID, rreqRequest, rreqRetryCount, rreqBuffer, rateLimited>>
    BY <1>7 DEF ProcessRreq, t
  <2>2. Grows(rt, rt') /\ TablesInv'
    BY <1>0, <1>5, <2>1, TablesStayOK
  <2>3. own \in Nat /\ currSeqNum' \in [Node -> Nat]
    BY <1>0, <2>1 DEF RestTypeOK
  <2>4. dseq \in Nat /\ t[n].hops \in Nat
    BY <1>5, <2>3, EntryFields
  <2>5. KnownAt(rt', n, n, t[n].hops)
    BY <2>4, DistAssumption DEF KnownAt
  <2>6. /\ rrep.type = "RREP" /\ rrep.src = n /\ rrep.dest = n /\ rrep.hops = t[n].hops
        /\ rrep.to \in Node => rrep \in Message
    BY <1>2, <2>4 DEF Rrep, Message
  <2> HIDE DEF rrep
  <2>7. net' \in SUBSET Message /\ NetInv'
    <3>1. RrepOK(rt', rrep)
      BY <2>5, <2>6 DEF RrepOK
    <3> QED BY <1>0, <2>1, <2>2, <2>6, <3>1, TransmitOK
  <2>8. RreqTypeOK'
    BY <1>0, <1>1, <2>1, RememberBroadcastType DEF RreqTypeOK
  <2> QED BY <1>0, <1>3, <2>1, <2>2, <2>3, <2>7, <2>8, BuffersStayOK, IInvNext
          DEF RestTypeOK
<1> QED BY <1>4, <1>6, <1>7

LEMMA CancelRequestType ==
  ASSUME RreqTypeOK, NEW n \in Node, NEW d \in Node, CancelRequest(n, d)
  PROVE  rreqRequest' \in [Node -> Seq(Request)]
<1> DEFINE r == rreqRequest[n]
           c == Canceled(r, d)
<1>1. r \in Seq(Request)
  BY DEF RreqTypeOK
<1>2. Len(r) \in Nat /\ DOMAIN r = 1 .. Len(r)
  BY <1>1, LenProperties
<1>3. ASSUME NEW i \in DOMAIN r PROVE c[i] \in Request
  <2>1. r[i] \in Request
    BY <1>1, <1>2, ElementOfSeq
  <2> QED BY <2>1 DEF Canceled, Request
<1>4. c \in [1 .. Len(r) -> Request]
  BY <1>2, <1>3 DEF Canceled
<1>5. c \in Seq(Request)
  <2>1. Seq(Request) = UNION {[1 .. k -> Request] : k \in Nat}
    BY SeqDef
  <2> HIDE DEF c
  <2> QED BY <1>2, <1>4, <2>1
<1>6. rreqRequest' = [rreqRequest EXCEPT ![n] = c]
  BY DEF CancelRequest
<1> HIDE DEF c
<1> QED BY <1>5, <1>6 DEF RreqTypeOK

LEMMA ProcessRrepOK ==
  ASSUME IInv, NEW n \in Node, NEW m \in net, ProcessRrep(n, m)
  PROVE  IInv'
<1>0. /\ TablesInv /\ RreqTypeOK /\ BuffersInv /\ RestTypeOK /\ NetInv
      /\ net \in SUBSET Message
  BY IInvParts
<1>1. /\ m.type = "RREP" /\ m.src \in Node /\ n \in Neighbour[m.src]
      /\ m.orig \in Node /\ m.dest \in Node /\ m.dseq \in Nat /\ m.hops \in Nat
      /\ KnownAt(rt, m.src, m.dest, m.hops)
  BY ReceivedMessage DEF ProcessRrep, Message, RrepOK
<1>2. UNCHANGED <<currSeqNum, unsent, heard, left>> /\ helloing' \in [Node -> BOOLEAN]
  BY <1>0 DEF ProcessRrep, RestTypeOK
<1> DEFINE t == UpdateEntry(RouteToPrevHop(n, m.src), m.dest, m.dseq, m.hops + 1, m.src)
           back == t[m.orig].next
<1>3. /\ m.hops + 1 \in Nat /\ t \in Table
      /\ TableOK(rt, n, t) /\ HasEntry(t, m.dest)
      /\ TableGrows(rt[n], t)
  <2>1. m.hops + 1 \in Nat
    BY <1>1
  <2>2. /\ TableOK(rt, n, t) /\ HasEntry(t, m.dest)
        /\ TableGrows(rt[n], t)
    BY <1>0, <1>1, <2>1, LearnBothRoutes
  <2> QED BY <2>1, <2>2 DEF TableOK
<1>4. back \in Node \cup {NoNode}
  BY <1>1, <1>3, EntryFields
<1>5. CASE m.orig # n /\ m.hops < NetDiameter /\ back # NoNode
  <2> DEFINE u == IF m.dest # n THEN UpdatePrecursor(t, m.dest, back) ELSE t
             rrep == Rrep(n, back, m.orig, m.dest, m.dseq, m.hops + 1)
  <2>1. /\ rt' = [rt EXCEPT ![n] = u]
        /\ Transmit({m}, {rrep})
        /\ UNCHANGED rreqVars
    BY <1>5 DEF ProcessRrep
  <2>2. back \in Node
    BY <1>4, <1>5
  <2> HIDE DEF back, t
  <2>3. /\ \A e \in Node : /\ HasEntry(u, e) <=> HasEntry(t, e)
                           /\ u[e].hops = t[e].hops
                           /\ u[e].next = t[e].next
        /\ u \in Table /\ TableGrows(t, u)
        /\ m.dest # n => back \in u[m.dest].prec
    <3>1. CASE m.dest # n
      <4>1. u = UpdatePrecursor(t, m.dest, back)
        BY <3>1
      <4> HIDE DEF u
      <4>2. PrecursorAdded(t, u, m.dest, back)
        BY <1>1, <1>3, <2>2, <4>1, UpdatePrecursorProperties
      <4> QED BY <1>3, <4>2 DEF PrecursorAdded, TableGrows
    <3>2. CASE m.dest = n
      BY <1>3, <3>2 DEF TableGrows
    <3> QED BY <3>1, <3>2
  <2> HIDE DEF u
  <2>4. TableOK(rt, n, u) /\ TableGrows(rt[n], u)
    BY <1>3, <2>3 DEF TableOK, TableGrows
  <2>5. Grows(rt, rt') /\ TablesInv'
    BY <1>0, <2>1, <2>4, TablesStayOK
  <2>6. KnownAt(rt', n, m.dest, m.hops + 1)
    <3>1. RouteOK(rt, n, m.dest, m.hops + 1, m.src)
      BY <1>1, LearnedRoute
    <3>2. rt'[n] = u
      BY <1>0, <2>1 DEF TablesInv
    <3> QED BY <1>1, <1>3, <2>3, <3>1, <3>2 DEF KnownAt, RouteOK
  <2>7. /\ rrep.type = "RREP" /\ rrep.src = n /\ rrep.dest = m.dest
        /\ rrep.hops = m.hops + 1 /\ rrep.to = back
        /\ rrep \in Message
    BY <1>1, <1>3, <2>2 DEF Rrep, Message
  <2> HIDE DEF rrep
  <2>8. net' \in SUBSET Message /\ NetInv'
    <3>1. rrep.src = rrep.dest \/ rrep.to \in rt'[rrep.src][rrep.dest].prec
      BY <1>0, <2>1, <2>3, <2>7 DEF TablesInv
    <3>2. RrepOK(rt', rrep)
      BY <2>6, <2>7, <3>1 DEF RrepOK
    <3> QED BY <1>0, <2>1, <2>5, <2>7, <3>2, TransmitOK
  <2> QED BY <1>0, <1>2, <2>1, <2>5, <2>8, BuffersStayOK, IInvNext
          DEF rreqVars, RreqTypeOK, RestTypeOK
<1>6. CASE m.orig # n /\ ~(m.hops < NetDiameter /\ back # NoNode)
  <2>1. /\ rt' = [rt EXCEPT ![n] = t]
        /\ Transmit({m}, {})
        /\ UNCHANGED rreqVars
    BY <1>6 DEF ProcessRrep
  <2> HIDE DEF t
  <2>2. Grows(rt, rt') /\ TablesInv'
    BY <1>0, <1>3, <2>1, TablesStayOK
  <2>3. net' \in SUBSET Message /\ NetInv'
    BY <1>0, <2>1, <2>2, TransmitOK
  <2> QED BY <1>0, <1>2, <2>1, <2>2, <2>3, BuffersStayOK, IInvNext
          DEF rreqVars, RreqTypeOK, RestTypeOK
<1>7. CASE m.orig = n
  <2> DEFINE sent == {Data(n, t[m.dest].next, p) : p \in PacketsFor(n, m.dest)}
  <2>1. /\ rt' = [rt EXCEPT ![n] = t]
        /\ rreqRetryCount' = [rreqRetryCount EXCEPT ![n][m.dest] = 0]
        /\ Transmit({m}, sent)
        /\ CancelRequest(n, m.dest)
        /\ UNCHANGED <<currRreqID, rreqBroadcast, rreqBuffer, rateLimited>>
    BY <1>7 DEF ProcessRrep
  <2>2. \A x \in sent : x.src \in Node /\ x.type = "DATA" /\ (x.to \in Node => x \in Message)
    BY DEF PacketsFor, Data, Message
  <2> HIDE DEF t, sent
  <2>3. Grows(rt, rt') /\ TablesInv'
    BY <1>0, <1>3, <2>1, TablesStayOK
  <2>4. net' \in SUBSET Message /\ NetInv'
    BY <1>0, <2>1, <2>2, <2>3, TransmitOK
  <2>5. rreqRetryCount' \in [Node -> [Node -> Nat]]
    BY <1>0, <2>1 DEF RreqTypeOK
  <2>6. RreqTypeOK'
    BY <1>0, <1>1, <2>1, <2>5, CancelRequestType DEF RreqTypeOK
  <2> QED BY <1>0, <1>2, <2>1, <2>3, <2>4, <2>6, BuffersStayOK, IInvNext DEF RestTypeOK
<1> QED BY <1>5, <1>6, <1>7

LEMMA SendRerrOK ==
  ASSUME NetInv, Grows(rt, rt'), NEW n \in Node, NEW t \in Table,
         NEW D \in SUBSET Node, NEW precs, NEW received, SendRerr(n, t, D, precs, received)
  PROVE  net' \in SUBSET Message /\ NetInv'
<1>1. CASE D = {} \/ precs = {}
  BY <1>1, TransmitOK DEF SendRerr
<1>2. CASE ~(D = {} \/ precs = {})
  <2> DEFINE seqs == [d \in D |-> t[d].seq]
  <2>1. PICK p \in precs : Transmit(received, {Rerr(n, p, seqs)})
    BY <1>2 DEF SendRerr
  <2>2. seqs \in [D -> Nat]
    BY EntryFields
  <2> HIDE DEF seqs
  <2>3. /\ Rerr(n, p, seqs).src = n /\ Rerr(n, p, seqs).type = "RERR"
        /\ Rerr(n, p, seqs).to = p
        /\ p \in Node => Rerr(n, p, seqs) \in Message
    BY <2>2 DEF Rerr, Message
  <2> QED BY <2>1, <2>3, TransmitOK
<1> QED BY <1>1, <1>2

LEMMA ProcessRerrOK ==
  ASSUME IInv, NEW n \in Node, NEW m \in net, ProcessRerr(n, m)
  PROVE  IInv'
<1>0. /\ TablesInv /\ RreqTypeOK /\ BuffersInv /\ RestTypeOK /\ NetInv
      /\ net \in SUBSET Message
  BY IInvParts
<1>1. /\ m \in Message /\ m.type = "RERR" /\ m.src \in Node
  BY ReceivedMessage DEF ProcessRerr
<1>2. PICK D \in SUBSET Node : m.seqs \in [D -> Nat]
  BY <1>1 DEF Message
<1>3. DOMAIN m.seqs = D
  BY <1>2
<1> DEFINE t == UpdateSeqNums(rt[n], m.seqs)
           u == ForwardLinkBroken(t, m.src, D)
           precs == Precursors(t, RoutedOver(t, m.src, D))
<1>4. /\ rt' = [rt EXCEPT ![n] = u]
      /\ SendRerr(n, u, D, precs, {m})
      /\ UNCHANGED <<currSeqNum, rreqVars, dataVars, helloVars, left>>
  BY <1>3 DEF ProcessRerr
<1>5. TableOK(rt, n, rt[n]) /\ rt[n] \in Table
  BY <1>0 DEF TablesInv
<1>6. SameRoutes(rt[n], t)
  BY <1>2, <1>5, UpdateSeqNumsKeepsRoutes
<1>7. SameRoutes(t, u)
  <2>1. t \in Table
    BY <1>6 DEF SameRoutes
  <2> QED BY <1>1, <2>1, ForwardLinkBrokenKeepsRoutes
<1> HIDE DEF t, u, precs
<1>8. SameRoutes(rt[n], u)
  BY <1>6, <1>7 DEF SameRoutes
<1>9. /\ TableOK(rt, n, u) /\ u \in Table
      /\ TableGrows(rt[n], u)
  BY <1>5, <1>8, SameRoutesOK DEF TableOK
<1>10. Grows(rt, rt') /\ TablesInv'
  BY <1>0, <1>4, <1>9, TablesStayOK
<1>11. net' \in SUBSET Message /\ NetInv'
  BY <1>0, <1>4, <1>9, <1>10, SendRerrOK
<1> QED BY <1>0, <1>4, <1>10, <1>11, BuffersStayOK, IInvNext
        DEF rreqVars, dataVars, helloVars, RreqTypeOK, RestTypeOK

LEMMA HelloExpirationOK ==
  ASSUME IInv, NEW n \in Node, NEW m \in Node, HelloExpiration(n, m)
  PROVE  IInv'
<1>0. /\ TablesInv /\ RreqTypeOK /\ BuffersInv /\ RestTypeOK /\ NetInv
      /\ net \in SUBSET Message
  BY IInvParts
<1> DEFINE t == ReportLinkBroken(rt[n], m)
           broken == RoutedOver(rt[n], m, Node)
           precs == Precursors(rt[n], broken)
<1>1. /\ rt' = [rt EXCEPT ![n] = t]
      /\ SendRerr(n, t, broken, precs, {})
      /\ UNCHANGED <<currSeqNum, rreqVars, dataVars, helloing>>
  BY DEF HelloExpiration
<1>2. /\ heard' \in [Node -> SUBSET Node]
      /\ left' \in [drops : Nat, expiries : Nat, breaks : Nat]
  BY <1>0 DEF HelloExpiration, RestTypeOK
<1>3. TableOK(rt, n, rt[n]) /\ rt[n] \in Table
  BY <1>0 DEF TablesInv
<1>4. SameRoutes(rt[n], t)
  BY <1>3, ReportLinkBrokenKeepsRoutes
<1>5. broken \in SUBSET Node
  BY DEF RoutedOver
<1> HIDE DEF t, broken, precs
<1>6. /\ TableOK(rt, n, t) /\ t \in Table
      /\ TableGrows(rt[n], t)
  BY <1>3, <1>4, SameRoutesOK DEF TableOK
<1>7. Grows(rt, rt') /\ TablesInv'
  BY <1>0, <1>1, <1>6, TablesStayOK
<1>8. net' \in SUBSET Message /\ NetInv'
  BY <1>0, <1>1, <1>5, <1>6, <1>7, SendRerrOK
<1> QED BY <1>0, <1>1, <1>2, <1>7, <1>8, BuffersStayOK, IInvNext
        DEF rreqVars, dataVars, RreqTypeOK, RestTypeOK

LEMMA RouteExpirationOK ==
  ASSUME IInv, NEW n \in Node, NEW d \in Node, RouteExpiration(n, d)
  PROVE  IInv'
<1>0. /\ TablesInv /\ RreqTypeOK /\ BuffersInv /\ RestTypeOK /\ NetInv
      /\ net \in SUBSET Message
  BY IInvParts
<1> DEFINE t == UpdateState(rt[n], d, "INVALID")
<1>1. rt' = [rt EXCEPT ![n] = t]
  BY DEF RouteExpiration
<1>2. left' \in [drops : Nat, expiries : Nat, breaks : Nat]
  BY <1>0 DEF RouteExpiration, RestTypeOK
<1>3. TableOK(rt, n, rt[n]) /\ rt[n] \in Table
  BY <1>0 DEF TablesInv
<1>4. SameRoutes(rt[n], t)
  BY <1>3, UpdateStateKeepsRoutes
<1> HIDE DEF t
<1>5. Grows(rt, rt') /\ TablesInv'
  BY <1>0, <1>1, <1>3, <1>4, SameRoutesOK, TablesStayOK
<1>6. net' = net /\ NetInv'
  BY <1>0, <1>5, MessageStaysOK DEF RouteExpiration, NetInv
<1> QED BY <1>0, <1>2, <1>5, <1>6, BuffersStayOK, IInvNext
        DEF RouteExpiration, rreqVars, dataVars, helloVars, RreqTypeOK, RestTypeOK

(* The tables, the buffers and the packets in flight stay as they are.      *)
LEMMA NothingLearned ==
  ASSUME IInv, UNCHANGED <<rt, rreqBuffer, net>>
  PROVE  TablesInv' /\ BuffersInv' /\ net' \in SUBSET Message /\ NetInv'
BY DEF IInv, RoutingTypeOK, TablesInv, BuffersInv, NetInv

LEMMA ProcessHelloOK ==
  ASSUME IInv, NEW n \in Node, NEW m \in Node, ProcessHello(n, m)
  PROVE  IInv'
<1>1. heard' \in [Node -> SUBSET Node]
  BY IInvParts DEF ProcessHello, RestTypeOK
<1> QED BY <1>1, IInvParts, IInvNext, NothingLearned
        DEF ProcessHello, tableVars, rreqVars, dataVars, RreqTypeOK, RestTypeOK

LEMMA RreqBroadcastDropOK ==
  ASSUME IInv, NEW n \in Node, RreqBroadcastDrop(n)
  PROVE  IInv'
<1>1. RreqTypeOK /\ RestTypeOK
  BY IInvParts
<1>2. Tail(rreqBroadcast[n]) \in Seq(Node \X Nat)
  BY <1>1, HeadTailProperties DEF RreqBroadcastDrop, RreqTypeOK
<1>3. rreqBroadcast' \in [Node -> Seq(Node \X Nat)]
  BY <1>1, <1>2 DEF RreqBroadcastDrop, RreqTypeOK
<1>4. left' \in [drops : Nat, expiries : Nat, breaks : Nat]
  <2>1. left.drops > 0 /\ left' = [left EXCEPT !.drops = @ - 1]
    BY DEF RreqBroadcastDrop
  <2>2. /\ left.drops \in Nat /\ left.expiries \in Nat /\ left.breaks \in Nat
        /\ left = [drops |-> left.drops, expiries |-> left.expiries, breaks |-> left.breaks]
    BY <1>1 DEF RestTypeOK
  <2>3. left.drops - 1 \in Nat
    BY <2>1, <2>2
  <2> QED BY <2>1, <2>2, <2>3
<1> QED BY <1>1, <1>3, <1>4, IInvNext, NothingLearned
        DEF RreqBroadcastDrop, tableVars, dataVars, helloVars, RreqTypeOK, RestTypeOK

LEMMA RreqExpirationOK ==
  ASSUME IInv, NEW n \in Node, RreqExpiration(n)
  PROVE  IInv'
<1>0. /\ TablesInv /\ RreqTypeOK /\ BuffersInv /\ RestTypeOK /\ NetInv
      /\ net \in SUBSET Message
  BY IInvParts
<1> DEFINE d == Head(rreqRequest[n]).dest
           rest == Tail(rreqRequest[n])
<1>1. d \in Node /\ rest \in Seq(Request)
  <2>1. rreqRequest[n] \in Seq(Request) /\ rreqRequest[n] # <<>>
    BY <1>0 DEF RreqTypeOK, RreqExpiration
  <2>2. Head(rreqRequest[n]) \in Request /\ rest \in Seq(Request)
    BY <2>1, HeadTailProperties
  <2> QED BY <2>2 DEF Request
<1>2. UNCHANGED <<rt, currSeqNum, unsent, helloing, heard, left>>
  BY DEF RreqExpiration, tableVars, helloVars
<1>3. Grows(rt, rt') /\ TablesInv'
  BY <1>0, <1>2, SameTablesStayOK
<1>4. ASSUME rreqRequest' = [rreqRequest EXCEPT ![n] = rest],
             UNCHANGED rreqRetryCount \/ rreqRetryCount' = [rreqRetryCount EXCEPT ![n][d] = 0],
             UNCHANGED <<currRreqID, rreqBroadcast, rreqBuffer, rateLimited, net>>
      PROVE  IInv'
  <2> HIDE DEF d, rest
  <2>1. rreqRequest' \in [Node -> Seq(Request)]
    BY <1>0, <1>1, <1>4 DEF RreqTypeOK
  <2>2. rreqRetryCount' \in [Node -> [Node -> Nat]]
    <3>1. [rreqRetryCount[n] EXCEPT ![d] = 0] \in [Node -> Nat]
      BY <1>0, <1>1 DEF RreqTypeOK
    <3>2. [rreqRetryCount EXCEPT ![n][d] = 0] \in [Node -> [Node -> Nat]]
      BY <1>0, <3>1 DEF RreqTypeOK
    <3> QED BY <1>0, <1>4, <3>2 DEF RreqTypeOK
  <2> QED BY <1>0, <1>2, <1>4, <2>1, <2>2, NothingLearned, IInvNext
          DEF RreqTypeOK, RestTypeOK
<1>5. CASE ~Head(rreqRequest[n]).canceled /\ rreqRetryCount[n][d] < RreqRetries
  <2> DEFINE q == [orig |-> n, id |-> currRreqID'[n], dest |-> d, hops |-> 0,
                   sseq |-> currSeqNum[n], dseq |-> rt[n][d].seq]
  <2>1. /\ currRreqID[n] < MaxRreqID
        /\ currRreqID' = [currRreqID EXCEPT ![n] = @ + 1]
        /\ SendRreqRequest(n, q, rest, {})
    BY <1>5 DEF RreqExpiration
  <2>2. currRreqID' \in [Node -> 0 .. MaxRreqID]
    BY <1>0, <2>1, BoundAssumption DEF RestTypeOK
  <2>3. q \in RreqFields
    <3>1. rt[n] \in Table
      BY <1>0 DEF TablesInv
    <3>2. rt[n][d].seq \in Nat
      BY <1>1, <3>1, EntryFields
    <3>3. currRreqID'[n] \in Nat /\ currSeqNum[n] \in Nat
      BY <1>0, <2>2 DEF RestTypeOK
    <3> QED BY <1>1, <3>2, <3>3 DEF RreqFields
  <2>4. KnownAt(rt', n, q.orig, q.hops)
    BY DistAssumption DEF KnownAt
  <2> HIDE DEF q, rest
  <2>5. RreqTypeOK' /\ BuffersInv' /\ net' \in SUBSET Message /\ NetInv'
    BY <1>1, <1>3, <2>1, <2>3, <2>4, SendRreqRequestOK
  <2> QED BY <1>0, <1>2, <1>3, <2>2, <2>5, IInvNext DEF RestTypeOK
<1> QED BY <1>4, <1>5 DEF RreqExpiration

LEMMA RreqRateLimitOK ==
  ASSUME IInv, NEW n \in Node, RreqRateLimit(n)
  PROVE  IInv'
<1>0. /\ TablesInv /\ RreqTypeOK /\ BuffersInv /\ RestTypeOK /\ NetInv
      /\ net \in SUBSET Message
  BY IInvParts
<1>1. UNCHANGED <<rt, currSeqNum, currRreqID, unsent, helloing, heard, left>>
  BY DEF RreqRateLimit, tableVars, dataVars, helloVars
<1>2. Grows(rt, rt') /\ TablesInv'
  BY <1>0, <1>1, SameTablesStayOK
<1>3. CASE rreqBuffer[n] # <<>>
  <2> DEFINE q == Head(rreqBuffer[n])
  <2>1. /\ TransmitRreq(n, q, rreqRequest[n])
        /\ Transmit({}, Broadcast(n, q))
        /\ rreqBuffer' = [rreqBuffer EXCEPT ![n] = Tail(@)]
    BY <1>3 DEF RreqRateLimit
  <2>2. /\ BufferOK(rt, n, Tail(rreqBuffer[n]))
        /\ q \in RreqFields /\ KnownAt(rt, n, q.orig, q.hops)
    BY <1>0, <1>3, TailBufferOK DEF BuffersInv
  <2> HIDE DEF q
  <2>3. RreqTypeOK'
    <3>1. rreqRequest[n] \in Seq(Request)
      BY <1>0 DEF RreqTypeOK
    <3> QED BY <1>0, <2>1, <2>2, <3>1, TransmitRreqType
  <2>4. KnownAt(rt', n, q.orig, q.hops)
    BY <1>1, <2>2
  <2>5. net' \in SUBSET Message /\ NetInv'
    BY <1>0, <1>2, <2>1, <2>2, <2>4, TransmitOK, BroadcastOK
  <2>6. BuffersInv'
    BY <1>0, <1>1, <2>1, <2>2 DEF BuffersInv, BufferOK
  <2> QED BY <1>0, <1>1, <1>2, <2>3, <2>5, <2>6, IInvNext DEF RestTypeOK
<1>4. CASE rreqBuffer[n] = <<>>
  <2>1. /\ rateLimited' = [rateLimited EXCEPT ![n] = FALSE]
        /\ UNCHANGED <<rreqBroadcast, rreqRequest, rreqRetryCount, rreqBuffer, net>>
    BY <1>4 DEF RreqRateLimit
  <2> QED BY <1>0, <1>1, <2>1, NothingLearned, IInvNext DEF RreqTypeOK, RestTypeOK
<1> QED BY <1>3, <1>4

-----------------------------------------------------------------------------
LEMMA InitOK ==
  ASSUME Init
  PROVE  IInv
<1>1. EmptyTable \in Table /\ \A d \in Node : ~HasEntry(EmptyTable, d)
  BY DEF EmptyTable, NoEntry, Table, Entry, States, HasEntry
<1>2. TablesInv
  BY <1>1 DEF Init, TablesInv, TableOK
<1>3. RreqTypeOK
  <2>1. <<>> \in Seq(Request) /\ <<>> \in Seq(Node \X Nat)
    BY EmptySeq
  <2> QED BY <2>1 DEF Init, RreqTypeOK
<1>4. BuffersInv
  <2>1. <<>> \in Seq(RreqFields) /\ Len(<<>>) = 0
    BY EmptySeq
  <2>2. DOMAIN <<>> = {}
    BY <2>1, LenProperties
  <2> QED BY <2>1, <2>2 DEF Init, BuffersInv, BufferOK
<1>5. RestTypeOK
  BY BoundAssumption DEF Init, RestTypeOK
<1>6. net \in SUBSET Message /\ NetInv
  BY DEF Init, NetInv
<1> QED BY <1>2, <1>3, <1>4, <1>5, <1>6, IInvParts

LEMMA NextOK ==
  ASSUME IInv, [Next]_vars
  PROVE  IInv'
<1>1. CASE UNCHANGED vars
  <2>1. UNCHANGED <<rt, currSeqNum, currRreqID, rreqBroadcast, rreqRequest, rreqRetryCount,
                    rreqBuffer, rateLimited, unsent, helloing, heard, net, left>>
    BY <1>1 DEF vars, tableVars, rreqVars, dataVars, helloVars
  <2> QED BY <2>1, NothingLearned, IInvParts, IInvNext DEF RreqTypeOK, RestTypeOK
<1>2. ASSUME NEW n \in Node, NEW p \in Packet, FromApplicationLayer(n, p) PROVE IInv'
  BY <1>2, FromApplicationLayerOK
<1>3. ASSUME NEW n \in Node, Receive(n) PROVE IInv'
  <2>1. PICK m \in net : \/ ProcessData(n, m) \/ ProcessRreq(n, m)
                         \/ ProcessRrep(n, m) \/ ProcessRerr(n, m)
    BY <1>3 DEF Receive
  <2> QED BY <2>1, ProcessDataOK, ProcessRreqOK, ProcessRrepOK, ProcessRerrOK
<1>4. ASSUME NEW n \in Node, NEW m \in Node, ProcessHello(n, m) \/ HelloExpiration(n, m)
      PROVE IInv'
  BY <1>4, ProcessHelloOK, HelloExpirationOK
<1>5. ASSUME NEW n \in Node,
             RreqBroadcastDrop(n) \/ RreqExpiration(n) \/ RreqRateLimit(n)
      PROVE IInv'
  BY <1>5, RreqBroadcastDropOK, RreqExpirationOK, RreqRateLimitOK
<1>6. ASSUME NEW n \in Node, NEW d \in Node, RouteExpiration(n, d) PROVE IInv'
  BY <1>6, RouteExpirationOK
<1> QED BY <1>1, <1>2, <1>3, <1>4, <1>5, <1>6 DEF Next

(* Whatever the topology, the packets and the order in which messages,      *)
(* timers and lost links reach the nodes, the tables, the buffers and the   *)
(* messages in flight keep the inductive invariant.                         *)
THEOREM IInvHolds == Spec => []IInv
BY InitOK, NextOK, PTL DEF Spec

(* Every variable of the routing layer keeps its type, for every network.   *)
THEOREM RoutingTypeCorrect == Spec => []RoutingTypeOK
<1>1. IInv => RoutingTypeOK
  BY DEF IInv
<1> QED BY <1>1, IInvHolds, PTL

LEMMA KnownHops ==
  ASSUME IInv
  PROVE  HopsNeverUnderestimate
<1>0. TablesInv /\ BuffersInv /\ NetInv
  BY DEF IInv
<1>1. \A n, d \in Node : HasEntry(rt[n], d) => Dist[n][d] <= rt[n][d].hops
  BY <1>0 DEF TablesInv, TableOK, RouteOK
<1>2. \A n \in Node : \A q \in RreqsAt(n) : Dist[n][q.orig] <= q.hops
  BY <1>0 DEF BuffersInv, BufferOK, KnownAt, RreqsAt
<1>3. \A m \in Sent("RREQ") : Dist[m.src][m.q.orig] <= m.q.hops
  BY <1>0 DEF NetInv, MessageOK, KnownAt, Sent
<1>4. \A m \in Sent("RREP") : Dist[m.src][m.dest] <= m.hops
  BY <1>0 DEF NetInv, MessageOK, RrepOK, KnownAt, Sent
<1> QED BY <1>1, <1>2, <1>3, <1>4 DEF HopsNeverUnderestimate

(* No hop count, in a table, held back or in flight, is below the real      *)
(* distance: for every topology, AodvRouting counts each hop once.          *)
THEOREM HopsAreReal == Spec => []HopsNeverUnderestimate
BY KnownHops, IInvHolds, PTL

LEMMA NextHopsKnow ==
  ASSUME IInv
  PROVE  NextHopKnowsDestination
<1>1. ASSUME NEW n \in Node, NEW d \in Node, HasEntry(rt[n], d)
      PROVE  RouteOK(rt, n, d, rt[n][d].hops, rt[n][d].next)
  BY <1>1 DEF IInv, TablesInv, TableOK
<1> QED BY <1>1 DEF NextHopKnowsDestination, RouteOK

(* Whatever expires or breaks, the next hop of an entry is a neighbour that *)
(* has an entry for the destination or is the destination.                  *)
THEOREM NextHopsKnowDestination == Spec => []NextHopKnowsDestination
BY NextHopsKnow, IInvHolds, PTL

LEMMA PrecursorsKnown ==
  ASSUME IInv
  PROVE  RrepHasPrecursor
BY DEF IInv, NetInv, MessageOK, RrepOK, Sent, RrepHasPrecursor

(* A RREP passed on always leaves its receiver in the precursor list that a *)
(* later RERR is sent to.                                                   *)
THEOREM RrepsHavePrecursors == Spec => []RrepHasPrecursor
BY PrecursorsKnown, IInvHolds, PTL

-----------------------------------------------------------------------------
(* The places of the application packets.  The packets that wait to be      *)
(* sent (unsent, U), are on the air (in N), wait in a buffer (in B) or were *)
(* delivered (D) are all different, and none is in one of these twice.      *)
Nowhere(p, N, B) == OnAir(N, p) = {} /\ \A n \in Node : ~Contains(B[n], p)

Apart(N, B, U, D) ==
    /\ B \in [Node -> Seq(Packet)] /\ U \in SUBSET Packet /\ D \in SUBSET Packet
    /\ \A p \in Packet : \A m1, m2 \in OnAir(N, p) : m1 = m2
    /\ \A n \in Node : Once(B[n])
    /\ \A p \in Packet, n \in Node : Contains(B[n], p) =>
           OnAir(N, p) = {} /\ \A k \in Node \ {n} : ~Contains(B[k], p)
    /\ \A p \in U \cup D : Nowhere(p, N, B)
    /\ U \cap D = {}

PlacesInv == IInv /\ Apart(net, TXBuffer, unsent, delivered)

(* Nothing is where it was not before: packets go off the air, out of the   *)
(* buffers or out of the hands of the application.                          *)
LEMMA FewerPlaces ==
  ASSUME NEW N, NEW B, NEW U, NEW D, Apart(N, B, U, D),
         NEW N2, \A p \in Packet : OnAir(N2, p) \subseteq OnAir(N, p),
         NEW B2 \in [Node -> Seq(Packet)],
         \A n \in Node : Once(B2[n]) /\ \A p \in Packet : Contains(B2[n], p) => Contains(B[n], p),
         NEW U2 \in SUBSET U
  PROVE  /\ Apart(N2, B2, U2, D)
         /\ \A p \in Packet : Nowhere(p, N, B) => Nowhere(p, N2, B2)
<1>1. /\ \A p \in Packet : \A m1, m2 \in OnAir(N, p) : m1 = m2
      /\ \A p \in Packet, n \in Node : Contains(B[n], p) =>
           OnAir(N, p) = {} /\ \A k \in Node \ {n} : ~Contains(B[k], p)
      /\ U \in SUBSET Packet /\ D \in SUBSET Packet /\ U \cap D = {}
      /\ \A p \in U \cup D : Nowhere(p, N, B)
  BY DEF Apart
<1>2. \A p \in Packet : Nowhere(p, N, B) => Nowhere(p, N2, B2)
  BY DEF Nowhere
<1>3. \A p \in Packet : \A m1, m2 \in OnAir(N2, p) : m1 = m2
  BY <1>1
<1>4. \A p \in Packet, n \in Node : Contains(B2[n], p) =>
           OnAir(N2, p) = {} /\ \A k \in Node \ {n} : ~Contains(B2[k], p)
  BY <1>1
<1>5. \A p \in U2 \cup D : Nowhere(p, N2, B2)
  BY <1>1, <1>2
<1> QED BY <1>1, <1>2, <1>3, <1>4, <1>5 DEF Apart

(* Packets that were nowhere go on the air, once each.                      *)
LEMMA PacketsSent ==
  ASSUME NEW N, NEW B, NEW U, NEW D, Apart(N, B, U, D), NEW n, NEW x,
         NEW F \in SUBSET Packet, \A p \in F : Nowhere(p, N, B) /\ p \notin U \cup D,
         NEW N2, \A p \in Packet : OnAir(N2, p)
                    \subseteq OnAir(N, p) \cup IF p \in F THEN {Data(n, x, p)} ELSE {}
  PROVE  Apart(N2, B, U, D)
<1>1. /\ \A p \in Packet : \A m1, m2 \in OnAir(N, p) : m1 = m2
      /\ \A p \in Packet, k \in Node : Contains(B[k], p) =>
           OnAir(N, p) = {} /\ \A j \in Node \ {k} : ~Contains(B[j], p)
      /\ U \in SUBSET Packet /\ D \in SUBSET Packet
      /\ \A p \in U \cup D : Nowhere(p, N, B)
  BY DEF Apart
<1>2. \A p \in Packet : \A m1, m2 \in OnAir(N2, p) : m1 = m2
  BY <1>1 DEF Nowhere
<1>3. \A p \in Packet, k \in Node : Contains(B[k], p) =>
           OnAir(N2, p) = {} /\ \A j \in Node \ {k} : ~Contains(B[j], p)
  BY <1>1 DEF Nowhere
<1>4. \A p \in U \cup D : Nowhere(p, N2, B)
  BY <1>1 DEF Nowhere
<1> QED BY <1>1, <1>2, <1>3, <1>4 DEF Apart

(* A packet that was nowhere is buffered, or deleted when there is no room. *)
LEMMA PacketBuffered ==
  ASSUME NEW N, NEW B, NEW U, NEW D, Apart(N, B, U, D), NEW n \in Node,
         NEW p \in Packet, Nowhere(p, N, B), p \notin U \cup D,
         NEW B2, B2 = [B EXCEPT ![n] = IF Len(@) >= NetBufferSize THEN @ ELSE Append(@, p)]
  PROVE  Apart(N, B2, U, D)
<1>1. /\ \A q \in Packet, k \in Node : Contains(B[k], q) =>
           OnAir(N, q) = {} /\ \A j \in Node \ {k} : ~Contains(B[j], q)
      /\ U \in SUBSET Packet /\ D \in SUBSET Packet
      /\ \A q \in U \cup D : Nowhere(q, N, B)
      /\ \A k \in Node : Once(B[k])
      /\ B \in [Node -> Seq(Packet)]
  BY DEF Apart
<1>2. B[n] \in Seq(Packet) /\ Once(B[n])
  BY <1>1
<1>3. /\ B2 \in [Node -> Seq(Packet)]
      /\ \A k \in Node : Once(B2[k])
      /\ \A q \in Packet : Contains(B2[n], q) => Contains(B[n], q) \/ q = p
      /\ \A k \in Node \ {n} : B2[k] = B[k]
  <2>1. CASE Len(B[n]) >= NetBufferSize
    BY <1>1, <2>1
  <2>2. CASE ~(Len(B[n]) >= NetBufferSize)
    <3>1. /\ Append(B[n], p) \in Seq(Packet)
          /\ \A q : Contains(Append(B[n], p), q) <=> Contains(B[n], q) \/ q = p
          /\ Once(Append(B[n], p))
      BY <1>2, AppendOnce DEF Nowhere
    <3>2. B2 = [B EXCEPT ![n] = Append(B[n], p)]
      BY <2>2
    <3> QED BY <1>1, <3>1, <3>2
  <2> QED BY <2>1, <2>2
<1>4. \A q \in Packet, k \in Node : Contains(B2[k], q) =>
           OnAir(N, q) = {} /\ \A j \in Node \ {k} : ~Contains(B2[j], q)
  <2>1. SUFFICES ASSUME NEW q \in Packet, NEW k \in Node, Contains(B2[k], q)
                 PROVE  OnAir(N, q) = {} /\ \A j \in Node \ {k} : ~Contains(B2[j], q)
    OBVIOUS
  <2>2. CASE q = p
    <3>1. k = n
      BY <1>3, <2>1, <2>2 DEF Nowhere
    <3> QED BY <1>3, <2>2, <3>1 DEF Nowhere
  <2>3. CASE q # p
    <3>1. \A j \in Node : Contains(B2[j], q) => Contains(B[j], q)
      BY <1>3, <2>3
    <3> QED BY <1>1, <2>1, <3>1
  <2> QED BY <2>2, <2>3
<1>5. \A q \in U \cup D : Nowhere(q, N, B2)
  <2>1. SUFFICES ASSUME NEW q \in U \cup D PROVE Nowhere(q, N, B2)
    OBVIOUS
  <2>2. q # p /\ Nowhere(q, N, B) /\ q \in Packet
    BY <1>1
  <2> QED BY <1>3, <2>2 DEF Nowhere
<1> QED BY <1>1, <1>3, <1>4, <1>5 DEF Apart

(* What is sent besides data puts no packet on the air, and what is         *)
(* received leaves it.                                                      *)
LEMMA TransmitPlaces ==
  ASSUME NEW received, NEW sent, Transmit(received, sent), NEW p
  PROVE  OnAir(net', p) \subseteq OnAir(net \ received, p) \cup OnAir(sent, p)
BY DEF Transmit, OnAir

LEMMA BroadcastPlaces ==
  ASSUME NEW n, NEW q, NEW p
  PROVE  OnAir(Broadcast(n, q), p) = {}
<1>1. \A m \in Broadcast(n, q) : m.type = "RREQ"
  BY DEF Broadcast, Rreq
<1> QED BY <1>1 DEF OnAir

LEMMA RrepPlaces ==
  ASSUME NEW n, NEW m, NEW orig, NEW dest, NEW dseq, NEW hops, NEW p
  PROVE  OnAir({Rrep(n, m, orig, dest, dseq, hops)}, p) = {}
<1>1. Rrep(n, m, orig, dest, dseq, hops).type = "RREP"
  BY DEF Rrep
<1> QED BY <1>1 DEF OnAir

LEMMA ControlPlaces ==
  ASSUME NEW received, NEW p
  PROVE  \/ Transmit(received, {})
         \/ \E n, q, r : SendRreqRequest(n, q, r, received)
         \/ \E n, t, ds, ps : SendRerr(n, t, ds, ps, received)
         \/ \E n, k, o, d, s, h : Transmit(received, {Rrep(n, k, o, d, s, h)})
         => OnAir(net', p) \subseteq OnAir(net \ received, p)
<1>1. OnAir({}, p) = {}
  BY DEF OnAir
<1>2. ASSUME Transmit(received, {}) PROVE OnAir(net', p) \subseteq OnAir(net \ received, p)
  BY <1>1, <1>2, TransmitPlaces
<1>3. ASSUME NEW n, NEW q, NEW r, SendRreqRequest(n, q, r, received)
      PROVE  OnAir(net', p) \subseteq OnAir(net \ received, p)
  <2>1. Transmit(received, Broadcast(n, q)) \/ Transmit(received, {})
    BY <1>3 DEF SendRreqRequest
  <2> QED BY <1>2, <2>1, TransmitPlaces, BroadcastPlaces
<1>4. ASSUME NEW t, NEW ds, NEW ps, NEW n, SendRerr(n, t, ds, ps, received)
      PROVE  OnAir(net', p) \subseteq OnAir(net \ received, p)
  <2>1. CASE Transmit(received, {})
    BY <1>2, <2>1
  <2>2. CASE \E k \in ps : Transmit(received, {Rerr(n, k, [d \in ds |-> t[d].seq])})
    <3>1. PICK k \in ps : Transmit(received, {Rerr(n, k, [d \in ds |-> t[d].seq])})
      BY <2>2
    <3> DEFINE e == Rerr(n, k, [d \in ds |-> t[d].seq])
    <3>2. e.type = "RERR"
      BY DEF Rerr
    <3>3. OnAir({e}, p) = {}
      BY <3>2 DEF OnAir
    <3> QED BY <3>1, <3>3, TransmitPlaces
  <2> QED BY <1>4, <2>1, <2>2 DEF SendRerr
<1>5. ASSUME NEW n, NEW k, NEW o, NEW d, NEW s, NEW h, Transmit(received, {Rrep(n, k, o, d, s, h)})
      PROVE  OnAir(net', p) \subseteq OnAir(net \ received, p)
  BY <1>5, TransmitPlaces, RrepPlaces
<1> QED BY <1>2, <1>3, <1>4, <1>5

(* A step that moves no application packet, but may take some off the air   *)
(* or out of the buffers.                                                   *)
LEMMA NothingMoves ==
  ASSUME Apart(net, TXBuffer, unsent, delivered), UNCHANGED <<unsent, delivered>>,
         \A p \in Packet : OnAir(net', p) \subseteq OnAir(net, p),
         \/ UNCHANGED TXBuffer
         \/ \E n \in Node, d \in Node :
                TXBuffer' = [TXBuffer EXCEPT ![n] = OtherPackets(n, d)]
  PROVE  Apart(net', TXBuffer', unsent', delivered')
<1>1. TXBuffer \in [Node -> Seq(Packet)] /\ \A k \in Node : Once(TXBuffer[k])
  BY DEF Apart
<1>2. /\ TXBuffer' \in [Node -> Seq(Packet)]
      /\ \A k \in Node : /\ Once(TXBuffer'[k])
                         /\ \A p \in Packet : Contains(TXBuffer'[k], p)
                                                => Contains(TXBuffer[k], p)
  <2>1. CASE UNCHANGED TXBuffer
    BY <1>1, <2>1
  <2>2. ASSUME NEW n \in Node, NEW d \in Node,
               TXBuffer' = [TXBuffer EXCEPT ![n] = OtherPackets(n, d)]
        PROVE  /\ TXBuffer' \in [Node -> Seq(Packet)]
               /\ \A k \in Node : /\ Once(TXBuffer'[k])
                                  /\ \A p \in Packet : Contains(TXBuffer'[k], p)
                                                         => Contains(TXBuffer[k], p)
    <3> DEFINE b == Only(TXBuffer[n], {p \in Packet : p.dst # d})
    <3>1. /\ b \in Seq(Packet) /\ Once(b)
          /\ \A p : Contains(b, p) => Contains(TXBuffer[n], p)
      BY <1>1, OnlyProperties
    <3>2. TXBuffer' = [TXBuffer EXCEPT ![n] = b]
      BY <2>2 DEF OtherPackets
    <3> HIDE DEF b
    <3> QED BY <1>1, <3>1, <3>2
  <2> QED BY <2>1, <2>2
<1>3. unsent' \in SUBSET unsent /\ delivered' = delivered
  OBVIOUS
<1>4. Apart(net', TXBuffer', unsent', delivered)
  BY <1>2, <1>3, FewerPlaces
<1> QED BY <1>3, <1>4

(* The packets in flight carry packets of the application.                  *)
LEMMA DataMessages ==
  ASSUME IInv, NEW m \in net, m.type = "DATA"
  PROVE  m.p \in Packet
BY DEF IInv, RoutingTypeOK, Message

LEMMA FromApplicationLayerPlaces ==
  ASSUME PlacesInv, NEW n \in Node, NEW p \in Packet, FromApplicationLayer(n, p)
  PROVE  Apart(net', TXBuffer', unsent', delivered')
<1>0. Apart(net, TXBuffer, unsent, delivered)
  BY DEF PlacesInv
<1>1. p \in unsent /\ unsent' = unsent \ {p} /\ delivered' = delivered
  BY DEF FromApplicationLayer
<1>2. Nowhere(p, net, TXBuffer) /\ p \notin unsent' \cup delivered'
  BY <1>0, <1>1 DEF Apart
<1>3. Apart(net, TXBuffer, unsent', delivered')
  BY <1>0, <1>1 DEF Apart
<1>4. CASE IsRouteValid(rt[n], p.dst)
  <2> DEFINE x == rt[n][p.dst].next
             F == {p}
  <2>1. Transmit({}, {Data(n, x, p)}) /\ UNCHANGED TXBuffer
    BY <1>4 DEF FromApplicationLayer
  <2>2. \A q \in Packet :
           OnAir(net', q) \subseteq OnAir(net, q) \cup IF q \in F THEN {Data(n, x, q)} ELSE {}
    <3>1. SUFFICES ASSUME NEW q \in Packet
                   PROVE  OnAir({Data(n, x, p)}, q)
                             \subseteq IF q \in F THEN {Data(n, x, q)} ELSE {}
      BY <2>1, TransmitPlaces
    <3> QED BY DEF OnAir, Data
  <2>3. F \in SUBSET Packet /\ \A q \in F : Nowhere(q, net, TXBuffer) /\ q \notin unsent' \cup delivered'
    BY <1>2
  <2> HIDE DEF x, F
  <2>4. Apart(net', TXBuffer, unsent', delivered')
    BY <1>2, <1>3, <2>2, <2>3, PacketsSent
  <2> QED BY <2>1, <2>4
<1>5. CASE ~IsRouteValid(rt[n], p.dst)
  <2>1. BufferPacket(n, p)
    BY <1>5 DEF FromApplicationLayer
  <2>2. \A q \in Packet : OnAir(net', q) \subseteq OnAir(net, q)
    <3>1. CASE UNCHANGED net
      BY <3>1
    <3>2. CASE \E d : OriginateRreq(n, d, {})
      <4>1. \E q, r : SendRreqRequest(n, q, r, {})
        BY <3>2 DEF OriginateRreq
      <4>2. net \ {} = net
        OBVIOUS
      <4> QED BY <4>1, <4>2, ControlPlaces
    <3> QED BY <1>5, <3>1, <3>2 DEF FromApplicationLayer
  <2>3. /\ TXBuffer \in [Node -> Seq(Packet)] /\ \A k \in Node : Once(TXBuffer[k])
        /\ unsent' \in SUBSET unsent'
    BY <1>0 DEF Apart
  <2>4. /\ Apart(net', TXBuffer, unsent', delivered')
        /\ Nowhere(p, net', TXBuffer)
    BY <1>2, <1>3, <2>2, <2>3, FewerPlaces
  <2>5. TXBuffer' = [TXBuffer EXCEPT ![n] =
                        IF Len(@) >= NetBufferSize THEN @ ELSE Append(@, p)]
    BY <2>1 DEF BufferPacket
  <2> QED BY <1>2, <2>4, <2>5, PacketBuffered
<1> QED BY <1>4, <1>5

(* A packet that was received is nowhere else, and goes to one place.       *)
LEMMA ProcessDataPlaces ==
  ASSUME PlacesInv, NEW n \in Node, NEW m \in net, ProcessData(n, m)
  PROVE  Apart(net', TXBuffer', unsent', delivered')
<1>0. Apart(net, TXBuffer, unsent, delivered) /\ IInv
  BY DEF PlacesInv
<1> DEFINE p == m.p
           x == rt[n][p.dst].next
           N == net \ {m}
           F == {p}
<1>1. m.type = "DATA" /\ p \in Packet /\ UNCHANGED unsent
  BY <1>0, DataMessages DEF ProcessData
<1>2. m \in OnAir(net, p) /\ OnAir(N, p) = {}
  BY <1>0, <1>1 DEF Apart, OnAir
<1>3. \A q \in Packet : OnAir(N, q) \subseteq OnAir(net, q)
  BY DEF OnAir
<1>4. /\ TXBuffer \in [Node -> Seq(Packet)] /\ \A k \in Node : Once(TXBuffer[k])
      /\ unsent \in SUBSET unsent
  BY <1>0 DEF Apart
<1>5. p \notin unsent \cup delivered /\ \A k \in Node : ~Contains(TXBuffer[k], p)
  BY <1>0, <1>1, <1>2 DEF Apart, Nowhere
<1> HIDE DEF p, N
<1>6. Apart(N, TXBuffer, unsent, delivered) /\ Nowhere(p, N, TXBuffer)
  <2>1. Apart(N, TXBuffer, unsent, delivered)
    BY <1>0, <1>3, <1>4, FewerPlaces
  <2> QED BY <1>2, <1>5, <2>1 DEF Nowhere
<1>7. ASSUME NEW M, \A q \in Packet : OnAir(M, q) \subseteq OnAir(N, q)
      PROVE  Apart(M, TXBuffer, unsent, delivered) /\ Nowhere(p, M, TXBuffer)
  BY <1>1, <1>4, <1>6, <1>7, FewerPlaces
<1>8. (Transmit({m}, {}) \/ \E d : OriginateRreq(n, d, {m}))
        => \A q \in Packet : OnAir(net', q) \subseteq OnAir(N, q)
  BY ControlPlaces DEF N, OriginateRreq
<1>9. CASE p.dst = n
  <2>1. delivered' = delivered \cup {p} /\ Transmit({m}, {}) /\ UNCHANGED TXBuffer
    BY <1>9 DEF ProcessData, p
  <2>2. Apart(net', TXBuffer, unsent, delivered) /\ Nowhere(p, net', TXBuffer)
    BY <1>7, <1>8, <2>1
  <2>3. Apart(net', TXBuffer, unsent, delivered')
    BY <1>1, <1>5, <2>1, <2>2 DEF Apart
  <2> QED BY <1>1, <2>1, <2>3
<1>10. CASE p.dst # n /\ IsRouteValid(rt[n], p.dst)
  <2>1. Transmit({m}, {Data(n, x, p)}) /\ UNCHANGED <<TXBuffer, delivered>>
    BY <1>10 DEF ProcessData, p
  <2>2. \A q \in Packet :
           OnAir(net', q) \subseteq OnAir(N, q) \cup IF q \in F THEN {Data(n, x, q)} ELSE {}
    <3>1. SUFFICES ASSUME NEW q \in Packet
                   PROVE  OnAir({Data(n, x, p)}, q)
                             \subseteq IF q \in F THEN {Data(n, x, q)} ELSE {}
      BY <2>1, TransmitPlaces DEF N
    <3> QED BY DEF OnAir, Data
  <2>3. F \in SUBSET Packet /\ \A q \in F : Nowhere(q, N, TXBuffer) /\ q \notin unsent \cup delivered
    BY <1>1, <1>5, <1>6
  <2> HIDE DEF x, F
  <2>4. Apart(net', TXBuffer, unsent, delivered)
    BY <1>5, <1>6, <2>2, <2>3, PacketsSent
  <2> QED BY <1>1, <2>1, <2>4
<1>11. CASE p.dst # n /\ ~IsRouteValid(rt[n], p.dst) /\ ~IsRreqRequestActive(n, p.dst)
  <2>1. OriginateRreq(n, p.dst, {m}) /\ BufferPacket(n, p) /\ UNCHANGED delivered
    BY <1>11 DEF ProcessData, p
  <2>2. Apart(net', TXBuffer, unsent, delivered) /\ Nowhere(p, net', TXBuffer)
    BY <1>7, <1>8, <2>1
  <2>3. TXBuffer' = [TXBuffer EXCEPT ![n] =
                        IF Len(@) >= NetBufferSize THEN @ ELSE Append(@, p)]
    BY <2>1 DEF BufferPacket
  <2>4. Apart(net', TXBuffer', unsent, delivered)
    BY <1>1, <1>5, <2>2, <2>3, PacketBuffered
  <2> QED BY <1>1, <2>1, <2>4
<1>12. CASE p.dst # n /\ ~IsRouteValid(rt[n], p.dst) /\ IsRreqRequestActive(n, p.dst)
  <2>1. Transmit({m}, {}) /\ UNCHANGED <<TXBuffer, delivered>>
    BY <1>12 DEF ProcessData, p
  <2> QED BY <1>1, <1>7, <1>8, <2>1
<1> QED BY <1>9, <1>10, <1>11, <1>12

(* The packets that waited for a route leave the buffer as they are sent.   *)
LEMMA ProcessRrepPlaces ==
  ASSUME PlacesInv, NEW n \in Node, NEW m \in net, ProcessRrep(n, m)
  PROVE  Apart(net', TXBuffer', unsent', delivered')
<1>0. Apart(net, TXBuffer, unsent, delivered) /\ IInv
  BY DEF PlacesInv
<1>1. UNCHANGED <<unsent, delivered>>
  BY DEF ProcessRrep
<1>2. \A q \in Packet : OnAir(net \ {m}, q) \subseteq OnAir(net, q)
  BY DEF OnAir
<1>3. CASE m.orig # n
  <2>1. UNCHANGED TXBuffer
    BY <1>3 DEF ProcessRrep
  <2>2. Transmit({m}, {}) \/ \E k, o, d, s, h : Transmit({m}, {Rrep(n, k, o, d, s, h)})
    BY <1>3 DEF ProcessRrep
  <2>3. \A q \in Packet : OnAir(net', q) \subseteq OnAir(net \ {m}, q)
    BY <2>2, ControlPlaces
  <2> QED BY <1>0, <1>1, <1>2, <2>1, <2>3, NothingMoves
<1>4. CASE m.orig = n
  <2> DEFINE d == m.dest
             F == PacketsFor(n, d)
             B2 == [TXBuffer EXCEPT ![n] = OtherPackets(n, d)]
             b == Only(TXBuffer[n], {p \in Packet : p.dst # d})
             t == UpdateEntry(RouteToPrevHop(n, m.src), m.dest, m.dseq, m.hops + 1, m.src)
             x == t[m.dest].next
  <2>1. TXBuffer' = B2
    BY <1>4 DEF ProcessRrep
  <2>2. Transmit({m}, {Data(n, x, p) : p \in F})
    BY <1>4 DEF ProcessRrep
  <2> HIDE DEF x
  <2>3. /\ TXBuffer \in [Node -> Seq(Packet)]
        /\ \A k \in Node : Once(TXBuffer[k])
        /\ \A q \in Packet, k \in Node : Contains(TXBuffer[k], q) =>
              OnAir(net, q) = {} /\ \A j \in Node \ {k} : ~Contains(TXBuffer[j], q)
        /\ \A q \in unsent \cup delivered : Nowhere(q, net, TXBuffer)
    BY <1>0 DEF Apart
  <2>4. /\ b \in Seq(Packet) /\ Once(b)
        /\ \A p : Contains(b, p) <=> Contains(TXBuffer[n], p) /\ p \in {q \in Packet : q.dst # d}
    BY <2>3, OnlyProperties
  <2>5. B2 = [TXBuffer EXCEPT ![n] = b]
    BY DEF OtherPackets
  <2>6. F \in SUBSET Packet /\ \A p \in F : Contains(TXBuffer[n], p) /\ p.dst = d
    BY DEF PacketsFor, Contains
  <2> HIDE DEF F, b, B2
  <2>7. /\ B2 \in [Node -> Seq(Packet)]
        /\ B2[n] = b /\ \A k \in Node \ {n} : B2[k] = TXBuffer[k]
        /\ \A k \in Node : /\ Once(B2[k])
                           /\ \A p \in Packet : Contains(B2[k], p) => Contains(TXBuffer[k], p)
        /\ unsent \in SUBSET unsent
    BY <2>3, <2>4, <2>5
  <2>8. Apart(net, B2, unsent, delivered)
    BY <1>0, <2>7, FewerPlaces
  <2>9. ASSUME NEW p \in F
        PROVE  Nowhere(p, net, B2) /\ p \notin unsent \cup delivered
    <3>1. p \in Packet /\ Contains(TXBuffer[n], p) /\ p.dst = d
      BY <2>6
    <3>2. ~Contains(b, p)
      BY <2>4, <3>1
    <3>3. OnAir(net, p) = {} /\ \A j \in Node \ {n} : ~Contains(TXBuffer[j], p)
      BY <2>3, <3>1
    <3>4. p \notin unsent \cup delivered
      BY <2>3, <3>1 DEF Nowhere
    <3>5. ASSUME NEW k \in Node PROVE ~Contains(B2[k], p)
      BY <2>7, <3>2, <3>3
    <3> QED BY <3>3, <3>4, <3>5 DEF Nowhere
  <2>10. \A q \in Packet :
           OnAir(net', q) \subseteq OnAir(net, q) \cup IF q \in F THEN {Data(n, x, q)} ELSE {}
    <3>1. SUFFICES ASSUME NEW q \in Packet
                   PROVE  OnAir({Data(n, x, p) : p \in F}, q)
                             \subseteq IF q \in F THEN {Data(n, x, q)} ELSE {}
      BY <1>2, <2>2, TransmitPlaces
    <3> QED BY DEF OnAir, Data
  <2>11. Apart(net', B2, unsent, delivered)
    BY <2>6, <2>8, <2>9, <2>10, PacketsSent
  <2> QED BY <1>1, <2>1, <2>11
<1> QED BY <1>3, <1>4

(* Giving up on a destination deletes the packets that wait for it; asking  *)
(* again moves none.                                                        *)
LEMMA RreqExpirationPlaces ==
  ASSUME PlacesInv, NEW n \in Node, RreqExpiration(n)
  PROVE  Apart(net', TXBuffer', unsent', delivered')
<1>0. Apart(net, TXBuffer, unsent, delivered) /\ IInv
  BY DEF PlacesInv
<1> DEFINE d == Head(rreqRequest[n]).dest
<1>1. UNCHANGED <<unsent, delivered>> /\ d \in Node
  <2>1. /\ rreqRequest[n] \in Seq([dest : Node, canceled : BOOLEAN])
        /\ rreqRequest[n] # <<>>
    BY <1>0 DEF IInv, RoutingTypeOK, RreqExpiration
  <2>2. Head(rreqRequest[n]) \in [dest : Node, canceled : BOOLEAN]
    BY <2>1, HeadTailProperties
  <2> QED BY <2>2 DEF RreqExpiration
<1>2. \/ UNCHANGED <<net, TXBuffer>>
      \/ UNCHANGED TXBuffer /\ \E q, r : SendRreqRequest(n, q, r, {})
      \/ UNCHANGED net /\ TXBuffer' = [TXBuffer EXCEPT ![n] = OtherPackets(n, d)]
  BY DEF RreqExpiration
<1>3. \A p \in Packet : OnAir(net', p) \subseteq OnAir(net, p)
  <2>1. net \ {} = net
    OBVIOUS
  <2> QED BY <1>2, <2>1, ControlPlaces
<1> HIDE DEF d
<1>4. \/ UNCHANGED TXBuffer
      \/ \E k \in Node, e \in Node : TXBuffer' = [TXBuffer EXCEPT ![k] = OtherPackets(k, e)]
  BY <1>1, <1>2
<1> QED BY <1>0, <1>1, <1>3, <1>4, NothingMoves

(* The other steps move no packet of the application.                       *)
LEMMA ControlStepPlaces ==
  ASSUME PlacesInv, NEW n \in Node,
         \/ \E m \in net : ProcessRreq(n, m) \/ ProcessRerr(n, m)
         \/ \E m \in Node : ProcessHello(n, m) \/ HelloExpiration(n, m)
         \/ RreqBroadcastDrop(n) \/ RreqRateLimit(n)
         \/ \E d \in Node : RouteExpiration(n, d)
  PROVE  Apart(net', TXBuffer', unsent', delivered')
<1>0. Apart(net, TXBuffer, unsent, delivered)
  BY DEF PlacesInv
<1> DEFINE Quiet == /\ UNCHANGED <<TXBuffer, unsent, delivered>>
                    /\ \A p \in Packet : OnAir(net', p) \subseteq OnAir(net, p)
<1>1. \A N, p : OnAir(net \ N, p) \subseteq OnAir(net, p)
  BY DEF OnAir
<1>2. ASSUME NEW m \in net, ProcessRreq(n, m) PROVE Quiet
  <2>1. UNCHANGED <<TXBuffer, unsent, delivered>>
    BY <1>2 DEF ProcessRreq, dataVars
  <2>2. \/ Transmit({m}, {}) \/ \E q, r : SendRreqRequest(n, q, r, {m})
        \/ \E k, o, d, s, h : Transmit({m}, {Rrep(n, k, o, d, s, h)})
    BY <1>2 DEF ProcessRreq
  <2>3. \A p \in Packet : OnAir(net', p) \subseteq OnAir(net \ {m}, p)
    BY <2>2, ControlPlaces
  <2> QED BY <1>1, <2>1, <2>3
<1>3. ASSUME NEW m \in net, ProcessRerr(n, m) PROVE Quiet
  <2>1. UNCHANGED <<TXBuffer, unsent, delivered>>
    BY <1>3 DEF ProcessRerr, dataVars
  <2>2. \E t, ds, ps : SendRerr(n, t, ds, ps, {m})
    BY <1>3 DEF ProcessRerr
  <2>3. \A p \in Packet : OnAir(net', p) \subseteq OnAir(net \ {m}, p)
    BY <2>2, ControlPlaces
  <2> QED BY <1>1, <2>1, <2>3
<1>4. ASSUME NEW m \in Node, HelloExpiration(n, m) PROVE Quiet
  <2>1. UNCHANGED <<TXBuffer, unsent, delivered>>
    BY <1>4 DEF HelloExpiration, dataVars
  <2>2. \E t, ds, ps : SendRerr(n, t, ds, ps, {})
    BY <1>4 DEF HelloExpiration
  <2>3. \A p \in Packet : OnAir(net', p) \subseteq OnAir(net \ {}, p)
    BY <2>2, ControlPlaces
  <2> QED BY <1>1, <2>1, <2>3
<1>5. ASSUME RreqRateLimit(n) PROVE Quiet
  <2>1. UNCHANGED <<TXBuffer, unsent, delivered>>
    BY <1>5 DEF RreqRateLimit, dataVars
  <2>2. UNCHANGED net \/ \E q : Transmit({}, Broadcast(n, q))
    BY <1>5 DEF RreqRateLimit
  <2>3. \A p \in Packet : OnAir(net', p) \subseteq OnAir(net, p)
    <3>1. net \ {} = net
      OBVIOUS
    <3> QED BY <2>2, <3>1, TransmitPlaces, BroadcastPlaces
  <2> QED BY <2>1, <2>3
<1>6. ASSUME \/ \E m \in Node : ProcessHello(n, m)
             \/ RreqBroadcastDrop(n)
             \/ \E d \in Node : RouteExpiration(n, d)
      PROVE  Quiet
  <2>1. UNCHANGED <<TXBuffer, unsent, delivered, net>>
    BY <1>6 DEF ProcessHello, RreqBroadcastDrop, RouteExpiration, dataVars
  <2> QED BY <2>1
<1>7. Quiet
  BY <1>2, <1>3, <1>4, <1>5, <1>6
<1> QED BY <1>0, <1>7, NothingMoves

LEMMA PlacesInit ==
  ASSUME Init
  PROVE  PlacesInv
<1>1. IInv
  BY InitOK
<1>2. <<>> \in Seq(Packet) /\ DOMAIN <<>> = {} /\ Len(<<>>) = 0
  BY EmptySeq, LenProperties
<1>3. TXBuffer \in [Node -> Seq(Packet)] /\ \A n \in Node : TXBuffer[n] = <<>>
  BY <1>2 DEF Init
<1>4. \A n \in Node : Once(TXBuffer[n]) /\ \A p : ~Contains(TXBuffer[n], p)
  <2>1. Once(<<>>)
    BY <1>2 DEF Once
  <2>2. \A p : ~Contains(<<>>, p)
    BY <1>2 DEF Contains
  <2> QED BY <1>3, <2>1, <2>2
<1>5. \A p : OnAir(net, p) = {}
  BY DEF Init, OnAir
<1>6. unsent = Packet /\ delivered = {}
  BY DEF Init
<1> QED BY <1>1, <1>3, <1>4, <1>5, <1>6 DEF PlacesInv, Apart, Nowhere

LEMMA PlacesNext ==
  ASSUME PlacesInv, [Next]_vars
  PROVE  PlacesInv'
<1>1. IInv'
  BY NextOK DEF PlacesInv
<1>2. Apart(net', TXBuffer', unsent', delivered')
  <2>1. CASE UNCHANGED vars
    <3>1. UNCHANGED <<net, TXBuffer, unsent, delivered>>
      BY <2>1 DEF vars, dataVars
    <3>2. Apart(net, TXBuffer, unsent, delivered)
      BY DEF PlacesInv
    <3> QED BY <3>1, <3>2
  <2>2. CASE Next
    <3>1. PICK n \in Node :
            \/ \E p \in Packet : FromApplicationLayer(n, p)
            \/ Receive(n)
            \/ \E m \in Node : ProcessHello(n, m) \/ HelloExpiration(n, m)
            \/ RreqBroadcastDrop(n)
            \/ RreqExpiration(n)
            \/ RreqRateLimit(n)
            \/ \E d \in Node : RouteExpiration(n, d)
      BY <2>2 DEF Next
    <3>2. CASE Receive(n)
      <4>1. PICK m \in net : \/ ProcessData(n, m) \/ ProcessRreq(n, m)
                             \/ ProcessRrep(n, m) \/ ProcessRerr(n, m)
        BY <3>2 DEF Receive
      <4> QED BY <4>1, ProcessDataPlaces, ProcessRrepPlaces, ControlStepPlaces
    <3>3. CASE ~Receive(n)
      BY <3>1, <3>3, FromApplicationLayerPlaces, RreqExpirationPlaces, ControlStepPlaces
    <3> QED BY <3>2, <3>3
  <2> QED BY <2>1, <2>2
<1> QED BY <1>1, <1>2 DEF PlacesInv

(* Whatever is lost, reordered or given up, the packets that are unsent, on *)
(* the air, buffered and delivered are different ones.                      *)
THEOREM PlacesHold == Spec => []PlacesInv
BY PlacesInit, PlacesNext, PTL DEF Spec

(* Every variable keeps its type, for every network and set of packets.     *)
THEOREM TypeCorrect == Spec => []TypeOK
<1>1. PlacesInv => TypeOK
  BY DEF PlacesInv, Apart, IInv, TypeOK, DataTypeOK
<1> QED BY <1>1, PlacesHold, PTL

LEMMA OnePlace ==
  ASSUME PlacesInv
  PROVE  PacketInOnePlace
<1> DEFINE Slots(p) == {s \in Node \X (1 .. Cardinality(Packet)) :
                          s[2] \in DOMAIN TXBuffer[s[1]] /\ TXBuffer[s[1]][s[2]] = p}
<1>0. Apart(net, TXBuffer, unsent, delivered)
  BY DEF PlacesInv
<1>1. ASSUME NEW p \in Packet
      PROVE  /\ Cardinality(OnAir(net, p)) + Cardinality(Slots(p)) <= 1
             /\ OnAir(net, p) \cup Slots(p) # {} => p \notin unsent \cup delivered
             /\ p \notin unsent \cap delivered
  <2>1. ASSUME NEW s \in Slots(p)
        PROVE  Contains(TXBuffer[s[1]], p) /\ s[1] \in Node
    BY DEF Contains
  <2>2. ASSUME NEW s \in Slots(p), NEW r \in Slots(p)
        PROVE  s = r
    <3>1. Contains(TXBuffer[s[1]], p) /\ Contains(TXBuffer[r[1]], p)
      BY <2>1
    <3>2. s[1] = r[1]
      BY <1>0, <2>1, <3>1 DEF Apart
    <3>3. /\ s[2] \in DOMAIN TXBuffer[s[1]] /\ r[2] \in DOMAIN TXBuffer[s[1]]
          /\ TXBuffer[s[1]][s[2]] = TXBuffer[s[1]][r[2]]
      BY <3>2
    <3>4. s[2] = r[2]
      BY <1>0, <2>1, <3>3 DEF Apart, Once
    <3> QED BY <3>2, <3>4
  <2>3. Slots(p) # {} => OnAir(net, p) = {} /\ p \notin unsent \cup delivered
    BY <1>0, <2>1 DEF Apart, Nowhere
  <2>4. OnAir(net, p) # {} => p \notin unsent \cup delivered
    BY <1>0 DEF Apart, Nowhere
  <2>5. OnAir(net, p) = {} \/ \E m : OnAir(net, p) = {m}
    BY <1>0 DEF Apart
  <2>6. Slots(p) = {} \/ \E s : Slots(p) = {s}
    <3> HIDE DEF Slots
    <3> QED BY <2>2
  <2>7. Cardinality({}) = 0 /\ \A x : Cardinality({x}) = 1
    BY FS_EmptySet, FS_Singleton
  <2>8. unsent \cap delivered = {}
    BY <1>0 DEF Apart
  <2> HIDE DEF Slots
  <2>9. Cardinality(OnAir(net, p)) + Cardinality(Slots(p)) <= 1
    <3>1. CASE Slots(p) = {}
      <4>1. Cardinality(OnAir(net, p)) \in {0, 1}
        BY <2>5, <2>7
      <4> QED BY <2>7, <3>1, <4>1
    <3>2. CASE \E s : Slots(p) = {s}
      <4>1. OnAir(net, p) = {} /\ Cardinality(Slots(p)) = 1
        BY <2>3, <2>7, <3>2
      <4> QED BY <2>7, <4>1
    <3> QED BY <2>6, <3>1, <3>2
  <2> QED BY <2>3, <2>4, <2>8, <2>9
<1>2. \A p \in Packet : {m \in Sent("DATA") : m.p = p} = OnAir(net, p)
  BY DEF Sent, OnAir
<1> QED BY <1>1, <1>2 DEF PacketInOnePlace

(* An application packet is in one place at most, whatever is flushed,      *)
(* forwarded, given up or received, and none is delivered twice.            *)
THEOREM OnePlaceEach == Spec => []PacketInOnePlace
BY OnePlace, PlacesHold, PTL

-----------------------------------------------------------------------------
(* AODV implements Datagrams.  The place of a packet depends on the air and *)
(* the buffers as far as they hold this packet.                             *)
Where(N, B, U, D, p) ==
    LET waitsAt == {n \in Node : Contains(B[n], p)}
    IN  IF p \in U THEN At("source", NoNode)
        ELSE IF p \in D THEN At("delivered", NoNode)
        ELSE IF OnAir(N, p) # {} THEN At("air", (CHOOSE m \in OnAir(N, p) : TRUE).to)
        ELSE IF waitsAt # {} THEN At("buffer", CHOOSE n \in waitsAt : TRUE)
        ELSE At("lost", NoNode)

LEMMA PlaceWhere ==
  ASSUME NEW p
  PROVE  /\ Place(p) = Where(net, TXBuffer, unsent, delivered, p)
         /\ Place(p)' = Where(net', TXBuffer', unsent', delivered', p)
<1>1. WaitsAt(p) = {n \in Node : Contains(TXBuffer[n], p)}
  BY DEF WaitsAt, Contains
<1>2. WaitsAt(p)' = {n \in Node : Contains(TXBuffer'[n], p)}
  BY DEF WaitsAt, Contains
<1> QED BY <1>1, <1>2 DEF Place, Where

SamePlace(p) ==
    /\ OnAir(net', p) = OnAir(net, p)
    /\ \A n \in Node : Contains(TXBuffer'[n], p) <=> Contains(TXBuffer[n], p)
    /\ p \in unsent' <=> p \in unsent
    /\ p \in delivered' <=> p \in delivered

LEMMA PlaceKept ==
  ASSUME NEW p, SamePlace(p)
  PROVE  Place(p)' = Place(p)
<1>1. {n \in Node : Contains(TXBuffer'[n], p)} = {n \in Node : Contains(TXBuffer[n], p)}
  BY DEF SamePlace
<1> QED BY <1>1, PlaceWhere DEF SamePlace, Where

LEMMA WhereIs ==
  ASSUME NEW N, NEW B, NEW U, NEW D, Apart(N, B, U, D), NEW p \in Packet
  PROVE  LET w == Where(N, B, U, D, p)
         IN  /\ p \in U => w = At("source", NoNode)
             /\ p \in D => w = At("delivered", NoNode)
             /\ \A m \in OnAir(N, p) : w = At("air", m.to)
             /\ \A n \in Node : Contains(B[n], p) <=> w = At("buffer", n)
             /\ Nowhere(p, N, B) /\ p \notin U \cup D => w = At("lost", NoNode)
<1> DEFINE W == {n \in Node : Contains(B[n], p)}
           w == Where(N, B, U, D, p)
<1>3. /\ \A m1, m2 \in OnAir(N, p) : m1 = m2
      /\ \A n \in Node : Contains(B[n], p) =>
            OnAir(N, p) = {} /\ \A k \in Node \ {n} : ~Contains(B[k], p)
      /\ p \in U \cup D => Nowhere(p, N, B)
      /\ U \cap D = {}
  BY DEF Apart
<1>4. w = IF p \in U THEN At("source", NoNode)
          ELSE IF p \in D THEN At("delivered", NoNode)
          ELSE IF OnAir(N, p) # {} THEN At("air", (CHOOSE m \in OnAir(N, p) : TRUE).to)
          ELSE IF W # {} THEN At("buffer", CHOOSE n \in W : TRUE)
          ELSE At("lost", NoNode)
  BY DEF Where
<1> HIDE DEF w
<1>2. \A n \in Node : n \in W <=> Contains(B[n], p)
  OBVIOUS
<1> HIDE DEF W
<1>5. \A m \in OnAir(N, p) : (CHOOSE k \in OnAir(N, p) : TRUE) = m
  <2>1. \A m \in OnAir(N, p) : (CHOOSE k \in OnAir(N, p) : TRUE) \in OnAir(N, p)
    OBVIOUS
  <2> QED BY <1>3, <2>1
<1>6. \A n \in Node : Contains(B[n], p) => (CHOOSE k \in W : TRUE) = n
  <2>1. \A n \in W : (CHOOSE k \in W : TRUE) \in W
    OBVIOUS
  <2>2. \A n \in W : n \in Node
    BY DEF W
  <2> QED BY <1>2, <1>3, <2>1, <2>2
<1>7. \A m \in OnAir(N, p) : p \notin U \cup D
  BY <1>3 DEF Nowhere
<1>8. \A n \in Node : Contains(B[n], p) => p \notin U \cup D
  BY <1>3 DEF Nowhere
<1>9. \A m \in OnAir(N, p) : w = At("air", m.to)
  BY <1>4, <1>5, <1>7
<1>10. \A n \in Node : Contains(B[n], p) => w = At("buffer", n)
  BY <1>2, <1>3, <1>4, <1>6, <1>8
<1>11. ASSUME NEW n \in Node, w = At("buffer", n) PROVE Contains(B[n], p)
  <2>1. /\ At("source", NoNode).what # "buffer" /\ At("delivered", NoNode).what # "buffer"
        /\ At("lost", NoNode).what # "buffer" /\ \A x : At("air", x).what # "buffer"
        /\ At("buffer", n).what = "buffer" /\ \A x : At("buffer", x).node = x
    BY DEF At
  <2>2. p \notin U /\ p \notin D /\ OnAir(N, p) = {} /\ W # {}
    BY <1>4, <1>11, <2>1
  <2>3. At("buffer", n) = At("buffer", CHOOSE k \in W : TRUE)
    BY <1>4, <1>11, <2>2
  <2>4. n = (CHOOSE k \in W : TRUE)
    BY <2>1, <2>3
  <2>5. n \in W
    BY <2>2, <2>4
  <2> QED BY <1>2, <2>5
<1>12. Nowhere(p, N, B) /\ p \notin U \cup D => w = At("lost", NoNode)
  <2>1. Nowhere(p, N, B) => W = {}
    BY <1>2 DEF Nowhere, W
  <2> QED BY <1>4, <2>1 DEF Nowhere
<1>13. p \in D => p \notin U
  BY <1>3
<1> QED BY <1>4, <1>9, <1>10, <1>11, <1>12, <1>13 DEF w

(* The packets a node holds are as many as its buffer is long.              *)
LEMMA OnceLength ==
  ASSUME NEW X, NEW s \in Seq(X), Once(s)
  PROVE  Cardinality({x \in X : Contains(s, x)}) = Len(s)
<1> DEFINE S == {x \in X : Contains(s, x)}
<1>1. /\ Len(s) \in Nat /\ DOMAIN s = 1 .. Len(s)
      /\ \A i \in 1 .. Len(s) : s[i] \in X
      /\ s = [i \in 1 .. Len(s) |-> s[i]]
  BY LenProperties, ElementOfSeq
<1>2. s \in [1 .. Len(s) -> S]
  BY <1>1 DEF Contains
<1>3. s \in Bijection(1 .. Len(s), S)
  <2>1. \A i, j \in 1 .. Len(s) : s[i] = s[j] => i = j
    BY <1>1 DEF Once
  <2>2. \A x \in S : \E i \in 1 .. Len(s) : s[i] = x
    BY <1>1 DEF Contains
  <2> QED BY <1>2, <2>1, <2>2 DEF Bijection, Injection, Surjection, IsInjective
<1>4. IsFiniteSet(1 .. Len(s)) /\ Cardinality(1 .. Len(s)) = Len(s)
  BY <1>1, FS_Interval
<1> QED BY <1>3, <1>4, FS_Bijection DEF ExistsBijection

LEMMA RoomLeft ==
  ASSUME PlacesInv, NEW n \in Node
  PROVE  /\ Service!Held(n) = {p \in Packet : Contains(TXBuffer[n], p)}
         /\ Service!Room(n) <=> Len(TXBuffer[n]) < NetBufferSize
<1>1. Apart(net, TXBuffer, unsent, delivered)
  BY DEF PlacesInv
<1>2. \A p \in Packet : Contains(TXBuffer[n], p) <=> Place(p) = Service!Buffered(n)
  BY <1>1, PlaceWhere, WhereIs DEF Service!Buffered, At
<1>3. Service!Held(n) = {p \in Packet : Contains(TXBuffer[n], p)}
  BY <1>2 DEF Service!Held
<1>4. TXBuffer[n] \in Seq(Packet) /\ Once(TXBuffer[n])
  BY <1>1 DEF Apart
<1>5. \A S : Service!Cardinality(S) = Cardinality(S)
  BY Zenon DEF Service!Cardinality, Cardinality
<1> QED BY <1>3, <1>4, <1>5, OnceLength DEF Service!Room

-----------------------------------------------------------------------------
(* What a step does to the air.                                             *)
LEMMA SentOnAir ==
  ASSUME NEW received, NEW sent, Transmit(received, sent), NEW p
  PROVE  OnAir(net', p) = OnAir(net \ received, p)
                            \cup {m \in OnAir(sent, p) : m.to \in Neighbour[m.src]}
BY DEF Transmit, OnAir

LEMMA ControlOnAir ==
  ASSUME NEW received, NEW p,
         \/ Transmit(received, {})
         \/ \E n, q, r : SendRreqRequest(n, q, r, received)
         \/ \E n, t, ds, ps : SendRerr(n, t, ds, ps, received)
         \/ \E n, k, o, d, s, h : Transmit(received, {Rrep(n, k, o, d, s, h)})
  PROVE  OnAir(net', p) = OnAir(net \ received, p)
<1>1. OnAir(net', p) \subseteq OnAir(net \ received, p)
  BY ControlPlaces
<1>2. \E sent : Transmit(received, sent)
  BY DEF SendRreqRequest, SendRerr
<1>3. net \ received \subseteq net'
  BY <1>2 DEF Transmit
<1> QED BY <1>1, <1>3 DEF OnAir

LEMMA NoPlaceChanges ==
  ASSUME \A p \in Packet : SamePlace(p)
  PROVE  UNCHANGED Service!vars
BY PlaceKept DEF Service!vars

LEMMA OneMoves ==
  ASSUME NEW p \in Packet, \A q \in Packet \ {p} : SamePlace(q),
         NEW w, Place(p)' = w
  PROVE  Service!Move(p, w)
<1>1. \A q \in Packet \ {p} : Place(q)' = Place(q)
  BY PlaceKept
<1> DEFINE f == [q \in Packet |-> Place(q)]
<1>2. f' = [q \in Packet |-> IF q = p THEN w ELSE f[q]]
  BY <1>1
<1>3. f' = [f EXCEPT ![p] = w]
  BY <1>2
<1> QED BY <1>3 DEF Service!Move

LEMMA PlaceNames ==
  /\ Service!Source = At("source", NoNode)
  /\ Service!Delivered = At("delivered", NoNode)
  /\ Service!Lost = At("lost", NoNode)
  /\ \A n : Service!Buffered(n) = At("buffer", n) /\ Service!OnAirTo(n) = At("air", n)
BY DEF Service!Source, Service!Delivered, Service!Lost, Service!Buffered, Service!OnAirTo, At

(* A packet is buffered if there is room, and no other moves.               *)
LEMMA PacketKept ==
  ASSUME PlacesInv, NEW n \in Node, NEW p \in Packet, BufferPacket(n, p)
  PROVE  /\ \A q \in Packet \ {p}, k \in Node :
               Contains(TXBuffer'[k], q) <=> Contains(TXBuffer[k], q)
         /\ Service!Room(n) => Contains(TXBuffer'[n], p)
         /\ ~Service!Room(n) => TXBuffer' = TXBuffer
<1>1. /\ TXBuffer \in [Node -> Seq(Packet)]
      /\ Service!Room(n) <=> Len(TXBuffer[n]) < NetBufferSize
      /\ Len(TXBuffer[n]) \in Nat /\ NetBufferSize \in Nat
  BY RoomLeft, LenProperties, BoundAssumption DEF PlacesInv, Apart
<1>2. TXBuffer' = [TXBuffer EXCEPT ![n] =
                     IF Len(TXBuffer[n]) >= NetBufferSize THEN TXBuffer[n]
                     ELSE Append(TXBuffer[n], p)]
  BY DEF BufferPacket
<1>3. CASE Service!Room(n)
  <2>1. /\ TXBuffer'[n] = Append(TXBuffer[n], p)
        /\ \A k \in Node \ {n} : TXBuffer'[k] = TXBuffer[k]
    BY <1>1, <1>2, <1>3
  <2>2. \A q : Contains(Append(TXBuffer[n], p), q) <=> Contains(TXBuffer[n], q) \/ q = p
    BY <1>1, AppendOnce
  <2> QED BY <1>3, <2>1, <2>2
<1>4. CASE ~Service!Room(n)
  <2>1. Len(TXBuffer[n]) >= NetBufferSize
    BY <1>1, <1>4
  <2>2. TXBuffer' = [TXBuffer EXCEPT ![n] = TXBuffer[n]]
    BY <2>1, Zenon DEF BufferPacket
  <2>3. TXBuffer' = TXBuffer
    BY <1>1, <2>2
  <2> QED BY <1>4, <2>3
<1> QED BY <1>3, <1>4

(* The copy that is sent to k is on the air if k hears n.                   *)
LEMMA DataOnAir ==
  ASSUME NEW n, NEW k, NEW p, NEW q, NEW received, Transmit(received, {Data(n, k, p)})
  PROVE  OnAir(net', q) = OnAir(net \ received, q)
            \cup IF q = p /\ k \in Neighbour[n] THEN {Data(n, k, p)} ELSE {}
<1>1. Data(n, k, p).type = "DATA" /\ Data(n, k, p).p = p
      /\ Data(n, k, p).src = n /\ Data(n, k, p).to = k
  BY DEF Data
<1>2. OnAir({Data(n, k, p)}, q) = IF q = p THEN {Data(n, k, p)} ELSE {}
  BY <1>1 DEF OnAir
<1>3. OnAir(net', q) = OnAir(net \ received, q)
         \cup {m \in OnAir({Data(n, k, p)}, q) : m.to \in Neighbour[m.src]}
  BY SentOnAir
<1>4. {m \in OnAir({Data(n, k, p)}, q) : m.to \in Neighbour[m.src]}
        = IF q = p /\ k \in Neighbour[n] THEN {Data(n, k, p)} ELSE {}
  <2>1. CASE q = p /\ k \in Neighbour[n]
    BY <1>1, <1>2, <2>1
  <2>2. CASE q # p
    BY <1>2, <2>2
  <2>3. CASE k \notin Neighbour[n]
    BY <1>1, <1>2, <2>3
  <2> QED BY <2>1, <2>2, <2>3
<1> QED BY <1>3, <1>4

(* A packet that n had in its hands and was nowhere else goes on the air to *)
(* a neighbour, or is lost if k does not hear n.                            *)
LEMMA HandedOn ==
  ASSUME PlacesInv, Apart(net', TXBuffer', unsent', delivered'),
         NEW n \in Node, NEW k, NEW p \in Packet, NEW received,
         Transmit(received, {Data(n, k, p)}),
         OnAir(net \ received, p) = {}, \A j \in Node : ~Contains(TXBuffer'[j], p),
         p \notin unsent' \cup delivered'
  PROVE  /\ k \in Neighbour[n] => Place(p)' = Service!OnAirTo(k)
         /\ k \notin Neighbour[n] => Place(p)' = Service!Lost
<1>1. OnAir(net', p) = IF k \in Neighbour[n] THEN {Data(n, k, p)} ELSE {}
  <2>1. OnAir(net', p) = OnAir(net \ received, p)
           \cup IF p = p /\ k \in Neighbour[n] THEN {Data(n, k, p)} ELSE {}
    BY DataOnAir
  <2> QED BY <2>1
<1>2. Place(p)' = Where(net', TXBuffer', unsent', delivered', p)
  BY PlaceWhere
<1>3. CASE k \in Neighbour[n]
  <2>1. Data(n, k, p) \in OnAir(net', p) /\ Data(n, k, p).to = k
    BY <1>1, <1>3 DEF Data
  <2>2. Place(p)' = At("air", Data(n, k, p).to)
    BY <1>2, <2>1, WhereIs
  <2> QED BY <1>3, <2>1, <2>2, PlaceNames
<1>4. CASE k \notin Neighbour[n]
  <2>1. Nowhere(p, net', TXBuffer')
    BY <1>1, <1>4 DEF Nowhere
  <2>2. Place(p)' = At("lost", NoNode)
    BY <1>2, <2>1, WhereIs
  <2> QED BY <1>4, <2>2, PlaceNames
<1> QED BY <1>3, <1>4

(* The same for a packet that is buffered.                                  *)
LEMMA PutAway ==
  ASSUME PlacesInv, Apart(net', TXBuffer', unsent', delivered'),
         NEW n \in Node, NEW p \in Packet, BufferPacket(n, p),
         OnAir(net', p) = {}, \A j \in Node : ~Contains(TXBuffer[j], p),
         p \notin unsent' \cup delivered'
  PROVE  /\ Service!Room(n) => Place(p)' = Service!Buffered(n)
         /\ ~Service!Room(n) => Place(p)' = Service!Lost
<1>1. Place(p)' = Where(net', TXBuffer', unsent', delivered', p)
  BY PlaceWhere
<1>2. CASE Service!Room(n)
  <2>1. Contains(TXBuffer'[n], p)
    BY <1>2, PacketKept
  <2> QED BY <1>1, <1>2, <2>1, WhereIs, PlaceNames
<1>3. CASE ~Service!Room(n)
  <2>1. TXBuffer' = TXBuffer
    BY <1>3, PacketKept
  <2>2. Nowhere(p, net', TXBuffer')
    BY <2>1 DEF Nowhere
  <2> QED BY <1>1, <1>3, <2>2, WhereIs, PlaceNames
<1> QED BY <1>2, <1>3

LEMMA FromApplicationLayerService ==
  ASSUME PlacesInv, NEW n \in Node, NEW p \in Packet, FromApplicationLayer(n, p)
  PROVE  Service!Send(p)
<1>0. Apart(net, TXBuffer, unsent, delivered) /\ IInv
  BY DEF PlacesInv
<1>1. /\ p \in unsent /\ unsent' = unsent \ {p} /\ delivered' = delivered /\ p.src = n
  BY DEF FromApplicationLayer
<1>2. /\ Nowhere(p, net, TXBuffer) /\ p \notin unsent' \cup delivered'
      /\ OnAir(net \ {}, p) = {}
  BY <1>0, <1>1 DEF Apart, Nowhere, OnAir
<1>3. Apart(net', TXBuffer', unsent', delivered')
  BY FromApplicationLayerPlaces
<1>4. Place(p) = Service!Source
  BY <1>0, <1>1, PlaceWhere, WhereIs, PlaceNames
<1>a. [q \in Packet |-> Place(q)][p] = Service!Source
  BY <1>4
<1>5. CASE IsRouteValid(rt[n], p.dst)
  <2> DEFINE k == rt[n][p.dst].next
  <2>1. Transmit({}, {Data(n, k, p)}) /\ UNCHANGED TXBuffer
    BY <1>5 DEF FromApplicationLayer
  <2>2. k \in Node /\ n \in Neighbour[k]
    <3>1. NextHopKnowsDestination
      BY <1>0, NextHopsKnow
    <3>2. p.dst \in Node /\ HasEntry(rt[n], p.dst)
      BY <1>5, PacketAssumption DEF IsRouteValid, HasEntry
    <3> QED BY <3>1, <3>2 DEF NextHopKnowsDestination
  <2> HIDE DEF k
  <2>3. \A q \in Packet \ {p} : SamePlace(q)
    <3>1. SUFFICES ASSUME NEW q \in Packet \ {p} PROVE SamePlace(q)
      OBVIOUS
    <3>2. OnAir(net', q) = OnAir(net \ {}, q)
      BY <2>1, DataOnAir
    <3>3. OnAir(net', q) = OnAir(net, q)
      BY <3>2 DEF OnAir
    <3> QED BY <1>1, <2>1, <3>3 DEF SamePlace
  <2>4. \A j \in Node : ~Contains(TXBuffer'[j], p)
    BY <1>2, <2>1 DEF Nowhere
  <2>5. /\ k \in Neighbour[n] => Place(p)' = Service!OnAirTo(k)
        /\ k \notin Neighbour[n] => Place(p)' = Service!Lost
    BY <1>2, <1>3, <2>1, <2>4, HandedOn
  <2>6. CASE k \in Neighbour[n]
    <3>1. Service!Move(p, Service!OnAirTo(k))
      BY <2>3, <2>5, <2>6, OneMoves
    <3> QED BY <1>1, <1>a, <2>6, <3>1 DEF Service!Send, Service!PassOn
  <2>7. CASE k \notin Neighbour[n]
    <3>1. Service!Move(p, Service!Lost)
      BY <2>3, <2>5, <2>7, OneMoves
    <3>2. Service!HasOneWayLink(n)
      BY <2>2, <2>7 DEF Service!HasOneWayLink
    <3> QED BY <1>1, <1>a, <3>1, <3>2 DEF Service!Send
  <2> QED BY <2>6, <2>7
<1>6. CASE ~IsRouteValid(rt[n], p.dst)
  <2>1. BufferPacket(n, p)
    BY <1>6 DEF FromApplicationLayer
  <2>2. \A q \in Packet : OnAir(net', q) = OnAir(net, q)
    <3>1. CASE UNCHANGED net
      BY <3>1
    <3>2. CASE \E d : OriginateRreq(n, d, {})
      <4>1. \E q, r : SendRreqRequest(n, q, r, {})
        BY <3>2 DEF OriginateRreq
      <4>2. \A q : OnAir(net \ {}, q) = OnAir(net, q)
        BY DEF OnAir
      <4> QED BY <4>1, <4>2, ControlOnAir
    <3> QED BY <1>6, <3>1, <3>2 DEF FromApplicationLayer
  <2>3. \A q \in Packet \ {p} : SamePlace(q)
    BY <1>1, <2>1, <2>2, PacketKept DEF SamePlace
  <2>4. OnAir(net', p) = {} /\ \A j \in Node : ~Contains(TXBuffer[j], p)
    BY <1>2, <2>2 DEF Nowhere
  <2>5. /\ Service!Room(n) => Place(p)' = Service!Buffered(n)
        /\ ~Service!Room(n) => Place(p)' = Service!Lost
    BY <1>2, <1>3, <2>1, <2>4, PutAway
  <2>6. CASE Service!Room(n)
    <3>1. Service!Move(p, Service!Buffered(n))
      BY <2>3, <2>5, <2>6, OneMoves
    <3> QED BY <1>1, <1>a, <2>6, <3>1 DEF Service!Send, Service!PassOn
  <2>7. CASE ~Service!Room(n)
    <3>1. Service!Move(p, Service!Lost)
      BY <2>3, <2>5, <2>7, OneMoves
    <3> QED BY <1>1, <1>a, <2>7, <3>1 DEF Service!Send
  <2> QED BY <2>6, <2>7
<1> QED BY <1>5, <1>6

LEMMA ProcessDataService ==
  ASSUME PlacesInv, NEW n \in Node, NEW m \in net, ProcessData(n, m)
  PROVE  m.p \in Packet /\ (Service!Deliver(m.p) \/ Service!Relay(n, m.p))
<1>0. Apart(net, TXBuffer, unsent, delivered) /\ IInv
  BY DEF PlacesInv
<1> DEFINE p == m.p
<1>1. m.type = "DATA" /\ p \in Packet /\ UNCHANGED unsent /\ m.to = n
  BY <1>0, DataMessages DEF ProcessData
<1>2. m \in OnAir(net, p) /\ OnAir(net \ {m}, p) = {}
  BY <1>0, <1>1 DEF Apart, OnAir
<1>3. \A q : q # p => OnAir(net \ {m}, q) = OnAir(net, q)
  BY <1>1 DEF OnAir
<1>4. p \notin unsent \cup delivered /\ \A k \in Node : ~Contains(TXBuffer[k], p)
  BY <1>0, <1>1, <1>2 DEF Apart, Nowhere
<1>5. Apart(net', TXBuffer', unsent', delivered')
  BY ProcessDataPlaces
<1>6. Place(p) = Service!OnAirTo(n)
  <2>1. Place(p) = At("air", m.to)
    BY <1>0, <1>1, <1>2, PlaceWhere, WhereIs
  <2> QED BY <1>1, <2>1, PlaceNames
<1>a. p \in Packet => [q \in Packet |-> Place(q)][p] = Service!OnAirTo(n)
  BY <1>6
<1> HIDE DEF p
<1>9. CASE p.dst = n
  <2>1. delivered' = delivered \cup {p} /\ Transmit({m}, {}) /\ UNCHANGED TXBuffer
    BY <1>9 DEF ProcessData, p
  <2>2. \A q \in Packet \ {p} : SamePlace(q)
    BY <1>1, <1>3, <2>1, ControlOnAir DEF SamePlace
  <2>3. Place(p)' = Service!Delivered
    <3>1. Place(p)' = Where(net', TXBuffer', unsent', delivered', p)
      BY PlaceWhere
    <3>2. p \in delivered'
      BY <2>1
    <3> QED BY <1>1, <1>5, <3>1, <3>2, WhereIs, PlaceNames
  <2>4. Service!Move(p, Service!Delivered)
    BY <1>1, <2>2, <2>3, OneMoves
  <2>5. Service!Deliver(p)
    BY <1>1, <1>9, <1>a, <2>4 DEF Service!Deliver
  <2> QED BY <1>1, <2>5 DEF p
<1>10. CASE p.dst # n
  <2>0. UNCHANGED delivered
    BY <1>10 DEF ProcessData, p
  <2>1. SUFFICES \/ \E k \in Neighbour[n] : Service!Move(p, Service!OnAirTo(k))
                 \/ Service!Room(n) /\ Service!Move(p, Service!Buffered(n))
                 \/ Service!Move(p, Service!Lost)
    <3>1. ASSUME \/ \E k \in Neighbour[n] : Service!Move(p, Service!OnAirTo(k))
                 \/ Service!Room(n) /\ Service!Move(p, Service!Buffered(n))
                 \/ Service!Move(p, Service!Lost)
          PROVE  Service!Relay(n, p)
      BY <1>1, <1>10, <1>a, <3>1 DEF Service!Relay, Service!PassOn
    <3> QED BY <1>1, <3>1 DEF p
  <2>2. p \notin unsent' \cup delivered'
    BY <1>1, <1>4, <2>0
  <2>3. CASE IsRouteValid(rt[n], p.dst)
    <3> DEFINE k == rt[n][p.dst].next
    <3>1. Transmit({m}, {Data(n, k, p)}) /\ UNCHANGED TXBuffer
      BY <1>10, <2>3 DEF ProcessData, p
    <3> HIDE DEF k
    <3>2. \A q \in Packet \ {p} : SamePlace(q)
      <4>1. SUFFICES ASSUME NEW q \in Packet \ {p} PROVE SamePlace(q)
        OBVIOUS
      <4>2. OnAir(net', q) = OnAir(net \ {m}, q)
        BY <3>1, DataOnAir
      <4> QED BY <1>1, <1>3, <2>0, <3>1, <4>2 DEF SamePlace
    <3>3. \A j \in Node : ~Contains(TXBuffer'[j], p)
      BY <1>4, <3>1
    <3>4. /\ k \in Neighbour[n] => Place(p)' = Service!OnAirTo(k)
          /\ k \notin Neighbour[n] => Place(p)' = Service!Lost
      BY <1>1, <1>2, <1>5, <2>2, <3>1, <3>3, HandedOn
    <3>5. CASE k \in Neighbour[n]
      BY <1>1, <3>2, <3>4, <3>5, OneMoves
    <3>6. CASE k \notin Neighbour[n]
      BY <1>1, <3>2, <3>4, <3>6, OneMoves
    <3> QED BY <3>5, <3>6
  <2>4. CASE ~IsRouteValid(rt[n], p.dst) /\ ~IsRreqRequestActive(n, p.dst)
    <3>1. OriginateRreq(n, p.dst, {m}) /\ BufferPacket(n, p)
      BY <1>10, <2>4 DEF ProcessData, p
    <3>2. \E q, r : SendRreqRequest(n, q, r, {m})
      BY <3>1 DEF OriginateRreq
    <3>3. \A q : OnAir(net', q) = OnAir(net \ {m}, q)
      BY <3>2, ControlOnAir
    <3>4. \A q \in Packet \ {p} : SamePlace(q)
      BY <1>1, <1>3, <2>0, <3>1, <3>3, PacketKept DEF SamePlace
    <3>5. /\ Service!Room(n) => Place(p)' = Service!Buffered(n)
          /\ ~Service!Room(n) => Place(p)' = Service!Lost
      BY <1>1, <1>2, <1>4, <1>5, <2>2, <3>1, <3>3, PutAway
    <3>6. CASE Service!Room(n)
      BY <1>1, <3>4, <3>5, <3>6, OneMoves
    <3>7. CASE ~Service!Room(n)
      BY <1>1, <3>4, <3>5, <3>7, OneMoves
    <3> QED BY <3>6, <3>7
  <2>5. CASE ~IsRouteValid(rt[n], p.dst) /\ IsRreqRequestActive(n, p.dst)
    <3>1. Transmit({m}, {}) /\ UNCHANGED TXBuffer
      BY <1>10, <2>5 DEF ProcessData, p
    <3>2. \A q : OnAir(net', q) = OnAir(net \ {m}, q)
      BY <3>1, ControlOnAir
    <3>3. \A q \in Packet \ {p} : SamePlace(q)
      BY <1>1, <1>3, <2>0, <3>1, <3>2 DEF SamePlace
    <3>4. Nowhere(p, net', TXBuffer')
      BY <1>2, <1>4, <3>1, <3>2 DEF Nowhere
    <3>5. Place(p)' = Service!Lost
      <4>1. Place(p)' = Where(net', TXBuffer', unsent', delivered', p)
        BY PlaceWhere
      <4> QED BY <1>1, <1>5, <2>2, <3>4, <4>1, WhereIs, PlaceNames
    <3> QED BY <1>1, <3>3, <3>5, OneMoves
  <2> QED BY <2>3, <2>4, <2>5
<1> QED BY <1>9, <1>10

(* All packets that wait at n for d go to the same place.                   *)
LEMMA FlushService ==
  ASSUME PlacesInv, NEW n \in Node, NEW d \in Node, NEW w,
         w = Service!Lost \/ \E k \in Neighbour[n] : w = Service!OnAirTo(k),
         \A p \in PacketsFor(n, d) : Place(p)' = w,
         \A p \in Packet \ PacketsFor(n, d) : SamePlace(p)
  PROVE  Service!Flush(n, d)
<1> DEFINE f == [p \in Packet |-> Place(p)]
<1>1. TXBuffer[n] \in Seq(Packet)
  BY DEF PlacesInv, Apart
<1>2. \A p \in Packet : p \in PacketsFor(n, d) <=> Contains(TXBuffer[n], p) /\ p.dst = d
  BY <1>1, LenProperties DEF PacketsFor, Contains
<1>3. \A p \in Packet : p \in Service!Held(n) /\ p.dst = d <=> p \in PacketsFor(n, d)
  BY <1>2, RoomLeft
<1>4. f' = [p \in Packet |-> IF p \in PacketsFor(n, d) THEN w ELSE Place(p)]
  BY PlaceKept
<1>5. f' = [p \in Packet |-> IF p \in Service!Held(n) /\ p.dst = d THEN w ELSE f[p]]
  BY <1>3, <1>4
<1>6. w \in {Service!Lost} \cup {Service!OnAirTo(k) : k \in Neighbour[n]}
  OBVIOUS
<1> QED BY <1>5, <1>6 DEF Service!Flush

(* What is left in the buffer when the packets for d are taken out.         *)
LEMMA OthersStay ==
  ASSUME PlacesInv, NEW n \in Node, NEW d,
         TXBuffer' = [TXBuffer EXCEPT ![n] = OtherPackets(n, d)]
  PROVE  \A p \in Packet, k \in Node :
            Contains(TXBuffer'[k], p) <=>
                Contains(TXBuffer[k], p) /\ ~(k = n /\ p \in PacketsFor(n, d))
<1> DEFINE b == Only(TXBuffer[n], {p \in Packet : p.dst # d})
<1>1. TXBuffer \in [Node -> Seq(Packet)]
  BY DEF PlacesInv, Apart
<1>2. \A p : Contains(b, p) <=> Contains(TXBuffer[n], p) /\ p \in {q \in Packet : q.dst # d}
  BY <1>1, OnlyProperties
<1>3. TXBuffer' = [TXBuffer EXCEPT ![n] = b]
  BY DEF OtherPackets
<1>4. \A p \in Packet : p \in PacketsFor(n, d) <=> Contains(TXBuffer[n], p) /\ p.dst = d
  BY <1>1, LenProperties DEF PacketsFor, Contains
<1> HIDE DEF b
<1> QED BY <1>1, <1>2, <1>3, <1>4

LEMMA ProcessRrepService ==
  ASSUME PlacesInv, NEW n \in Node, NEW m \in net, ProcessRrep(n, m)
  PROVE  UNCHANGED Service!vars \/ \E d \in Node : Service!Flush(n, d)
<1>0. Apart(net, TXBuffer, unsent, delivered) /\ IInv
  BY DEF PlacesInv
<1>1. UNCHANGED <<unsent, delivered>> /\ m.type = "RREP"
  BY DEF ProcessRrep
<1>2. \A q : OnAir(net \ {m}, q) = OnAir(net, q)
  BY <1>1 DEF OnAir
<1>3. CASE m.orig # n
  <2>1. UNCHANGED TXBuffer
    BY <1>3 DEF ProcessRrep
  <2>2. Transmit({m}, {}) \/ \E k, o, d, s, h : Transmit({m}, {Rrep(n, k, o, d, s, h)})
    BY <1>3 DEF ProcessRrep
  <2>3. \A q : OnAir(net', q) = OnAir(net \ {m}, q)
    BY <2>2, ControlOnAir
  <2>4. \A q \in Packet : SamePlace(q)
    BY <1>1, <1>2, <2>1, <2>3 DEF SamePlace
  <2> QED BY <2>4, NoPlaceChanges
<1>4. CASE m.orig = n
  <2> DEFINE d == m.dest
             F == PacketsFor(n, d)
             t == UpdateEntry(RouteToPrevHop(n, m.src), m.dest, m.dseq, m.hops + 1, m.src)
             x == t[m.dest].next
             w == IF x \in Neighbour[n] THEN Service!OnAirTo(x) ELSE Service!Lost
  <2>1. /\ TXBuffer' = [TXBuffer EXCEPT ![n] = OtherPackets(n, d)]
        /\ Transmit({m}, {Data(n, x, p) : p \in F})
    BY <1>4 DEF ProcessRrep
  <2>2. d \in Node
    BY <1>0, <1>1 DEF IInv, RoutingTypeOK, Message
  <2>a. F \subseteq Packet
    BY DEF PacketsFor
  <2> HIDE DEF x, d
  <2>3. \A q \in Packet : OnAir(net', q) = OnAir(net, q)
           \cup IF q \in F /\ x \in Neighbour[n] THEN {Data(n, x, q)} ELSE {}
    <3>1. SUFFICES ASSUME NEW q \in Packet
                   PROVE  OnAir(net', q) = OnAir(net, q)
                             \cup IF q \in F /\ x \in Neighbour[n] THEN {Data(n, x, q)} ELSE {}
      OBVIOUS
    <3>2. \A p : /\ Data(n, x, p).type = "DATA" /\ Data(n, x, p).p = p
                 /\ Data(n, x, p).src = n /\ Data(n, x, p).to = x
      BY DEF Data
    <3>3. OnAir({Data(n, x, p) : p \in F}, q) = IF q \in F THEN {Data(n, x, q)} ELSE {}
      BY <3>2 DEF OnAir
    <3>4. OnAir(net', q) = OnAir(net \ {m}, q)
             \cup {k \in OnAir({Data(n, x, p) : p \in F}, q) : k.to \in Neighbour[k.src]}
      BY <2>1, SentOnAir
    <3>5. {k \in OnAir({Data(n, x, p) : p \in F}, q) : k.to \in Neighbour[k.src]}
            = IF q \in F /\ x \in Neighbour[n] THEN {Data(n, x, q)} ELSE {}
      <4>1. CASE q \in F /\ x \in Neighbour[n]
        BY <3>2, <3>3, <4>1
      <4>2. CASE q \notin F
        BY <3>3, <4>2
      <4>3. CASE x \notin Neighbour[n]
        BY <3>2, <3>3, <4>3
      <4> QED BY <4>1, <4>2, <4>3
    <3> QED BY <1>2, <3>4, <3>5
  <2>4. \A p \in Packet, k \in Node :
            Contains(TXBuffer'[k], p) <=> Contains(TXBuffer[k], p) /\ ~(k = n /\ p \in F)
    BY <2>1, OthersStay
  <2>5. \A q \in Packet \ F : SamePlace(q)
    BY <1>1, <2>3, <2>4 DEF SamePlace
  <2>6. Apart(net', TXBuffer', unsent', delivered')
    BY ProcessRrepPlaces
  <2>7. TXBuffer[n] \in Seq(Packet)
    BY <1>0 DEF Apart
  <2>8. ASSUME NEW p \in F PROVE Place(p)' = w
    <3>1. p \in Packet /\ Contains(TXBuffer[n], p)
      BY <2>7, <2>a, LenProperties DEF PacketsFor, Contains
    <3>2. Place(p)' = Where(net', TXBuffer', unsent', delivered', p)
      BY PlaceWhere
    <3>3. CASE x \in Neighbour[n]
      <4>1. Data(n, x, p) \in OnAir(net', p) /\ Data(n, x, p).to = x
        BY <2>3, <3>1, <3>3 DEF Data
      <4>2. Place(p)' = At("air", Data(n, x, p).to)
        BY <2>6, <3>1, <3>2, <4>1, WhereIs
      <4> QED BY <3>3, <4>1, <4>2, PlaceNames
    <3>4. CASE x \notin Neighbour[n]
      <4>1. /\ OnAir(net, p) = {} /\ \A k \in Node \ {n} : ~Contains(TXBuffer[k], p)
            /\ p \notin unsent \cup delivered
        BY <1>0, <3>1 DEF Apart, Nowhere
      <4>2. Nowhere(p, net', TXBuffer')
        BY <2>3, <2>4, <3>1, <3>4, <4>1 DEF Nowhere
      <4>3. p \notin unsent' \cup delivered'
        BY <1>1, <4>1
      <4>4. Place(p)' = At("lost", NoNode)
        BY <2>6, <3>1, <3>2, <4>2, <4>3, WhereIs
      <4> QED BY <3>4, <4>4, PlaceNames
    <3> QED BY <3>3, <3>4
  <2>9. w = Service!Lost \/ \E k \in Neighbour[n] : w = Service!OnAirTo(k)
    OBVIOUS
  <2> HIDE DEF w
  <2> QED BY <2>2, <2>5, <2>8, <2>9, FlushService
<1> QED BY <1>3, <1>4

LEMMA RreqExpirationService ==
  ASSUME PlacesInv, NEW n \in Node, RreqExpiration(n)
  PROVE  UNCHANGED Service!vars \/ \E d \in Node : Service!Flush(n, d)
<1>0. Apart(net, TXBuffer, unsent, delivered) /\ IInv
  BY DEF PlacesInv
<1> DEFINE d == Head(rreqRequest[n]).dest
<1>1. UNCHANGED <<unsent, delivered>> /\ d \in Node
  <2>1. /\ rreqRequest[n] \in Seq([dest : Node, canceled : BOOLEAN])
        /\ rreqRequest[n] # <<>>
    BY <1>0 DEF IInv, RoutingTypeOK, RreqExpiration
  <2>2. Head(rreqRequest[n]) \in [dest : Node, canceled : BOOLEAN]
    BY <2>1, HeadTailProperties
  <2> QED BY <2>2 DEF RreqExpiration
<1>2. \/ UNCHANGED <<net, TXBuffer>>
      \/ UNCHANGED TXBuffer /\ \E q, r : SendRreqRequest(n, q, r, {})
      \/ UNCHANGED net /\ TXBuffer' = [TXBuffer EXCEPT ![n] = OtherPackets(n, d)]
  BY DEF RreqExpiration
<1> HIDE DEF d
<1>3. CASE UNCHANGED TXBuffer
  <2>1. \A q : OnAir(net \ {}, q) = OnAir(net, q)
    BY DEF OnAir
  <2>2. CASE UNCHANGED net
    <3>1. \A q \in Packet : SamePlace(q)
      BY <1>1, <1>3, <2>2 DEF SamePlace
    <3> QED BY <3>1, NoPlaceChanges
  <2>3. CASE \E q, r : SendRreqRequest(n, q, r, {})
    <3>1. \A q : OnAir(net', q) = OnAir(net \ {}, q)
      BY <2>3, ControlOnAir
    <3>2. \A q \in Packet : SamePlace(q)
      BY <1>1, <1>3, <2>1, <3>1 DEF SamePlace
    <3> QED BY <3>2, NoPlaceChanges
  <2>4. CASE ~UNCHANGED net /\ ~\E q, r : SendRreqRequest(n, q, r, {})
    BY <1>2, <2>4
  <2> QED BY <2>2, <2>3, <2>4
<1>4. CASE UNCHANGED net /\ TXBuffer' = [TXBuffer EXCEPT ![n] = OtherPackets(n, d)]
  <2>1. \A p \in Packet, k \in Node :
            Contains(TXBuffer'[k], p) <=>
                Contains(TXBuffer[k], p) /\ ~(k = n /\ p \in PacketsFor(n, d))
    BY <1>4, OthersStay
  <2>2. \A q \in Packet \ PacketsFor(n, d) : SamePlace(q)
    BY <1>1, <1>4, <2>1 DEF SamePlace
  <2>3. Apart(net', TXBuffer', unsent', delivered')
    BY RreqExpirationPlaces
  <2>4. TXBuffer[n] \in Seq(Packet)
    BY <1>0 DEF Apart
  <2>5. ASSUME NEW p \in PacketsFor(n, d) PROVE Place(p)' = Service!Lost
    <3>1. p \in Packet /\ Contains(TXBuffer[n], p)
      BY <2>4, LenProperties DEF PacketsFor, Contains
    <3>2. Place(p)' = Where(net', TXBuffer', unsent', delivered', p)
      BY PlaceWhere
    <3>3. /\ OnAir(net, p) = {} /\ \A k \in Node \ {n} : ~Contains(TXBuffer[k], p)
          /\ p \notin unsent \cup delivered
      BY <1>0, <3>1 DEF Apart, Nowhere
    <3>4. Nowhere(p, net', TXBuffer') /\ p \notin unsent' \cup delivered'
      BY <1>1, <1>4, <2>1, <3>1, <3>3 DEF Nowhere
    <3> QED BY <2>3, <3>1, <3>2, <3>4, WhereIs, PlaceNames
  <2> DEFINE w == Service!Lost
  <2>6. \A p \in PacketsFor(n, d) : Place(p)' = w
    BY <2>5
  <2>7. w = Service!Lost \/ \E k \in Neighbour[n] : w = Service!OnAirTo(k)
    OBVIOUS
  <2> HIDE DEF w
  <2> QED BY <1>1, <2>2, <2>6, <2>7, FlushService
<1> QED BY <1>2, <1>3, <1>4

(* The other steps leave every packet where it is.                          *)
LEMMA ControlStepService ==
  ASSUME PlacesInv, NEW n \in Node,
         \/ \E m \in net : ProcessRreq(n, m) \/ ProcessRerr(n, m)
         \/ \E m \in Node : ProcessHello(n, m) \/ HelloExpiration(n, m)
         \/ RreqBroadcastDrop(n) \/ RreqRateLimit(n)
         \/ \E d \in Node : RouteExpiration(n, d)
  PROVE  UNCHANGED Service!vars
<1>1. \A q : OnAir(net \ {}, q) = OnAir(net, q)
  BY DEF OnAir
<1>2. \A m : m.type # "DATA" => \A q : OnAir(net \ {m}, q) = OnAir(net, q)
  BY DEF OnAir
<1> DEFINE Quiet == /\ UNCHANGED <<TXBuffer, unsent, delivered>>
                    /\ \A q : OnAir(net', q) = OnAir(net, q)
<1>3. ASSUME NEW m \in net, ProcessRreq(n, m) PROVE Quiet
  <2>1. UNCHANGED <<TXBuffer, unsent, delivered>> /\ m.type = "RREQ"
    BY <1>3 DEF ProcessRreq, dataVars
  <2>2. \/ Transmit({m}, {}) \/ \E q, r : SendRreqRequest(n, q, r, {m})
        \/ \E k, o, d, s, h : Transmit({m}, {Rrep(n, k, o, d, s, h)})
    BY <1>3 DEF ProcessRreq
  <2>3. \A q : OnAir(net', q) = OnAir(net \ {m}, q)
    BY <2>2, ControlOnAir
  <2> QED BY <1>2, <2>1, <2>3
<1>4. ASSUME NEW m \in net, ProcessRerr(n, m) PROVE Quiet
  <2>1. UNCHANGED <<TXBuffer, unsent, delivered>> /\ m.type = "RERR"
    BY <1>4 DEF ProcessRerr, dataVars
  <2>2. \E t, ds, ps : SendRerr(n, t, ds, ps, {m})
    BY <1>4 DEF ProcessRerr
  <2>3. \A q : OnAir(net', q) = OnAir(net \ {m}, q)
    BY <2>2, ControlOnAir
  <2> QED BY <1>2, <2>1, <2>3
<1>5. ASSUME NEW m \in Node, HelloExpiration(n, m) PROVE Quiet
  <2>1. UNCHANGED <<TXBuffer, unsent, delivered>>
    BY <1>5 DEF HelloExpiration, dataVars
  <2>2. \E t, ds, ps : SendRerr(n, t, ds, ps, {})
    BY <1>5 DEF HelloExpiration
  <2>3. \A q : OnAir(net', q) = OnAir(net \ {}, q)
    BY <2>2, ControlOnAir
  <2> QED BY <1>1, <2>1, <2>3
<1>6. ASSUME RreqRateLimit(n) PROVE Quiet
  <2>1. UNCHANGED <<TXBuffer, unsent, delivered>>
    BY <1>6 DEF RreqRateLimit, dataVars
  <2>2. UNCHANGED net \/ \E q : Transmit({}, Broadcast(n, q))
    BY <1>6 DEF RreqRateLimit
  <2>3. \A q : OnAir(net', q) = OnAir(net, q)
    <3>1. CASE UNCHANGED net
      BY <3>1
    <3>2. ASSUME NEW b, Transmit({}, Broadcast(n, b)), NEW q
          PROVE  OnAir(net', q) = OnAir(net, q)
      <4> DEFINE sent == Broadcast(n, b)
      <4>1. Transmit({}, sent)
        BY <3>2
      <4>2. OnAir(sent, q) = {}
        BY BroadcastPlaces
      <4> HIDE DEF sent
      <4>3. OnAir(net', q) = OnAir(net \ {}, q)
                               \cup {k \in OnAir(sent, q) : k.to \in Neighbour[k.src]}
        BY <4>1, SentOnAir
      <4> QED BY <1>1, <4>2, <4>3
    <3> QED BY <2>2, <3>1, <3>2
  <2> QED BY <2>1, <2>3
<1>7. ASSUME \/ \E m \in Node : ProcessHello(n, m)
             \/ RreqBroadcastDrop(n)
             \/ \E d \in Node : RouteExpiration(n, d)
      PROVE  Quiet
  <2>1. UNCHANGED <<TXBuffer, unsent, delivered, net>>
    BY <1>7 DEF ProcessHello, RreqBroadcastDrop, RouteExpiration, dataVars
  <2> QED BY <2>1
<1>8. Quiet
  BY <1>3, <1>4, <1>5, <1>6, <1>7
<1>9. \A q \in Packet : SamePlace(q)
  BY <1>8 DEF SamePlace
<1> QED BY <1>9, NoPlaceChanges

(* AODV keeps the promise of Datagrams, on every topology and whatever the  *)
(* routes are: every step moves packets as that allows, or moves none       *)
(* (AodvRouting.cc:241-330, 640-700).                                       *)
THEOREM KeepsServicePromise == Spec => ImplementsDatagrams
<1>1. Init => Service!Init
  <2> SUFFICES ASSUME Init PROVE Service!Init
    OBVIOUS
  <2>1. \A p \in Packet : p \in unsent
    BY DEF Init
  <2>2. \A p \in Packet : Place(p) = Service!Source
    BY <2>1, PlaceNames DEF Place
  <2> QED BY <2>2 DEF Service!Init
<1>2. PlacesInv /\ [Next]_vars => [Service!Next]_Service!vars
  <2> SUFFICES ASSUME PlacesInv, [Next]_vars
               PROVE  Service!Next \/ UNCHANGED Service!vars
    OBVIOUS
  <2>1. CASE UNCHANGED vars
    <3>1. UNCHANGED <<net, TXBuffer, unsent, delivered>>
      BY <2>1 DEF vars, dataVars
    <3>2. \A q \in Packet : SamePlace(q)
      BY <3>1 DEF SamePlace
    <3> QED BY <3>2, NoPlaceChanges
  <2>2. CASE Next
    <3>1. PICK n \in Node :
            \/ \E p \in Packet : FromApplicationLayer(n, p)
            \/ Receive(n)
            \/ \E m \in Node : ProcessHello(n, m) \/ HelloExpiration(n, m)
            \/ RreqBroadcastDrop(n)
            \/ RreqExpiration(n)
            \/ RreqRateLimit(n)
            \/ \E d \in Node : RouteExpiration(n, d)
      BY <2>2 DEF Next
    <3>2. CASE Receive(n)
      <4>1. PICK m \in net : \/ ProcessData(n, m) \/ ProcessRreq(n, m)
                             \/ ProcessRrep(n, m) \/ ProcessRerr(n, m)
        BY <3>2 DEF Receive
      <4>2. CASE ProcessData(n, m)
        BY <4>2, ProcessDataService DEF Service!Next
      <4>3. CASE ProcessRrep(n, m)
        BY <4>3, ProcessRrepService DEF Service!Next
      <4>4. CASE ProcessRreq(n, m) \/ ProcessRerr(n, m)
        BY <4>4, ControlStepService
      <4> QED BY <4>1, <4>2, <4>3, <4>4
    <3>3. CASE \E p \in Packet : FromApplicationLayer(n, p)
      BY <3>3, FromApplicationLayerService DEF Service!Next
    <3>4. CASE RreqExpiration(n)
      BY <3>4, RreqExpirationService DEF Service!Next
    <3> QED BY <3>1, <3>2, <3>3, <3>4, ControlStepService
  <2> QED BY <2>1, <2>2
<1> QED BY <1>1, <1>2, PlacesHold, PTL DEF Spec, ImplementsDatagrams, Service!Spec

-----------------------------------------------------------------------------
(* How long routes live (AodvLifetime), for every set of destinations, time *)
(* out, buffer size and bound.                                              *)
Inst == [dest : Dest, lifetime : Nat, canceled : BOOLEAN]

QueueOK(q) ==
    /\ DOMAIN q \in SUBSET Inst
    /\ IsFiniteSet(DOMAIN q)
    /\ q \in [DOMAIN q -> Nat \ {0}]

(* The entries that count for d.                                            *)
LiveSum(q, d) == SumOver(q, Live(q, d))

(* The count of a destination is the number of its entries that are not     *)
(* canceled; it may be larger when hellos of the destination were missed.   *)
Counted(l, L) ==
    /\ l = [queue |-> l.queue, count |-> l.count, timer |-> l.timer]
    /\ QueueOK(l.queue)
    /\ l.count \in [Dest -> Int]
    /\ l.timer \in Nat \cup {-1}
    /\ \A d \in Dest : LiveSum(l.queue, d) <= l.count[d]
    /\ \A d \in Dest \ L : LiveSum(l.queue, d) = l.count[d]

Timed(l, r, L) ==
    \A d \in Dest \ L :
        r[d].state = "VALID" => Live(l.queue, d) # {} /\ l.timer # -1

(* As long as no hello was missed, the timer runs while there are entries,  *)
(* and never lies in the past.                                              *)
Punctual(l, L, t) ==
    L = {} => /\ l.timer = -1 => DOMAIN l.queue = {}
              /\ l.timer # -1 => t <= l.timer

Route == [state : {"NOT_DEFINED", "VALID", "INVALID"}, next : Hearable \cup {"NULL"}]

RoutesOK(r) == r \in [Dest -> Route]

LifeInv ==
    /\ now \in Nat /\ RoutesOK(route)
    /\ Counted(life, lost) /\ Timed(life, route, lost)
    /\ Punctual(life, lost, now)

LEMMA LiveEntries ==
  ASSUME NEW q, QueueOK(q), NEW d
  PROVE  /\ Live(q, d) = {e \in DOMAIN q : e.dest = d /\ ~e.canceled}
         /\ IsFiniteSet(Live(q, d))
         /\ \A e \in Live(q, d) : q[e] \in Nat /\ q[e] > 0
         /\ LiveSum(q, d) \in Nat
<1> DEFINE S == {e \in DOMAIN q : e.dest = d /\ ~e.canceled}
<1>1. Live(q, d) = S
  BY DEF Live, BagToSet
<1>2. S \in SUBSET (DOMAIN q) /\ \A e \in S : q[e] \in Nat /\ q[e] > 0
  BY DEF QueueOK
<1> HIDE DEF S
<1>3. IsFiniteSet(S)
  BY <1>2, FS_Subset DEF QueueOK
<1>4. SumOver(q, S) \in Nat
  <2>1. S \in SUBSET S /\ \A e \in S : q[e] <= q[e]
    BY <1>2
  <2> QED BY <1>2, <1>3, <2>1, SumOfPart
<1> QED BY <1>1, <1>2, <1>3, <1>4 DEF S, LiveSum

(* k entries like e are added to a queue.                                   *)
Grown(q, e, k, q2) ==
    /\ DOMAIN q2 = DOMAIN q \cup {e}
    /\ \A x \in DOMAIN q \ {e} : q2[x] = q[x]
    /\ q2[e] = k + IF e \in DOMAIN q THEN q[e] ELSE 0
    /\ q2 \in [DOMAIN q2 -> Nat \ {0}]

LEMMA QueueGrows ==
  ASSUME NEW q, QueueOK(q), NEW e \in Inst, NEW k \in Nat \ {0}
  PROVE  /\ Grown(q, e, k, q (+) [x \in {e} |-> k])
         /\ QueueOK(q (+) [x \in {e} |-> k])
<1> DEFINE b == [x \in {e} |-> k]
           q2 == q (+) b
<1>1. DOMAIN b = {e} /\ b[e] = k
  OBVIOUS
<1> HIDE DEF b
<1>2. q2 = [x \in DOMAIN q \cup {e} |->
              (IF x \in DOMAIN q THEN q[x] ELSE 0) + (IF x \in {e} THEN b[x] ELSE 0)]
  BY <1>1 DEF (+)
<1> HIDE DEF q2
<1>3. q \in [DOMAIN q -> Nat \ {0}]
  BY DEF QueueOK
<1>4. Grown(q, e, k, q2)
  BY <1>1, <1>2, <1>3 DEF Grown
<1>5. IsFiniteSet(DOMAIN q \cup {e})
  BY FS_AddElement DEF QueueOK
<1>6. QueueOK(q2)
  BY <1>4, <1>5 DEF QueueOK, Grown
<1> QED BY <1>4, <1>6 DEF q2, b

LEMMA GrownSums ==
  ASSUME NEW q, QueueOK(q), NEW e \in Inst, NEW k \in Nat \ {0},
         NEW q2, Grown(q, e, k, q2), QueueOK(q2), ~e.canceled
  PROVE  /\ \A d \in Dest : Live(q, d) \subseteq Live(q2, d)
         /\ e \in Live(q2, e.dest)
         /\ LiveSum(q2, e.dest) = LiveSum(q, e.dest) + k
         /\ \A d \in Dest \ {e.dest} : LiveSum(q2, d) = LiveSum(q, d)
<1>1. ASSUME NEW d \in Dest
      PROVE  /\ Live(q, d) = {x \in DOMAIN q : x.dest = d /\ ~x.canceled}
             /\ Live(q2, d) = {x \in DOMAIN q2 : x.dest = d /\ ~x.canceled}
             /\ IsFiniteSet(Live(q, d)) /\ IsFiniteSet(Live(q2, d))
             /\ \A x \in Live(q, d) : q[x] \in Nat
             /\ \A x \in Live(q2, d) : q2[x] \in Nat
  BY LiveEntries
<1>2. \A d \in Dest : Live(q, d) \subseteq Live(q2, d)
  BY <1>1 DEF Grown
<1>3. e.dest \in Dest /\ e \in Live(q2, e.dest)
  BY <1>1 DEF Grown, Inst
<1>4. ASSUME NEW d \in Dest \ {e.dest} PROVE LiveSum(q2, d) = LiveSum(q, d)
  <2>1. Live(q2, d) = Live(q, d)
    <3>1. /\ Live(q, d) = {x \in DOMAIN q : x.dest = d /\ ~x.canceled}
          /\ Live(q2, d) = {x \in DOMAIN q2 : x.dest = d /\ ~x.canceled}
          /\ DOMAIN q2 = DOMAIN q \cup {e} /\ e.dest # d
      BY <1>1 DEF Grown
    <3> QED BY <3>1
  <2>2. \A x \in Live(q, d) : q2[x] = q[x]
    BY <1>1 DEF Grown
  <2> QED BY <1>1, <2>1, <2>2, SumSame DEF LiveSum
<1>5. LiveSum(q2, e.dest) = LiveSum(q, e.dest) + k
  <2> DEFINE S == Live(q, e.dest)
             S2 == Live(q2, e.dest)
  <2>0. S = {x \in DOMAIN q : x.dest = e.dest /\ ~x.canceled}
    BY <1>1, <1>3
  <2>1. /\ IsFiniteSet(S) /\ IsFiniteSet(S2) /\ e \in S2
        /\ \A x \in S : q[x] \in Nat
        /\ \A x \in S2 : q2[x] \in Nat
        /\ S2 \ {e} = S \ {e} /\ \A x \in S \ {e} : q2[x] = q[x]
        /\ e \in S <=> e \in DOMAIN q
    BY <1>1, <1>3 DEF Grown
  <2> HIDE DEF S, S2
  <2>2. SumOver(q2, S2) = q2[e] + SumOver(q2, S2 \ {e})
    <3>1. \A x \in S2 : q2[x] \in Int
      BY <2>1
    <3> QED BY <2>1, <3>1, SumRemove
  <2>3. SumOver(q2, S2 \ {e}) = SumOver(q, S \ {e})
    <3> DEFINE R == S \ {e}
    <3>1. IsFiniteSet(R) /\ (\A x \in R : q[x] \in Nat) /\ (\A x \in R : q2[x] = q[x])
      <4>1. R \in SUBSET S
        OBVIOUS
      <4> QED BY <2>1, <4>1, FS_Subset
    <3>2. S2 \ {e} = R
      BY <2>1
    <3> HIDE DEF R
    <3>3. SumOver(q2, R) = SumOver(q, R)
      BY <3>1, SumSame
    <3> QED BY <3>2, <3>3 DEF R
  <2>4. CASE e \in S
    <3>1. SumOver(q, S) = q[e] + SumOver(q, S \ {e}) /\ SumOver(q, S \ {e}) \in Int
      <4>1. \A x \in S : q[x] \in Int
        BY <2>1
      <4> QED BY <2>1, <2>4, <4>1, SumRemove
    <3>2. q2[e] = k + q[e] /\ q[e] \in Nat
      BY <2>1, <2>4 DEF Grown
    <3>3. SumOver(q2, S2) = SumOver(q, S) + k
      BY <2>2, <2>3, <3>1, <3>2
    <3> QED BY <3>3 DEF LiveSum, S, S2
  <2>5. CASE e \notin S
    <3>1. S \ {e} = S /\ q2[e] = k
      BY <2>1, <2>5 DEF Grown
    <3>2. SumOver(q, S) \in Nat
      BY <1>3, LiveEntries DEF LiveSum, S
    <3>3. SumOver(q2, S2) = SumOver(q, S) + k
      BY <2>2, <2>3, <3>1, <3>2
    <3> QED BY <3>3 DEF LiveSum, S, S2
  <2> QED BY <2>4, <2>5
<1> QED BY <1>2, <1>3, <1>4, <1>5

(* What a push does to a service that counts.                               *)
LEMMA PushOK ==
  ASSUME NEW L, NEW l, Counted(l, L), NEW e \in Inst, ~e.canceled, NEW k \in Nat \ {0}
  PROVE  LET l2 == Push(l, e, k)
         IN  /\ Counted(l2, L) /\ l2.timer = l.timer
             /\ DOMAIN l2.queue = DOMAIN l.queue \cup {e}
             /\ \A d \in Dest : Live(l.queue, d) \subseteq Live(l2.queue, d)
             /\ e \in Live(l2.queue, e.dest)
<1> DEFINE q == l.queue
           q2 == q (+) [x \in {e} |-> k]
           c2 == [l.count EXCEPT ![e.dest] = @ + k]
           l2 == Push(l, e, k)
<1>1. /\ l = [queue |-> l.queue, count |-> l.count, timer |-> l.timer]
      /\ QueueOK(q) /\ l.count \in [Dest -> Int] /\ l.timer \in Nat \cup {-1}
      /\ \A d \in Dest : LiveSum(q, d) <= l.count[d]
      /\ \A d \in Dest \ L : LiveSum(q, d) = l.count[d]
  BY DEF Counted
<1>2. l2 = [queue |-> q2, count |-> c2, timer |-> l.timer]
  BY DEF Push
<1>3. Grown(q, e, k, q2) /\ QueueOK(q2)
  BY <1>1, QueueGrows
<1> HIDE DEF l2, q2
<1>4. /\ \A d \in Dest : Live(q, d) \subseteq Live(q2, d)
      /\ e \in Live(q2, e.dest)
      /\ LiveSum(q2, e.dest) = LiveSum(q, e.dest) + k
      /\ \A d \in Dest \ {e.dest} : LiveSum(q2, d) = LiveSum(q, d)
  BY <1>1, <1>3, GrownSums
<1>5. /\ c2 \in [Dest -> Int] /\ e.dest \in Dest /\ c2[e.dest] = l.count[e.dest] + k
      /\ \A d \in Dest \ {e.dest} : c2[d] = l.count[d]
  BY <1>1 DEF Inst
<1> HIDE DEF c2
<1>6. l2.queue = q2 /\ l2.count = c2 /\ l2.timer = l.timer
  BY <1>2
<1>7. ASSUME NEW d \in Dest
      PROVE  LiveSum(q2, d) <= c2[d] /\ (d \notin L => LiveSum(q2, d) = c2[d])
  <2>1. LiveSum(q, d) \in Nat /\ l.count[d] \in Int
    BY <1>1, LiveEntries
  <2>2. LiveSum(q, d) <= l.count[d] /\ (d \notin L => LiveSum(q, d) = l.count[d])
    BY <1>1
  <2>3. CASE d = e.dest
    BY <1>4, <1>5, <2>1, <2>2, <2>3
  <2>4. CASE d # e.dest
    BY <1>4, <1>5, <2>1, <2>2, <2>4
  <2> QED BY <2>3, <2>4
<1>8. Counted(l2, L)
  BY <1>1, <1>2, <1>3, <1>5, <1>6, <1>7 DEF Counted
<1> QED BY <1>3, <1>4, <1>6, <1>8 DEF Grown, l2

(* The earliest lifetime of a queue that is not empty.                      *)
LEMMA TopOfQueue ==
  ASSUME NEW q, QueueOK(q), DOMAIN q # {}
  PROVE  /\ Top(q) \in Nat
         /\ \A e \in DOMAIN q : Top(q) <= e.lifetime
         /\ \E e \in DOMAIN q : Top(q) = e.lifetime
<1> DEFINE T == {e.lifetime : e \in DOMAIN q}
<1>1. T \in SUBSET Nat /\ T # {}
  BY DEF QueueOK, Inst
<1>2. Top(q) = CHOOSE x \in T : \A y \in T : x <= y
  BY DEF Top, Min, BagToSet
<1> HIDE DEF T
<1>3. \E x \in T : \A y \in T : x <= y
  BY <1>1, LeastNatural
<1>4. Top(q) \in T /\ \A y \in T : Top(q) <= y
  BY <1>2, <1>3
<1> QED BY <1>1, <1>4 DEF T

(* The latest lifetime of a destination is 0 or that of one of its entries. *)
LEMMA RemainingIsAnEntry ==
  ASSUME NEW q, QueueOK(q), NEW d
  PROVE  LET old == RemainingLifetime(q, d)
         IN  old \in Nat /\ (old = 0 \/ \E e \in DOMAIN q : old = e.lifetime)
<1> DEFINE S == {e.lifetime : e \in Live(q, d)}
           T == {0} \cup S
           old == RemainingLifetime(q, d)
<1>1. /\ Live(q, d) = {e \in DOMAIN q : e.dest = d /\ ~e.canceled}
      /\ IsFiniteSet(Live(q, d))
  BY LiveEntries
<1>2. \A n \in S : n \in Nat /\ \E e \in DOMAIN q : n = e.lifetime
  BY <1>1 DEF QueueOK, Inst
<1>3. IsFiniteSet(T)
  <2> DEFINE f == [e \in Live(q, d) |-> e.lifetime]
  <2>1. S = {f[e] : e \in Live(q, d)}
    OBVIOUS
  <2>2. IsFiniteSet(S)
    <3>1. f \in Surjection(Live(q, d), S)
      BY <2>1 DEF Surjection
    <3> HIDE DEF f, S
    <3> QED BY <1>1, <3>1, FS_Surjection
  <2>3. IsFiniteSet({0})
    BY FS_Singleton
  <2> QED BY <2>2, <2>3, FS_Union
<1>4. old = CHOOSE x \in T : \A y \in T : x >= y
  BY DEF RemainingLifetime, Max
<1>5. T \in SUBSET Int /\ T # {}
  BY <1>2
<1> HIDE DEF T, S, old
<1>6. \E x \in T : \A y \in T : x >= y
  BY <1>3, <1>5, GreatestMember
<1>7. old \in T
  BY <1>4, <1>6
<1> QED BY <1>2, <1>7 DEF T, old

LEMMA EmptyQueue ==
  ASSUME NEW q, QueueOK(q)
  PROVE  q = EmptyBag <=> DOMAIN q = {}
<1>1. EmptyBag = [e \in {} |-> 1]
  BY DEF EmptyBag, SetToBag
<1>2. q = [e \in DOMAIN q |-> q[e]]
  BY DEF QueueOK
<1>3. DOMAIN q = {} => q = [e \in {} |-> 1]
  BY <1>2
<1> QED BY <1>1, <1>3

(* A route that is learned is counted, and the timer runs.                  *)
LEMMA LearnedOK ==
  ASSUME now \in Nat, NEW L, NEW l, Counted(l, L), Punctual(l, L, now),
         NEW d \in Dest, NEW time \in Nat
  PROVE  LET l2 == Learned(l, d, time)
         IN  /\ Counted(l2, L) /\ Punctual(l2, L, now)
             /\ \A k \in Dest : Live(l.queue, k) \subseteq Live(l2.queue, k)
             /\ Live(l2.queue, d) # {} /\ l2.timer # -1
<1> DEFINE old == RemainingLifetime(l.queue, d)
           e == Lasting(d, IF old <= 0 THEN now + time ELSE old + time)
           p == Push(l, e, 1)
           canceled == l.queue # EmptyBag /\ e.lifetime < Top(l.queue)
           l2 == Learned(l, d, time)
<1>0. QueueOK(l.queue) /\ l.timer \in Nat \cup {-1}
  BY DEF Counted
<1>1. old \in Nat /\ (old = 0 \/ \E x \in DOMAIN l.queue : old = x.lifetime)
  BY <1>0, RemainingIsAnEntry
<1> HIDE DEF old
<1>2. /\ e \in Inst /\ e.dest = d /\ ~e.canceled
      /\ e.lifetime = IF old <= 0 THEN now + time ELSE old + time
  BY <1>1 DEF Lasting, Inst
<1>3. l2 = [p EXCEPT !.timer = IF p.timer # -1 /\ ~canceled THEN p.timer ELSE Top(p.queue)]
  BY DEF Learned, Off, old
<1> HIDE DEF e, l2
<1>4. /\ Counted(p, L) /\ p.timer = l.timer
      /\ DOMAIN p.queue = DOMAIN l.queue \cup {e}
      /\ \A k \in Dest : Live(l.queue, k) \subseteq Live(p.queue, k)
      /\ e \in Live(p.queue, d)
  <2> DEFINE k == 1
  <2>1. k \in Nat \ {0}
    OBVIOUS
  <2> HIDE DEF k
  <2> DEFINE u == Push(l, e, k)
  <2>2. /\ Counted(u, L) /\ u.timer = l.timer
        /\ DOMAIN u.queue = DOMAIN l.queue \cup {e}
        /\ \A c \in Dest : Live(l.queue, c) \subseteq Live(u.queue, c)
        /\ e \in Live(u.queue, e.dest)
    BY <1>2, <2>1, PushOK
  <2>3. u = p
    BY DEF k
  <2> HIDE DEF u, p
  <2> QED BY <1>2, <2>2, <2>3
<1> HIDE DEF p
<1>5. /\ p = [queue |-> p.queue, count |-> p.count, timer |-> p.timer]
      /\ QueueOK(p.queue)
  BY <1>4 DEF Counted
<1>6. /\ Top(p.queue) \in Nat
      /\ \A x \in DOMAIN p.queue : Top(p.queue) <= x.lifetime
      /\ \E x \in DOMAIN p.queue : Top(p.queue) = x.lifetime
  BY <1>4, <1>5, TopOfQueue
<1> DEFINE t == IF p.timer # -1 /\ ~canceled THEN p.timer ELSE Top(p.queue)
<1>7. t \in Nat
  BY <1>0, <1>4, <1>6
<1>8. l2 = [p EXCEPT !.timer = t]
  BY <1>3
<1>9. l = [queue |-> l.queue, count |-> l.count, timer |-> l.timer]
  BY DEF Counted
<1>10. L = {} => now <= t
  <2>1. SUFFICES ASSUME L = {} PROVE now <= t
    OBVIOUS
  <2>2. CASE p.timer # -1 /\ ~canceled
    BY <1>4, <2>1, <2>2 DEF Punctual
  <2>3. CASE p.timer = -1
    <3>1. DOMAIN l.queue = {} /\ t = Top(p.queue)
      BY <1>4, <2>1, <2>3 DEF Punctual
    <3>2. e.lifetime = now + time
      BY <1>1, <1>2, <3>1
    <3>3. t = e.lifetime
      BY <1>4, <1>6, <3>1
    <3> QED BY <3>2, <3>3
  <2>4. CASE canceled
    <3>1. DOMAIN l.queue # {} /\ e.lifetime < Top(l.queue) /\ t = Top(p.queue)
      BY <1>0, <2>4, EmptyQueue
    <3>2. /\ Top(l.queue) \in Nat
          /\ \A x \in DOMAIN l.queue : Top(l.queue) <= x.lifetime
      BY <1>0, <3>1, TopOfQueue
    <3>3. \A x \in DOMAIN l.queue : x.lifetime \in Nat
      BY <1>0 DEF QueueOK, Inst
    <3>4. e.lifetime = now + time
      <4>1. CASE old <= 0
        BY <1>2, <4>1
      <4>2. CASE ~(old <= 0)
        <5>1. PICK x \in DOMAIN l.queue : old = x.lifetime
          BY <1>1, <4>2
        <5>2. Top(l.queue) <= old /\ e.lifetime = old + time
          BY <1>2, <3>2, <4>2, <5>1
        <5> QED BY <1>1, <3>1, <3>2, <5>2
      <4> QED BY <4>1, <4>2
    <3>5. t = e.lifetime
      <4>1. PICK x \in DOMAIN p.queue : t = x.lifetime
        BY <1>6, <3>1
      <4>2. e.lifetime \in Nat /\ t \in Nat /\ t <= e.lifetime
        BY <1>2, <1>4, <1>6, <3>1 DEF Inst
      <4>3. x = e
        BY <1>4, <3>1, <3>2, <3>3, <4>1, <4>2
      <4> QED BY <4>1, <4>3
    <3> QED BY <3>4, <3>5
  <2> QED BY <2>2, <2>3, <2>4
<1> HIDE DEF t
<1>11. l2 = [queue |-> p.queue, count |-> p.count, timer |-> t]
  BY <1>5, <1>8
<1>12. Counted(l2, L)
  <2>1. l2.queue = p.queue /\ l2.count = p.count /\ l2.timer = t
    BY <1>11
  <2> QED BY <1>4, <1>7, <1>11, <2>1 DEF Counted
<1>13. Punctual(l2, L, now)
  BY <1>7, <1>10, <1>11 DEF Punctual
<1> QED BY <1>4, <1>7, <1>11, <1>12, <1>13 DEF l2

(* A route that is used is counted; that no timer is armed for it makes no  *)
(* difference, because the timer of a VALID route runs.                     *)
LEMMA RefreshedOK ==
  ASSUME now \in Nat, ActiveRouteTimeout \in Nat, NEW L, NEW l, Counted(l, L),
         Punctual(l, L, now), NEW r, Timed(l, r, L), NEW d \in Dest, NEW k \in Nat
  PROVE  LET l2 == Refreshed(l, r, d, k)
         IN  Counted(l2, L) /\ Punctual(l2, L, now) /\ Timed(l2, r, L)
<1> DEFINE e == Lasting(d, now + ActiveRouteTimeout)
           p == Push(l, e, k)
           l2 == Refreshed(l, r, d, k)
<1>1. CASE ~(r[d].state = "VALID" /\ k > 0)
  <2>1. l2 = l
    BY <1>1 DEF Refreshed
  <2> QED BY <2>1
<1>2. CASE r[d].state = "VALID" /\ k > 0
  <2>1. l2 = p
    BY <1>2 DEF Refreshed
  <2>2. e \in Inst /\ ~e.canceled /\ e.dest = d /\ k \in Nat \ {0}
    BY <1>2 DEF Lasting, Inst
  <2> HIDE DEF e
  <2>3. /\ Counted(p, L) /\ p.timer = l.timer
        /\ \A c \in Dest : Live(l.queue, c) \subseteq Live(p.queue, c)
    BY <2>2, PushOK
  <2> HIDE DEF p
  <2>4. Timed(p, r, L)
    BY <2>3 DEF Timed
  <2>5. Punctual(p, L, now)
    <3>1. L = {} => l.timer # -1
      BY <1>2 DEF Timed
    <3> QED BY <2>3, <3>1 DEF Punctual
  <2> HIDE DEF l2
  <2> QED BY <2>1, <2>3, <2>4, <2>5 DEF l2
<1> QED BY <1>1, <1>2

(* A destination is VALID after an update when it was, or was learned.      *)
LEMMA UpdatesTimed ==
  ASSUME NEW L, NEW l, NEW r, RoutesOK(r), Timed(l, r, L), NEW d \in Dest,
         NEW next \in Hearable,
         NEW u \in Updates(r, d, next), NEW l2,
         \A k \in Dest : Live(l.queue, k) \subseteq Live(l2.queue, k),
         Live(l2.queue, d) # {}, l2.timer # -1
  PROVE  Timed(l2, u, L) /\ RoutesOK(u)
<1>1. u = r \/ u = [r EXCEPT ![d] = [state |-> "VALID", next |-> next]]
  BY DEF Updates
<1>2. RoutesOK(u) /\ \A k \in Dest \ {d} : u[k] = r[k]
  BY <1>1 DEF RoutesOK, Route
<1> QED BY <1>2 DEF Timed

(* Of the entries of m one is canceled, and no other destination notices.   *)
LEMMA ResetOK ==
  ASSUME NEW L, NEW l, Counted(l, L), NEW r, Timed(l, r, L), NEW m \in Dest,
         NEW l2 \in Reset(l, m)
  PROVE  Counted(l2, L \cup {m}) /\ Timed(l2, r, L \cup {m})
<1> DEFINE q == l.queue
           S == {e \in DOMAIN q : e.dest = m}
<1>0. /\ l = [queue |-> l.queue, count |-> l.count, timer |-> l.timer]
      /\ QueueOK(q) /\ l.count \in [Dest -> Int] /\ l.timer \in Nat \cup {-1}
      /\ \A d \in Dest : LiveSum(q, d) <= l.count[d]
      /\ \A d \in Dest \ L : LiveSum(q, d) = l.count[d]
  BY DEF Counted
<1>1. Reset(l, m) =
        IF S = {} THEN {[l EXCEPT !.count = [@ EXCEPT ![m] = 0]]}
        ELSE {[l EXCEPT !.queue = (@ (-) SetToBag({e}))
                                    (+) SetToBag({[e EXCEPT !.canceled = TRUE]})] : e \in S}
  BY DEF Reset, BagToSet
<1>2. CASE S = {}
  <2> DEFINE c2 == [l.count EXCEPT ![m] = 0]
  <2>1. l2 = [queue |-> q, count |-> c2, timer |-> l.timer]
    <3>1. l2 = [l EXCEPT !.count = c2]
      BY <1>1, <1>2
    <3> QED BY <1>0, <3>1
  <2>2. c2 \in [Dest -> Int] /\ c2[m] = 0 /\ \A d \in Dest \ {m} : c2[d] = l.count[d]
    BY <1>0
  <2>3. LiveSum(q, m) = 0
    <3>1. Live(q, m) = {}
      BY <1>0, <1>2, LiveEntries
    <3> QED BY <3>1, SumOfNothing DEF LiveSum
  <2> HIDE DEF c2
  <2>4. l2.queue = l.queue /\ l2.timer = l.timer /\ l2.count = c2
    BY <2>1
  <2>5. \A d \in Dest : LiveSum(q, d) <= c2[d] /\ (d \notin L \cup {m} => LiveSum(q, d) = c2[d])
    BY <1>0, <2>2, <2>3
  <2>6. Counted(l2, L \cup {m})
    BY <1>0, <2>1, <2>2, <2>4, <2>5 DEF Counted
  <2> QED BY <2>4, <2>6 DEF Timed
<1>3. CASE S # {}
  <2>1. PICK e \in S :
           l2 = [l EXCEPT !.queue = (@ (-) SetToBag({e}))
                                      (+) SetToBag({[e EXCEPT !.canceled = TRUE]})]
    BY <1>1, <1>3
  <2> DEFINE x == [e EXCEPT !.canceled = TRUE]
             less == q (-) SetToBag({e})
             q2 == less (+) SetToBag({x})
  <2>2. x \in Inst /\ x.canceled /\ x.dest = m /\ e \in DOMAIN q /\ e.dest = m
    BY <1>0 DEF QueueOK, Inst
  <2>3. l2 = [queue |-> q2, count |-> l.count, timer |-> l.timer]
    BY <1>0, <2>1
  <2> HIDE DEF x
  <2>4. /\ DOMAIN q \ {e} \subseteq DOMAIN less /\ DOMAIN less \subseteq DOMAIN q
        /\ \A y \in DOMAIN q \ {e} : less[y] = q[y]
        /\ \A y \in DOMAIN less : less[y] \in Nat \ {0} /\ less[y] <= q[y]
    <3> DEFINE B == [y \in DOMAIN q |-> IF y \in {e} THEN q[y] - 1 ELSE q[y]]
    <3>1. less = [y \in {z \in DOMAIN q : B[z] > 0} |-> B[y]]
      <4>1. SetToBag({e}) = [y \in {e} |-> 1]
        BY DEF SetToBag
      <4> QED BY <4>1 DEF (-)
    <3>2. \A y \in DOMAIN q : q[y] \in Nat /\ q[y] > 0
      BY <1>0 DEF QueueOK
    <3>3. /\ \A y \in DOMAIN q \ {e} : B[y] = q[y]
          /\ \A y \in DOMAIN q : B[y] \in Int /\ B[y] <= q[y]
      BY <3>2
    <3> HIDE DEF B
    <3>4. DOMAIN less = {z \in DOMAIN q : B[z] > 0} /\ \A y \in DOMAIN less : less[y] = B[y]
      BY <3>1
    <3>5. \A y \in DOMAIN q \ {e} : y \in DOMAIN less
      BY <3>2, <3>3, <3>4
    <3>6. \A y \in DOMAIN less : y \in DOMAIN q /\ less[y] \in Nat \ {0} /\ less[y] <= q[y]
      BY <3>3, <3>4
    <3> QED BY <3>3, <3>4, <3>5, <3>6
  <2> HIDE DEF less
  <2>5. /\ DOMAIN q2 = DOMAIN less \cup {x}
        /\ \A y \in DOMAIN less \ {x} : q2[y] = less[y]
        /\ q2 \in [DOMAIN q2 -> Nat \ {0}]
    <3>1. SetToBag({x}) = [y \in {x} |-> 1]
      BY DEF SetToBag
    <3>2. q2 = [y \in DOMAIN less \cup {x} |->
                  (IF y \in DOMAIN less THEN less[y] ELSE 0) + (IF y \in {x} THEN 1 ELSE 0)]
      BY <3>1 DEF (+)
    <3>3. DOMAIN q2 = DOMAIN less \cup {x}
      BY <3>2
    <3>4. \A y \in DOMAIN less \ {x} : q2[y] = less[y]
      <4>1. \A y \in DOMAIN less : less[y] \in Nat
        BY <2>4
      <4> QED BY <3>2, <4>1
    <3>5. \A y \in DOMAIN q2 : q2[y] \in Nat \ {0}
      <4>1. \A y \in DOMAIN less : less[y] \in Nat \ {0}
        BY <2>4
      <4> QED BY <3>2, <3>3, <4>1
    <3>6. q2 = [y \in DOMAIN q2 |-> q2[y]]
      BY <3>2
    <3> QED BY <3>3, <3>4, <3>5, <3>6
  <2> HIDE DEF q2
  <2>6. QueueOK(q2)
    <3>1. IsFiniteSet(DOMAIN less)
      BY <1>0, <2>4, FS_Subset DEF QueueOK
    <3>2. IsFiniteSet(DOMAIN q2)
      BY <2>5, <3>1, FS_AddElement
    <3>3. DOMAIN q2 \in SUBSET Inst
      BY <1>0, <2>2, <2>4, <2>5 DEF QueueOK
    <3> QED BY <2>5, <3>2, <3>3 DEF QueueOK
  <2>7. ASSUME NEW d \in Dest
        PROVE  /\ LiveSum(q2, d) <= LiveSum(q, d)
               /\ d # m => /\ LiveSum(q2, d) = LiveSum(q, d)
                           /\ Live(q2, d) = Live(q, d)
    <3> DEFINE A == Live(q, d)
               A2 == Live(q2, d)
    <3>1. /\ A = {y \in DOMAIN q : y.dest = d /\ ~y.canceled}
          /\ A2 = {y \in DOMAIN q2 : y.dest = d /\ ~y.canceled}
          /\ IsFiniteSet(A) /\ \A y \in A : q[y] \in Nat
      BY <1>0, <2>6, LiveEntries
    <3>2. A2 \in SUBSET A /\ \A y \in A2 : q2[y] \in Nat /\ q2[y] <= q[y]
      BY <2>2, <2>4, <2>5, <3>1
    <3>3. d # m => A2 = A /\ \A y \in A : q2[y] = q[y]
      <4>1. d # m => \A y \in A : y \in DOMAIN less \ {x} /\ y # e
        BY <2>2, <2>4, <3>1
      <4>2. d # m => \A y \in A : q2[y] = q[y] /\ y \in DOMAIN q2
        BY <2>4, <2>5, <3>1, <4>1
      <4>3. d # m => A \in SUBSET A2
        BY <3>1, <4>2
      <4> QED BY <3>2, <4>2, <4>3
    <3> HIDE DEF A, A2
    <3>4. SumOver(q2, A2) <= SumOver(q, A)
      BY <3>1, <3>2, SumOfPart
    <3>5. d # m => SumOver(q2, A) = SumOver(q, A)
      BY <3>1, <3>3, SumSame
    <3> QED BY <3>3, <3>4, <3>5 DEF A, A2, LiveSum
  <2>8. l2.queue = q2 /\ l2.timer = l.timer /\ l2.count = l.count
    BY <2>3
  <2>9. ASSUME NEW d \in Dest
        PROVE  /\ LiveSum(q2, d) <= l.count[d]
               /\ d \notin L \cup {m} => LiveSum(q2, d) = l.count[d]
    <3>1. LiveSum(q, d) \in Nat /\ LiveSum(q2, d) \in Nat
      BY <1>0, <2>6, LiveEntries
    <3> QED BY <1>0, <2>7, <3>1
  <2>10. Counted(l2, L \cup {m})
    BY <1>0, <2>3, <2>6, <2>8, <2>9 DEF Counted
  <2>11. Timed(l2, r, L \cup {m})
    BY <2>7, <2>8 DEF Timed
  <2> QED BY <2>10, <2>11
<1> QED BY <1>2, <1>3

LEMMA LiveIsPositive ==
  ASSUME NEW q, QueueOK(q), NEW d
  PROVE  Live(q, d) = {} <=> LiveSum(q, d) = 0
<1> DEFINE S == Live(q, d)
<1>1. /\ IsFiniteSet(S) /\ \A e \in S : q[e] \in Nat /\ q[e] > 0
  BY LiveEntries
<1> HIDE DEF S
<1>2. CASE S = {}
  BY <1>2, SumOfNothing DEF LiveSum, S
<1>3. CASE S # {}
  <2>1. PICK e \in S : TRUE
    BY <1>3
  <2>2. SumOver(q, S) = q[e] + SumOver(q, S \ {e})
    <3>1. \A x \in S : q[x] \in Int
      BY <1>1
    <3> QED BY <1>1, <3>1, SumRemove
  <2>3. SumOver(q, S \ {e}) \in Nat
    <3> DEFINE R == S \ {e}
    <3>1. IsFiniteSet(R) /\ R \in SUBSET R /\ \A x \in R : q[x] \in Nat /\ q[x] <= q[x]
      BY <1>1, FS_Subset
    <3> HIDE DEF R
    <3>2. SumOver(q, R) \in Nat
      BY <3>1, SumOfPart
    <3> QED BY <3>2 DEF R
  <2>4. SumOver(q, S) # 0
    BY <1>1, <2>1, <2>2, <2>3
  <2> QED BY <1>3, <2>4 DEF LiveSum, S
<1> QED BY <1>2, <1>3

(* The timer takes the entries that ran out from the queue, and from the    *)
(* counts.                                                                  *)
LEMMA DueEntries ==
  ASSUME now \in Int, QueueOK(life.queue)
  PROVE  /\ QueueOK(Pending)
         /\ \A e \in DOMAIN Pending : e.lifetime > now
         /\ \A d \in Dest :
               /\ DueCount(d) \in Nat
               /\ LiveSum(life.queue, d) = DueCount(d) + LiveSum(Pending, d)
<1> DEFINE q == life.queue
           p == Pending
           D == {e \in DOMAIN q : e.lifetime <= now}
           A(d) == {e \in D : e.dest = d /\ ~e.canceled}
           B(d) == {e \in DOMAIN q \ D : e.dest = d /\ ~e.canceled}
<1>1. Due = D /\ \A d \in Dest : DueCount(d) = SumOver(q, A(d))
  BY DEF Due, DueCount, BagToSet
<1>2. p = [e \in DOMAIN q \ D |-> q[e]]
  BY <1>1 DEF Pending, BagToSet
<1>3. DOMAIN p = DOMAIN q \ D /\ \A e \in DOMAIN p : p[e] = q[e]
  BY <1>2
<1>4. /\ DOMAIN q \in SUBSET Inst /\ IsFiniteSet(DOMAIN q)
      /\ \A e \in DOMAIN q : q[e] \in Nat \ {0}
  BY DEF QueueOK
<1>5. \A e \in DOMAIN p : e.lifetime > now
  BY <1>3, <1>4 DEF Inst
<1>6. QueueOK(p)
  <2>1. IsFiniteSet(DOMAIN p)
    BY <1>3, <1>4, FS_Subset
  <2>2. p \in [DOMAIN p -> Nat \ {0}]
    BY <1>2, <1>3, <1>4
  <2> QED BY <1>3, <1>4, <2>1, <2>2 DEF QueueOK
<1>7. ASSUME NEW d \in Dest
      PROVE  /\ DueCount(d) \in Nat
             /\ LiveSum(q, d) = DueCount(d) + LiveSum(p, d)
  <2> DEFINE a == A(d)
             b == B(d)
  <2>1. Live(q, d) = a \cup b /\ a \cap b = {} /\ Live(p, d) = b
    <3>1. /\ Live(q, d) = {e \in DOMAIN q : e.dest = d /\ ~e.canceled}
          /\ Live(p, d) = {e \in DOMAIN p : e.dest = d /\ ~e.canceled}
      <4> HIDE DEF p
      <4> QED BY <1>6, LiveEntries
    <3> HIDE DEF p
    <3> QED BY <1>3, <3>1
  <2>2. /\ IsFiniteSet(a) /\ IsFiniteSet(b)
        /\ \A e \in a \cup b : q[e] \in Nat
        /\ \A e \in b : p[e] = q[e]
    <3>1. a \in SUBSET (DOMAIN q) /\ b \in SUBSET (DOMAIN q) /\ b \in SUBSET (DOMAIN p)
      BY <1>3
    <3> HIDE DEF a, b, p
    <3>2. IsFiniteSet(a) /\ IsFiniteSet(b)
      BY <1>4, <3>1, FS_Subset
    <3> QED BY <1>3, <1>4, <3>1, <3>2
  <2>3. DueCount(d) = SumOver(q, a)
    BY <1>1
  <2> HIDE DEF a, b, p
  <2>4. SumOver(q, a \cup b) = SumOver(q, a) + SumOver(q, b)
    BY <2>1, <2>2, SumOfUnion
  <2>5. SumOver(p, b) = SumOver(q, b)
    BY <2>2, SumSame
  <2>6. SumOver(q, a) \in Nat
    <3>1. a \in SUBSET a /\ \A e \in a : q[e] <= q[e] /\ q[e] \in Nat
      BY <2>2
    <3> QED BY <2>2, <3>1, SumOfPart
  <2> QED BY <2>1, <2>3, <2>4, <2>5, <2>6 DEF LiveSum
<1> HIDE DEF p
<1> QED BY <1>5, <1>6, <1>7 DEF p

(* The step of the timer: what it invalidates has no lifetime left.         *)
LEMMA TimerExpirationOK ==
  ASSUME LifeInv, EntryExpiration
  PROVE  /\ LifeInv'
         /\ \A d \in Dest : route[d].state = "VALID" /\ route'[d].state = "INVALID" =>
               Live(life'.queue, d) = {}
<1> DEFINE q == life.queue
           p == Pending
           c2 == [d \in Dest |-> life.count[d] - DueCount(d)]
           t2 == IF p = EmptyBag THEN -1 ELSE Top(p)
           gone == {d \in Dest : route[d].state = "VALID"
                                 /\ life.count[d] \in 1 .. DueCount(d)}
<1>0. /\ now \in Nat /\ RoutesOK(route) /\ Timed(life, route, lost)
      /\ QueueOK(q) /\ life.count \in [Dest -> Int]
      /\ \A d \in Dest : LiveSum(q, d) <= life.count[d]
      /\ \A d \in Dest \ lost : LiveSum(q, d) = life.count[d]
  BY DEF LifeInv, Counted
<1>1. /\ route' = [d \in Dest |-> IF d \in gone THEN [route[d] EXCEPT !.state = "INVALID"]
                                                ELSE route[d]]
      /\ life' = [queue |-> p, count |-> c2, timer |-> t2]
      /\ UNCHANGED <<now, lost>>
  BY DEF EntryExpiration, Invalidated, Off
<1>2. /\ life'.queue = p /\ life'.count = c2 /\ life'.timer = t2
      /\ life' = [queue |-> life'.queue, count |-> life'.count, timer |-> life'.timer]
  BY <1>1
<1>3. ASSUME NEW d \in Dest
      PROVE  /\ QueueOK(p)
             /\ \A e \in DOMAIN p : e.lifetime > now
             /\ DueCount(d) \in Nat /\ LiveSum(q, d) \in Nat /\ LiveSum(p, d) \in Nat
             /\ life.count[d] \in Int /\ c2[d] \in Int
             /\ LiveSum(q, d) = DueCount(d) + LiveSum(p, d)
             /\ c2[d] = life.count[d] - DueCount(d)
             /\ Live(q, d) = {} <=> LiveSum(q, d) = 0
             /\ Live(p, d) = {} <=> LiveSum(p, d) = 0
  <2>1. /\ QueueOK(p) /\ \A e \in DOMAIN p : e.lifetime > now
        /\ DueCount(d) \in Nat
        /\ LiveSum(q, d) = DueCount(d) + LiveSum(p, d)
    BY <1>0, DueEntries
  <2> HIDE DEF p
  <2>2. /\ LiveSum(q, d) \in Nat /\ LiveSum(p, d) \in Nat
        /\ Live(q, d) = {} <=> LiveSum(q, d) = 0
        /\ Live(p, d) = {} <=> LiveSum(p, d) = 0
    BY <1>0, <2>1, LiveEntries, LiveIsPositive
  <2>3. life.count[d] \in Int /\ c2[d] = life.count[d] - DueCount(d)
    BY <1>0
  <2> QED BY <2>1, <2>2, <2>3
<1>4. ASSUME NEW d \in Dest
      PROVE  /\ LiveSum(p, d) <= c2[d]
             /\ d \notin lost => LiveSum(p, d) = c2[d]
  <2> HIDE DEF p, c2
  <2> QED BY <1>0, <1>3
<1>5. QueueOK(p) /\ \A e \in DOMAIN p : e.lifetime > now
  BY <1>0, DueEntries
<1>6. /\ DOMAIN p = {} => t2 = -1
      /\ DOMAIN p # {} => t2 \in Nat /\ t2 > now
  <2>1. p = EmptyBag <=> DOMAIN p = {}
    BY <1>5, EmptyQueue
  <2>2. DOMAIN p # {} => /\ Top(p) \in Nat
                         /\ \E e \in DOMAIN p : Top(p) = e.lifetime
    BY <1>5, TopOfQueue
  <2> HIDE DEF p
  <2> QED BY <1>5, <2>1, <2>2
<1>7. c2 \in [Dest -> Int]
  <2>1. c2 = [d \in Dest |-> c2[d]]
    OBVIOUS
  <2> HIDE DEF c2
  <2> QED BY <1>3, <2>1
<1>8. /\ RoutesOK(route')
      /\ \A d \in Dest : route'[d].state = "VALID" => route[d].state = "VALID" /\ d \notin gone
      /\ \A d \in Dest : route[d].state = "VALID" /\ route'[d].state = "INVALID" => d \in gone
  <2> HIDE DEF gone
  <2> QED BY <1>0, <1>1 DEF RoutesOK, Route
<1> HIDE DEF p, c2, t2
<1>9. Counted(life', lost)
  BY <1>2, <1>4, <1>5, <1>6, <1>7 DEF Counted
<1>10. Timed(life', route', lost)
  <2>1. SUFFICES ASSUME NEW d \in Dest \ lost, route'[d].state = "VALID"
                 PROVE  Live(p, d) # {} /\ t2 # -1
    BY <1>2 DEF Timed
  <2>2. route[d].state = "VALID" /\ ~(life.count[d] \in 1 .. DueCount(d))
    BY <1>8, <2>1
  <2>3. LiveSum(q, d) # 0
    BY <1>0, <1>3, <2>2 DEF Timed
  <2>4. LiveSum(p, d) # 0
    BY <1>0, <1>3, <2>2, <2>3
  <2>5. Live(p, d) # {}
    BY <1>3, <2>4
  <2>6. DOMAIN p # {}
    BY <1>5, <2>5, LiveEntries
  <2> QED BY <1>6, <2>5, <2>6
<1>11. Punctual(life', lost, now)
  <2>1. (t2 = -1 => DOMAIN p = {}) /\ (t2 # -1 => now <= t2)
    <3>1. CASE DOMAIN p = {}
      BY <1>6, <3>1
    <3>2. CASE DOMAIN p # {}
      <4>1. now \in Nat /\ t2 \in Nat /\ t2 > now
        BY <1>0, <1>6, <3>2
      <4> QED BY <4>1
    <3> QED BY <3>1, <3>2
  <2>2. life'.timer = t2 /\ life'.queue = p
    BY <1>2
  <2> QED BY <2>1, <2>2 DEF Punctual
<1>12. ASSUME NEW d \in Dest, route[d].state = "VALID" /\ route'[d].state = "INVALID"
       PROVE  Live(p, d) = {}
  <2>1. life.count[d] \in 1 .. DueCount(d)
    BY <1>8, <1>12
  <2>2. LiveSum(p, d) = 0
    BY <1>0, <1>3, <2>1
  <2> QED BY <1>3, <2>2
<1> QED BY <1>0, <1>1, <1>2, <1>8, <1>9, <1>10, <1>11, <1>12 DEF LifeInv

(* A route that was learned in a state that keeps the invariant.            *)
LEMMA LearnedUpdates ==
  ASSUME now \in Nat, NEW L, NEW l, NEW r, Counted(l, L), Punctual(l, L, now),
         Timed(l, r, L), RoutesOK(r), NEW d \in Dest, NEW next \in Hearable,
         NEW time \in Nat, NEW u \in Updates(r, d, next)
  PROVE  LET l2 == Learned(l, d, time)
         IN  Counted(l2, L) /\ Punctual(l2, L, now) /\ Timed(l2, u, L) /\ RoutesOK(u)
<1> DEFINE l2 == Learned(l, d, time)
<1>1. /\ Counted(l2, L) /\ Punctual(l2, L, now)
      /\ \A k \in Dest : Live(l.queue, k) \subseteq Live(l2.queue, k)
      /\ Live(l2.queue, d) # {} /\ l2.timer # -1
  BY LearnedOK
<1> HIDE DEF l2
<1>2. Timed(l2, u, L) /\ RoutesOK(u)
  BY <1>1, UpdatesTimed
<1> QED BY <1>1, <1>2 DEF l2

LEMMA InvalidatedOK ==
  ASSUME RoutesOK(route), NEW D, NEW l, NEW L, Timed(l, route, L)
  PROVE  RoutesOK(Invalidated(D)) /\ Timed(l, Invalidated(D), L)
<1>1. RoutesOK(Invalidated(D))
  BY DEF Invalidated, RoutesOK, Route
<1>2. \A d \in Dest : Invalidated(D)[d].state = "VALID" => route[d].state = "VALID"
  BY DEF Invalidated, RoutesOK, Route
<1> QED BY <1>1, <1>2 DEF Timed

LEMMA LifeInit == LifetimeInit => LifeInv
<1> SUFFICES ASSUME LifetimeInit PROVE LifeInv
  OBVIOUS
<1>1. /\ route = [d \in Dest |-> [state |-> "NOT_DEFINED", next |-> "NULL"]]
      /\ life = [queue |-> EmptyBag, count |-> [d \in Dest |-> 0], timer |-> -1]
      /\ now = 0 /\ lost = {}
  BY DEF LifetimeInit, NoRoute, Off
<1>2. RoutesOK(route) /\ \A d \in Dest : route[d].state # "VALID"
  BY <1>1 DEF RoutesOK, Route
<1>3. life.queue = [e \in {} |-> 1]
  BY <1>1 DEF EmptyBag, SetToBag
<1>4. QueueOK(life.queue) /\ DOMAIN life.queue = {}
  BY <1>3, FS_EmptySet DEF QueueOK
<1>5. ASSUME NEW d \in Dest PROVE LiveSum(life.queue, d) = 0
  <2>1. Live(life.queue, d) = {}
    BY <1>4, LiveEntries
  <2> QED BY <2>1, SumOfNothing DEF LiveSum
<1>6. Counted(life, lost)
  <2>1. life.count = [d \in Dest |-> 0] /\ life.timer = -1
    BY <1>1
  <2>2. life = [queue |-> life.queue, count |-> life.count, timer |-> life.timer]
    BY <1>1
  <2>3. \A d \in Dest : life.count[d] = 0
    BY <2>1
  <2>4. life.count \in [Dest -> Int]
    BY <2>1
  <2> QED BY <1>4, <1>5, <2>1, <2>2, <2>3, <2>4 DEF Counted
<1>7. Timed(life, route, lost) /\ Punctual(life, lost, now)
  BY <1>1, <1>2, <1>4 DEF Timed, Punctual
<1> QED BY <1>1, <1>2, <1>6, <1>7 DEF LifeInv

LEMMA LifeNext == LifeInv /\ [LifetimeNext]_lifetimeVars => LifeInv'
<1> SUFFICES ASSUME LifeInv, [LifetimeNext]_lifetimeVars PROVE LifeInv'
  OBVIOUS
<1>0. /\ now \in Nat /\ RoutesOK(route) /\ Counted(life, lost) /\ Timed(life, route, lost)
      /\ Punctual(life, lost, now) /\ Hearable \in SUBSET Dest
      /\ ActiveRouteTimeout \in Nat /\ 2 * ActiveRouteTimeout \in Nat
  BY LifetimeAssumption DEF LifeInv
<1>1. ASSUME NEW src \in Hearable, NEW orig \in Dest, NEW seen \in BOOLEAN,
             ReceiveRreq(src, orig, seen)
      PROVE  LifeInv'
  <2> DEFINE l == Learned(life, src, ActiveRouteTimeout)
             l2 == Learned(l, orig, ActiveRouteTimeout)
  <2>1. PICK r \in Updates(route, src, src) :
           IF seen THEN life' = l /\ route' = r
           ELSE life' = l2 /\ route' \in Updates(r, orig, src)
    BY <1>1 DEF ReceiveRreq
  <2>2. UNCHANGED <<now, lost>>
    BY <1>1 DEF ReceiveRreq
  <2>3. Counted(l, lost) /\ Punctual(l, lost, now) /\ Timed(l, r, lost) /\ RoutesOK(r)
    BY <1>0, LearnedUpdates
  <2> HIDE DEF l
  <2>4. CASE seen
    BY <1>0, <2>1, <2>2, <2>3, <2>4 DEF LifeInv
  <2>5. CASE ~seen
    <3>1. PICK u \in Updates(r, orig, src) : route' = u /\ life' = l2
      BY <2>1, <2>5
    <3>2. Counted(l2, lost) /\ Punctual(l2, lost, now) /\ Timed(l2, u, lost) /\ RoutesOK(u)
      BY <1>0, <2>3, LearnedUpdates
    <3> QED BY <1>0, <2>2, <3>1, <3>2 DEF LifeInv
  <2> QED BY <2>4, <2>5
<1>2. ASSUME NEW src \in Hearable, NEW dest \in Dest, NEW orig \in Dest,
             ReceiveRrep(src, dest, orig)
      PROVE  LifeInv'
  <2> DEFINE l1 == Learned(life, src, ActiveRouteTimeout)
             l == Learned(l1, dest, 2 * ActiveRouteTimeout)
  <2>1. PICK r \in Updates(route, src, src) : \E u \in Updates(r, dest, src) :
           /\ route' = u
           /\ life' \in {Refreshed(l, u, orig, 1)}
                           \cup {Refreshed(l, u, dest, k) : k \in 0 .. BufferSize}
    BY <1>2 DEF ReceiveRrep
  <2>2. PICK u \in Updates(r, dest, src) :
           /\ route' = u
           /\ life' \in {Refreshed(l, u, orig, 1)}
                           \cup {Refreshed(l, u, dest, k) : k \in 0 .. BufferSize}
    BY <2>1
  <2>3. UNCHANGED <<now, lost>>
    BY <1>2 DEF ReceiveRrep
  <2>4. Counted(l1, lost) /\ Punctual(l1, lost, now) /\ Timed(l1, r, lost) /\ RoutesOK(r)
    BY <1>0, LearnedUpdates
  <2> HIDE DEF l1
  <2> DEFINE time == 2 * ActiveRouteTimeout
             m == Learned(l1, dest, time)
  <2>5. Counted(m, lost) /\ Punctual(m, lost, now) /\ Timed(m, u, lost) /\ RoutesOK(u)
    <3>1. time \in Nat
      BY <1>0
    <3> HIDE DEF time
    <3> QED BY <1>0, <2>4, <3>1, LearnedUpdates
  <2>6. l = m
    OBVIOUS
  <2> HIDE DEF l, m
  <2>7. PICK d \in Dest, k \in Nat : life' = Refreshed(l, u, d, k)
    <3>1. 1 \in Nat /\ \A k \in 0 .. BufferSize : k \in Nat
      BY LifetimeAssumption
    <3> QED BY <2>2, <3>1
  <2>8. Counted(life', lost) /\ Punctual(life', lost, now) /\ Timed(life', u, lost)
    <3> DEFINE l2 == Refreshed(l, u, d, k)
    <3>1. Counted(l2, lost) /\ Punctual(l2, lost, now) /\ Timed(l2, u, lost)
      BY <1>0, <2>5, <2>6, RefreshedOK
    <3> HIDE DEF l2
    <3>2. life' = l2
      BY <2>7 DEF l2
    <3> QED BY <3>1, <3>2
  <2> QED BY <1>0, <2>2, <2>3, <2>5, <2>8 DEF LifeInv
<1>3. ASSUME NEW d \in Dest, NEW k \in Nat, life' = Refreshed(life, route, d, k),
             UNCHANGED <<route, now, lost>>
      PROVE  LifeInv'
  <2> DEFINE l2 == Refreshed(life, route, d, k)
  <2>1. Counted(l2, lost) /\ Punctual(l2, lost, now) /\ Timed(l2, route, lost)
    BY <1>0, RefreshedOK
  <2>2. life' = l2
    BY <1>3
  <2> HIDE DEF l2
  <2> QED BY <1>0, <1>3, <2>1, <2>2 DEF LifeInv
<1>4. ASSUME NEW d \in Dest, SendData(d) PROVE LifeInv'
  <2> DEFINE k == 1
  <2>1. k \in Nat /\ life' = Refreshed(life, route, d, k) /\ UNCHANGED <<route, now, lost>>
    BY <1>4 DEF SendData
  <2> HIDE DEF k
  <2> QED BY <1>3, <2>1
<1>5. ASSUME NEW d \in Dest, NEW k \in 1 .. BufferSize, GiveUp(d, k) PROVE LifeInv'
  <2>1. k \in Nat /\ life' = Refreshed(life, route, d, k) /\ UNCHANGED <<route, now, lost>>
    BY <1>5, LifetimeAssumption DEF GiveUp
  <2> QED BY <1>3, <2>1
<1>6. ASSUME NEW m \in Hearable, HelloMessageExpire(m) PROVE LifeInv'
  <2>1. /\ route' = Invalidated(Over(m)) /\ life' \in Reset(life, m)
        /\ lost' = lost \cup {m} /\ now' = now
    BY <1>6 DEF HelloMessageExpire
  <2>2. Counted(life', lost \cup {m}) /\ Timed(life', route, lost \cup {m})
    <3>1. \A l2 \in Reset(life, m) : Counted(l2, lost \cup {m})
                                          /\ Timed(l2, route, lost \cup {m})
      BY <1>0, ResetOK
    <3> QED BY <2>1, <3>1
  <2>3. RoutesOK(route') /\ Timed(life', route', lost')
    BY <1>0, <2>1, <2>2, InvalidatedOK
  <2>4. Punctual(life', lost', now')
    BY <2>1 DEF Punctual
  <2> QED BY <1>0, <2>1, <2>2, <2>3, <2>4 DEF LifeInv
<1>7. ASSUME NEW src \in Hearable, NEW affected \in SUBSET Dest, ReceiveRerr(src, affected)
      PROVE  LifeInv'
  <2>1. route' = Invalidated(Over(src) \cap affected) /\ UNCHANGED <<life, now, lost>>
    BY <1>7 DEF ReceiveRerr
  <2>2. RoutesOK(route') /\ Timed(life, route', lost)
    BY <1>0, <2>1, InvalidatedOK
  <2> QED BY <1>0, <2>1, <2>2 DEF LifeInv
<1>8. ASSUME EntryExpiration PROVE LifeInv'
  BY <1>8, TimerExpirationOK
<1>9. ASSUME Tick PROVE LifeInv'
  <2>1. /\ now' = now + 1 /\ life.timer # now /\ UNCHANGED <<route, life, lost>>
    BY <1>9 DEF Tick
  <2>2. life.timer \in Nat \cup {-1}
    BY <1>0 DEF Counted
  <2>3. Punctual(life, lost, now + 1)
    BY <1>0, <2>1, <2>2 DEF Punctual
  <2> QED BY <1>0, <2>1, <2>3 DEF LifeInv
<1>10. CASE UNCHANGED lifetimeVars
  BY <1>0, <1>10 DEF LifeInv, lifetimeVars
<1>11. CASE LifetimeNext
  BY <1>1, <1>2, <1>4, <1>5, <1>6, <1>7, <1>8, <1>9, <1>11 DEF LifetimeNext
<1> QED BY <1>10, <1>11

(* The inductive invariant: the counts are those of the entries in the      *)
(* queue, and the timer serves them.                                        *)
THEOREM LifetimesCounted == LifetimeSpec => []LifeInv
BY LifeInit, LifeNext, PTL DEF LifetimeSpec

(* A VALID route whose destination's hellos were never missed expires some  *)
(* day: updateRTEntry and updateLifetimeEntry leave an entry for it in      *)
(* rtExpireSeq and the timer runs.                                          *)
THEOREM RoutesAreTimed == LifetimeSpec => []RouteIsTimed
<1>1. LifeInv => RouteIsTimed
  BY DEF LifeInv, Timed, RouteIsTimed, Off
<1> QED BY LifetimesCounted, <1>1, PTL

(* As long as no hello was missed, no handler sets                          *)
(* AODV_ROUTING_TABLE_ENTRY_EXPIRATION_TIMER to a moment that is past.      *)
THEOREM TimerAhead == LifetimeSpec => []TimerNotInPast
<1>1. LifeInv => TimerNotInPast
  BY DEF LifeInv, Counted, Punctual, TimerNotInPast, Stopped, Off
<1> QED BY LifetimesCounted, <1>1, PTL

(* The timer invalidates no route that has a lifetime still to come, in     *)
(* whatever order the entries were added, canceled and popped.              *)
THEOREM LifetimesKept == LifetimeSpec => KeepsItsLifetime
<1> DEFINE Kept == \A d \in Dest : route[d].state = "VALID" /\ route'[d].state = "INVALID" =>
                      Live(life'.queue, d) = {}
<1>1. LifeInv /\ [LifetimeNext]_lifetimeVars => [EntryExpiration => Kept]_lifetimeVars
  BY TimerExpirationOK
<1> HIDE DEF Kept
<1>2. LifetimeSpec => [][EntryExpiration => Kept]_lifetimeVars
  BY LifetimesCounted, <1>1, PTL DEF LifetimeSpec
<1> QED BY <1>2 DEF KeepsItsLifetime, Kept

=============================================================================
