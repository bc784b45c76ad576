----------------------------- MODULE LossyLink -----------------------------
(***************************************************************************)
(* What T-MAC promises the network layers above it, without                *)
(* schedules, timers and control packets.  Each node has a queue of the    *)
(* packets it was given.  The head of a queue may be put on the air as     *)
(* often as the node likes, and what is on the air may be lost at any      *)
(* moment; a packet is handed up at most once, in the order of its source, *)
(* and leaves its queue because it was broadcast, because it was delivered *)
(* and that was acknowledged, or because the node gave up on it.           *)
(***************************************************************************)
EXTENDS Integers, Sequences

CONSTANTS Node, Address, Broadcast

VARIABLES
    capacity,   \* the packets a queue has room for
    given,      \* given[n]: how many packets n was given
    queue,      \* queue[n]: those it still holds
    link,       \* link[k]: the packet on its way to k, if there is one
    delivered,  \* delivered[k]: the packets handed up at k
    acked       \* the packets that left their queue acknowledged

vars == <<capacity, given, queue, link, delivered, acked>>

Init ==
    /\ capacity \in Nat
    /\ given = [n \in Node |-> 0]
    /\ queue = [n \in Node |-> <<>>]
    /\ link = [n \in Node |-> {}]
    /\ delivered = [n \in Node |-> <<>>]
    /\ acked = {}

(* Of what is on the air in f, some is lost.                                *)
Carries(f) ==
    \E lost \in SUBSET Node : link' = [k \in Node |-> IF k \in lost THEN {} ELSE f[k]]

Pop(n) == queue' = [queue EXCEPT ![n] = Tail(@)]

(* A packet comes from above, and is refused if the queue is full.          *)
Give(n, dst) ==
    /\ given' = [given EXCEPT ![n] = @ + 1]
    /\ queue' = [queue EXCEPT ![n] =
           IF Len(@) >= capacity THEN @
           ELSE Append(@, [src |-> n, dst |-> dst, sn |-> given'[n]])]
    /\ Carries(link)
    /\ UNCHANGED <<capacity, delivered, acked>>

(* The head of the queue goes on the air and destroys what was there.       *)
Send(n) ==
    /\ queue[n] # <<>>
    /\ Carries([k \in Node |-> IF k = n THEN {} ELSE {Head(queue[n])}])
    /\ IF Head(queue[n]).dst = Broadcast THEN Pop(n) ELSE UNCHANGED queue
    /\ UNCHANGED <<capacity, given, delivered, acked>>

(* A packet is handed up if it is newer than those of its source before.    *)
Receive(k, p) ==
    /\ p \in link[k] /\ p.dst \in {k, Broadcast}
    /\ LET new == \A i \in DOMAIN delivered[k] :
                     delivered[k][i].src = p.src => delivered[k][i].sn < p.sn
       IN  delivered' = [delivered EXCEPT ![k] = IF new THEN Append(@, p) ELSE @]
    /\ Carries([link EXCEPT ![k] = {}])
    /\ UNCHANGED <<capacity, given, queue, acked>>

(* The node learns that the head was delivered.                             *)
Acknowledge(n) ==
    /\ queue[n] # <<>>
    /\ Head(queue[n]).dst \in Node
    /\ LET d == delivered[Head(queue[n]).dst]
       IN  \E i \in DOMAIN d : d[i] = Head(queue[n])
    /\ Pop(n)
    /\ acked' = acked \cup {Head(queue[n])}
    /\ Carries(link)
    /\ UNCHANGED <<capacity, given, delivered>>

(* A packet for one node may be given up, delivered or not.                 *)
GiveUp(n) ==
    /\ queue[n] # <<>>
    /\ Head(queue[n]).dst # Broadcast
    /\ Pop(n)
    /\ Carries(link)
    /\ UNCHANGED <<capacity, given, delivered, acked>>

Lose ==
    /\ Carries(link)
    /\ UNCHANGED <<capacity, given, queue, delivered, acked>>

Next ==
    \/ \E n \in Node :
          \/ \E dst \in Address : Give(n, dst)
          \/ Send(n) \/ Acknowledge(n) \/ GiveUp(n)
          \/ \E p \in link[n] : Receive(n, p)
    \/ Lose

Spec == Init /\ [][Next]_vars

=============================================================================
