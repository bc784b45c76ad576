----------------------------- MODULE Datagrams -----------------------------
(***************************************************************************)
(* What AODV promises the applications, without routes: each packet is in  *)
(* one place.  A node that has it hands it to a neighbour, keeps it in a   *)
(* buffer of limited size, or drops it; the destination hands it up, once. *)
(* A packet that is on the air for a node may never be received.           *)
(***************************************************************************)
EXTENDS Integers, FiniteSets

CONSTANTS Node, NoNode, Neighbour, Packet, Capacity

VARIABLE place      \* place[p]: where p is

vars == place

Source == [what |-> "source", node |-> NoNode]
Delivered == [what |-> "delivered", node |-> NoNode]
Lost == [what |-> "lost", node |-> NoNode]
Buffered(n) == [what |-> "buffer", node |-> n]
OnAirTo(n) == [what |-> "air", node |-> n]

Init == place = [p \in Packet |-> Source]

Held(n) == {p \in Packet : place[p] = Buffered(n)}
Room(n) == Cardinality(Held(n)) < Capacity

Move(p, where) == place' = [place EXCEPT ![p] = where]

PassOn(n, p) ==
    \/ \E k \in Neighbour[n] : Move(p, OnAirTo(k))
    \/ Room(n) /\ Move(p, Buffered(n))

(* n hears a node that does not hear n.                                     *)
HasOneWayLink(n) == \E k \in Node : n \in Neighbour[k] /\ k \notin Neighbour[n]

(* A node drops no packet of its own as long as it has room, unless it      *)
(* sends it to a node that cannot hear it.                                  *)
Send(p) ==
    /\ place[p] = Source
    /\ \/ PassOn(p.src, p)
       \/ (~Room(p.src) \/ HasOneWayLink(p.src)) /\ Move(p, Lost)

(* A node that has no use for the packet of another may drop it.            *)
Relay(n, p) ==
    /\ place[p] = OnAirTo(n) /\ p.dst # n
    /\ PassOn(n, p) \/ Move(p, Lost)

Deliver(p) == place[p] = OnAirTo(p.dst) /\ Move(p, Delivered)

(* The packets for d wait together, and are sent to the same neighbour or   *)
(* given up together.                                                       *)
Flush(n, d) ==
    \E where \in {Lost} \cup {OnAirTo(k) : k \in Neighbour[n]} :
        place' = [p \in Packet |-> IF p \in Held(n) /\ p.dst = d THEN where ELSE place[p]]

Next ==
    \/ \E p \in Packet :
          \/ Send(p) \/ Deliver(p)
          \/ \E n \in Node : Relay(n, p)
    \/ \E n, d \in Node : Flush(n, d)

Spec == Init /\ [][Next]_vars

=============================================================================
