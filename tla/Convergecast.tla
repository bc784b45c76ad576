--------------------------- MODULE Convergecast ----------------------------
(***************************************************************************)
(* What the MAC of TSTP promises the sensors and the sink, without frames: *)
(* messages converge on the sink.  A node that keeps a message hands       *)
(* copies to nodes nearer the sink, and is relieved of its own by another  *)
(* that keeps it too.                                                      *)
(***************************************************************************)
EXTENDS Integers, Sequences

CONSTANTS Node, Sink, Neighbour, Dist, Message

VARIABLES
    kept,           \* kept[n]: the messages that n has a copy of
    accepted,       \* messages that were given to the service
    expired,        \* messages whose deadline is past
    received,       \* messages that reached the sink
    delivered       \* what the sink handed up, in this order

vars == <<kept, accepted, expired, received, delivered>>

Init ==
    /\ kept = [n \in Node |-> {}]
    /\ accepted = {} /\ expired = {} /\ received = {} /\ delivered = <<>>

(* An origin gives its messages in the order of their times.                *)
Accept(msg) ==
    /\ msg \notin accepted
    /\ \A other \in Message \ accepted : other.origin = msg.origin => msg.time <= other.time
    /\ accepted' = accepted \cup {msg}
    /\ kept' = [kept EXCEPT ![msg.origin] = @ \cup {msg}]
    /\ UNCHANGED <<expired, received, delivered>>

Expire(msg) ==
    /\ msg \in accepted
    /\ expired' = expired \cup {msg}
    /\ UNCHANGED <<kept, accepted, received, delivered>>

(* A node throws away late messages only.                                   *)
Discard(n) ==
    /\ kept' = [kept EXCEPT ![n] = @ \ expired]
    /\ UNCHANGED <<accepted, expired, received, delivered>>

(* n, which keeps its own copy, relieves others of theirs, not the sink.    *)
Relieve(n, msg) ==
    /\ msg \in kept[n]
    /\ UNCHANGED <<accepted, expired, received, delivered>>
    /\ \E others \in SUBSET (Neighbour[n] \ {n, Sink}) :
          kept' = [x \in Node |-> IF x \in others THEN kept[x] \ {msg} ELSE kept[x]]

(* The sink hands up what is newer than all it handed up of this origin.    *)
IsNews(msg) ==
    \A i \in DOMAIN delivered : delivered[i].origin = msg.origin => delivered[i].time < msg.time

Nearer(n) == {x \in Neighbour[n] : Dist[x] < Dist[n]}

(* n hands a copy to some of the nodes that hear it and are nearer.  One    *)
(* that is late is of use to the sink only.                                 *)
Hand(n, msg) ==
    /\ msg \in kept[n]
    /\ UNCHANGED <<accepted, expired>>
    /\ \E hearers \in SUBSET Nearer(n) :
         /\ kept' = [x \in Node |-> IF x \in hearers /\ msg \notin expired
                                    THEN kept[x] \cup {msg} ELSE kept[x]]
         /\ received' = IF Sink \in hearers THEN received \cup {msg} ELSE received
         /\ delivered' = IF Sink \in hearers /\ IsNews(msg)
                         THEN Append(delivered, msg) ELSE delivered

(* The sink keeps a message until it has answered with it.                  *)
Answer(msg) ==
    /\ msg \in received
    /\ kept' = [kept EXCEPT ![Sink] = @ \ {msg}]
    /\ UNCHANGED <<accepted, expired, received, delivered>>

Next ==
    \/ \E n \in Node :
          \/ Discard(n)
          \/ \E msg \in Message : Relieve(n, msg) \/ Hand(n, msg)
    \/ \E msg \in Message : Accept(msg) \/ Expire(msg) \/ Answer(msg)

Spec == Init /\ [][Next]_vars

=============================================================================
