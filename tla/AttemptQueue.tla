---------------------------- MODULE AttemptQueue ----------------------------
(***************************************************************************)
(* What TunableMAC promises the network layer, without radio, timers and   *)
(* duty cycle: a queue of limited size whose head is tried a fixed number  *)
(* of times and then leaves.  Only one packet may leave untried: the one   *)
(* that came to an empty queue and was overlooked.                         *)
(***************************************************************************)
EXTENDS Integers, Sequences

CONSTANTS Packet, Capacity, Attempts

VARIABLES
    unsent,         \* packets that were not given to the queue yet
    queue,
    tries,          \* tries[p]: how often p was tried
    overlooked      \* packets that no attempts were granted to

vars == <<unsent, queue, tries, overlooked>>

Init ==
    /\ unsent = Packet
    /\ queue = <<>>
    /\ tries = [p \in Packet |-> 0]
    /\ overlooked = {}

TryHead(q) ==
    /\ q # <<>> /\ Head(q) \notin overlooked /\ tries[Head(q)] < Attempts
    /\ tries' = [tries EXCEPT ![Head(q)] = @ + 1]

(* A packet is refused if the queue is full.  One that finds it empty may   *)
(* be tried at once, or be overlooked.                                      *)
Give(p) ==
    /\ p \in unsent /\ unsent' = unsent \ {p}
    /\ queue' = IF Len(queue) < Capacity THEN Append(queue, p) ELSE queue
    /\ \/ UNCHANGED <<tries, overlooked>>
       \/ queue = <<>> /\ TryHead(queue') /\ UNCHANGED overlooked
       \/ queue = <<>> /\ overlooked' = overlooked \cup {p} /\ UNCHANGED tries

(* All attempts were made or, for a packet that was overlooked, none.       *)
Finished(p) == p \in overlooked \/ tries[p] = Attempts

(* A head that is finished leaves, and the next may be tried.               *)
Leave ==
    /\ queue # <<>> /\ Finished(Head(queue))
    /\ queue' = Tail(queue)
    /\ UNCHANGED tries \/ TryHead(queue')
    /\ UNCHANGED <<unsent, overlooked>>

(* The head is tried, and may leave with its last attempt.                  *)
Try ==
    /\ TryHead(queue)
    /\ \/ UNCHANGED queue
       \/ tries'[Head(queue)] = Attempts /\ queue' = Tail(queue)
    /\ UNCHANGED <<unsent, overlooked>>

Next ==
    \/ \E p \in Packet : Give(p)
    \/ Leave
    \/ Try

Spec == Init /\ [][Next]_vars

=============================================================================
