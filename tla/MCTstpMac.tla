----------------------------- MODULE MCTstpMac -----------------------------
(* TstpMac with a sensor, two relays that hear each other, and the sink.    *)
EXTENDS TstpMac, TLC

CONSTANTS s, a, b, sink

DiamondNeighbour == s :> {a, b} @@ a :> {s, b, sink} @@ b :> {s, a, sink} @@ sink :> {a, b}
DiamondDist == s :> 2 @@ a :> 1 @@ b :> 1 @@ sink :> 0

(* The relays are interchangeable.                                          *)
Relays == Permutations({a, b})

TwoMessages == {[origin |-> s, time |-> t] : t \in 1 .. 2}

(* Bound: only the older message is late, at any moment, on its way with    *)
(* one that is not.  When both are late, no copy matters.                   *)
OnlyOlderIsLate == \A msg \in expired : msg.time = 1

=============================================================================
