---------------------------- MODULE MCMac802154 ----------------------------
(* Mac802154 on one PAN, and on two with a node between them.               *)
EXTENDS Mac802154, TLC

CONSTANTS a, b, n1, n2

(* Two nodes that ask for a GTS each, no traffic, and no inactive part      *)
TwoNodes ==
    [on         |-> {a, n1, n2},
     period     |-> 4,
     offset     |-> [c \in Coord |-> 0],
     requestGTS |-> a :> 0 @@ b :> 0 @@ n1 :> 1 @@ n2 :> 2,
     gtsOnly    |-> FALSE,
     load       |-> {}]

(* One node, and packets in both directions                                 *)
Traffic ==
    [TwoNodes EXCEPT !.on = {a, n1},
                     !.period = 5,
                     !.load = {[src |-> n1, dst |-> a, sn |-> 1],
                               [src |-> n1, dst |-> Broadcast, sn |-> 2],
                               [src |-> a, dst |-> n1, sn |-> 1]}]

GtsTraffic == [Traffic EXCEPT !.gtsOnly = TRUE]

(* Two PANs, whose frames start at different times                          *)
TwoPans ==
    [TwoNodes EXCEPT !.on = {a, b, n1},
                     !.period = 5,
                     !.offset = a :> 0 @@ b :> 2,
                     !.load = {[src |-> n1, dst |-> a, sn |-> 1]}]

(* The node asks for more slots than a frame has to give.                   *)
TooManySlots ==
    [TwoPans EXCEPT !.requestGTS = a :> 0 @@ b :> 0 @@ n1 :> 4 @@ n2 :> 0]

AllSettings == {TwoNodes, Traffic, GtsTraffic, TwoPans, TooManySlots}

=============================================================================
