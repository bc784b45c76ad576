------------------------------- MODULE MCTMac -------------------------------
(* TMac on two nodes, n3 being off.                                         *)
EXTENDS TMac, TLC

CONSTANTS n1, n2, n3

(* The default parameters: three packets for a buffer of two, all for n2    *)
(* to hear.                                                                *)
Default ==
    [load                |-> n1 :> <<n2, n2, Broadcast>> @@ n2 :> <<>>,
     macBufferSize       |-> 2,
     maxTxRetries        |-> 2,
     useRtsCts           |-> TRUE,
     conservativeTA      |-> TRUE,
     disableTAextension  |-> FALSE,
     collisionResolution |-> 1,
     maxSN               |-> 0]

(* SMAC.ini, with a renewed schedule: a packet nobody answers, which the    *)
(* other node overhears.                                                   *)
SMac == [Default EXCEPT !.load = n1 :> <<n3>> @@ n2 :> <<>>,
                        !.macBufferSize = 1,
                        !.conservativeTA = FALSE,
                        !.disableTAextension = TRUE,
                        !.collisionResolution = 0,
                        !.maxSN = 1]

(* Without RTS and CTS, and without backing off from what is overheard.     *)
WithoutRts == [Default EXCEPT !.load = n1 :> <<n2>> @@ n2 :> <<n1>>,
                              !.macBufferSize = 1,
                              !.useRtsCts = FALSE,
                              !.collisionResolution = 2]

AllSettings == {Default, SMac, WithoutRts}

=============================================================================
