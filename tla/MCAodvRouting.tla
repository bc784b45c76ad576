--------------------------- MODULE MCAodvRouting ---------------------------
(* AodvRouting on radio topologies of three or four nodes.                  *)
EXTENDS AodvRouting, TLC

CONSTANTS n1, n2, n3, n4

(* n1 - n2 - n3                                                             *)
LineNeighbour == n1 :> {n2} @@ n2 :> {n1, n3} @@ n3 :> {n2}
LineDist == [n \in {n1, n2, n3} |-> [m \in {n1, n2, n3} |->
                IF n = m THEN 0 ELSE IF n2 \in {n, m} THEN 1 ELSE 2]]

(* n1 - n2 - n3, and n4 out of range                                        *)
AwayNeighbour == LineNeighbour @@ n4 :> {}
AwayDist == [n \in {n1, n2, n3, n4} |-> [m \in {n1, n2, n3, n4} |->
                IF n = m THEN 0 ELSE IF {n, m} = {n1, n3} THEN 2 ELSE 1]]

(* n1 - n2, and n3 out of range                                             *)
PairNeighbour == n1 :> {n2} @@ n2 :> {n1} @@ n3 :> {}
PairDist == [n \in {n1, n2, n3} |-> [m \in {n1, n2, n3} |-> IF n = m THEN 0 ELSE 1]]

ToPeer == {[id |-> i, src |-> n1, dst |-> n2] : i \in 1 .. 2}
ToFar == {[id |-> 3, src |-> n1, dst |-> n3]}
PeerAndFar == {[id |-> 1, src |-> n1, dst |-> n2]} \cup ToFar
TwoPeerAndFar == ToPeer \cup ToFar
ToAway == {[id |-> 1, src |-> n1, dst |-> n4]}

=============================================================================
