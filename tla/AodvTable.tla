------------------------------ MODULE AodvTable ------------------------------
(***************************************************************************)
(* The AODV routing table, node/communication/routing/aodvRouting/         *)
(* RoutingTable_rt.cc, as operators on the table t of one node: a function *)
(* from destinations to entries.  A destination without an entry has       *)
(* NoEntry, whose fields are what the getters return for it (NOT_DEFINED,  *)
(* 0, 0, NULL).  The flag isDestinationValid is left out: it is stored and *)
(* never read.                                                             *)
(***************************************************************************)
EXTENDS Naturals

CONSTANTS Node, NoNode

ASSUME NoNodeAssumption == NoNode \notin Node

States == {"NOT_DEFINED", "VALID", "INVALID"}

Entry == [state : States, seq : Nat, hops : Nat,
          next : Node \cup {NoNode}, prec : SUBSET Node]

Table == [Node -> Entry]

NoEntry == [state |-> "NOT_DEFINED", seq |-> 0, hops |-> 0,
            next |-> NoNode, prec |-> {}]

EmptyTable == [d \in Node |-> NoEntry]

HasEntry(t, d) == t[d].state # "NOT_DEFINED"
IsRouteValid(t, d) == t[d].state = "VALID"

(* updateEntry(e) overwrites an entry that is not VALID, or has an older    *)
(* sequence number, or a longer route.  The last alternative is written in  *)
(* the code with an assignment, (ec->destinationSeqNum =                    *)
(* e.destinationSeqNum) && (ec->hopCount > e.hopCount): it compares the     *)
(* hops only when the offered number is not 0, and it leaves the offered    *)
(* number behind in an entry it does not overwrite.  Precursors are merged  *)
(* with the empty list every caller passes.                                 *)
Overwrites(e, seq, hops) ==
    \/ e.state # "VALID"
    \/ e.seq < seq
    \/ seq # 0 /\ e.hops > hops

(* updateEntry that stores the destination as its own next hop.             *)
UpdateEntryDirect(t, d, seq, hops, next) ==
    [t EXCEPT ![d] =
        IF Overwrites(@, seq, hops)
        THEN [state |-> "VALID", seq |-> seq, hops |-> hops, next |-> d, prec |-> @.prec]
        ELSE [@ EXCEPT !.seq = seq]]

UpdateEntry(t, d, seq, hops, next) ==
    [t EXCEPT ![d] =
        IF Overwrites(@, seq, hops)
        THEN [state |-> "VALID", seq |-> seq, hops |-> hops,
              next |-> next, prec |-> @.prec]
        ELSE [@ EXCEPT !.seq = seq]]

UpdateState(t, d, st) ==
    [t EXCEPT ![d].state = IF HasEntry(t, d) THEN st ELSE @]

(* updatePrecursor that forgets who asked.                                  *)
ForgetPrecursor(t, d, p) ==
    [t EXCEPT ![d].prec = IF HasEntry(t, d) THEN {} ELSE @]

UpdatePrecursor(t, d, p) ==
    [t EXCEPT ![d].prec = IF HasEntry(t, d) THEN @ \cup {p} ELSE @]

(* updateSeqNum for every pair of the function seqs: an older number is     *)
(* ignored                                                                  *)
UpdateSeqNums(t, seqs) ==
    [d \in Node |->
        IF d \in DOMAIN seqs /\ HasEntry(t, d) /\ t[d].seq < seqs[d]
        THEN [t[d] EXCEPT !.seq = seqs[d]]
        ELSE t[d]]

(* The destinations of D routed over neib, which a broken link invalidates, *)
(* and the precursors that used them.                                       *)
RoutedOver(t, neib, D) == {d \in D : IsRouteValid(t, d) /\ t[d].next = neib}

Precursors(t, D) == UNION {t[d].prec : d \in D}

(* reportLinkBroken(neib): the node itself lost the link                    *)
ReportLinkBroken(t, neib) ==
    [d \in Node |->
        IF d \in RoutedOver(t, neib, Node)
        THEN [t[d] EXCEPT !.state = "INVALID", !.seq = @ + 1]
        ELSE t[d]]

(* forwardLinkBroken(src, affectedDest): the neighbour src reported it      *)
ForwardLinkBroken(t, src, D) ==
    [d \in Node |->
        IF d \in RoutedOver(t, src, D)
        THEN [t[d] EXCEPT !.state = "INVALID"]
        ELSE t[d]]

=============================================================================
