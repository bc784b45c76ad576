----------------------------- MODULE AodvLifetime -----------------------------
(***************************************************************************)
(* How long the routes of one AODV node live: the queue rtExpireSeq of     *)
(* lifetime entries, the count rteluc of entries per destination, and the  *)
(* one timer that serves the queue (AodvRouting.cc).                       *)
(*                                                                         *)
(* Every update of a route and every packet sent over it adds an entry; an *)
(* entry that runs out lowers the count, and a route becomes INVALID when  *)
(* its count reaches 0.  Sequence numbers and hop counts only decide which *)
(* next hop a route keeps, so here that is a free choice.  The clock of    *)
(* the timer is the clock of the simulation (timerDrift 1).                *)
(***************************************************************************)
EXTENDS Lists, Bags, FiniteSetsExt

CONSTANTS
    Dest,               \* addresses that may have a routing table entry
    Hearable,          \* those the node may hear
    ActiveRouteTimeout, \* activeRouteTimeout
    BufferSize,         \* netBufferSize
    MaxTime,            \* bound on the clock
    MaxEntries,         \* bound on the entries in rtExpireSeq
    MaxMissed           \* bound on missed hellos

ASSUME LifetimeAssumption ==
    /\ Hearable \subseteq Dest
    /\ ActiveRouteTimeout \in Nat \ {0}
    /\ BufferSize \in Nat /\ MaxTime \in Nat /\ MaxEntries \in Nat /\ MaxMissed \in Nat

VARIABLES
    route,  \* route[d]: [state, next] of the routing table
    life,   \* [queue: rtExpireSeq, count: rteluc, timer: when the timer fires or Off]
    now,    \* simTime()
    breaks, \* missed hellos so far
    lost    \* neighbours whose hellos were missed at some time (history)

lifetimeVars == <<route, life, now, breaks, lost>>

Off == -1

NoRoute == [state |-> "NOT_DEFINED", next |-> "NULL"]

LifetimeInit ==
    /\ route = [d \in Dest |-> NoRoute]
    /\ life = [queue |-> EmptyBag, count |-> [d \in Dest |-> 0], timer |-> Off]
    /\ now = 0
    /\ breaks = 0
    /\ lost = {}

-----------------------------------------------------------------------------
(* Entries of the queue q                                                   *)
Lasting(d, t) == [dest |-> d, lifetime |-> t, canceled |-> FALSE]

Live(q, d) == {e \in BagToSet(q) : e.dest = d /\ ~e.canceled}

Top(q) == Min({e.lifetime : e \in BagToSet(q)})

Push(l, e, k) ==
    [queue |-> l.queue (+) [x \in {e} |-> k],
     count |-> [l.count EXCEPT ![e.dest] = @ + k],
     timer |-> l.timer]

(* getRemainingLifetimeTime(d): the latest lifetime, or 0                   *)
RemainingLifetime(q, d) == Max({0} \cup {e.lifetime : e \in Live(q, d)})

(* updateRTEntry: the entry outlasts those the destination has by time; the *)
(* timer is armed when it is not, and again when the entry is the new top.  *)
Learned(l, d, time) ==
    LET old == RemainingLifetime(l.queue, d)
        e == Lasting(d, IF old <= 0 THEN now + time ELSE old + time)
        pushed == Push(l, e, 1)
        canceled == l.queue # EmptyBag /\ e.lifetime < Top(l.queue)
    IN  [pushed EXCEPT !.timer = IF @ # Off /\ ~canceled THEN @ ELSE Top(pushed.queue)]

(* What updateEntry leaves of a route to d over next: a VALID entry may     *)
(* have been better.                                                        *)
Updates(r, d, next) ==
    {[r EXCEPT ![d] = [state |-> "VALID", next |-> next]]}
        \cup (IF r[d].state = "VALID" THEN {r} ELSE {})

(* updateLifetimeEntry that does not count its entries                      *)
RefreshedUncounted(l, r, d, k) ==
    IF r[d].state = "VALID" /\ k > 0
    THEN [l EXCEPT !.queue = @ (+) [x \in {Lasting(d, now + ActiveRouteTimeout)} |-> k]]
    ELSE l

(* updateLifetimeEntry(d, activeRouteTimeout), k times: no timer is armed   *)
Refreshed(l, r, d, k) ==
    IF r[d].state = "VALID" /\ k > 0
    THEN Push(l, Lasting(d, now + ActiveRouteTimeout), k)
    ELSE l

(* resetLifetimeEntry(d): the first entry of d in the heap, whichever it    *)
(* is, is canceled and the count stays; without an entry the count becomes  *)
(* 0.                                                                       *)
Reset(l, d) ==
    LET entries == {e \in BagToSet(l.queue) : e.dest = d}
    IN  IF entries = {}
        THEN {[l EXCEPT !.count = [@ EXCEPT ![d] = 0]]}
        ELSE {[l EXCEPT !.queue = (@ (-) SetToBag({e}))
                                  (+) SetToBag({[e EXCEPT !.canceled = TRUE]})] :
                  e \in entries}

(* A timer set to a moment that is past makes scheduleAt() stop the         *)
(* simulation.                                                              *)
Stopped == life.timer # Off /\ life.timer < now

HasRoom(k) == ~Stopped /\ BagCardinality(life.queue) + k <= MaxEntries

-----------------------------------------------------------------------------
(* processAodvRreqPackage: the previous hop is learned in any case, the     *)
(* originator unless the RREQ was seen before.                              *)
ReceiveRreq(src, orig, seen) ==
    /\ HasRoom(2)
    /\ LET l == Learned(life, src, ActiveRouteTimeout)
       IN  \E r \in Updates(route, src, src) :
             IF seen
             THEN life' = l /\ route' = r
             ELSE /\ life' = Learned(l, orig, ActiveRouteTimeout)
                  /\ route' \in Updates(r, orig, src)
    /\ UNCHANGED <<now, breaks, lost>>

(* processAodvRrepPackage: a RREP of the destination lasts twice as long.   *)
(* It is passed on, which refreshes the route to its originator, or answers *)
(* this node, which sends the packets that waited: every packet in the      *)
(* buffer refreshes the route, also those for other destinations (none      *)
(* there is like a RREP that goes no further).                              *)
ReceiveRrep(src, dest, orig) ==
    /\ HasRoom(2 + BufferSize)
    /\ LET l == Learned(Learned(life, src, ActiveRouteTimeout), dest, 2 * ActiveRouteTimeout)
       IN  \E r \in Updates(route, src, src) : \E u \in Updates(r, dest, src) :
             /\ route' = u
             /\ life' \in {Refreshed(l, u, orig, 1)}
                             \cup {Refreshed(l, u, dest, k) : k \in 0 .. BufferSize}
    /\ UNCHANGED <<now, breaks, lost>>

(* fromApplicationLayer and processDataPackage with a VALID route           *)
SendData(d) ==
    /\ HasRoom(1)
    /\ route[d].state = "VALID"
    /\ life' = Refreshed(life, route, d, 1)
    /\ UNCHANGED <<route, now, breaks, lost>>

(* AODV_RREQ_EXPIRATION_TIMER, giving up: the packets for d are deleted and *)
(* the route, if there is one, is refreshed all the same.                   *)
GiveUp(d, k) ==
    /\ HasRoom(k)
    /\ life' = Refreshed(life, route, d, k)
    /\ UNCHANGED <<route, now, breaks, lost>>

Invalidated(D) ==
    [d \in Dest |-> IF d \in D THEN [route[d] EXCEPT !.state = "INVALID"] ELSE route[d]]

Over(m) == {d \in Dest : route[d].state = "VALID" /\ route[d].next = m}

(* AODV_HELLO_MESSAGE_EXPIRE_TIMER                                          *)
HelloMessageExpire(m) ==
    /\ ~Stopped
    /\ breaks < MaxMissed
    /\ breaks' = breaks + 1
    /\ route' = Invalidated(Over(m))
    /\ life' \in Reset(life, m)
    /\ lost' = lost \cup {m}
    /\ UNCHANGED now

(* processAodvRerrPackage                                                   *)
ReceiveRerr(src, affected) ==
    /\ ~Stopped
    /\ route' = Invalidated(Over(src) \cap affected)
    /\ UNCHANGED <<life, now, breaks, lost>>

(* AODV_ROUTING_TABLE_ENTRY_EXPIRATION_TIMER: every entry that ran out is   *)
(* popped; each one that is not canceled lowers its count, and the count    *)
(* that becomes 0 invalidates the route.                                    *)
Due == {e \in BagToSet(life.queue) : e.lifetime <= now}
DueCount(d) == SumOver(life.queue, {e \in Due : e.dest = d /\ ~e.canceled})
Pending == [e \in BagToSet(life.queue) \ Due |-> life.queue[e]]

(* The callback without the re-arming                                       *)
EntryExpirationUnarmed ==
    /\ life.timer = now
    /\ route' = Invalidated({d \in Dest : /\ route[d].state = "VALID"
                                          /\ life.count[d] \in 1 .. DueCount(d)})
    /\ life' = [queue |-> Pending,
                count |-> [d \in Dest |-> life.count[d] - DueCount(d)],
                timer |-> Off]
    /\ UNCHANGED <<now, breaks, lost>>

EntryExpiration ==
    /\ life.timer = now
    /\ route' = Invalidated({d \in Dest : /\ route[d].state = "VALID"
                                          /\ life.count[d] \in 1 .. DueCount(d)})
    /\ life' = [queue |-> Pending,
                count |-> [d \in Dest |-> life.count[d] - DueCount(d)],
                timer |-> IF Pending = EmptyBag THEN Off ELSE Top(Pending)]
    /\ UNCHANGED <<now, breaks, lost>>

Tick ==
    /\ ~Stopped
    /\ now < MaxTime
    /\ life.timer # now
    /\ now' = now + 1
    /\ UNCHANGED <<route, life, breaks, lost>>

LifetimeNext ==
    \/ \E src \in Hearable, d \in Dest :
          \/ \E seen \in BOOLEAN : ReceiveRreq(src, d, seen)
          \/ \E orig \in Dest : ReceiveRrep(src, d, orig)
    \/ \E d \in Dest :
          \/ SendData(d)
          \/ \E k \in 1 .. BufferSize : GiveUp(d, k)
    \/ \E m \in Hearable :
          \/ HelloMessageExpire(m)
          \/ \E affected \in SUBSET Dest : ReceiveRerr(m, affected)
    \/ EntryExpiration
    \/ Tick

LifetimeSpec == LifetimeInit /\ [][LifetimeNext]_lifetimeVars

-----------------------------------------------------------------------------
(* "update a lifetime of a VALID routing table entry (to no less then       *)
(* simTime() + time)" (AodvRouting.h:163): the timer does not invalidate a  *)
(* route while one of its lifetimes is still to come, in whatever order the *)
(* entries were added, canceled and popped.                                 *)
KeepsItsLifetime ==
    [][EntryExpiration =>
          \A d \in Dest : route[d].state = "VALID" /\ route'[d].state = "INVALID" =>
              Live(life'.queue, d) = {}]_lifetimeVars

(* A route to a destination whose hellos were never missed expires some     *)
(* day: a lifetime that counts for it is in the queue and the timer is set. *)
RouteIsTimed ==
    \A d \in Dest \ lost :
        route[d].state = "VALID" => Live(life.queue, d) # {} /\ life.timer # Off

(* No handler sets the timer to a moment that is past, as long as no hello  *)
(* was missed.                                                              *)
TimerNotInPast == lost = {} => ~Stopped

=============================================================================
