----------------------------- MODULE TrustLease -----------------------------
(***************************************************************************)
(* What the key exchange of TSTP promises, without keys and messages.  The *)
(* sink trusts a sensor as long as a key lives, a sensor trusts the sink   *)
(* when the sink has just taken it in, and starts over only when the sink  *)
(* asks it to.  Time is counted in half periods of the sink's key manager. *)
(***************************************************************************)
EXTENDS Integers

CONSTANTS Sensor, Never, KeyExpiry, Window

VARIABLES
    now,
    lease,          \* lease[n]: since when the sink trusts n, or Never
    chances,        \* how many sensors the sink may still take in
    asked,          \* sensors that the sink asks to start over
    trusting        \* sensors that trust the sink

vars == <<now, lease, chances, asked, trusting>>

Init ==
    /\ now = 0
    /\ lease = [n \in Sensor |-> Never]
    /\ chances = 0
    /\ asked = {} /\ trusting = {}

Ended(n, time) == lease[n] # Never /\ time - lease[n] > KeyExpiry

(* The sink ends the leases that are over, all of them and no others, and   *)
(* then asks one sensor that it does not trust, which is one more chance.   *)
Manage ==
    /\ lease' = [n \in Sensor |-> IF Ended(n, now') THEN Never ELSE lease[n]]
    /\ \/ /\ \A n \in Sensor : lease'[n] # Never
          /\ asked' = {}
          /\ chances' \in 0 .. chances
       \/ \E n \in Sensor :
             /\ lease'[n] = Never
             /\ asked' = {n}
             /\ chances' \in 1 .. chances + 1

Tick ==
    /\ now' = now + 1
    /\ IF now' % 2 = 0 THEN Manage ELSE asked' = {} /\ UNCHANGED <<lease, chances>>
    /\ UNCHANGED trusting

Grant(n) ==
    /\ lease[n] = Never /\ chances > 0
    /\ lease' = [lease EXCEPT ![n] = now]
    /\ chances' = chances - 1
    /\ UNCHANGED <<now, asked, trusting>>

(* The sink still trusts n when n comes to trust it, and does so since the  *)
(* last half period and the same window of the one-time passwords.          *)
Accept(n) ==
    /\ lease[n] # Never
    /\ now - lease[n] \in {0, 1}
    /\ lease[n] \div Window = now \div Window
    /\ trusting' = trusting \cup {n}
    /\ UNCHANGED <<now, lease, chances, asked>>

StartOver(n) ==
    /\ n \in asked
    /\ asked' \in SUBSET asked
    /\ trusting' = trusting \ {n}
    /\ UNCHANGED <<now, lease, chances>>

Next ==
    \/ Tick
    \/ \E n \in Sensor : Grant(n) \/ Accept(n) \/ StartOver(n)

Spec == Init /\ [][Next]_vars

=============================================================================
