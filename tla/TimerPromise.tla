---------------------------- MODULE TimerPromise ----------------------------
(***************************************************************************)
(* What the timer service promises its clients, without message objects:   *)
(* each index has at most one deadline, setting it again replaces the      *)
(* deadline, cancelling removes it, the callback of an index runs exactly  *)
(* when the clock stands at the deadline last set and not cancelled, and   *)
(* the clock never passes a deadline.  A disabled module has no deadlines. *)
(***************************************************************************)
EXTENDS Integers

CONSTANTS Index, Delay, MaxTime

VARIABLES deadline, now, disabled, fired

vars == <<deadline, now, disabled, fired>>

None == -1

Init ==
    /\ deadline = [i \in Index |-> None]
    /\ now = 0
    /\ disabled = FALSE
    /\ fired = -1

Set(i, d) ==
    /\ ~disabled
    /\ deadline' = [deadline EXCEPT ![i] = now + d]
    /\ fired' = -1
    /\ UNCHANGED <<now, disabled>>

Cancel(i) ==
    /\ ~disabled
    /\ deadline' = [deadline EXCEPT ![i] = None]
    /\ fired' = -1
    /\ UNCHANGED <<now, disabled>>

Fire(i) ==
    /\ ~disabled
    /\ deadline[i] = now
    /\ deadline' = [deadline EXCEPT ![i] = None]
    /\ fired' = i
    /\ UNCHANGED <<now, disabled>>

Disable ==
    /\ ~disabled
    /\ disabled' = TRUE
    /\ deadline' = [i \in Index |-> None]
    /\ fired' = -1
    /\ UNCHANGED now

Tick ==
    /\ now < MaxTime
    /\ \A i \in Index : deadline[i] # now
    /\ now' = now + 1
    /\ fired' = -1
    /\ UNCHANGED <<deadline, disabled>>

Next ==
    \/ \E i \in Index : Cancel(i) \/ Fire(i)
    \/ \E i \in Index, d \in Delay : Set(i, d)
    \/ Disable
    \/ Tick

Spec == Init /\ [][Next]_vars

=============================================================================
