---------------------------- MODULE TimerService ----------------------------
(***************************************************************************)
(* The timer service every node module (radio, MAC, routing, application)  *)
(* inherits: helpStructures/TimerService.cc.  A timer is a slot of the     *)
(* vector timerMessages that points to a message object, and the message   *)
(* object sits in the simulation kernel's future event set (fes).  The     *)
(* model keeps the two apart, because everything that can go wrong here is *)
(* a disagreement between them: a slot pointing to an object that was      *)
(* deleted, or a scheduled object no slot points to.                       *)
(*                                                                         *)
(* Objects are addresses: "new" may return any address not in use, so an   *)
(* address freed by a delete can be the address of a later object.         *)
(***************************************************************************)
EXTENDS Integers, FiniteSets

CONSTANTS
    MinSize,    \* TIMER_MIN_SIZE, the growth step of the vector (8)
    MaxSize,    \* TIMER_MAX_SIZE, the cap on the vector (256)
    Obj,        \* addresses of timer message objects
    NULL,       \* the null pointer
    Delay,      \* the delays clients ask for, already multiplied by the drift
    MaxTime     \* bound on simTime()

ASSUME SizeAssumption == MinSize \in Nat \ {0} /\ MaxSize \in Nat \ {0}
ASSUME NullAssumption == NULL \notin Obj
ASSUME TimeAssumption == MaxTime \in Nat /\ Delay \subseteq Nat

VARIABLES
    size,           \* timerMessages.size()
    timerMessages,  \* timerMessages[i], an address or NULL
    fes,            \* the addresses scheduled in the kernel
    msgIndex,       \* msgIndex[o]: getTimerIndex() of the message at address o
    msgAt,          \* msgAt[o]: getArrivalTime() of the message at address o
    now,            \* simTime()
    moduleDisabled, \* VirtualMac::disabled (and its siblings)
    fired           \* the index whose timerFiredCallback ran in the last step, or -1

serviceVars == <<size, timerMessages, fes, msgIndex, msgAt, now, moduleDisabled, fired>>

Index == 0 .. MaxSize - 1
Time == 0 .. MaxTime

ServiceTypeOK ==
    /\ size \in 0 .. MaxSize
    /\ timerMessages \in [Index -> Obj \cup {NULL}]
    /\ fes \in SUBSET Obj
    /\ msgIndex \in [Obj -> Index]
    /\ msgAt \in [Obj -> Nat]
    /\ now \in Time
    /\ moduleDisabled \in BOOLEAN
    /\ fired \in Index \cup {-1}

(* The module has been built and enabled by NODE_STARTUP; the vector is     *)
(* empty, so its unreachable positions read as NULL.                        *)
ServiceInit ==
    /\ size = 0
    /\ timerMessages = [i \in Index |-> NULL]
    /\ fes = {}
    /\ msgIndex \in [Obj -> {0}]
    /\ msgAt \in [Obj -> {0}]
    /\ now = 0
    /\ moduleDisabled = FALSE
    /\ fired = -1

-----------------------------------------------------------------------------
(* setTimer's resize: grow by MinSize, never past MaxSize, and at least to  *)
(* hold index i.                                                            *)
GrownSize(i) ==
    IF i < size THEN size
    ELSE IF size + MinSize > MaxSize THEN MaxSize
    ELSE IF i >= size + MinSize THEN i + 1
    ELSE size + MinSize

(* cancelTimer that forgets to take the object out of the kernel.           *)
AfterLeak(i) == fes

(* The scheduled objects left after cancelTimer(i): the object in the slot  *)
(* is cancelled and deleted when it is still scheduled.                     *)
AfterCancel(i) == fes \ {timerMessages[i]}

CancelTimer(i) ==
    /\ ~moduleDisabled
    /\ IF i >= size
       THEN UNCHANGED <<timerMessages, fes>>
       ELSE /\ fes' = AfterCancel(i)
            /\ timerMessages' = [timerMessages EXCEPT ![i] = NULL]
    /\ fired' = -1
    /\ UNCHANGED <<size, msgIndex, msgAt, now, moduleDisabled>>

SetTimer(i, d) ==
    /\ ~moduleDisabled
    /\ now + d \in Time
    /\ \E o \in Obj \ AfterCancel(i) :
          /\ timerMessages' = [timerMessages EXCEPT ![i] = o]
          /\ fes' = AfterCancel(i) \cup {o}
          /\ msgIndex' = [msgIndex EXCEPT ![o] = i]
          /\ msgAt' = [msgAt EXCEPT ![o] = now + d]
    /\ size' = GrownSize(i)
    /\ fired' = -1
    /\ UNCHANGED <<now, moduleDisabled>>

(* handleTimerMessage that leaves the slot pointing to the deleted message. *)
DeliverKeepingSlot(o) ==
    /\ o \in fes
    /\ msgAt[o] = now
    /\ fes' = fes \ {o}
    /\ fired' = IF ~moduleDisabled /\ timerMessages[msgIndex[o]] # NULL THEN msgIndex[o] ELSE -1
    /\ UNCHANGED <<timerMessages, size, msgIndex, msgAt, now, moduleDisabled>>

(* handleTimerMessage that takes the last slot to be outside the vector.    *)
DeliverOffByOne(o) ==
    /\ o \in fes
    /\ msgAt[o] = now
    /\ fes' = fes \ {o}
    /\ LET i == msgIndex[o] IN
       IF ~moduleDisabled /\ i + 1 < size /\ timerMessages[i] # NULL
       THEN /\ timerMessages' = [timerMessages EXCEPT ![i] = NULL]
            /\ fired' = i
       ELSE /\ fired' = -1
            /\ UNCHANGED timerMessages
    /\ UNCHANGED <<size, msgIndex, msgAt, now, moduleDisabled>>

(* The kernel delivers a due message: it leaves the future event set, and   *)
(* handleMessage deletes it when it returns.  A disabled module deletes it  *)
(* at once, without looking at the slot.  Otherwise handleTimerMessage      *)
(* clears the slot and runs the callback; the timers the callback sets and  *)
(* cancels are the SetTimer and CancelTimer steps that follow.              *)
Deliver(o) ==
    /\ o \in fes
    /\ msgAt[o] = now
    /\ fes' = fes \ {o}
    /\ LET i == msgIndex[o] IN
       IF ~moduleDisabled /\ i < size /\ timerMessages[i] # NULL
       THEN /\ timerMessages' = [timerMessages EXCEPT ![i] = NULL]
            /\ fired' = i
       ELSE /\ fired' = -1
            /\ UNCHANGED timerMessages
    /\ UNCHANGED <<size, msgIndex, msgAt, now, moduleDisabled>>

(* OUT_OF_ENERGY or DESTROY_NODE arrives: the module stops; nothing is      *)
(* cancelled, so its timers stay in the future event set.                   *)
Disable ==
    /\ ~moduleDisabled
    /\ moduleDisabled' = TRUE
    /\ fired' = -1
    /\ UNCHANGED <<size, timerMessages, fes, msgIndex, msgAt, now>>

(* The kernel moves the clock on when no message is due.                   *)
Tick ==
    /\ now < MaxTime
    /\ \A o \in fes : msgAt[o] # now
    /\ now' = now + 1
    /\ fired' = -1
    /\ UNCHANGED <<size, timerMessages, fes, msgIndex, msgAt, moduleDisabled>>

ServiceNext ==
    \/ \E i \in Index : CancelTimer(i)
    \/ \E i \in Index, d \in Delay : SetTimer(i, d)
    \/ \E o \in Obj : Deliver(o)
    \/ Disable
    \/ Tick

ServiceSpec == ServiceInit /\ [][ServiceNext]_serviceVars

(* The kernel runs the events it holds: a due message is delivered, and     *)
(* when none is due the clock goes on.                                      *)
FairSpec ==
    /\ ServiceSpec
    /\ WF_serviceVars(\E o \in Obj : Deliver(o))
    /\ WF_serviceVars(Tick)

-----------------------------------------------------------------------------
(* While the module is enabled, slots and future event set agree: a slot    *)
(* that is not NULL lies inside the vector and points to an object that is  *)
(* scheduled, not yet due in the past, and carries that slot's index; every *)
(* scheduled object is the one its slot points to.  So no deleted message   *)
(* is ever dereferenced by cancelTimer or getTimer, and no cancelled or     *)
(* replaced timer is left to fire.                                          *)
SlotsMatchEvents ==
    ~moduleDisabled =>
        /\ \A i \in Index : timerMessages[i] # NULL =>
              /\ i < size
              /\ timerMessages[i] \in fes
              /\ msgIndex[timerMessages[i]] = i
              /\ msgAt[timerMessages[i]] >= now
        /\ \A o \in fes : timerMessages[msgIndex[o]] = o

(* The deadline of index i.  It is what getTimer returns where the drift is *)
(* 1: the code multiplies it by the drift once more (TimerService.cc:99).    *)
Deadline(i) ==
    IF moduleDisabled \/ timerMessages[i] = NULL THEN -1 ELSE msgAt[timerMessages[i]]

(* The slots and message objects implement the service's promise: the       *)
(* callback of an index runs once, at the deadline of the last setTimer     *)
(* that no cancelTimer followed.                                            *)
Promise == INSTANCE TimerPromise WITH
    deadline <- [i \in Index |-> Deadline(i)], disabled <- moduleDisabled

ImplementsPromise == Promise!Spec

(* A timer that is set fires, unless the module cancels it, sets it again   *)
(* or stops: no message is lost by the growth of the vector or by the       *)
(* early return of handleTimerMessage.                                      *)
ArmedTimerFires ==
    \A i \in Index, t \in Time :
        (~moduleDisabled /\ Deadline(i) = t)
            ~> (fired = i \/ moduleDisabled \/ Deadline(i) # t)

=============================================================================
