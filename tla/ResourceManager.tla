-------------------------- MODULE ResourceManager --------------------------
(***************************************************************************)
(* The energy account of one node: node/resourceManager/ResourceManager.cc. *)
(* Modules that draw power (the radio, LEACH routing) report the power of  *)
(* their new state with a message to the resource manager, which charges   *)
(* the time that passed at the old power, re-arms a periodic calculation,  *)
(* and, when the battery is empty, tells the five other modules of the     *)
(* node to stop.                                                           *)
(*                                                                         *)
(* Energy is counted in integers: power units times clock ticks.  Messages *)
(* between modules take no time, but they are events of their own, so they *)
(* are kept in mail until the kernel delivers them.                        *)
(***************************************************************************)
EXTENDS Lists, FiniteSets

CONSTANTS
    Consumer,       \* the modules that draw power
    Power,          \* the powers a consumer may report
    Baseline,       \* baselineNodePower
    InitialEnergy,  \* initialEnergy
    Interval,       \* periodicEnergyCalculationInterval
    MaxTime,        \* bound on simTime()
    MaxMail         \* bound on power reports in flight at one instant

ASSUME EnergyAssumption ==
    /\ IsFiniteSet(Consumer)
    /\ Power \subseteq Nat
    /\ Baseline \in Nat
    /\ InitialEnergy \in Nat \ {0}
    /\ Interval \in Nat \ {0}
    /\ MaxTime \in Nat

VARIABLES
    now,                      \* simTime()
    disabled,                 \* ResourceManager::disabled
    remainingEnergy,
    currentNodePower,
    storedPowerConsumptions,  \* [Consumer -> power], 0 for a new map key
    timeOfLastCalculation,
    energyMsgAt,              \* when energyMsg is scheduled, or -1
    mail,                     \* RESOURCE_MANAGER_DRAW_POWER messages in flight
    outOfEnergy,              \* how often OUT_OF_ENERGY was sent to the listeners
    draw,                     \* the power each consumer really draws
    used                      \* the energy really used since the startup

vars == <<now, disabled, remainingEnergy, currentNodePower,
          storedPowerConsumptions, timeOfLastCalculation, energyMsgAt, mail,
          outOfEnergy, draw, used>>

Idle == -1

TotalDraw == Baseline + SumOver(draw, Consumer)

(* After initialize(): nothing is charged before NODE_STARTUP.              *)
Init ==
    /\ now = 0
    /\ disabled = TRUE
    /\ remainingEnergy = InitialEnergy
    /\ currentNodePower = Baseline
    /\ storedPowerConsumptions = [c \in Consumer |-> 0]
    /\ timeOfLastCalculation = 0
    /\ energyMsgAt = Idle
    /\ mail = <<>>
    /\ outOfEnergy = 0
    /\ draw = [c \in Consumer |-> 0]
    /\ used = 0

-----------------------------------------------------------------------------
Started == energyMsgAt # Idle \/ outOfEnergy > 0

(* case NODE_STARTUP of handleMessage                                       *)
Startup ==
    /\ ~Started
    /\ disabled' = FALSE
    /\ timeOfLastCalculation' = now
    /\ energyMsgAt' = now + Interval
    /\ UNCHANGED <<now, remainingEnergy, currentNodePower,
                   storedPowerConsumptions, mail, outOfEnergy, draw, used>>

(* consumeEnergy that does not notice a battery used up exactly.            *)
ConsumeOffByOne(amount) ==
    IF remainingEnergy < amount
    THEN /\ remainingEnergy' = 0
         /\ outOfEnergy' = outOfEnergy + 1
         /\ disabled' = TRUE
    ELSE /\ remainingEnergy' = remainingEnergy - amount
         /\ UNCHANGED <<outOfEnergy, disabled>>

(* consumeEnergy(amount): empties the battery and reports it once, or       *)
(* subtracts the amount.                                                    *)
ConsumeEnergy(amount) ==
    IF remainingEnergy <= amount
    THEN /\ remainingEnergy' = 0
         /\ outOfEnergy' = outOfEnergy + 1
         /\ disabled' = TRUE
    ELSE /\ remainingEnergy' = remainingEnergy - amount
         /\ UNCHANGED <<outOfEnergy, disabled>>

(* The energy of the time since the last calculation.                       *)
EnergyDue == (now - timeOfLastCalculation) * currentNodePower

(* calculateEnergySpent that forgets when it last charged.                  *)
CalculateWithoutReset(pending) ==
    IF remainingEnergy > 0
    THEN /\ ConsumeEnergy(EnergyDue)
         /\ energyMsgAt' = now + Interval
         /\ UNCHANGED timeOfLastCalculation
    ELSE /\ energyMsgAt' = pending
         /\ UNCHANGED <<remainingEnergy, outOfEnergy, disabled, timeOfLastCalculation>>

(* calculateEnergySpent(): nothing once the battery is empty; otherwise it  *)
(* charges the elapsed time and re-arms the periodic message, also when     *)
(* this very charge emptied the battery.  pending is when energyMsg is      *)
(* scheduled if it is not re-armed.                                         *)
CalculateEnergySpent(pending) ==
    IF remainingEnergy > 0
    THEN /\ ConsumeEnergy(EnergyDue)
         /\ timeOfLastCalculation' = now
         /\ energyMsgAt' = now + Interval
    ELSE /\ energyMsgAt' = pending
         /\ UNCHANGED <<remainingEnergy, outOfEnergy, disabled,
                        timeOfLastCalculation>>

(* case TIMER_SERVICE: the periodic energy calculation                      *)
PeriodicCalculation ==
    /\ energyMsgAt = now
    /\ CalculateEnergySpent(Idle)
    /\ UNCHANGED <<now, currentNodePower, storedPowerConsumptions, mail, draw, used>>

(* A consumer enters a state of another power and reports it.               *)
PowerDrawn(c, p) ==
    /\ Started
    /\ Len(mail) < MaxMail
    /\ draw' = [draw EXCEPT ![c] = p]
    /\ mail' = Append(mail, [id |-> c, power |-> p])
    /\ UNCHANGED <<now, disabled, remainingEnergy, currentNodePower,
                   storedPowerConsumptions, timeOfLastCalculation, energyMsgAt,
                   outOfEnergy, used>>

(* case RESOURCE_MANAGER_DRAW_POWER: the old power is charged first, unless *)
(* the node is dead; the new power is recorded in any case.                 *)
DrawPower ==
    /\ mail # <<>>
    /\ LET c == Head(mail).id
           p == Head(mail).power
       IN  /\ currentNodePower' =
                  currentNodePower - storedPowerConsumptions[c] + p
           /\ storedPowerConsumptions' = [storedPowerConsumptions EXCEPT ![c] = p]
    /\ mail' = Tail(mail)
    /\ IF ~disabled
       THEN CalculateEnergySpent(energyMsgAt)
       ELSE UNCHANGED <<remainingEnergy, outOfEnergy, disabled,
                        timeOfLastCalculation, energyMsgAt>>
    /\ UNCHANGED <<now, draw, used>>

(* The clock moves on when no event is due at this instant.                 *)
Tick ==
    /\ Started
    /\ now < MaxTime
    /\ mail = <<>>
    /\ energyMsgAt # now
    /\ now' = now + 1
    /\ used' = used + TotalDraw
    /\ UNCHANGED <<disabled, remainingEnergy, currentNodePower,
                   storedPowerConsumptions, timeOfLastCalculation, energyMsgAt,
                   mail, outOfEnergy, draw>>

Next ==
    \/ Startup
    \/ PeriodicCalculation
    \/ DrawPower
    \/ \E c \in Consumer, p \in Power : PowerDrawn(c, p)
    \/ Tick

Spec == Init /\ [][Next]_vars

FairSpec ==
    /\ Spec
    /\ WF_vars(Startup)
    /\ WF_vars(PeriodicCalculation)
    /\ WF_vars(DrawPower)
    /\ WF_vars(Tick)

-----------------------------------------------------------------------------
Alive == Started /\ outOfEnergy = 0

(* No energy is lost or charged twice: what was charged plus what is due at *)
(* the current power is what the node really used, however often its        *)
(* consumers change state between two periodic calculations.                *)
EnergyBalance ==
    Alive => InitialEnergy - remainingEnergy + EnergyDue = used

(* A battery that is used up is noticed, as long as the clock runs for      *)
(* another interval, and the node is told to stop once, never again by the  *)
(* reports and calculations that still come (ResourceManager.cc:90-123).    *)
EmptyBatteryStopsNode ==
    (Alive /\ used >= InitialEnergy /\ now + Interval <= MaxTime)
        ~> [](outOfEnergy = 1)

=============================================================================
