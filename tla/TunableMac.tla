----------------------------- MODULE TunableMac -----------------------------
(***************************************************************************)
(* TunableMAC, node/communication/mac/tunableMac/TunableMAC.cc, on one     *)
(* node: a duty cycle, carrier sensing with backoff, a train of beacons    *)
(* that wakes up sleeping neighbours, and several attempts per packet.     *)
(*                                                                         *)
(* There is no clock: a timer that is set may fire at any moment.  The     *)
(* radio is external: it obeys SET_STATE, after a transmission if there is *)
(* one, and hands over a frame it has received a little later (inbox), when *)
(* it may be asleep already.  What other nodes send may come at any moment. *)
(* Of the commands, only SET_DUTY_CYCLE is here: those that change numTx    *)
(* and the other parameters at run time are left out.  numTx is at least 1; *)
(* the code accepts 0 as well.                                              *)
(***************************************************************************)
EXTENDS Integers, Sequences, FiniteSets

CONSTANTS
    Packet,             \* what the network layer has to send
    None,
    MacBufferSize,      \* macBufferSize
    NumTx,              \* numTx
    Beacons,            \* beacons per train: sleepInterval * beaconIntervalFraction / beaconTxTime
    MaxFrames,          \* bound on the frames that other nodes send
    MaxCommands         \* bound on the changes of the duty cycle

ASSUME TunableMacAssumption ==
    /\ MacBufferSize \in Nat \ {0} /\ NumTx \in Nat \ {0} /\ Beacons \in Nat
    /\ MaxFrames \in Nat /\ MaxCommands \in Nat

VARIABLES
    par,                \* parameters that are fixed at startup
    dutyCycle,          \* it lies strictly between 0 and 1
    macState,
    numTxTries,
    remainingBeaconsToTx,
    TXBuffer,
    timers,             \* the timers that are set
    radio,              \* the state of the radio
    afterTX,            \* the state it will take after the transmission
    inbox,              \* a received frame on its way to the MAC, or None
    unsent,             \* packets the network layer has not sent yet
    tries,              \* tries[p]: attempts made for p (history)
    dropped,            \* packets that left the buffer (history)
    cameInRX,           \* packets that came to an empty buffer in MAC_STATE_RX (history)
    frames, commands    \* what is left of the bounds

macVars == <<dutyCycle, macState, numTxTries, remainingBeaconsToTx, TXBuffer, timers>>
radioVars == <<radio, afterTX>>
envVars == <<inbox, unsent, frames, commands>>
historyVars == <<tries, dropped, cameInRX>>
vars == <<par, macVars, radioVars, envVars, historyVars>>

Timer == {"START_SLEEPING", "START_LISTENING", "START_CARRIER_SENSING", "ATTEMPT_TX",
          "SEND_BEACONS_OR_DATA"}
MacState == {"DEFAULT", "TX", "CONTENDING", "RX"}
RadioState == {"RX", "TX", "SLEEP"}
Parameters == [persistent : BOOLEAN,        \* CSMApersistance > 0
               txAll : BOOLEAN,             \* txAllPacketsInFreeChannel
               sleepDuringBackoff : BOOLEAN]

TypeOK ==
    /\ par \in Parameters /\ dutyCycle \in BOOLEAN
    /\ macState \in MacState
    /\ numTxTries \in 0 .. NumTx /\ remainingBeaconsToTx \in 0 .. Beacons
    /\ TXBuffer \in Seq(Packet) /\ Len(TXBuffer) <= MacBufferSize
    /\ timers \subseteq Timer
    /\ radio \in RadioState /\ afterTX \in {"RX", "SLEEP"}
    /\ inbox \in {None, "BEACON_FRAME", "DATA_FRAME"}
    /\ unsent \subseteq Packet /\ dropped \subseteq Packet /\ cameInRX \subseteq Packet
    /\ tries \in [Packet -> Nat]
    /\ frames \in 0 .. MaxFrames /\ commands \in 0 .. MaxCommands

DutyTimers == {"START_SLEEPING", "START_LISTENING"}
WithDutyCycle(set) == IF dutyCycle THEN set ELSE {}

(* External: Radio's SET_STATE.                                             *)
SetState(s) ==
    IF radio = "TX" /\ s # "TX"
    THEN afterTX' = s /\ UNCHANGED radio
    ELSE radio' = s /\ UNCHANGED afterTX

-----------------------------------------------------------------------------
(* attemptTx, with tx tries left for the head of buffer and the timers set. *)

NextTurnLater(buffer, set) ==                                    \* mutant
    [buffer |-> IF buffer = <<>> THEN <<>> ELSE Tail(buffer), tx |-> 0, state |-> "DEFAULT",
     timers |-> set \cup WithDutyCycle({"START_SLEEPING"})]

(* With no try left the head is deleted and the next packet has its turn    *)
(* (the code calls itself); the duty cycle is resumed after the last one.   *)
NextTurn(buffer, set) ==
    LET rest == IF buffer = <<>> THEN <<>> ELSE Tail(buffer)
    IN  IF rest = <<>>
        THEN [buffer |-> rest, tx |-> 0, state |-> "DEFAULT",
              timers |-> set \cup WithDutyCycle({"START_SLEEPING"})]
        ELSE [buffer |-> rest, tx |-> NumTx, state |-> "CONTENDING", timers |-> set]

(* An attempt goes on to sense the carrier or, with probability 1 - probTx, *)
(* is skipped, which counts as one.                                         *)
Contend(buffer, tx, set) ==
    /\ TXBuffer' = buffer /\ macState' = "CONTENDING"
    /\ \/ /\ timers' = set \cup {"START_CARRIER_SENSING"}
          /\ numTxTries' = tx
          /\ UNCHANGED tries
       \/ /\ timers' = set \cup {"ATTEMPT_TX"}
          /\ numTxTries' = tx - 1
          /\ tries' = [tries EXCEPT ![Head(buffer)] = @ + 1]

DropHead(buffer) ==
    dropped' = IF buffer = <<>> THEN dropped ELSE dropped \cup {Head(buffer)}

AttemptTx(buffer, tx, set) ==
    \/ /\ tx > 0
       /\ Contend(buffer, tx, set)
       /\ UNCHANGED dropped
    \/ /\ tx <= 0
       /\ DropHead(buffer)
       /\ LET turn == NextTurn(buffer, set)
          IN  IF turn.state = "CONTENDING"
              THEN Contend(turn.buffer, turn.tx, turn.timers)
              ELSE /\ TXBuffer' = turn.buffer /\ numTxTries' = turn.tx
                   /\ macState' = turn.state /\ timers' = turn.timers
                   /\ UNCHANGED tries

-----------------------------------------------------------------------------
(* sendBeaconsOrData                                                        *)

LastCopyAlways(left) == par.txAll                                \* mutant

(* Data that is sent in one go leaves the buffer with its last copy.        *)
LastCopy(left) == par.txAll /\ left <= 0

(* The head goes on the air, for the last time if no try is left after it.  *)
SendData(set) ==
    LET p == Head(TXBuffer)
        left == numTxTries - 1
        done == LastCopy(left)
    IN  /\ tries' = [tries EXCEPT ![p] = @ + 1]
        /\ numTxTries' = IF done THEN NumTx ELSE left
        /\ TXBuffer' = IF done THEN Tail(TXBuffer) ELSE TXBuffer
        /\ dropped' = IF done THEN dropped \cup {p} ELSE dropped
        /\ timers' = set \cup {IF par.txAll THEN "SEND_BEACONS_OR_DATA" ELSE "ATTEMPT_TX"}
        /\ macState' = "TX"

SendBeaconsOrData(beacons, set) ==
    \/ /\ beacons > 0
       /\ remainingBeaconsToTx' = beacons - 1
       /\ timers' = set \cup {"SEND_BEACONS_OR_DATA"}
       /\ macState' = "TX"
       /\ SetState("TX")
       /\ UNCHANGED <<numTxTries, TXBuffer, tries, dropped>>
    \/ /\ beacons = 0 /\ TXBuffer # <<>>
       /\ remainingBeaconsToTx' = 0
       /\ SendData(set)
       /\ SetState("TX")
    \/ /\ beacons = 0 /\ TXBuffer = <<>>
       /\ remainingBeaconsToTx' = 0
       /\ AttemptTx(<<>>, 0, set)
       /\ UNCHANGED radioVars

-----------------------------------------------------------------------------
(* timerFiredCallback                                                       *)

Others(t) == timers \ {t}

StartSleeping ==
    /\ "START_SLEEPING" \in timers
    /\ timers' = Others("START_SLEEPING") \cup {"START_LISTENING"}
    /\ SetState("SLEEP")
    /\ UNCHANGED <<par, dutyCycle, macState, numTxTries, remainingBeaconsToTx, TXBuffer,
                   envVars, historyVars>>

StartListening ==
    /\ "START_LISTENING" \in timers
    /\ timers' = Others("START_LISTENING") \cup {"START_SLEEPING"}
    /\ SetState("RX")
    /\ UNCHANGED <<par, dutyCycle, macState, numTxTries, remainingBeaconsToTx, TXBuffer,
                   envVars, historyVars>>

Sensing ==
    /\ "START_CARRIER_SENSING" \in timers
    /\ UNCHANGED <<par, dutyCycle, envVars, cameInRX>>

SenseAgainAsleep ==                                              \* mutant
    /\ Sensing
    /\ UNCHANGED <<radioVars, macState, numTxTries, remainingBeaconsToTx, TXBuffer, timers,
                   tries, dropped>>

(* CS_NOT_VALID, while the radio is not in RX or not long enough; BUSY or a *)
(* lost draw of a persistent node: it senses again.                         *)
SenseAgain ==
    /\ Sensing
    /\ SetState("RX")
    /\ UNCHANGED <<macState, numTxTries, remainingBeaconsToTx, TXBuffer, timers, tries, dropped>>

(* BUSY: back off, asleep if there is a duty cycle.                         *)
SenseBusy ==
    /\ Sensing
    /\ radio = "RX" /\ ~par.persistent
    /\ IF par.sleepDuringBackoff \/ dutyCycle THEN SetState("SLEEP") ELSE SetState("RX")
    /\ UNCHANGED <<macState, numTxTries, remainingBeaconsToTx, TXBuffer, timers, tries, dropped>>

(* CLEAR: the beacons first, if neighbours may sleep.                       *)
SenseClear ==
    /\ Sensing
    /\ radio = "RX"
    /\ SendBeaconsOrData(IF dutyCycle THEN Beacons ELSE 0, Others("START_CARRIER_SENSING"))

AttemptTimer ==
    /\ "ATTEMPT_TX" \in timers
    /\ AttemptTx(TXBuffer, numTxTries, Others("ATTEMPT_TX"))
    /\ UNCHANGED <<par, dutyCycle, remainingBeaconsToTx, radioVars, envVars, cameInRX>>

SendTimer ==
    /\ "SEND_BEACONS_OR_DATA" \in timers
    /\ SendBeaconsOrData(remainingBeaconsToTx, Others("SEND_BEACONS_OR_DATA"))
    /\ UNCHANGED <<par, dutyCycle, envVars, cameInRX>>

-----------------------------------------------------------------------------
(* The layers above and below.                                              *)

BufferHasRoom == Len(TXBuffer) < MacBufferSize

(* A packet that meets a full buffer is gone before it was one; the first   *)
(* packet of an idle node suspends the duty cycle and is attempted.         *)
FromNetworkLayer ==
    \E p \in unsent :
        /\ unsent' = unsent \ {p}
        /\ LET buffer == IF BufferHasRoom THEN Append(TXBuffer, p) ELSE TXBuffer
           IN  IF BufferHasRoom /\ macState = "DEFAULT" /\ Len(buffer) = 1
               THEN /\ AttemptTx(buffer, NumTx, timers \ WithDutyCycle(DutyTimers))
                    /\ UNCHANGED cameInRX
               ELSE /\ TXBuffer' = buffer
                    /\ cameInRX' = IF BufferHasRoom /\ macState = "RX" /\ TXBuffer = <<>>
                                   THEN cameInRX \cup {p} ELSE cameInRX
                    /\ UNCHANGED <<macState, numTxTries, timers, tries, dropped>>
        /\ UNCHANGED <<par, dutyCycle, remainingBeaconsToTx, radioVars, inbox, frames, commands>>

AfterBeaconUncancelled == timers \cup {"ATTEMPT_TX"}             \* mutant

(* What was going on is given up; the MAC resumes when no data comes.       *)
AfterBeacon ==
    {"ATTEMPT_TX"} \cup
        (CASE macState = "DEFAULT" -> timers \ WithDutyCycle({"START_SLEEPING"})
           [] macState = "CONTENDING" -> timers \ {"START_CARRIER_SENSING", "ATTEMPT_TX"}
           [] OTHER -> timers)

(* A beacon: another node will send to this one, or to a neighbour of both, *)
(* within a sleep interval; ignored while sending.                          *)
ReceiveBeacon ==
    /\ inbox = "BEACON_FRAME"
    /\ inbox' = None
    /\ IF macState = "TX"
       THEN UNCHANGED <<macState, timers>>
       ELSE /\ macState' = "RX"
            /\ timers' = AfterBeacon
    /\ UNCHANGED <<par, dutyCycle, numTxTries, remainingBeaconsToTx, TXBuffer, radioVars,
                   unsent, frames, commands, historyVars>>

(* Data ends the reception that a beacon announced.                         *)
ReceiveData ==
    /\ inbox = "DATA_FRAME"
    /\ inbox' = None
    /\ IF macState = "RX"
       THEN AttemptTx(TXBuffer, numTxTries, timers \ {"ATTEMPT_TX"})
       ELSE UNCHANGED <<macState, timers, numTxTries, TXBuffer, tries, dropped>>
    /\ UNCHANGED <<par, dutyCycle, remainingBeaconsToTx, radioVars, unsent, frames, commands,
                   cameInRX>>

(* handleControlCommand, SET_DUTY_CYCLE: to or from no duty cycle.          *)
SetDutyCycle ==
    /\ commands > 0
    /\ commands' = commands - 1
    /\ dutyCycle' = ~dutyCycle
    /\ IF dutyCycle
       THEN /\ timers' = timers \ DutyTimers
            /\ IF macState = "DEFAULT" THEN SetState("RX") ELSE UNCHANGED radioVars
       ELSE /\ timers' = timers \cup {"START_SLEEPING"}
            /\ UNCHANGED radioVars
    /\ UNCHANGED <<par, macState, numTxTries, remainingBeaconsToTx, TXBuffer, inbox, unsent,
                   frames, historyVars>>

(* External: a frame that another node sends is received by an awake radio. *)
FrameArrives ==
    /\ frames > 0 /\ inbox = None /\ radio = "RX"
    /\ frames' = frames - 1
    /\ inbox' \in {"BEACON_FRAME", "DATA_FRAME"}
    /\ UNCHANGED <<par, macVars, radioVars, unsent, commands, historyVars>>

(* External: the radio has sent all it was given.                           *)
TransmissionEnds ==
    /\ radio = "TX"
    /\ radio' = afterTX /\ afterTX' = "RX"
    /\ UNCHANGED <<par, macVars, envVars, historyVars>>

Init ==
    /\ par \in Parameters /\ dutyCycle \in BOOLEAN
    /\ macState = "DEFAULT" /\ numTxTries = 0 /\ remainingBeaconsToTx = 0
    /\ TXBuffer = <<>> /\ timers = WithDutyCycle({"START_SLEEPING"})
    /\ radio = "RX" /\ afterTX = "RX" /\ inbox = None
    /\ unsent = Packet /\ tries = [p \in Packet |-> 0] /\ dropped = {} /\ cameInRX = {}
    /\ frames = MaxFrames /\ commands = MaxCommands

Next ==
    \/ StartSleeping \/ StartListening
    \/ SenseAgain \/ SenseBusy \/ SenseClear
    \/ AttemptTimer \/ SendTimer
    \/ FromNetworkLayer \/ ReceiveBeacon \/ ReceiveData \/ SetDutyCycle
    \/ FrameArrives \/ TransmissionEnds

Spec == Init /\ [][Next]_vars

(* Timers fire, transmissions end, and a received frame reaches the MAC.    *)
(* Sensing wakes the radio up; what it finds is up to the channel, so that  *)
(* neither SenseBusy nor SenseClear is fair.                                *)
Fairness ==
    /\ WF_vars(AttemptTimer) /\ WF_vars(SendTimer)
    /\ WF_vars(SenseAgain)
    /\ WF_vars(ReceiveBeacon) /\ WF_vars(ReceiveData) /\ WF_vars(TransmissionEnds)

FairSpec == Spec /\ Fairness

-----------------------------------------------------------------------------
(* Properties                                                               *)

(* Whatever interrupts a transmission, a reception or the duty cycle, the   *)
(* timer that goes on with it is set (TunableMAC.cc:82-118), and there is   *)
(* never a second one that would start another activity beside it.          *)
NeverStranded ==
    LET activity == timers \ DutyTimers
    IN  /\ macState = "CONTENDING" => activity \in {{"START_CARRIER_SENSING"}, {"ATTEMPT_TX"}}
        /\ macState = "TX" => activity \in {{"SEND_BEACONS_OR_DATA"}, {"ATTEMPT_TX"}}
        /\ macState = "RX" => activity = {"ATTEMPT_TX"}
        /\ macState = "DEFAULT" =>
               activity = {} /\ (dutyCycle => timers \cap DutyTimers # {})

(* No packet waits in the buffer while the MAC has nothing to do: whoever   *)
(* empties, interrupts or resumes sees that it is being served              *)
(* (TunableMAC.cc:239-248).                                                 *)
PacketIsServed == TXBuffer # <<>> => macState # "DEFAULT"

(* A packet has all its attempts, and no more, before it is deleted, through *)
(* receptions in between and copies that follow each other.  Excepted is a  *)
(* packet that comes while the MAC receives and has nothing else to send:   *)
(* no attempts were granted to it, so it is deleted without any.            *)
TriedBeforeDropped ==
    /\ \A p \in dropped : tries[p] = NumTx \/ p \in cameInRX
    /\ \A p \in Packet : tries[p] <= NumTx

(* The buffer is an AttemptQueue: the packets are served in the order they  *)
(* came, only the head is tried, and it leaves when it has had all its      *)
(* attempts, through receptions in between and copies that follow each      *)
(* other, or without any if it came to an empty buffer while the MAC was    *)
(* receiving (TunableMAC.cc:228-402).                                       *)
Queue == INSTANCE AttemptQueue WITH
    Capacity <- MacBufferSize, Attempts <- NumTx,
    queue <- TXBuffer, overlooked <- cameInRX

ImplementsAttemptQueue == Queue!Spec

(* From some time on the MAC does nothing but sense the carrier, with a     *)
(* radio that is awake again and again: the channel is never found clear.   *)
ChannelStaysBusy ==
    <>[]("START_CARRIER_SENSING" \in timers) /\ []<>(radio = "RX")

(* Every packet leaves the buffer some day, through beacons and data of     *)
(* others and changes of the duty cycle, and only a channel that stays busy *)
(* can prevent it: no interruption leaves a packet behind, and no node      *)
(* waits for a clear channel asleep (TunableMAC.cc:98-223, 425-505).        *)
BufferEmptied == (TXBuffer # <<>> ~> TXBuffer = <<>>) \/ ChannelStaysBusy

=============================================================================
