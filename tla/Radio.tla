------------------------------- MODULE Radio --------------------------------
(***************************************************************************)
(* The radio of one node, node/communication/radio/Radio.cc: its three     *)
(* states and the transitions between them, the packets it sends, the      *)
(* signals it receives and the history of received power.                  *)
(*                                                                         *)
(* Commands and packets of the MAC, and commands the radio sends to        *)
(* itself, are events of the current instant and arrive in the order they  *)
(* were sent (mail).  An event scheduled earlier (the end of a transition, *)
(* of a transmission, a carrier sense interrupt) precedes all mail of its  *)
(* instant: it may come while mail waits, never after some of it was read  *)
(* (draining).                                                             *)
(*                                                                         *)
(* A sum of powers is the set of signals that were added up.  Bit errors   *)
(* may hit any signal at any change; the collision model is the additive   *)
(* one.  Only how many packets are buffered counts, not which.  A node that *)
(* runs out of energy handles nothing any more: the behaviour stops.        *)
(***************************************************************************)
EXTENDS Integers, Sequences, FiniteSets

CONSTANTS
    Signal,             \* senders in range, each with at most one signal on the air
    Freq,               \* carrier frequencies
    None,               \* no state is being changed to
    BufferSize,         \* bufferSize
    StartState,         \* the parameter "state"
    DefaultStateAfterTX,\* the parameter "stateAfterTX"
    MaxMail,            \* bound on the events of one instant
    MaxRetunes          \* bound on the changes of the carrier frequency

BasicState == {"RX", "TX", "SLEEP"}

ASSUME RadioAssumption ==
    /\ None \notin BasicState \cup {"timed", "now"} /\ Freq # {}
    /\ BufferSize \in Nat \ {0} /\ MaxMail \in Nat /\ MaxRetunes \in Nat
    /\ StartState \in BasicState /\ DefaultStateAfterTX \in {"RX", "SLEEP"}

VARIABLES
    disabled,           \* until NODE_STARTUP
    state,
    changingToState,    \* None for -1
    transition,         \* stateTransitionMsg: None, "timed", or "now" when it is mail
    continueTX,         \* number of RADIO_CONTINUE_TX messages scheduled
    radioBuffer,        \* number of packets in it
    stateAfterTX,
    received,           \* receivedSignals
    totalPower,         \* front of totalPowerReceived
    history,            \* totalPowerReceived: "none", "short" or "long" enough for the RSSI
    csInterrupt,        \* number of CS interrupts scheduled
    csEnabled,          \* carrierSenseInterruptEnabled
    carrierFreq,
    power,              \* last powerDrawn: a state's, or "change"
    mail,
    draining,
    air,                \* signals on the air, on any frequency
    missed,             \* clean signals the radio did not listen to all the time (history)
    retuned,            \* totalPower still counts signals of another frequency (history)
    retunes             \* number of frequency changes (bound)

txVars == <<continueTX, radioBuffer, stateAfterTX>>
rxVars == <<received, totalPower, history, csInterrupt, csEnabled, carrierFreq, retuned, retunes>>
stateVars == <<state, changingToState, transition, power>>
mailVars == <<mail, draining>>
vars == <<txVars, rxVars, stateVars, mailVars, disabled, air, missed>>

Command ==
    [kind : {"SET_STATE"}, to : BasicState, self : BOOLEAN]
        \cup [kind : {"SET_CARRIER_FREQ"}, freq : Freq]
        \cup [kind : {"SET_CS_INTERRUPT"}, on : BOOLEAN]
        \cup [kind : {"SET_MODE", "MAC_LAYER_PACKET", "ENTER_STATE", "cancelled"}]
SetStateTo(s, self) == [kind |-> "SET_STATE", to |-> s, self |-> self]
EnterState == [kind |-> "ENTER_STATE"]

(* maxInterference is only reported, and errors beyond the allowed number   *)
(* are as good as ALL_ERRORS: a signal is clean or is not.                 *)
ReceivedSignal == [clean : BOOLEAN, interference : SUBSET Signal]

TypeOK ==
    /\ disabled \in BOOLEAN
    /\ state \in BasicState /\ changingToState \in BasicState \cup {None}
    /\ transition \in {None, "timed", "now"}
    /\ continueTX \in Nat /\ radioBuffer \in 0 .. BufferSize
    /\ stateAfterTX \in BasicState
    /\ \E listed \in SUBSET Signal : received \in [listed -> ReceivedSignal]
    /\ totalPower \subseteq Signal /\ history \in {"none", "short", "long"}
    /\ csInterrupt \in Nat /\ csEnabled \in BOOLEAN
    /\ carrierFreq \in Freq
    /\ power \in BasicState \cup {"change"}
    /\ mail \in Seq(Command) /\ draining \in BOOLEAN
    /\ air \subseteq Signal /\ missed \subseteq air
    /\ retuned \in BOOLEAN /\ retunes \in 0 .. MaxRetunes

Listening == ~disabled /\ state = "RX" /\ changingToState = None

-----------------------------------------------------------------------------
(* Signals on the receiver.                                                 *)

Clean == {s \in DOMAIN received : received[s].clean}

(* bitErrors and updateInterference for the signals in progress: some may   *)
(* get errors, the others see the interference others(s).                   *)
UpdateSignals(hit, others(_)) ==
    [s \in DOMAIN received |->
        IF s \in hit THEN [received[s] EXCEPT !.clean = FALSE]
        ELSE IF s \in Clean THEN [received[s] EXCEPT !.interference = others(s)]
        ELSE received[s]]

(* updateInterference on a new signal: it is added to what there was.       *)
UpdateInterferenceStart(hit, new) ==
    UpdateSignals(hit, LAMBDA s : received[s].interference \cup {new})

UpdateInterferenceEndStale(hit, ending) ==                       \* mutant
    UpdateSignals(hit, LAMBDA s : received[s].interference)

(* updateInterference on an ending signal: summed up anew, without it.      *)
UpdateInterferenceEnd(hit, ending) ==
    UpdateSignals(hit, LAMBDA s :
        IF s = ending THEN received[s].interference
        ELSE DOMAIN received \ {s, ending})

WithSignal(list, s, r) ==
    [x \in DOMAIN list \cup {s} |-> IF x = s THEN r ELSE list[x]]

WithoutSignal(list, s) == [x \in DOMAIN list \ {s} |-> list[x]]

SpoilActiveDropped(list) == list                                 \* mutant

(* updateTotalPowerReceived on entering RX: signals already active cannot   *)
(* be received.                                                             *)
SpoilActive(list) == [s \in DOMAIN list |-> [list[s] EXCEPT !.clean = FALSE]]

(* updatePossibleCSinterrupt: nothing when the RSSI is above the threshold, *)
(* which it also is when it is not valid yet; else an interrupt is          *)
(* scheduled and the last one cancelled, unless that one is due right now:  *)
(* it stays beside the new one, which is cancelled when there is another.   *)
UpdatePossibleCSinterrupt ==
    \/ UNCHANGED csInterrupt
    \/ /\ history = "long" /\ csInterrupt = 0
       /\ csInterrupt' = 1
    \/ /\ history = "long" /\ csInterrupt = 1 /\ ~draining
       /\ csInterrupt' = 2

-----------------------------------------------------------------------------
(* State transitions.                                                       *)

(* The mail when the message that completes a transition is cancelled.      *)
CancelTransition(m) ==
    [i \in DOMAIN m |-> IF m[i] = EnterState THEN [kind |-> "cancelled"] ELSE m[i]]

DelayStateTransitionTwice(m, to) ==                              \* mutant
    \/ /\ state # to
       /\ transition' = "timed"
       /\ mail' = m
    \/ /\ state = to
       /\ transition' = "now"
       /\ mail' = Append(m, EnterState)

(* delayStateTransition: a change that is under way is replaced.  Changing  *)
(* to the state it is in takes no time, save from SLEEP to a deeper level.  *)
DelayStateTransition(m, to) ==
    \/ /\ state # to \/ state = "SLEEP"
       /\ transition' = "timed"
       /\ mail' = CancelTransition(m)
    \/ /\ state = to
       /\ transition' = "now"
       /\ mail' = Append(CancelTransition(m), EnterState)

(* SET_STATE in handleRadioControlCommand: ignored when it is in that state *)
(* or changing to it; remembered while it transmits; else begun.            *)
Redundant(to) ==
    \/ state = to /\ changingToState = None
    \/ changingToState = to

TransmittingUnguarded(self) == FALSE                             \* mutant

Transmitting(self) == state = "TX" /\ ~self /\ changingToState = None

SetState(m, cmd) ==
    /\ IF Redundant(cmd.to)
       THEN /\ mail' = m
            /\ UNCHANGED <<stateVars, txVars>>
       ELSE IF Transmitting(cmd.self)
       THEN /\ stateAfterTX' = cmd.to
            /\ mail' = m
            /\ UNCHANGED <<stateVars, continueTX, radioBuffer>>
       ELSE /\ changingToState' = cmd.to
            /\ power' = "change"
            /\ DelayStateTransition(m, cmd.to)
            /\ UNCHANGED <<state, txVars>>
    /\ UNCHANGED rxVars

FlushHistory == history' = "none" /\ totalPower' = {}

(* popAndSendToWirelessChannel, and the message that ends the transmission. *)
SendPacket ==
    /\ radioBuffer' = radioBuffer - 1
    /\ continueTX' = continueTX + 1
    /\ power' = "TX"
    /\ FlushHistory

EnterTXSilent(m) ==                                              \* mutant
    /\ mail' = m
    /\ IF radioBuffer > 0
       THEN SendPacket
       ELSE UNCHANGED <<continueTX, radioBuffer, power, history, totalPower>>
    /\ UNCHANGED <<received, retuned>>

EnterTX(m) ==
    /\ IF radioBuffer > 0
       THEN SendPacket /\ mail' = m
       ELSE /\ mail' = Append(m, SetStateTo("RX", TRUE))
            /\ UNCHANGED <<continueTX, radioBuffer, power, history, totalPower>>
    /\ UNCHANGED <<received, retuned>>

EnterRX(m) ==
    /\ received' = SpoilActive(received)
    /\ totalPower' = DOMAIN received
    /\ history' = IF history = "none" THEN "short" ELSE history
    /\ retuned' = FALSE
    /\ power' = "RX"
    /\ mail' = m
    /\ UNCHANGED <<continueTX, radioBuffer>>

EnterSLEEP(m) ==
    /\ FlushHistory
    /\ power' = "SLEEP"
    /\ mail' = m
    /\ UNCHANGED <<continueTX, radioBuffer, received, retuned>>

CompleteStateTransition(m) ==
    /\ state' = changingToState
    /\ changingToState' = None
    /\ transition' = None
    /\ \/ changingToState = "TX" /\ EnterTX(m)
       \/ changingToState = "RX" /\ EnterRX(m)
       \/ changingToState = "SLEEP" /\ EnterSLEEP(m)
    /\ UNCHANGED <<stateAfterTX, csInterrupt, csEnabled, carrierFreq, retunes>>

-----------------------------------------------------------------------------
(* The other commands and the packets of the MAC.                           *)

(* Only the list of signals is cleared, not the power they add up to.       *)
SetCarrierFreq(cmd) ==
    /\ carrierFreq' = cmd.freq
    /\ received' = [s \in {} |-> {}]
    /\ retuned' = (retuned \/ DOMAIN received # {} \/ totalPower # {})
    /\ retunes' = retunes + 1
    /\ UNCHANGED <<totalPower, history, csInterrupt, csEnabled, stateVars, txVars>>

SetCSinterrupt(cmd) ==
    /\ csEnabled' = cmd.on
    /\ UNCHANGED <<received, totalPower, history, csInterrupt, carrierFreq, retuned, retunes, stateVars, txVars>>

SetModeAlways ==                                                 \* mutant
    /\ power' = "RX"
    /\ UNCHANGED <<state, changingToState, transition, rxVars, txVars>>

SetMode ==
    /\ power' = IF state = "RX" THEN "RX" ELSE power
    /\ UNCHANGED <<state, changingToState, transition, rxVars, txVars>>

(* A packet that finds no room is refused with RADIO_BUFFER_FULL.  One that *)
(* is too big is dropped.                                                   *)
BufferPacket ==
    /\ radioBuffer' \in {radioBuffer, radioBuffer + 1} \cap 0 .. BufferSize
    /\ UNCHANGED <<continueTX, stateAfterTX, stateVars, rxVars>>

-----------------------------------------------------------------------------
(* Events.                                                                  *)

(* missed, after any step: a signal that counts as clean was listened to    *)
(* throughout, or it was not.                                               *)
Watch == missed' = {s \in DOMAIN received' \cap air' :
                       /\ received'[s].clean
                       /\ s \in missed \/ ~Listening' \/ carrierFreq' # carrierFreq}

(* The first event of the instant is handled, or deleted before NODE_STARTUP.*)
ReadMail ==
    /\ mail # <<>>
    /\ LET m == Tail(mail)
           cmd == Head(mail)
       IN  \/ /\ ~disabled
              /\ \/ cmd.kind = "SET_STATE" /\ SetState(m, cmd)
                 \/ cmd.kind = "ENTER_STATE" /\ CompleteStateTransition(m)
                 \/ cmd.kind = "SET_CARRIER_FREQ" /\ SetCarrierFreq(cmd) /\ mail' = m
                 \/ cmd.kind = "SET_CS_INTERRUPT" /\ SetCSinterrupt(cmd) /\ mail' = m
                 \/ cmd.kind = "SET_MODE" /\ SetMode /\ mail' = m
                 \/ cmd.kind = "MAC_LAYER_PACKET" /\ BufferPacket /\ mail' = m
                 \/ /\ cmd.kind = "cancelled"
                    /\ mail' = m
                    /\ UNCHANGED <<stateVars, txVars, rxVars>>
           \/ /\ disabled
              /\ mail' = m
              /\ UNCHANGED <<stateVars, txVars, rxVars>>
    /\ draining' = (mail' # <<>>)
    /\ UNCHANGED <<disabled, air>>
    /\ Watch

(* RADIO_ENTER_STATE after the delay of the transition.                     *)
FinishTransition ==
    /\ ~disabled /\ ~draining /\ transition = "timed"
    /\ CompleteStateTransition(mail)
    /\ UNCHANGED <<draining, disabled, air>>
    /\ Watch

(* RADIO_CONTINUE_TX: the next packet, or the command that leaves TX.       *)
ContinueTX ==
    /\ ~disabled /\ ~draining /\ continueTX > 0
    /\ IF radioBuffer > 0
       THEN /\ radioBuffer' = radioBuffer - 1
            /\ power' = "TX"
            /\ FlushHistory
            /\ UNCHANGED <<continueTX, stateAfterTX, mail>>
       ELSE /\ mail' = Append(mail, SetStateTo(IF stateAfterTX = "SLEEP" THEN "SLEEP" ELSE "RX",
                                               TRUE))
            /\ stateAfterTX' = DefaultStateAfterTX
            /\ continueTX' = continueTX - 1
            /\ UNCHANGED <<radioBuffer, power, history, totalPower>>
    /\ UNCHANGED <<state, changingToState, transition, received, csInterrupt,
                   csEnabled, carrierFreq, retuned, retunes, draining, disabled, air>>
    /\ Watch

(* The interrupt is passed on to the MAC, whatever the radio does by now.   *)
CSinterrupt ==
    /\ ~disabled /\ ~draining /\ csInterrupt > 0
    /\ csInterrupt' = csInterrupt - 1
    /\ UNCHANGED <<received, totalPower, history, csEnabled, carrierFreq, retuned,
                   retunes, stateVars, txVars, mailVars, disabled, air>>
    /\ Watch

(* WC_SIGNAL_START.  While it does not listen, the radio only remembers     *)
(* that there is a signal; else it is received unless it is too weak or its *)
(* modulation is another one.                                               *)
SignalStart ==
    \E s \in Signal, f \in Freq :
        /\ s \notin air
        /\ air' = air \cup {s}
        /\ IF disabled \/ f # carrierFreq
           THEN UNCHANGED rxVars
           ELSE IF ~Listening
           THEN /\ received' = WithSignal(received, s, [clean |-> FALSE, interference |-> {}])
                /\ UNCHANGED <<totalPower, history, csInterrupt, csEnabled, carrierFreq,
                               retuned, retunes>>
           ELSE /\ \E hit \in SUBSET Clean, clean \in BOOLEAN :
                       received' = WithSignal(UpdateInterferenceStart(hit, s), s,
                                              [clean |-> clean, interference |-> totalPower])
                /\ totalPower' = totalPower \cup {s}
                /\ IF csEnabled THEN UpdatePossibleCSinterrupt ELSE UNCHANGED csInterrupt
                /\ UNCHANGED <<history, csEnabled, carrierFreq, retuned, retunes>>
        /\ UNCHANGED <<stateVars, txVars, mailVars, disabled>>
        /\ Watch

(* WC_SIGNAL_END: if the signal is clean to its end, its packet is sent to   *)
(* the MAC.                                                                 *)
SignalEnd ==
    \E s \in Signal :
        /\ s \in air
        /\ air' = air \ {s}
        /\ IF disabled \/ s \notin DOMAIN received
           THEN UNCHANGED rxVars
           ELSE IF ~Listening
           THEN /\ received' = WithoutSignal(received, s)
                /\ UNCHANGED <<totalPower, history, csInterrupt, csEnabled, carrierFreq,
                               retuned, retunes>>
           ELSE /\ \E hit \in SUBSET Clean :
                       received' = WithoutSignal(UpdateInterferenceEnd(hit, s), s)
                /\ totalPower' = DOMAIN received \ {s}
                /\ retuned' = FALSE
                /\ UNCHANGED <<history, csInterrupt, csEnabled, carrierFreq, retunes>>
        /\ UNCHANGED <<stateVars, txVars, mailVars, disabled>>
        /\ Watch

(* The history of received power covers the RSSI integration time.          *)
HistoryLongEnough ==
    /\ history = "short" /\ ~draining /\ mail = <<>>
    /\ history' = "long"
    /\ UNCHANGED <<received, totalPower, csInterrupt, csEnabled, carrierFreq, retuned,
                   retunes, stateVars, txVars, mailVars, disabled, air>>
    /\ Watch

(* External: the MAC, and the layers above it, may send anything anytime.   *)
(* What they send to a disabled radio is deleted.                           *)
MacSends ==
    /\ ~disabled
    /\ Len(mail) < MaxMail
    /\ \E cmd \in [kind : {"SET_STATE"}, to : BasicState, self : {FALSE}]
                    \cup [kind : {"SET_CARRIER_FREQ"},
                          freq : IF retunes < MaxRetunes THEN Freq \ {carrierFreq} ELSE {}]
                    \cup [kind : {"SET_CS_INTERRUPT"}, on : BOOLEAN]
                    \cup [kind : {"SET_MODE", "MAC_LAYER_PACKET"}] :
           /\ cmd.kind = "SET_CARRIER_FREQ" =>
                  \A i \in DOMAIN mail : mail[i].kind # "SET_CARRIER_FREQ"
           /\ mail' = Append(mail, cmd)
    /\ UNCHANGED <<draining, stateVars, txVars, rxVars, disabled, air>>
    /\ Watch

(* NODE_STARTUP                                                             *)
Startup ==
    /\ disabled
    /\ disabled' = FALSE
    /\ history' = IF history = "none" THEN "short" ELSE history
    /\ totalPower' = {}
    /\ UNCHANGED <<received, csInterrupt, csEnabled, carrierFreq, retuned, retunes,
                   stateVars, txVars, mailVars, air>>
    /\ Watch

(* initialize: the transition to the starting state is completed at once,   *)
(* before the node is started up.                                           *)
Init ==
    /\ disabled = TRUE
    /\ state = StartState /\ changingToState = None /\ transition = None
    /\ continueTX = 0 /\ radioBuffer = 0 /\ stateAfterTX = DefaultStateAfterTX
    /\ received = [s \in {} |-> {}] /\ totalPower = {}
    /\ history = IF StartState = "RX" THEN "short" ELSE "none"
    /\ csInterrupt = 0 /\ csEnabled = FALSE
    /\ carrierFreq = CHOOSE f \in Freq : TRUE
    /\ power = IF StartState = "TX" THEN "change" ELSE StartState
    /\ mail = IF StartState = "TX" THEN <<SetStateTo("RX", TRUE)>> ELSE <<>>
    /\ draining = FALSE
    /\ air = {} /\ missed = {}
    /\ retuned = FALSE /\ retunes = 0

Next ==
    \/ Startup
    \/ ReadMail \/ FinishTransition \/ ContinueTX \/ CSinterrupt
    \/ SignalStart \/ SignalEnd \/ HistoryLongEnough
    \/ MacSends

Spec == Init /\ [][Next]_vars

-----------------------------------------------------------------------------
(* Safety                                                                   *)

(* Exactly while the radio changes state there is one message that will     *)
(* complete the change: a second command before the first is done neither   *)
(* leaves two of them (Radio.cc:548-556) nor none.                          *)
TransitionIsPending ==
    ~disabled =>
        /\ (changingToState = None) <=> (transition = None)
        /\ \A i, j \in DOMAIN mail :
               mail[i] = EnterState /\ mail[j] = EnterState => i = j
        /\ (transition = "now") <=> \E i \in DOMAIN mail : mail[i] = EnterState

(* One packet is sent at a time, and the radio stays in TX until it is over *)
(* whatever it is told meanwhile (Radio.cc:412-418).                        *)
TransmitsOnlyInTX ==
    /\ continueTX \in {0, 1}
    /\ continueTX = 1 => state = "TX" /\ changingToState = None

(* A started radio that is in TX, where it does nothing by itself, always   *)
(* has a message ahead that takes it out: the end of a transmission or its  *)
(* own command (Radio.cc:300-319, 578-583).                                 *)
NeverStuckInTX ==
    ~disabled /\ state = "TX" /\ changingToState = None =>
        \/ continueTX = 1
        \/ \E i \in DOMAIN mail : mail[i].kind = "SET_STATE" /\ mail[i].self

(* A packet is handed to the MAC if its signal is still clean when it ends: *)
(* then the radio listened on its frequency from its first bit on, although *)
(* it keeps track of signals also while it does not listen, and states come *)
(* and go during a signal (Radio.cc:93-102, 203-211, 797-817).              *)
CleanWasHeard == Listening => Clean \cap missed = {}

(* The interference a clean signal is judged by is that of exactly the      *)
(* other signals on its frequency, through any overlap of starts and ends   *)
(* (Radio.cc:823-893), unless the frequency was changed: the signals of the *)
(* other frequency stay in the total power until it is summed up again.     *)
InterferenceIsReal ==
    Listening /\ ~retuned =>
        \A s \in Clean : received[s].interference = DOMAIN received \ {s}

(* While the radio rests in a state, the resource manager charges it for    *)
(* that state.  Entering TX with nothing to send is charged as the change.  *)
PowerMatchesState ==
    changingToState = None =>
        power = state \/ (state = "TX" /\ continueTX = 0)

=============================================================================
