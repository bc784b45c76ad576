------------------------------ MODULE NodeProofs ------------------------------
(***************************************************************************)
(* Proofs about two parts of a node below its MAC, each on its own: the     *)
(* radio, for every set of senders and frequencies, buffer size and bound   *)
(* on the mail of an instant; and the timer service, for every vector size, *)
(* set of addresses, set of delays and length of the run.                   *)
(***************************************************************************)
EXTENDS Radio, TimerService, SequenceTheorems, TLAPS

-----------------------------------------------------------------------------
(* The mail.  Three kinds of messages are in it at most once.               *)
IsEnter(c) == c = EnterState
IsSelf(c) == c.kind = "SET_STATE" /\ c.self
IsRetune(c) == c.kind = "SET_CARRIER_FREQ"

HasEnter(m) == \E i \in DOMAIN m : IsEnter(m[i])
HasSelf(m) == \E i \in DOMAIN m : IsSelf(m[i])
HasRetune(m) == \E i \in DOMAIN m : IsRetune(m[i])

MailOK(m) ==
    /\ m \in Seq(Command)
    /\ \A i, j \in DOMAIN m : IsEnter(m[i]) /\ IsEnter(m[j]) => i = j
    /\ \A i, j \in DOMAIN m : IsSelf(m[i]) /\ IsSelf(m[j]) => i = j
    /\ \A i, j \in DOMAIN m : IsRetune(m[i]) /\ IsRetune(m[j]) => i = j
    /\ \A i \in DOMAIN m : IsSelf(m[i]) => m[i].to \in {"RX", "SLEEP"}

(* What taking the first message away leaves.                               *)
TailOf(m, t) ==
    /\ MailOK(t)
    /\ Head(m) \in Command
    /\ HasEnter(m) <=> (IsEnter(Head(m)) \/ HasEnter(t))
    /\ HasSelf(m) <=> (IsSelf(Head(m)) \/ HasSelf(t))
    /\ HasRetune(m) <=> (IsRetune(Head(m)) \/ HasRetune(t))
    /\ IsEnter(Head(m)) => ~HasEnter(t)
    /\ IsSelf(Head(m)) => ~HasSelf(t) /\ Head(m).to \in {"RX", "SLEEP"}
    /\ IsRetune(Head(m)) => ~HasRetune(t)

LEMMA TailMail ==
  ASSUME NEW m, MailOK(m), m # <<>>
  PROVE  TailOf(m, Tail(m))
<1> DEFINE t == Tail(m)
<1>1. /\ m \in Seq(Command) /\ t \in Seq(Command)
      /\ Len(m) \in Nat /\ Len(m) > 0 /\ Len(t) = Len(m) - 1
      /\ DOMAIN m = 1 .. Len(m) /\ DOMAIN t = 1 .. Len(t)
      /\ Head(m) = m[1]
      /\ \A i \in DOMAIN t : t[i] = m[i + 1]
  BY DEF MailOK
<1>2. Head(m) \in Command
  BY <1>1
<1>3. \A i \in DOMAIN t : i + 1 \in DOMAIN m /\ i + 1 # 1
  BY <1>1
<1>4. \A i \in DOMAIN m : i = 1 \/ (i - 1 \in DOMAIN t /\ t[i - 1] = m[i])
  BY <1>1
<1>5. 1 \in DOMAIN m
  BY <1>1
<1>6. \A i, j \in DOMAIN t : i + 1 = j + 1 => i = j
  BY <1>1
<1> HIDE DEF t
<1>7. MailOK(t)
  BY <1>1, <1>3, <1>6 DEF MailOK
<1>8. HasEnter(m) <=> (IsEnter(Head(m)) \/ HasEnter(t))
  BY <1>1, <1>3, <1>4, <1>5 DEF HasEnter
<1>9. HasSelf(m) <=> (IsSelf(Head(m)) \/ HasSelf(t))
  BY <1>1, <1>3, <1>4, <1>5 DEF HasSelf
<1>10. HasRetune(m) <=> (IsRetune(Head(m)) \/ HasRetune(t))
  BY <1>1, <1>3, <1>4, <1>5 DEF HasRetune
<1>11. IsEnter(Head(m)) => ~HasEnter(t)
  BY <1>1, <1>3, <1>5 DEF HasEnter, MailOK
<1>12. IsSelf(Head(m)) => ~HasSelf(t) /\ Head(m).to \in {"RX", "SLEEP"}
  BY <1>1, <1>3, <1>5 DEF HasSelf, MailOK
<1>13. IsRetune(Head(m)) => ~HasRetune(t)
  BY <1>1, <1>3, <1>5 DEF HasRetune, MailOK
<1> QED BY <1>2, <1>7, <1>8, <1>9, <1>10, <1>11, <1>12, <1>13 DEF TailOf, t

(* What adding one at the end makes of it.                                  *)
AppendOf(m, c, a) ==
    /\ MailOK(a)
    /\ HasEnter(a) <=> (HasEnter(m) \/ IsEnter(c))
    /\ HasSelf(a) <=> (HasSelf(m) \/ IsSelf(c))
    /\ HasRetune(a) <=> (HasRetune(m) \/ IsRetune(c))

LEMMA AppendMail ==
  ASSUME NEW m, NEW c \in Command, MailOK(m),
         IsEnter(c) => ~HasEnter(m),
         IsSelf(c) => ~HasSelf(m) /\ c.to \in {"RX", "SLEEP"},
         IsRetune(c) => ~HasRetune(m)
  PROVE  AppendOf(m, c, Append(m, c))
<1> DEFINE a == Append(m, c)
<1>1. /\ m \in Seq(Command) /\ a \in Seq(Command)
      /\ Len(m) \in Nat /\ Len(a) = Len(m) + 1
      /\ DOMAIN m = 1 .. Len(m) /\ DOMAIN a = 1 .. Len(m) + 1
      /\ a[Len(m) + 1] = c
      /\ \A i \in DOMAIN m : a[i] = m[i]
  BY DEF MailOK
<1>2. \A i \in DOMAIN a : i \in DOMAIN m \/ i = Len(m) + 1
  BY <1>1
<1>3. \A i \in DOMAIN m : i \in DOMAIN a
  BY <1>1
<1>4. Len(m) + 1 \in DOMAIN a
  BY <1>1
<1> HIDE DEF a
<1>5. MailOK(a)
  <2>1. \A i, j \in DOMAIN a : IsEnter(a[i]) /\ IsEnter(a[j]) => i = j
    BY <1>1, <1>2 DEF HasEnter, MailOK
  <2>2. \A i, j \in DOMAIN a : IsSelf(a[i]) /\ IsSelf(a[j]) => i = j
    BY <1>1, <1>2 DEF HasSelf, MailOK
  <2>3. \A i, j \in DOMAIN a : IsRetune(a[i]) /\ IsRetune(a[j]) => i = j
    BY <1>1, <1>2 DEF HasRetune, MailOK
  <2>4. \A i \in DOMAIN a : IsSelf(a[i]) => a[i].to \in {"RX", "SLEEP"}
    BY <1>1, <1>2 DEF MailOK
  <2> QED BY <1>1, <2>1, <2>2, <2>3, <2>4 DEF MailOK
<1>6. HasEnter(a) <=> (HasEnter(m) \/ IsEnter(c))
  BY <1>1, <1>2, <1>3, <1>4 DEF HasEnter
<1>7. HasSelf(a) <=> (HasSelf(m) \/ IsSelf(c))
  BY <1>1, <1>2, <1>3, <1>4 DEF HasSelf
<1>8. HasRetune(a) <=> (HasRetune(m) \/ IsRetune(c))
  BY <1>1, <1>2, <1>3, <1>4 DEF HasRetune
<1> QED BY <1>5, <1>6, <1>7, <1>8 DEF AppendOf, a

(* Cancelling the end of a transition leaves the rest of the mail alone.    *)
CancelOf(m, c) ==
    /\ MailOK(c)
    /\ ~HasEnter(c)
    /\ HasSelf(c) <=> HasSelf(m)
    /\ HasRetune(c) <=> HasRetune(m)

LEMMA CancelMail ==
  ASSUME NEW m, MailOK(m)
  PROVE  CancelOf(m, CancelTransition(m))
<1> DEFINE c == CancelTransition(m)
           dead == [kind |-> "cancelled"]
<1>1. m \in Seq(Command) /\ DOMAIN m = 1 .. Len(m) /\ Len(m) \in Nat
  BY DEF MailOK
<1>2. dead \in Command /\ ~IsEnter(dead) /\ ~IsSelf(dead) /\ ~IsRetune(dead)
  BY DEF Command, IsEnter, IsSelf, IsRetune, EnterState
<1>3. ~IsSelf(EnterState) /\ ~IsRetune(EnterState)
  BY DEF IsSelf, IsRetune, EnterState
<1>4. /\ DOMAIN c = DOMAIN m
      /\ \A i \in DOMAIN m : c[i] = IF IsEnter(m[i]) THEN dead ELSE m[i]
  BY DEF CancelTransition, IsEnter
<1>5. c \in Seq(Command)
  <2>1. c = [i \in 1 .. Len(m) |-> IF IsEnter(m[i]) THEN dead ELSE m[i]]
    BY <1>1 DEF CancelTransition, IsEnter
  <2>2. \A i \in 1 .. Len(m) : (IF IsEnter(m[i]) THEN dead ELSE m[i]) \in Command
    BY <1>1, <1>2
  <2> QED BY <1>1, <2>1, <2>2, IsASeq
<1> HIDE DEF c, dead
<1>6. \A i \in DOMAIN c : /\ ~IsEnter(c[i])
                          /\ IsSelf(c[i]) <=> IsSelf(m[i])
                          /\ IsRetune(c[i]) <=> IsRetune(m[i])
                          /\ IsSelf(c[i]) => c[i] = m[i]
  BY <1>2, <1>3, <1>4 DEF IsEnter
<1>7. MailOK(c)
  BY <1>4, <1>5, <1>6 DEF MailOK
<1>8. ~HasEnter(c)
  BY <1>6 DEF HasEnter
<1>9. HasSelf(c) <=> HasSelf(m)
  BY <1>4, <1>6 DEF HasSelf
<1>10. HasRetune(c) <=> HasRetune(m)
  BY <1>4, <1>6 DEF HasRetune
<1> QED BY <1>7, <1>8, <1>9, <1>10 DEF CancelOf, c

-----------------------------------------------------------------------------
(* Commands.                                                                *)
LEMMA CommandFields ==
  ASSUME NEW c \in Command
  PROVE  /\ c.kind = "SET_STATE" => c.to \in BasicState /\ c.self \in BOOLEAN
         /\ c.kind = "SET_CARRIER_FREQ" => c.freq \in Freq
         /\ c.kind = "SET_CS_INTERRUPT" => c.on \in BOOLEAN
         /\ c.kind = "ENTER_STATE" => IsEnter(c)
         /\ c.kind # "ENTER_STATE" => ~IsEnter(c)
BY DEF Command, IsEnter, EnterState

LEMMA OwnCommands ==
  ASSUME NEW s \in BasicState
  PROVE  /\ SetStateTo(s, TRUE) \in Command
         /\ IsSelf(SetStateTo(s, TRUE))
         /\ SetStateTo(s, TRUE).to = s
         /\ ~IsEnter(SetStateTo(s, TRUE)) /\ ~IsRetune(SetStateTo(s, TRUE))
BY DEF SetStateTo, Command, IsSelf, IsEnter, IsRetune, EnterState

LEMMA EnterCommand ==
  EnterState \in Command /\ IsEnter(EnterState) /\ ~IsSelf(EnterState) /\ ~IsRetune(EnterState)
BY DEF EnterState, Command, IsSelf, IsEnter, IsRetune

-----------------------------------------------------------------------------
(* The control part of the radio: states, transitions, transmission, mail.  *)
ControlType ==
    /\ disabled \in BOOLEAN
    /\ state \in BasicState /\ changingToState \in BasicState \cup {None}
    /\ transition \in {None, "timed", "now"}
    /\ radioBuffer \in 0 .. BufferSize
    /\ stateAfterTX \in BasicState
    /\ power \in BasicState \cup {"change"}
    /\ draining \in BOOLEAN
    /\ retunes \in 0 .. MaxRetunes

ChangeInv ==
    /\ (changingToState = None) <=> (transition = None)
    /\ (transition = "now") <=> HasEnter(mail)

TransmitInv ==
    /\ continueTX \in {0, 1}
    /\ continueTX = 1 => state = "TX" /\ changingToState = None

(* Its own command to leave TX is under way only when it is in TX, sends    *)
(* nothing, and has not begun to change.                                    *)
SelfInv ==
    HasSelf(mail) => state = "TX" /\ changingToState = None /\ continueTX = 0

(* A radio that starts in TX is excepted: its command is deleted if it is   *)
(* read before NODE_STARTUP.                                                *)
LeaveInv ==
    StartState # "TX" /\ state = "TX" /\ changingToState = None /\ continueTX = 0
        => HasSelf(mail)

DisabledInv ==
    disabled => changingToState = None /\ continueTX = 0 /\ state = StartState

ControlInv ==
    /\ ControlType
    /\ MailOK(mail)
    /\ HasRetune(mail) => retunes < MaxRetunes
    /\ ChangeInv /\ TransmitInv /\ SelfInv /\ LeaveInv /\ DisabledInv
    /\ PowerMatchesState

(* What follows from mail that is read, whatever is read.                   *)
LEMMA SetStateOK ==
  ASSUME RadioAssumption, ControlInv, ~disabled, mail # <<>>,
         Head(mail).kind = "SET_STATE",
         SetState(Tail(mail), Head(mail)), UNCHANGED disabled, draining' \in BOOLEAN
  PROVE  ControlInv'
<1> DEFINE m == Tail(mail)
           cmd == Head(mail)
<1>1. TailOf(mail, m)
  BY TailMail DEF ControlInv
<1>2. cmd \in Command /\ cmd.to \in BasicState /\ cmd.self \in BOOLEAN
  BY <1>1, CommandFields DEF TailOf
<1>3. ~IsEnter(cmd) /\ ~IsRetune(cmd) /\ (IsSelf(cmd) <=> cmd.self)
  BY <1>2, CommandFields DEF IsRetune, IsSelf
<1>4. /\ MailOK(m)
      /\ HasEnter(m) <=> HasEnter(mail)
      /\ HasSelf(m) \/ cmd.self <=> HasSelf(mail)
      /\ cmd.self => ~HasSelf(m) /\ cmd.to \in {"RX", "SLEEP"}
      /\ HasRetune(m) <=> HasRetune(mail)
  BY <1>1, <1>3 DEF TailOf
<1>5. UNCHANGED <<disabled, retunes>> /\ SetState(m, cmd)
  BY DEF SetState, rxVars
<1> HIDE DEF m, cmd
<1>6. CASE Redundant(cmd.to)
  <2>1. mail' = m /\ UNCHANGED <<stateVars, txVars>>
    BY <1>5, <1>6 DEF SetState
  <2>2. ~cmd.self
    BY <1>4, <1>6 DEF Redundant, ControlInv, SelfInv, ControlType, BasicState, RadioAssumption
  <2> QED
    BY <1>4, <1>5, <2>1, <2>2
    DEF ControlInv, ControlType, ChangeInv, TransmitInv, SelfInv, LeaveInv, DisabledInv,
        PowerMatchesState, stateVars, txVars
<1>7. CASE ~Redundant(cmd.to) /\ Transmitting(cmd.self)
  <2>1. /\ stateAfterTX' = cmd.to /\ mail' = m
        /\ UNCHANGED <<stateVars, continueTX, radioBuffer>>
    BY <1>5, <1>7 DEF SetState
  <2>2. ~cmd.self
    BY <1>7 DEF Transmitting
  <2> QED
    BY <1>2, <1>4, <1>5, <2>1, <2>2
    DEF ControlInv, ControlType, ChangeInv, TransmitInv, SelfInv, LeaveInv, DisabledInv,
        PowerMatchesState, stateVars
<1>8. CASE ~Redundant(cmd.to) /\ ~Transmitting(cmd.self)
  <2>1. /\ changingToState' = cmd.to /\ power' = "change"
        /\ DelayStateTransition(m, cmd.to)
        /\ UNCHANGED <<state, continueTX, radioBuffer, stateAfterTX>>
    BY <1>5, <1>8 DEF SetState, txVars
  <2>2. ~HasSelf(m) /\ continueTX = 0
    <3>1. CASE state = "TX" /\ changingToState = None
      <4>1. cmd.self
        BY <1>8, <3>1, <1>2 DEF Transmitting
      <4> QED BY <4>1, <1>4 DEF ControlInv, SelfInv
    <3>2. CASE ~(state = "TX" /\ changingToState = None)
      BY <3>2, <1>4 DEF ControlInv, SelfInv, TransmitInv
    <3> QED BY <3>1, <3>2
  <2>3. CancelOf(m, CancelTransition(m))
    BY <1>4, CancelMail
  <2>4. AppendOf(CancelTransition(m), EnterState, Append(CancelTransition(m), EnterState))
    BY <2>3, AppendMail, EnterCommand DEF CancelOf
  <2>5. cmd.to # None
    BY <1>2 DEF RadioAssumption
  <2>6. \/ transition' = "timed" /\ mail' = CancelTransition(m)
        \/ transition' = "now" /\ mail' = Append(CancelTransition(m), EnterState)
    BY <2>1 DEF DelayStateTransition
  <2>7. /\ MailOK(mail') /\ ~HasSelf(mail') /\ (HasRetune(mail') <=> HasRetune(mail))
        /\ (transition' = "now") <=> HasEnter(mail')
        /\ transition' \in {"timed", "now"}
    BY <2>2, <2>3, <2>4, <2>6, <1>4, EnterCommand DEF CancelOf, AppendOf
  <2>8. ControlType'
    BY <1>2, <1>5, <2>1, <2>7 DEF ControlInv, ControlType
  <2>9. ChangeInv' /\ TransmitInv' /\ SelfInv' /\ LeaveInv' /\ DisabledInv' /\ PowerMatchesState'
    BY <1>5, <2>1, <2>2, <2>5, <2>7
    DEF ControlInv, ControlType, ChangeInv, TransmitInv, SelfInv, LeaveInv, DisabledInv,
        PowerMatchesState
  <2> QED BY <1>5, <2>7, <2>8, <2>9 DEF ControlInv
<1> QED BY <1>6, <1>7, <1>8

(* The end of a transition, with what is left of the mail when it is read   *)
(* (m).                                                                     *)
LEMMA CompleteOK ==
  ASSUME RadioAssumption, ControlInv, ~disabled, changingToState # None,
         NEW m, MailOK(m), ~HasEnter(m), HasSelf(m) => HasSelf(mail),
         HasRetune(m) => HasRetune(mail),
         CompleteStateTransition(m), UNCHANGED disabled, draining' \in BOOLEAN
  PROVE  ControlInv'
<1>1. /\ ~HasSelf(m) /\ continueTX = 0
      /\ state' = changingToState /\ changingToState' = None /\ transition' = None
      /\ UNCHANGED <<disabled, stateAfterTX, retunes>>
  BY DEF CompleteStateTransition, ControlInv, SelfInv, TransmitInv
<1>2. (HasRetune(m) => retunes < MaxRetunes) /\ ~(None = "now") /\ "TX" # None
  BY DEF ControlInv, RadioAssumption, BasicState
<1>3. CASE changingToState = "TX" /\ EnterTX(m) /\ radioBuffer > 0
  <2>1. /\ mail' = m /\ radioBuffer' = radioBuffer - 1
        /\ continueTX' = continueTX + 1 /\ power' = "TX"
    BY <1>3 DEF EnterTX, SendPacket
  <2>2. continueTX' = 1
    BY <1>1, <2>1
  <2>3. ControlType'
    BY <1>1, <1>3, <2>1 DEF ControlInv, ControlType, RadioAssumption
  <2> QED
    BY <1>1, <1>2, <1>3, <2>1, <2>2, <2>3
    DEF ControlInv, ChangeInv, TransmitInv, SelfInv, LeaveInv, DisabledInv, PowerMatchesState
<1>4. CASE changingToState = "TX" /\ EnterTX(m) /\ ~(radioBuffer > 0)
  <2> DEFINE c == SetStateTo("RX", TRUE)
  <2>1. /\ mail' = Append(m, c)
        /\ UNCHANGED <<continueTX, radioBuffer, power>>
    BY <1>4 DEF EnterTX
  <2>2. c \in Command /\ IsSelf(c) /\ c.to = "RX" /\ ~IsEnter(c) /\ ~IsRetune(c)
    BY OwnCommands DEF BasicState
  <2> HIDE DEF c
  <2>3. AppendOf(m, c, Append(m, c))
    BY <1>1, <2>2, AppendMail
  <2>4. MailOK(mail') /\ ~HasEnter(mail') /\ HasSelf(mail') /\ (HasRetune(mail') <=> HasRetune(m))
    BY <2>1, <2>2, <2>3 DEF AppendOf
  <2>5. ControlType'
    BY <1>1, <1>4, <2>1 DEF ControlInv, ControlType
  <2> QED
    BY <1>1, <1>2, <1>4, <2>1, <2>4, <2>5
    DEF ControlInv, ChangeInv, TransmitInv, SelfInv, LeaveInv, DisabledInv, PowerMatchesState
<1>5. CASE changingToState = "RX" /\ EnterRX(m)
  <2>1. mail' = m /\ power' = "RX" /\ UNCHANGED <<continueTX, radioBuffer>>
    BY <1>5 DEF EnterRX
  <2>2. ControlType'
    BY <1>1, <1>5, <2>1 DEF ControlInv, ControlType
  <2> QED
    BY <1>1, <1>2, <1>5, <2>1, <2>2
    DEF ControlInv, ChangeInv, TransmitInv, SelfInv, LeaveInv, DisabledInv, PowerMatchesState
<1>6. CASE changingToState = "SLEEP" /\ EnterSLEEP(m)
  <2>1. mail' = m /\ power' = "SLEEP" /\ UNCHANGED <<continueTX, radioBuffer>>
    BY <1>6 DEF EnterSLEEP
  <2>2. ControlType'
    BY <1>1, <1>6, <2>1 DEF ControlInv, ControlType
  <2> QED
    BY <1>1, <1>2, <1>6, <2>1, <2>2
    DEF ControlInv, ChangeInv, TransmitInv, SelfInv, LeaveInv, DisabledInv, PowerMatchesState
<1> QED BY <1>3, <1>4, <1>5, <1>6 DEF CompleteStateTransition

(* A message that changes at most the packets in the buffer, the power as   *)
(* SET_MODE does, and the frequency.                                        *)
LEMMA ReadOK ==
  ASSUME RadioAssumption, ControlInv, mail # <<>>,
         ~IsEnter(Head(mail)), ~IsSelf(Head(mail)) \/ disabled,
         mail' = Tail(mail), draining' \in BOOLEAN,
         radioBuffer' \in 0 .. BufferSize,
         power' = power \/ (power' = "RX" /\ state = "RX"),
         \/ UNCHANGED retunes
         \/ IsRetune(Head(mail)) /\ retunes' = retunes + 1,
         UNCHANGED <<disabled, state, changingToState, transition, continueTX, stateAfterTX>>
  PROVE  ControlInv'
<1> DEFINE t == Tail(mail)
<1>1. TailOf(mail, t)
  BY TailMail DEF ControlInv
<1> HIDE DEF t
<1>2. /\ MailOK(t)
      /\ HasEnter(t) <=> HasEnter(mail)
      /\ HasSelf(t) => HasSelf(mail)
      /\ ~disabled => (HasSelf(t) <=> HasSelf(mail))
      /\ HasRetune(t) => HasRetune(mail) /\ ~IsRetune(Head(mail))
  BY <1>1 DEF TailOf
<1>3. mail' = t
  BY DEF t
<1>4. retunes' \in 0 .. MaxRetunes /\ (HasRetune(mail') => retunes' < MaxRetunes)
  <2>1. HasRetune(mail) => retunes < MaxRetunes
    BY DEF ControlInv
  <2>2. retunes \in 0 .. MaxRetunes /\ MaxRetunes \in Nat
    BY DEF ControlInv, ControlType, RadioAssumption
  <2>3. IsRetune(Head(mail)) => HasRetune(mail)
    BY <1>1 DEF TailOf
  <2>4. CASE UNCHANGED retunes
    BY <1>2, <1>3, <2>1, <2>2, <2>4
  <2>5. CASE IsRetune(Head(mail)) /\ retunes' = retunes + 1
    <3>1. retunes < MaxRetunes /\ ~HasRetune(mail')
      BY <1>2, <1>3, <2>1, <2>3, <2>5
    <3>2. retunes' \in 0 .. MaxRetunes
      BY <2>2, <2>5, <3>1
    <3> QED BY <3>1, <3>2
  <2> QED BY <2>4, <2>5
<1>5. ControlType'
  BY <1>4 DEF ControlInv, ControlType, BasicState
<1>6. LeaveInv'
  <2>1. CASE disabled
    BY <2>1 DEF ControlInv, DisabledInv, LeaveInv
  <2>2. CASE ~disabled
    BY <1>2, <1>3, <2>2 DEF ControlInv, LeaveInv
  <2> QED BY <2>1, <2>2
<1>7. PowerMatchesState'
  BY DEF ControlInv, PowerMatchesState
<1>8. ChangeInv' /\ TransmitInv' /\ SelfInv' /\ DisabledInv'
  BY <1>2, <1>3 DEF ControlInv, ChangeInv, TransmitInv, SelfInv, DisabledInv
<1> QED BY <1>2, <1>3, <1>4, <1>5, <1>6, <1>7, <1>8 DEF ControlInv

LEMMA ReadMailOK ==
  ASSUME RadioAssumption, ControlInv, ReadMail
  PROVE  ControlInv'
<1> DEFINE m == Tail(mail)
           cmd == Head(mail)
<1>1. mail # <<>> /\ draining' \in BOOLEAN /\ UNCHANGED disabled
  BY DEF ReadMail
<1>2. TailOf(mail, m)
  BY <1>1, TailMail DEF ControlInv
<1>3. cmd \in Command
  BY <1>2 DEF TailOf
<1>4. radioBuffer \in 0 .. BufferSize /\ BufferSize \in Nat
  BY DEF ControlInv, ControlType, RadioAssumption
<1> HIDE DEF m, cmd
<1>5. CASE disabled
  <2>1. mail' = m /\ UNCHANGED <<stateVars, txVars, rxVars>>
    BY <1>5 DEF ReadMail, m
  <2>2. ~IsEnter(cmd)
    BY <1>2, <1>5 DEF TailOf, cmd, ControlInv, DisabledInv, ChangeInv, RadioAssumption
  <2> QED
    BY <1>1, <1>4, <1>5, <2>1, <2>2, ReadOK DEF m, cmd, stateVars, txVars, rxVars
<1>6. CASE ~disabled /\ cmd.kind = "SET_STATE"
  <2>1. SetState(m, cmd)
    BY <1>6 DEF ReadMail, m, cmd
  <2> QED
    BY <1>1, <1>6, <2>1, SetStateOK DEF m, cmd
<1>7. CASE ~disabled /\ cmd.kind = "ENTER_STATE"
  <2>1. CompleteStateTransition(m)
    BY <1>7 DEF ReadMail, m, cmd
  <2>2. IsEnter(cmd)
    BY <1>3, <1>7, CommandFields
  <2>3. MailOK(m) /\ ~HasEnter(m) /\ (HasSelf(m) => HasSelf(mail)) /\ (HasRetune(m) => HasRetune(mail))
    BY <1>2, <2>2 DEF TailOf, cmd
  <2>4. changingToState # None
    BY <1>2, <2>2 DEF TailOf, cmd, ControlInv, ChangeInv, RadioAssumption
  <2> QED
    BY <1>1, <1>7, <2>1, <2>3, <2>4, CompleteOK
<1>8. CASE ~disabled /\ cmd.kind \notin {"SET_STATE", "ENTER_STATE"}
  <2>1. ~IsEnter(cmd) /\ ~IsSelf(cmd)
    BY <1>3, <1>8, CommandFields DEF IsSelf
  <2>2. /\ mail' = m
        /\ \/ cmd.kind = "SET_CARRIER_FREQ" /\ SetCarrierFreq(cmd)
           \/ cmd.kind = "SET_CS_INTERRUPT" /\ SetCSinterrupt(cmd)
           \/ SetMode
           \/ BufferPacket
           \/ UNCHANGED <<stateVars, txVars, rxVars>>
    BY <1>8 DEF ReadMail, m, cmd
  <2>3. /\ radioBuffer' \in 0 .. BufferSize
        /\ power' = power \/ (power' = "RX" /\ state = "RX")
        /\ UNCHANGED retunes \/ (IsRetune(cmd) /\ retunes' = retunes + 1)
        /\ UNCHANGED <<state, changingToState, transition, continueTX, stateAfterTX>>
    BY <1>4, <2>2
    DEF SetCarrierFreq, SetCSinterrupt, SetMode, BufferPacket, IsRetune, stateVars, txVars, rxVars
  <2> QED
    BY <1>1, <2>1, <2>2, <2>3, ReadOK DEF m, cmd
<1> QED BY <1>5, <1>6, <1>7, <1>8

LEMMA FinishTransitionOK ==
  ASSUME RadioAssumption, ControlInv, FinishTransition
  PROVE  ControlInv'
<1>1. /\ ~disabled /\ transition = "timed" /\ CompleteStateTransition(mail)
      /\ UNCHANGED <<draining, disabled>>
  BY DEF FinishTransition
<1>2. MailOK(mail) /\ draining' \in BOOLEAN
  BY <1>1 DEF ControlInv, ControlType
<1>3. changingToState # None /\ ~HasEnter(mail)
  BY <1>1 DEF ControlInv, ChangeInv, RadioAssumption
<1> QED BY <1>1, <1>2, <1>3, CompleteOK

LEMMA ContinueTXOK ==
  ASSUME RadioAssumption, ControlInv, ContinueTX
  PROVE  ControlInv'
<1>1. /\ ~disabled /\ continueTX = 1 /\ state = "TX" /\ changingToState = None
      /\ ~HasSelf(mail) /\ MailOK(mail)
  BY DEF ContinueTX, ControlInv, TransmitInv, SelfInv
<1>2. UNCHANGED <<state, changingToState, transition, retunes, draining, disabled>>
  BY DEF ContinueTX
<1>3. CASE radioBuffer > 0
  <2>1. /\ radioBuffer' = radioBuffer - 1 /\ power' = "TX"
        /\ UNCHANGED <<continueTX, stateAfterTX, mail>>
    BY <1>3 DEF ContinueTX
  <2>2. ControlType'
    BY <1>2, <1>3, <2>1 DEF ControlInv, ControlType, BasicState, RadioAssumption
  <2> QED
    BY <1>1, <1>2, <2>1, <2>2
    DEF ControlInv, ChangeInv, TransmitInv, SelfInv, LeaveInv, DisabledInv, PowerMatchesState
<1>4. CASE ~(radioBuffer > 0)
  <2> DEFINE s == IF stateAfterTX = "SLEEP" THEN "SLEEP" ELSE "RX"
             c == SetStateTo(s, TRUE)
  <2>1. /\ mail' = Append(mail, c)
        /\ stateAfterTX' = DefaultStateAfterTX
        /\ continueTX' = continueTX - 1
        /\ UNCHANGED <<radioBuffer, power>>
    BY <1>4 DEF ContinueTX
  <2>2. s \in {"RX", "SLEEP"} /\ s \in BasicState
    BY DEF BasicState
  <2> HIDE DEF s
  <2>3. c \in Command /\ IsSelf(c) /\ c.to = s /\ ~IsEnter(c) /\ ~IsRetune(c)
    BY <2>2, OwnCommands
  <2> HIDE DEF c
  <2>4. AppendOf(mail, c, Append(mail, c))
    BY <1>1, <2>2, <2>3, AppendMail
  <2>5. /\ MailOK(mail') /\ (HasEnter(mail') <=> HasEnter(mail))
        /\ HasSelf(mail') /\ (HasRetune(mail') <=> HasRetune(mail))
    BY <2>1, <2>3, <2>4 DEF AppendOf
  <2>6. ControlType' /\ continueTX' = 0
    BY <1>1, <1>2, <2>1 DEF ControlInv, ControlType, BasicState, RadioAssumption
  <2> QED
    BY <1>1, <1>2, <2>1, <2>5, <2>6
    DEF ControlInv, ChangeInv, TransmitInv, SelfInv, LeaveInv, DisabledInv, PowerMatchesState
<1> QED BY <1>3, <1>4

LEMMA MacSendsOK ==
  ASSUME RadioAssumption, ControlInv, MacSends
  PROVE  ControlInv'
<1> PICK cmd \in [kind : {"SET_STATE"}, to : BasicState, self : {FALSE}]
                    \cup [kind : {"SET_CARRIER_FREQ"},
                          freq : IF retunes < MaxRetunes THEN Freq \ {carrierFreq} ELSE {}]
                    \cup [kind : {"SET_CS_INTERRUPT"}, on : BOOLEAN]
                    \cup [kind : {"SET_MODE", "MAC_LAYER_PACKET"}] :
           /\ cmd.kind = "SET_CARRIER_FREQ" =>
                  \A i \in DOMAIN mail : mail[i].kind # "SET_CARRIER_FREQ"
           /\ mail' = Append(mail, cmd)
  BY DEF MacSends
<1>1. UNCHANGED <<draining, stateVars, txVars, rxVars, disabled>>
  BY DEF MacSends
<1>2. cmd \in Command /\ ~IsEnter(cmd) /\ ~IsSelf(cmd) /\ (IsRetune(cmd) => retunes < MaxRetunes)
  <2>1. CASE cmd \in [kind : {"SET_STATE"}, to : BasicState, self : {FALSE}]
    <3>1. cmd \in [kind : {"SET_STATE"}, to : BasicState, self : BOOLEAN] /\ cmd.kind = "SET_STATE" /\ ~cmd.self
      BY <2>1
    <3> QED BY <3>1, CommandFields DEF Command, IsSelf, IsRetune
  <2>2. CASE cmd \in [kind : {"SET_CARRIER_FREQ"},
                      freq : IF retunes < MaxRetunes THEN Freq \ {carrierFreq} ELSE {}]
    <3>1. cmd \in [kind : {"SET_CARRIER_FREQ"}, freq : Freq] /\ retunes < MaxRetunes
      BY <2>2
    <3> QED BY <3>1, CommandFields DEF Command, IsSelf
  <2>3. CASE cmd \in [kind : {"SET_CS_INTERRUPT"}, on : BOOLEAN]
    BY <2>3, CommandFields DEF Command, IsSelf, IsRetune
  <2>4. CASE cmd \in [kind : {"SET_MODE", "MAC_LAYER_PACKET"}]
    <3>1. cmd \in [kind : {"SET_MODE", "MAC_LAYER_PACKET", "ENTER_STATE", "cancelled"}]
          /\ cmd.kind \in {"SET_MODE", "MAC_LAYER_PACKET"}
      BY <2>4
    <3> QED BY <3>1, CommandFields DEF Command, IsSelf, IsRetune
  <2> QED BY <2>1, <2>2, <2>3, <2>4
<1>3. IsRetune(cmd) => ~HasRetune(mail)
  BY DEF IsRetune, HasRetune
<1>4. AppendOf(mail, cmd, Append(mail, cmd))
  BY <1>2, <1>3, AppendMail DEF ControlInv
<1>5. /\ MailOK(mail') /\ (HasEnter(mail') <=> HasEnter(mail))
      /\ (HasSelf(mail') <=> HasSelf(mail))
      /\ HasRetune(mail') => retunes < MaxRetunes
  BY <1>2, <1>4 DEF AppendOf, ControlInv
<1> QED
  BY <1>1, <1>5
  DEF ControlInv, ControlType, ChangeInv, TransmitInv, SelfInv, LeaveInv, DisabledInv,
      PowerMatchesState, stateVars, txVars, rxVars

LEMMA ControlUnchanged ==
  ASSUME ControlInv, UNCHANGED <<stateVars, txVars, mailVars, retunes>>,
         disabled' \in BOOLEAN, disabled' => disabled
  PROVE  ControlInv'
BY DEF ControlInv, ControlType, ChangeInv, TransmitInv, SelfInv, LeaveInv, DisabledInv,
       PowerMatchesState, stateVars, txVars, mailVars

LEMMA ControlNext ==
  ASSUME RadioAssumption, ControlInv, [Next]_vars
  PROVE  ControlInv'
<1>0. disabled \in BOOLEAN
  BY DEF ControlInv, ControlType
<1>1. CASE Startup
  BY <1>0, <1>1, ControlUnchanged DEF Startup
<1>2. CASE CSinterrupt
  BY <1>0, <1>2, ControlUnchanged DEF CSinterrupt
<1>3. CASE SignalStart
  BY <1>0, <1>3, ControlUnchanged DEF SignalStart, rxVars
<1>4. CASE SignalEnd
  BY <1>0, <1>4, ControlUnchanged DEF SignalEnd, rxVars
<1>5. CASE HistoryLongEnough
  BY <1>0, <1>5, ControlUnchanged DEF HistoryLongEnough
<1>6. CASE UNCHANGED vars
  BY <1>0, <1>6, ControlUnchanged DEF vars, rxVars
<1> QED
  BY <1>1, <1>2, <1>3, <1>4, <1>5, <1>6, ReadMailOK, FinishTransitionOK, ContinueTXOK,
     MacSendsOK DEF Next

-----------------------------------------------------------------------------
(* The receiver: what the updates of the signals in progress leave.         *)
Signals(r) == r \in [DOMAIN r -> ReceivedSignal] /\ DOMAIN r \subseteq Signal

(* u keeps the signals of r; one that is clean in u was clean in r and has  *)
(* the interference see(s).                                                 *)
UpdatedSignals(r, u) ==
    /\ Signals(u)
    /\ DOMAIN u = DOMAIN r
    /\ \A s \in DOMAIN r : u[s].clean => r[s].clean

LEMMA StartUpdates ==
  ASSUME Signals(received), NEW hit, NEW new \in Signal
  PROVE  LET u == UpdateInterferenceStart(hit, new)
         IN  /\ UpdatedSignals(received, u)
             /\ \A s \in DOMAIN received :
                    u[s].clean => u[s].interference = received[s].interference \cup {new}
<1> DEFINE u == UpdateInterferenceStart(hit, new)
<1>1. u = [s \in DOMAIN received |->
              IF s \in hit THEN [received[s] EXCEPT !.clean = FALSE]
              ELSE IF s \in Clean
                   THEN [received[s] EXCEPT !.interference = received[s].interference \cup {new}]
              ELSE received[s]]
  BY DEF UpdateInterferenceStart, UpdateSignals
<1> HIDE DEF u
<1>2. DOMAIN u = DOMAIN received
  BY <1>1
<1>3. ASSUME NEW s \in DOMAIN received
      PROVE  /\ u[s] \in ReceivedSignal
             /\ u[s].clean => received[s].clean
             /\ u[s].clean => u[s].interference = received[s].interference \cup {new}
  <2>1. received[s] \in ReceivedSignal
    BY DEF Signals
  <2>2. CASE s \in hit
    BY <1>1, <2>1, <2>2 DEF ReceivedSignal
  <2>3. CASE s \notin hit /\ s \in Clean
    BY <1>1, <2>1, <2>3 DEF ReceivedSignal, Clean
  <2>4. CASE s \notin hit /\ s \notin Clean
    BY <1>1, <2>1, <2>4 DEF ReceivedSignal, Clean
  <2> QED BY <2>2, <2>3, <2>4
<1>4. u \in [DOMAIN u -> ReceivedSignal]
  BY <1>1, <1>2, <1>3
<1>5. UpdatedSignals(received, u)
  BY <1>2, <1>3, <1>4 DEF UpdatedSignals, Signals
<1> QED BY <1>3, <1>5 DEF u

LEMMA EndUpdates ==
  ASSUME Signals(received), NEW hit, NEW ending
  PROVE  LET u == UpdateInterferenceEnd(hit, ending)
         IN  /\ UpdatedSignals(received, u)
             /\ \A s \in DOMAIN received \ {ending} :
                    u[s].clean => u[s].interference = DOMAIN received \ {s, ending}
<1> DEFINE u == UpdateInterferenceEnd(hit, ending)
<1>1. u = [s \in DOMAIN received |->
              IF s \in hit THEN [received[s] EXCEPT !.clean = FALSE]
              ELSE IF s \in Clean
                   THEN [received[s] EXCEPT !.interference =
                            IF s = ending THEN received[s].interference
                            ELSE DOMAIN received \ {s, ending}]
              ELSE received[s]]
  BY DEF UpdateInterferenceEnd, UpdateSignals
<1> HIDE DEF u
<1>2. DOMAIN u = DOMAIN received
  BY <1>1
<1>3. ASSUME NEW s \in DOMAIN received
      PROVE  /\ u[s] \in ReceivedSignal
             /\ u[s].clean => received[s].clean
             /\ u[s].clean /\ s # ending => u[s].interference = DOMAIN received \ {s, ending}
  <2>1. received[s] \in ReceivedSignal /\ DOMAIN received \ {s, ending} \in SUBSET Signal
    BY DEF Signals
  <2>2. CASE s \in hit
    BY <1>1, <2>1, <2>2 DEF ReceivedSignal
  <2>3. CASE s \notin hit /\ s \in Clean
    BY <1>1, <2>1, <2>3 DEF ReceivedSignal, Clean
  <2>4. CASE s \notin hit /\ s \notin Clean
    BY <1>1, <2>1, <2>4 DEF ReceivedSignal, Clean
  <2> QED BY <2>2, <2>3, <2>4
<1>4. u \in [DOMAIN u -> ReceivedSignal]
  BY <1>1, <1>2, <1>3
<1>5. UpdatedSignals(received, u)
  BY <1>2, <1>3, <1>4 DEF UpdatedSignals, Signals
<1> QED BY <1>3, <1>5 DEF u

-----------------------------------------------------------------------------
(* The receiver part of the radio.                                          *)
ReceiverType ==
    /\ Signals(received) /\ DOMAIN received \subseteq air
    /\ air \subseteq Signal /\ missed \subseteq air
    /\ totalPower \subseteq Signal /\ history \in {"none", "short", "long"}
    /\ csInterrupt \in Nat /\ csEnabled \in BOOLEAN
    /\ carrierFreq \in Freq /\ retuned \in BOOLEAN

TotalInv == Listening /\ ~retuned => totalPower = DOMAIN received

ReceiverInv ==
    /\ ReceiverType
    /\ disabled => DOMAIN received = {}
    /\ TotalInv /\ InterferenceIsReal /\ CleanWasHeard

(* What never changes a signal, nor makes the radio listen.                 *)
LEMMA Quiet ==
  ASSUME ReceiverInv, Watch,
         UNCHANGED <<received, carrierFreq, retuned, air>>,
         disabled' => disabled,
         Listening' => Listening /\ UNCHANGED totalPower,
         totalPower' \subseteq Signal, history' \in {"none", "short", "long"},
         csInterrupt' \in Nat, csEnabled' \in BOOLEAN
  PROVE  ReceiverInv'
<1>1. missed' \subseteq air'
  BY DEF Watch
<1>2. Clean' = Clean
  BY DEF Clean
<1>3. ReceiverType' /\ (disabled' => DOMAIN received' = {}) /\ TotalInv' /\ InterferenceIsReal'
  BY <1>1, <1>2 DEF ReceiverInv, ReceiverType, Signals, TotalInv, InterferenceIsReal
<1>4. CleanWasHeard'
  BY <1>2 DEF ReceiverInv, CleanWasHeard, Watch, Clean
<1> QED BY <1>3, <1>4 DEF ReceiverInv

(* What leaves no signal clean, or a radio that does not listen.            *)
LEMMA NothingToHear ==
  ASSUME Watch, ReceiverType', disabled' => DOMAIN received' = {},
         \/ ~Listening'
         \/ Clean' = {} /\ TotalInv'
  PROVE  ReceiverInv'
BY DEF ReceiverInv, TotalInv, InterferenceIsReal, CleanWasHeard

LEMMA WatchTyped ==
  ASSUME Watch
  PROVE  missed' \subseteq air'
BY DEF Watch

LEMMA ReceiverComplete ==
  ASSUME RadioAssumption, ReceiverInv, ~disabled, changingToState # None, NEW m,
         CompleteStateTransition(m), Watch, UNCHANGED <<disabled, air>>
  PROVE  ReceiverInv'
<1>1. /\ state' = changingToState
      /\ UNCHANGED <<csInterrupt, csEnabled, carrierFreq>>
      /\ missed' \subseteq air'
  BY WatchTyped DEF CompleteStateTransition
<1>2. CASE changingToState \in {"TX", "SLEEP"}
  <2>1. /\ UNCHANGED <<received, retuned>>
        /\ totalPower' \in {totalPower, {}} /\ history' \in {history, "none"}
    BY <1>2 DEF CompleteStateTransition, EnterTX, EnterSLEEP, SendPacket, FlushHistory
  <2>2. ~Listening'
    BY <1>1, <1>2 DEF Listening
  <2> QED
    BY <1>1, <2>1, <2>2, NothingToHear DEF ReceiverInv, ReceiverType, Signals
<1>3. CASE changingToState = "RX"
  <2>1. /\ received' = SpoilActive(received) /\ totalPower' = DOMAIN received
        /\ history' = (IF history = "none" THEN "short" ELSE history) /\ retuned' = FALSE
    BY <1>3 DEF CompleteStateTransition, EnterRX
  <2>2. Signals(received')
    <3>1. ASSUME NEW s \in DOMAIN received
          PROVE  received'[s] \in ReceivedSignal
      <4>1. received[s] \in ReceivedSignal
        BY DEF ReceiverInv, ReceiverType, Signals
      <4> QED BY <2>1, <4>1 DEF SpoilActive, ReceivedSignal
    <3>2. DOMAIN received' = DOMAIN received
      BY <2>1 DEF SpoilActive
    <3>3. received' \in [DOMAIN received -> ReceivedSignal]
      BY <2>1, <3>1 DEF SpoilActive
    <3> QED BY <3>2, <3>3 DEF Signals, ReceiverInv, ReceiverType
  <2>3. DOMAIN received' = DOMAIN received /\ Clean' = {}
    <3>1. ASSUME NEW s \in DOMAIN received
          PROVE  received'[s].clean = FALSE
      <4>1. received[s] \in ReceivedSignal
        BY DEF ReceiverInv, ReceiverType, Signals
      <4> QED BY <2>1, <4>1 DEF SpoilActive, ReceivedSignal
    <3> QED BY <2>1, <3>1 DEF SpoilActive, Clean
  <2>4. ReceiverType' /\ TotalInv'
    BY <1>1, <2>1, <2>2, <2>3 DEF ReceiverInv, ReceiverType, Signals, TotalInv
  <2> QED
    BY <2>3, <2>4, NothingToHear
<1> QED BY <1>2, <1>3 DEF CompleteStateTransition

LEMMA ReceiverSignalStart ==
  ASSUME RadioAssumption, ReceiverInv, SignalStart
  PROVE  ReceiverInv'
<1> PICK s \in Signal, f \in Freq :
        /\ s \notin air
        /\ air' = air \cup {s}
        /\ IF disabled \/ f # carrierFreq
           THEN UNCHANGED rxVars
           ELSE IF ~Listening
           THEN /\ received' = WithSignal(received, s, [clean |-> FALSE, interference |-> {}])
                /\ UNCHANGED <<totalPower, history, csInterrupt, csEnabled, carrierFreq,
                               retuned, retunes>>
           ELSE /\ \E hit \in SUBSET Clean, clean \in BOOLEAN :
                       received' = WithSignal(UpdateInterferenceStart(hit, s), s,
                                              [clean |-> clean, interference |-> totalPower])
                /\ totalPower' = totalPower \cup {s}
                /\ IF csEnabled THEN UpdatePossibleCSinterrupt ELSE UNCHANGED csInterrupt
                /\ UNCHANGED <<history, csEnabled, carrierFreq, retuned, retunes>>
  BY DEF SignalStart
<1>1. /\ UNCHANGED <<disabled, state, changingToState>> /\ Watch
      /\ missed' \subseteq air' /\ (Listening' <=> Listening)
      /\ air' \subseteq Signal /\ s \notin missed /\ s \notin DOMAIN received
  BY WatchTyped DEF SignalStart, stateVars, Listening, ReceiverInv, ReceiverType
<1>2. CASE disabled \/ f # carrierFreq
  <2>1. UNCHANGED <<received, totalPower, history, csInterrupt, csEnabled, carrierFreq, retuned>>
    BY <1>2 DEF rxVars
  <2>2. Clean' = Clean
    BY <2>1 DEF Clean
  <2>3. ReceiverType' /\ (disabled' => DOMAIN received' = {}) /\ TotalInv' /\ InterferenceIsReal'
    BY <1>1, <2>1, <2>2 DEF ReceiverInv, ReceiverType, Signals, TotalInv, InterferenceIsReal
  <2>4. CleanWasHeard'
    BY <1>1, <2>1, <2>2 DEF ReceiverInv, ReceiverType, CleanWasHeard, Watch, Clean
  <2> QED BY <2>3, <2>4 DEF ReceiverInv
<1>3. CASE ~(disabled \/ f # carrierFreq) /\ ~Listening
  <2>1. /\ received' = WithSignal(received, s, [clean |-> FALSE, interference |-> {}])
        /\ UNCHANGED <<totalPower, history, csInterrupt, csEnabled, carrierFreq, retuned>>
    BY <1>3
  <2>2. Signals(received') /\ DOMAIN received' = DOMAIN received \cup {s}
    <3>1. [clean |-> FALSE, interference |-> {}] \in ReceivedSignal
      BY DEF ReceivedSignal
    <3>2. DOMAIN received' = DOMAIN received \cup {s}
      BY <2>1 DEF WithSignal
    <3>3. received' \in [DOMAIN received \cup {s} -> ReceivedSignal]
      BY <2>1, <3>1 DEF WithSignal, ReceiverInv, ReceiverType, Signals
    <3> QED BY <3>2, <3>3 DEF Signals, ReceiverInv, ReceiverType
  <2>3. ReceiverType'
    BY <1>1, <2>1, <2>2 DEF ReceiverInv, ReceiverType
  <2> QED BY <1>1, <1>3, <2>3, NothingToHear
<1>4. CASE ~(disabled \/ f # carrierFreq) /\ Listening
  <2>1. PICK hit \in SUBSET Clean, clean \in BOOLEAN :
               received' = WithSignal(UpdateInterferenceStart(hit, s), s,
                                      [clean |-> clean, interference |-> totalPower])
    BY <1>4
  <2>2. /\ totalPower' = totalPower \cup {s}
        /\ UNCHANGED <<history, csEnabled, carrierFreq, retuned>>
        /\ csInterrupt' \in Nat
    BY <1>4 DEF UpdatePossibleCSinterrupt, ReceiverInv, ReceiverType
  <2> DEFINE u == UpdateInterferenceStart(hit, s)
             r == [clean |-> clean, interference |-> totalPower]
  <2>3. /\ UpdatedSignals(received, u)
        /\ \A x \in DOMAIN received :
              u[x].clean => u[x].interference = received[x].interference \cup {s}
    BY StartUpdates DEF ReceiverInv, ReceiverType
  <2>4. r \in ReceivedSignal /\ r.interference = totalPower
    BY DEF ReceivedSignal, ReceiverInv, ReceiverType
  <2>5. received' = WithSignal(u, s, r)
    BY <2>1
  <2> HIDE DEF u, r
  <2>6. /\ DOMAIN received' = DOMAIN received \cup {s}
        /\ received'[s] = r
        /\ \A x \in DOMAIN received : received'[x] = u[x]
        /\ Signals(received')
    <3>1. /\ DOMAIN received' = DOMAIN received \cup {s}
          /\ received'[s] = r
          /\ \A x \in DOMAIN received : received'[x] = u[x]
      BY <1>1, <2>3, <2>5 DEF WithSignal, UpdatedSignals
    <3>2. received' \in [DOMAIN received \cup {s} -> ReceivedSignal]
      BY <2>3, <2>4, <2>5 DEF WithSignal, UpdatedSignals, Signals
    <3> QED BY <3>1, <3>2 DEF Signals, ReceiverInv, ReceiverType
  <2>7. ReceiverType'
    BY <1>1, <2>2, <2>6 DEF ReceiverInv, ReceiverType
  <2>8. TotalInv'
    BY <1>1, <2>2, <2>6 DEF ReceiverInv, TotalInv
  <2>9. InterferenceIsReal'
    <3>1. ASSUME ~retuned', NEW x \in DOMAIN received', received'[x].clean
          PROVE  received'[x].interference = DOMAIN received' \ {x}
      <4>1. totalPower = DOMAIN received /\ ~retuned
        BY <1>4, <2>2, <3>1 DEF ReceiverInv, TotalInv
      <4>2. CASE x = s
        BY <1>1, <2>4, <2>6, <4>1, <4>2
      <4>3. CASE x \in DOMAIN received
        <5>1. received[x].clean /\ u[x].interference = received[x].interference \cup {s}
          BY <2>3, <2>6, <3>1, <4>3 DEF UpdatedSignals
        <5>2. received[x].interference = DOMAIN received \ {x}
          BY <1>4, <4>1, <4>3, <5>1 DEF ReceiverInv, InterferenceIsReal, Clean
        <5> QED BY <1>1, <2>6, <4>3, <5>1, <5>2
      <4> QED BY <2>6, <3>1, <4>2, <4>3
    <3> QED BY <3>1 DEF InterferenceIsReal, Clean
  <2>10. CleanWasHeard'
    <3>1. ASSUME NEW x \in DOMAIN received', received'[x].clean
          PROVE  x \notin missed'
      <4>1. x \notin missed
        BY <1>1, <1>4, <2>3, <2>6, <3>1 DEF ReceiverInv, CleanWasHeard, Clean, UpdatedSignals
      <4> QED BY <1>1, <1>4, <2>2, <4>1 DEF Watch
    <3> QED BY <3>1 DEF CleanWasHeard, Clean
  <2> QED BY <1>1, <1>4, <2>7, <2>8, <2>9, <2>10 DEF ReceiverInv
<1> QED BY <1>2, <1>3, <1>4

LEMMA ReceiverSignalEnd ==
  ASSUME RadioAssumption, ReceiverInv, SignalEnd
  PROVE  ReceiverInv'
<1> PICK s \in Signal :
        /\ s \in air
        /\ air' = air \ {s}
        /\ IF disabled \/ s \notin DOMAIN received
           THEN UNCHANGED rxVars
           ELSE IF ~Listening
           THEN /\ received' = WithoutSignal(received, s)
                /\ UNCHANGED <<totalPower, history, csInterrupt, csEnabled, carrierFreq,
                               retuned, retunes>>
           ELSE /\ \E hit \in SUBSET Clean :
                       received' = WithoutSignal(UpdateInterferenceEnd(hit, s), s)
                /\ totalPower' = DOMAIN received \ {s}
                /\ retuned' = FALSE
                /\ UNCHANGED <<history, csInterrupt, csEnabled, carrierFreq, retunes>>
  BY DEF SignalEnd
<1>1. /\ UNCHANGED <<disabled, state, changingToState>> /\ Watch
      /\ missed' \subseteq air' /\ (Listening' <=> Listening)
      /\ air' \subseteq Signal
  BY WatchTyped DEF SignalEnd, stateVars, Listening, ReceiverInv, ReceiverType
<1>2. CASE disabled \/ s \notin DOMAIN received
  <2>1. UNCHANGED <<received, totalPower, history, csInterrupt, csEnabled, carrierFreq, retuned>>
    BY <1>2 DEF rxVars
  <2>2. Clean' = Clean
    BY <2>1 DEF Clean
  <2>3. DOMAIN received' \subseteq air'
    BY <1>2, <2>1 DEF ReceiverInv, ReceiverType
  <2>4. ReceiverType' /\ (disabled' => DOMAIN received' = {}) /\ TotalInv' /\ InterferenceIsReal'
    BY <1>1, <2>1, <2>2, <2>3 DEF ReceiverInv, ReceiverType, Signals, TotalInv, InterferenceIsReal
  <2>5. CleanWasHeard'
    BY <1>1, <2>1, <2>2 DEF ReceiverInv, ReceiverType, CleanWasHeard, Watch, Clean
  <2> QED BY <2>4, <2>5 DEF ReceiverInv
<1>3. CASE ~(disabled \/ s \notin DOMAIN received) /\ ~Listening
  <2>1. /\ received' = WithoutSignal(received, s)
        /\ UNCHANGED <<totalPower, history, csInterrupt, csEnabled, carrierFreq, retuned>>
    BY <1>3
  <2>2. Signals(received') /\ DOMAIN received' = DOMAIN received \ {s}
    <3>1. DOMAIN received' = DOMAIN received \ {s}
      BY <2>1 DEF WithoutSignal
    <3>2. received' \in [DOMAIN received \ {s} -> ReceivedSignal]
      BY <2>1 DEF WithoutSignal, ReceiverInv, ReceiverType, Signals
    <3> QED BY <3>1, <3>2 DEF Signals, ReceiverInv, ReceiverType
  <2>3. ReceiverType'
    BY <1>1, <2>1, <2>2 DEF ReceiverInv, ReceiverType
  <2> QED BY <1>1, <1>3, <2>3, NothingToHear
<1>4. CASE ~(disabled \/ s \notin DOMAIN received) /\ Listening
  <2>1. PICK hit \in SUBSET Clean : received' = WithoutSignal(UpdateInterferenceEnd(hit, s), s)
    BY <1>4
  <2>2. /\ totalPower' = DOMAIN received \ {s} /\ retuned' = FALSE
        /\ UNCHANGED <<history, csInterrupt, csEnabled, carrierFreq>>
    BY <1>4
  <2> DEFINE u == UpdateInterferenceEnd(hit, s)
  <2>3. /\ UpdatedSignals(received, u)
        /\ \A x \in DOMAIN received \ {s} :
              u[x].clean => u[x].interference = DOMAIN received \ {x, s}
    BY EndUpdates DEF ReceiverInv, ReceiverType
  <2>4. received' = WithoutSignal(u, s)
    BY <2>1
  <2> HIDE DEF u
  <2>5. /\ DOMAIN received' = DOMAIN received \ {s}
        /\ \A x \in DOMAIN received' : received'[x] = u[x]
        /\ Signals(received')
    <3>1. /\ DOMAIN received' = DOMAIN received \ {s}
          /\ \A x \in DOMAIN received' : received'[x] = u[x]
      BY <2>3, <2>4 DEF WithoutSignal, UpdatedSignals
    <3>2. received' \in [DOMAIN received \ {s} -> ReceivedSignal]
      BY <2>3, <2>4 DEF WithoutSignal, UpdatedSignals, Signals
    <3> QED BY <3>1, <3>2 DEF Signals, ReceiverInv, ReceiverType
  <2>6. ReceiverType' /\ TotalInv'
    BY <1>1, <2>2, <2>5 DEF ReceiverInv, ReceiverType, Signals, TotalInv
  <2>7. InterferenceIsReal'
    <3>1. ASSUME NEW x \in DOMAIN received', received'[x].clean
          PROVE  received'[x].interference = DOMAIN received' \ {x}
      BY <2>3, <2>5, <3>1
    <3> QED BY <3>1 DEF InterferenceIsReal, Clean
  <2>8. CleanWasHeard'
    <3>1. ASSUME NEW x \in DOMAIN received', received'[x].clean
          PROVE  x \notin missed'
      <4>1. x \in DOMAIN received /\ received[x].clean
        BY <2>3, <2>5, <3>1 DEF UpdatedSignals
      <4>2. x \notin missed
        BY <1>4, <4>1 DEF ReceiverInv, CleanWasHeard, Clean
      <4> QED BY <1>1, <1>4, <2>2, <4>2 DEF Watch
    <3> QED BY <3>1 DEF CleanWasHeard, Clean
  <2> QED BY <1>1, <1>4, <2>6, <2>7, <2>8 DEF ReceiverInv
<1> QED BY <1>2, <1>3, <1>4

LEMMA ReceiverReadMail ==
  ASSUME RadioAssumption, ControlInv, ReceiverInv, ReadMail
  PROVE  ReceiverInv'
<1> DEFINE m == Tail(mail)
           cmd == Head(mail)
<1>1. /\ mail # <<>> /\ UNCHANGED <<disabled, air>> /\ Watch /\ missed' \subseteq air'
  BY WatchTyped DEF ReadMail
<1>2. TailOf(mail, m) /\ cmd \in Command
  BY <1>1, TailMail DEF ControlInv, TailOf
<1> HIDE DEF m, cmd
<1>3. CASE \/ disabled
           \/ cmd.kind \in {"SET_MODE", "MAC_LAYER_PACKET", "cancelled", "SET_STATE"}
  <2>1. /\ UNCHANGED rxVars /\ UNCHANGED state
        /\ changingToState' = changingToState \/ changingToState' \in BasicState
    <3>1. CASE disabled
      BY <3>1 DEF ReadMail, stateVars
    <3>2. CASE ~disabled /\ cmd.kind \in {"SET_MODE", "MAC_LAYER_PACKET", "cancelled"}
      BY <3>2 DEF ReadMail, cmd, SetMode, BufferPacket, stateVars
    <3>3. CASE ~disabled /\ cmd.kind = "SET_STATE"
      <4>1. SetState(m, cmd)
        BY <3>3 DEF ReadMail, m, cmd
      <4>2. cmd.to \in BasicState
        BY <1>2, <3>3, CommandFields
      <4> QED BY <4>1, <4>2 DEF SetState, stateVars
    <3> QED BY <1>3, <3>1, <3>2, <3>3
  <2>2. Listening' => Listening
    BY <1>1, <2>1 DEF Listening, RadioAssumption
  <2> QED
    BY <1>1, <2>1, <2>2, Quiet DEF ReceiverInv, ReceiverType, rxVars
<1>4. CASE ~disabled /\ cmd.kind = "ENTER_STATE"
  <2>1. CompleteStateTransition(m)
    BY <1>4 DEF ReadMail, m, cmd
  <2>2. changingToState # None
    BY <1>2, <1>4, CommandFields DEF TailOf, cmd, ControlInv, ChangeInv, RadioAssumption
  <2> QED BY <1>1, <1>4, <2>1, <2>2, ReceiverComplete
<1>5. CASE ~disabled /\ cmd.kind = "SET_CS_INTERRUPT"
  <2>1. SetCSinterrupt(cmd)
    BY <1>5 DEF ReadMail, cmd
  <2>2. cmd.on \in BOOLEAN
    BY <1>2, <1>5, CommandFields
  <2> QED
    BY <1>1, <2>1, <2>2, Quiet DEF SetCSinterrupt, stateVars, Listening, ReceiverInv, ReceiverType
<1>6. CASE ~disabled /\ cmd.kind = "SET_CARRIER_FREQ"
  <2>1. SetCarrierFreq(cmd)
    BY <1>6 DEF ReadMail, cmd
  <2>2. cmd.freq \in Freq
    BY <1>2, <1>6, CommandFields
  <2>3. /\ received' = [s \in {} |-> {}] /\ carrierFreq' = cmd.freq
        /\ retuned' = (retuned \/ DOMAIN received # {} \/ totalPower # {})
        /\ UNCHANGED <<totalPower, history, csInterrupt, csEnabled>>
    BY <2>1 DEF SetCarrierFreq
  <2>4. DOMAIN received' = {} /\ Clean' = {} /\ Signals(received')
    <3>1. DOMAIN received' = {}
      BY <2>3
    <3>2. received' \in [DOMAIN received' -> ReceivedSignal]
      BY <2>3, <3>1
    <3> QED BY <3>1, <3>2 DEF Clean, Signals
  <2>5. ReceiverType' /\ TotalInv'
    BY <1>1, <2>2, <2>3, <2>4 DEF ReceiverInv, ReceiverType, TotalInv
  <2> QED BY <1>1, <2>4, <2>5, NothingToHear
<1>7. \/ disabled
      \/ cmd.kind \in {"SET_MODE", "MAC_LAYER_PACKET", "cancelled", "SET_STATE"}
      \/ ~disabled /\ cmd.kind \in {"ENTER_STATE", "SET_CS_INTERRUPT", "SET_CARRIER_FREQ"}
  BY DEF ReadMail, cmd
<1> QED BY <1>3, <1>4, <1>5, <1>6, <1>7

LEMMA ReceiverNext ==
  ASSUME RadioAssumption, ControlInv, ReceiverInv, [Next]_vars
  PROVE  ReceiverInv'
<1> USE WatchTyped
<1>1. CASE Startup
  <2>1. /\ disabled /\ totalPower' = {} /\ history' = (IF history = "none" THEN "short" ELSE history)
        /\ UNCHANGED <<received, csInterrupt, csEnabled, carrierFreq, retuned, air>> /\ Watch
    BY <1>1 DEF Startup
  <2>2. DOMAIN received' = {} /\ Clean' = {}
    BY <2>1 DEF ReceiverInv, Clean
  <2>3. ReceiverType' /\ TotalInv'
    BY <2>1, <2>2 DEF ReceiverInv, ReceiverType, Signals, TotalInv
  <2> QED BY <2>1, <2>2, <2>3, NothingToHear
<1>2. CASE ReadMail
  BY <1>2, ReceiverReadMail
<1>3. CASE FinishTransition
  <2>1. changingToState # None
    BY <1>3 DEF FinishTransition, ControlInv, ChangeInv, RadioAssumption
  <2> QED BY <1>3, <2>1, ReceiverComplete DEF FinishTransition
<1>4. CASE ContinueTX
  <2>1. ~Listening' /\ Watch /\ missed' \subseteq air'
    BY <1>4 DEF ContinueTX, Listening, ControlInv, TransmitInv
  <2>2. /\ UNCHANGED <<received, csInterrupt, csEnabled, carrierFreq, retuned, disabled, air>>
        /\ totalPower' \in {totalPower, {}} /\ history' \in {history, "none"}
    BY <1>4 DEF ContinueTX, FlushHistory
  <2>3. ReceiverType'
    BY <2>1, <2>2 DEF ReceiverInv, ReceiverType, Signals
  <2> QED BY <2>1, <2>2, <2>3, NothingToHear DEF ReceiverInv
<1>5. CASE CSinterrupt
  <2>1. csInterrupt' \in Nat
    BY <1>5 DEF CSinterrupt, ReceiverInv, ReceiverType
  <2> QED
    BY <1>5, <2>1, Quiet DEF CSinterrupt, Listening, stateVars, ReceiverInv, ReceiverType
<1>6. CASE SignalStart
  BY <1>6, ReceiverSignalStart
<1>7. CASE SignalEnd
  BY <1>7, ReceiverSignalEnd
<1>8. CASE HistoryLongEnough
  BY <1>8, Quiet DEF HistoryLongEnough, Listening, stateVars, ReceiverInv, ReceiverType
<1>9. CASE MacSends
  BY <1>9, Quiet DEF MacSends, Listening, stateVars, rxVars, ReceiverInv, ReceiverType
<1>10. CASE UNCHANGED vars
  <2>1. UNCHANGED <<received, totalPower, history, csInterrupt, csEnabled, carrierFreq, retuned,
                    air, missed, disabled, state, changingToState>>
    BY <1>10 DEF vars, rxVars, stateVars
  <2>2. Clean' = Clean /\ (Listening' <=> Listening)
    BY <2>1 DEF Clean, Listening
  <2> QED
    BY <2>1, <2>2
    DEF ReceiverInv, ReceiverType, Signals, TotalInv, InterferenceIsReal, CleanWasHeard
<1> QED
  BY <1>1, <1>2, <1>3, <1>4, <1>5, <1>6, <1>7, <1>8, <1>9, <1>10 DEF Next

-----------------------------------------------------------------------------
(* The invariant, and what follows from it.                                 *)
IInv == ControlInv /\ ReceiverInv

LEMMA InitOK ==
  ASSUME RadioAssumption, Init
  PROVE  IInv
<1> DEFINE own == SetStateTo("RX", TRUE)
<1>1. own \in Command /\ IsSelf(own) /\ own.to = "RX" /\ ~IsEnter(own) /\ ~IsRetune(own)
  BY OwnCommands DEF BasicState
<1> HIDE DEF own
<1>3. ASSUME StartState # "TX"
      PROVE  MailOK(mail) /\ ~HasEnter(mail) /\ ~HasRetune(mail) /\ ~HasSelf(mail)
  <2>1. mail = <<>>
    BY <1>3 DEF Init
  <2>2. DOMAIN mail = {} /\ mail \in Seq(Command)
    BY <2>1
  <2> QED BY <2>2 DEF MailOK, HasEnter, HasRetune, HasSelf
<1>4. ASSUME StartState = "TX"
      PROVE  MailOK(mail) /\ ~HasEnter(mail) /\ ~HasRetune(mail) /\ HasSelf(mail)
  <2>1. mail = <<own>>
    BY <1>4 DEF Init, own
  <2>2. /\ mail \in Seq(Command) /\ mail[1] = own
        /\ 1 \in DOMAIN mail /\ \A i \in DOMAIN mail : i = 1
    BY <1>1, <2>1
  <2> QED BY <1>1, <2>2 DEF MailOK, HasEnter, HasRetune, HasSelf
<1>5. ControlInv
  <2>1. ControlType
    <3>1. /\ disabled = TRUE /\ state = StartState /\ changingToState = None /\ transition = None
          /\ radioBuffer = 0 /\ stateAfterTX = DefaultStateAfterTX
          /\ power = (IF StartState = "TX" THEN "change" ELSE StartState)
          /\ draining = FALSE /\ retunes = 0
      BY DEF Init
    <3>2. power \in BasicState \cup {"change"}
      BY <3>1 DEF RadioAssumption, BasicState
    <3>3. 0 \in 0 .. BufferSize /\ 0 \in 0 .. MaxRetunes
      BY DEF RadioAssumption
    <3>4. state \in BasicState /\ stateAfterTX \in BasicState
      BY <3>1 DEF RadioAssumption, BasicState
    <3> QED BY <3>1, <3>2, <3>3, <3>4 DEF ControlType
  <2>2. MailOK(mail) /\ ~HasEnter(mail) /\ ~HasRetune(mail) /\ (HasSelf(mail) <=> StartState = "TX")
    BY <1>3, <1>4
  <2> QED
    BY <2>1, <2>2
    DEF ControlInv, ChangeInv, TransmitInv, SelfInv, LeaveInv, DisabledInv, PowerMatchesState,
        Init, RadioAssumption
<1>6. ReceiverInv
  <2>1. carrierFreq \in Freq
    BY DEF Init, RadioAssumption
  <2>2. DOMAIN received = {} /\ received \in [DOMAIN received -> ReceivedSignal]
    BY DEF Init
  <2> QED
    BY <2>1, <2>2
    DEF Init, ReceiverInv, ReceiverType, Signals, TotalInv, InterferenceIsReal, CleanWasHeard, Clean
<1> QED BY <1>5, <1>6 DEF IInv

(* The control part, the mail and the receiver keep the inductive invariant *)
(* whatever the MAC sends and whatever signals come.                        *)
THEOREM IInvHolds == Spec => []IInv
<1>1. IInv /\ [Next]_vars => IInv'
  BY RadioAssumption, ControlNext, ReceiverNext DEF IInv
<1>2. Init => IInv
  BY RadioAssumption, InitOK
<1> QED BY <1>1, <1>2, PTL DEF Spec

(* Every variable of the radio keeps its type.                              *)
THEOREM TypeCorrect == Spec => []TypeOK
<1>1. IInv => TypeOK
  <2> SUFFICES ASSUME IInv PROVE TypeOK
    OBVIOUS
  <2>1. continueTX \in Nat /\ mail \in Seq(Command)
    BY DEF IInv, ControlInv, TransmitInv, MailOK
  <2>2. \E listed \in SUBSET Signal : received \in [listed -> ReceivedSignal]
    BY DEF IInv, ReceiverInv, ReceiverType, Signals
  <2> QED
    BY <2>1, <2>2 DEF TypeOK, IInv, ControlInv, ControlType, ReceiverInv, ReceiverType
<1> QED BY <1>1, IInvHolds, PTL

(* Two commands in a row, at any distance, leave one message that completes *)
(* the change, and none is left when there is no change.                    *)
THEOREM OneTransition == Spec => []TransitionIsPending
<1>1. IInv => TransitionIsPending
  BY DEF IInv, ControlInv, ChangeInv, MailOK, HasEnter, IsEnter, TransitionIsPending
<1> QED BY <1>1, IInvHolds, PTL

(* A packet that is being sent is never cut off by a change of state.       *)
THEOREM SendsInTX == Spec => []TransmitsOnlyInTX
<1>1. IInv => TransmitsOnlyInTX
  BY DEF IInv, ControlInv, TransmitInv, TransmitsOnlyInTX
<1> QED BY <1>1, IInvHolds, PTL

(* A radio that does not start in TX never remains there with nothing to    *)
(* do, whatever it is told while it sends.                                  *)
THEOREM LeavesTX ==
  ASSUME StartState # "TX"
  PROVE  Spec => []NeverStuckInTX
<1>1. IInv => NeverStuckInTX
  BY DEF IInv, ControlInv, TransmitInv, LeaveInv, HasSelf, IsSelf, NeverStuckInTX
<1> QED BY <1>1, IInvHolds, PTL

(* The resource manager charges a radio at rest for the state it is in.     *)
THEOREM ChargedForItsState == Spec => []PowerMatchesState
<1>1. IInv => PowerMatchesState
  BY DEF IInv, ControlInv
<1> QED BY <1>1, IInvHolds, PTL

(* The interference of a clean signal is that of the other signals on the   *)
(* frequency, for every overlap of any number of signals.                   *)
THEOREM InterferenceExact == Spec => []InterferenceIsReal
<1>1. IInv => InterferenceIsReal
  BY DEF IInv, ReceiverInv
<1> QED BY <1>1, IInvHolds, PTL

(* No signal that the radio missed a part of is ever taken for received.    *)
THEOREM CleanHeard == Spec => []CleanWasHeard
<1>1. IInv => CleanWasHeard
  BY DEF IInv, ReceiverInv
<1> QED BY <1>1, IInvHolds, PTL

-----------------------------------------------------------------------------
(* The timer service.                                                       *)
(* The state of a timer service always has its type.                        *)
THEOREM TimerTypeCorrect == ServiceSpec => []ServiceTypeOK
<1>1. ServiceInit => ServiceTypeOK
  <2> SUFFICES ASSUME ServiceInit PROVE ServiceTypeOK
    OBVIOUS
  <2>1. 0 \in Index /\ 0 \in Time /\ size \in 0 .. MaxSize
    BY SizeAssumption, NullAssumption, TimeAssumption DEF ServiceInit, Index, Time
  <2>2. msgIndex \in [Obj -> Index] /\ msgAt \in [Obj -> Nat]
    BY <2>1 DEF ServiceInit
  <2> QED BY <2>1, <2>2 DEF ServiceInit, ServiceTypeOK
<1>2. ServiceTypeOK /\ [ServiceNext]_serviceVars => ServiceTypeOK'
  <2> SUFFICES ASSUME ServiceTypeOK, [ServiceNext]_serviceVars PROVE ServiceTypeOK'
    OBVIOUS
  <2> USE SizeAssumption, NullAssumption, TimeAssumption DEF ServiceTypeOK, Index, Time
  <2>1. ASSUME NEW i \in Index, CancelTimer(i) PROVE ServiceTypeOK'
    BY <2>1 DEF CancelTimer, AfterCancel
  <2>2. ASSUME NEW i \in Index, NEW d \in Delay, SetTimer(i, d) PROVE ServiceTypeOK'
    <3>1. GrownSize(i) \in 0 .. MaxSize
      BY DEF GrownSize
    <3>2. now + d \in Nat
      BY <2>2
    <3> QED BY <2>2, <3>1, <3>2 DEF SetTimer, AfterCancel
  <2>3. ASSUME NEW o \in Obj, Deliver(o) PROVE ServiceTypeOK'
    <3>1. /\ fes' = fes \ {o} /\ fired' \in Index \cup {-1}
          /\ UNCHANGED <<size, msgIndex, msgAt, now, moduleDisabled>>
      BY <2>3 DEF Deliver
    <3>2. timerMessages' \in [Index -> Obj \cup {NULL}]
      BY <2>3 DEF Deliver
    <3> QED BY <3>1, <3>2
  <2>4. CASE Disable
    BY <2>4 DEF Disable
  <2>5. CASE Tick
    BY <2>5 DEF Tick
  <2>6. CASE UNCHANGED serviceVars
    BY <2>6 DEF serviceVars
  <2> QED BY <2>1, <2>2, <2>3, <2>4, <2>5, <2>6 DEF ServiceNext
<1> QED BY <1>1, <1>2, PTL DEF ServiceSpec

(* The slots inside the vector only: what setTimer's resize preserves.      *)
LEMMA GrownSizeHoldsIndex ==
  ASSUME ServiceTypeOK, NEW i \in Index
  PROVE  size <= GrownSize(i) /\ i < GrownSize(i)
BY SizeAssumption, NullAssumption, TimeAssumption DEF ServiceTypeOK, Index, GrownSize

(* Slots and future event set agree while the module is enabled.  The       *)
(* property is inductive together with the type: that two slots never share *)
(* an object follows from the index the object carries.                     *)
THEOREM SlotsAgree == ServiceSpec => []SlotsMatchEvents
<1>1. ServiceInit => SlotsMatchEvents
  BY DEF ServiceInit, SlotsMatchEvents
<1>2. ServiceTypeOK /\ ServiceTypeOK' /\ SlotsMatchEvents /\ [ServiceNext]_serviceVars => SlotsMatchEvents'
  <2> SUFFICES ASSUME ServiceTypeOK, ServiceTypeOK', SlotsMatchEvents, [ServiceNext]_serviceVars, ~moduleDisabled'
               PROVE  SlotsMatchEvents'
    BY DEF SlotsMatchEvents
  <2>1. ASSUME NEW i \in Index, CancelTimer(i) PROVE SlotsMatchEvents'
    <3>1. CASE i < size
      BY <2>1, <3>1, SizeAssumption, NullAssumption, TimeAssumption
         DEF CancelTimer, AfterCancel, SlotsMatchEvents, ServiceTypeOK, Index
    <3>2. CASE ~(i < size)
      BY <2>1, <3>2 DEF CancelTimer, SlotsMatchEvents, ServiceTypeOK, Index
    <3> QED BY <3>1, <3>2
  <2>2. ASSUME NEW i \in Index, NEW d \in Delay, SetTimer(i, d)
        PROVE  SlotsMatchEvents'
    <3>1. PICK o \in Obj \ AfterCancel(i) :
             /\ timerMessages' = [timerMessages EXCEPT ![i] = o]
             /\ fes' = AfterCancel(i) \cup {o}
             /\ msgIndex' = [msgIndex EXCEPT ![o] = i]
             /\ msgAt' = [msgAt EXCEPT ![o] = now + d]
      BY <2>2 DEF SetTimer
    <3>2. now' = now /\ size <= size' /\ i < size' /\ d \in Nat /\ ~moduleDisabled
      BY <2>2, GrownSizeHoldsIndex, SizeAssumption, NullAssumption, TimeAssumption DEF SetTimer
    <3>3. ASSUME NEW j \in Index, timerMessages'[j] # NULL
          PROVE  /\ j < size'
                 /\ timerMessages'[j] \in fes'
                 /\ msgIndex'[timerMessages'[j]] = j
                 /\ msgAt'[timerMessages'[j]] >= now'
      <4>1. CASE j = i
        BY <3>1, <3>2, <4>1 DEF ServiceTypeOK, Time
      <4>2. CASE j # i
        <5>1. timerMessages'[j] = timerMessages[j]
          BY <3>1, <4>2 DEF ServiceTypeOK
        <5>2. /\ j < size
              /\ timerMessages[j] \in fes
              /\ msgIndex[timerMessages[j]] = j
              /\ msgAt[timerMessages[j]] >= now
          BY <3>2, <3>3, <5>1 DEF SlotsMatchEvents
        <5>3. timerMessages[j] # timerMessages[i]
          BY <3>2, <3>3, <4>2, <5>1, <5>2 DEF SlotsMatchEvents
        <5>4. timerMessages[j] \in AfterCancel(i) /\ timerMessages[j] # o
          BY <5>2, <5>3 DEF AfterCancel
        <5>5. j < size'
          BY <5>2, <3>2 DEF ServiceTypeOK, Index
        <5> QED BY <3>1, <3>2, <5>1, <5>2, <5>4, <5>5 DEF ServiceTypeOK
      <4> QED BY <4>1, <4>2
    <3>4. ASSUME NEW p \in fes'
          PROVE  timerMessages'[msgIndex'[p]] = p
      <4>1. CASE p = o
        BY <3>1, <4>1 DEF ServiceTypeOK
      <4>2. CASE p # o
        <5>1. p \in fes /\ p # timerMessages[i] /\ msgIndex'[p] = msgIndex[p]
          BY <3>1, <4>2 DEF AfterCancel, ServiceTypeOK
        <5>2. timerMessages[msgIndex[p]] = p
          BY <3>2, <5>1 DEF SlotsMatchEvents
        <5> QED BY <3>1, <5>1, <5>2 DEF ServiceTypeOK
      <4> QED BY <4>1, <4>2
    <3> QED BY <3>3, <3>4 DEF SlotsMatchEvents
  <2>3. ASSUME NEW o \in Obj, Deliver(o) PROVE SlotsMatchEvents'
    <3>1. ~moduleDisabled /\ timerMessages[msgIndex[o]] = o /\ o # NULL /\ msgIndex[o] \in Index
      BY <2>3, SizeAssumption, NullAssumption, TimeAssumption DEF Deliver, SlotsMatchEvents, ServiceTypeOK
    <3>2. msgIndex[o] < size
      BY <3>1 DEF SlotsMatchEvents
    <3>3. /\ timerMessages' = [timerMessages EXCEPT ![msgIndex[o]] = NULL]
          /\ fes' = fes \ {o}
          /\ UNCHANGED <<size, msgIndex, msgAt, now>>
      BY <2>3, <3>1, <3>2 DEF Deliver
    <3> QED BY <3>1, <3>3 DEF SlotsMatchEvents, ServiceTypeOK
  <2>4. CASE Disable
    BY <2>4 DEF Disable
  <2>5. CASE Tick
    BY <2>5 DEF Tick, SlotsMatchEvents, ServiceTypeOK, Time
  <2>6. CASE UNCHANGED serviceVars
    BY <2>6 DEF serviceVars, SlotsMatchEvents
  <2> QED BY <2>1, <2>2, <2>3, <2>4, <2>5, <2>6 DEF ServiceNext
<1> QED BY <1>1, <1>2, TimerTypeCorrect, PTL DEF ServiceSpec

(* A disabled module runs no callback.                                      *)
LEMMA DisabledIsSilent == ServiceSpec => [](moduleDisabled => fired = -1)
<1>1. ServiceInit => (moduleDisabled => fired = -1)
  BY DEF ServiceInit
<1>2. (moduleDisabled => fired = -1) /\ [ServiceNext]_serviceVars => (moduleDisabled => fired = -1)'
  BY DEF ServiceNext, serviceVars, CancelTimer, SetTimer, Deliver, Disable, Tick
<1> QED BY <1>1, <1>2, PTL DEF ServiceSpec

(* The service keeps its promise: every step of the slots and message       *)
(* objects is a step of TimerPromise, or changes nothing there.             *)
THEOREM ServiceKeepsPromise == ServiceSpec => ImplementsPromise
<1> DEFINE deadlines == [i \in Index |-> Deadline(i)]
<1>1. ServiceInit => Promise!Init
  <2> SUFFICES ASSUME ServiceInit PROVE Promise!Init
    OBVIOUS
  <2>1. \A i \in Index : Deadline(i) = -1
    BY DEF ServiceInit, Deadline
  <2> QED BY <2>1 DEF ServiceInit, Promise!Init, Promise!None
<1>2. /\ ServiceTypeOK /\ SlotsMatchEvents /\ (moduleDisabled => fired = -1)
      /\ [ServiceNext]_serviceVars
      => [Promise!Next]_Promise!vars
  <2> SUFFICES ASSUME ServiceTypeOK, SlotsMatchEvents, moduleDisabled => fired = -1, [ServiceNext]_serviceVars
               PROVE  [Promise!Next]_Promise!vars
    OBVIOUS
  <2> USE DEF Promise!None
  <2>1. ASSUME NEW i \in Index, CancelTimer(i) PROVE Promise!Next
    <3>1. /\ ~moduleDisabled /\ moduleDisabled' = moduleDisabled /\ fired' = -1
          /\ now' = now /\ msgAt' = msgAt
      BY <2>1 DEF CancelTimer
    <3>2. timerMessages' = [timerMessages EXCEPT ![i] = NULL]
      <4>1. CASE i < size
        BY <2>1, <4>1 DEF CancelTimer, ServiceTypeOK, Index
      <4>2. CASE ~(i < size)
        BY <2>1, <3>1, <4>2 DEF CancelTimer, SlotsMatchEvents, ServiceTypeOK, Index
      <4> QED BY <4>1, <4>2
    <3>3. \A j \in Index : Deadline(j)' = IF j = i THEN -1 ELSE Deadline(j)
      BY <3>1, <3>2 DEF Deadline, ServiceTypeOK
    <3>4. deadlines' = [deadlines EXCEPT ![i] = -1]
      BY <3>3
    <3>5. Promise!Cancel(i)
      BY <3>1, <3>4 DEF Promise!Cancel
    <3> QED BY <3>5 DEF Promise!Next
  <2>2. ASSUME NEW i \in Index, NEW d \in Delay, SetTimer(i, d) PROVE Promise!Next
    <3>1. PICK o \in Obj \ AfterCancel(i) :
             /\ timerMessages' = [timerMessages EXCEPT ![i] = o]
             /\ msgAt' = [msgAt EXCEPT ![o] = now + d]
      BY <2>2 DEF SetTimer
    <3>2. ~moduleDisabled /\ moduleDisabled' = moduleDisabled /\ fired' = -1 /\ now' = now
      BY <2>2 DEF SetTimer
    <3>3. \A j \in Index : Deadline(j)' = IF j = i THEN now + d ELSE Deadline(j)
      <4> TAKE j \in Index
      <4>1. CASE j = i
        BY <3>1, <3>2, <4>1, SizeAssumption, NullAssumption, TimeAssumption DEF Deadline, ServiceTypeOK
      <4>2. CASE j # i /\ timerMessages[j] = NULL
        BY <3>1, <3>2, <4>2 DEF Deadline, ServiceTypeOK
      <4>3. CASE j # i /\ timerMessages[j] # NULL
        <5>1. timerMessages[j] # timerMessages[i] /\ timerMessages[j] \in fes
          BY <3>2, <4>3 DEF SlotsMatchEvents
        <5>2. timerMessages[j] # o
          BY <5>1 DEF AfterCancel
        <5> QED BY <3>1, <3>2, <4>3, <5>1, <5>2 DEF Deadline, ServiceTypeOK
      <4> QED BY <4>1, <4>2, <4>3
    <3>4. deadlines' = [deadlines EXCEPT ![i] = now + d]
      BY <3>3
    <3>5. Promise!Set(i, d)
      BY <3>2, <3>4 DEF Promise!Set
    <3> QED BY <3>5 DEF Promise!Next
  <2>3. ASSUME NEW o \in Obj, Deliver(o) PROVE [Promise!Next]_Promise!vars
    <3> DEFINE i == msgIndex[o]
    <3>0. i \in Index /\ now' = now /\ moduleDisabled' = moduleDisabled /\ msgAt' = msgAt
      BY <2>3 DEF Deliver, ServiceTypeOK
    <3>1. CASE ~moduleDisabled
      <4>1. timerMessages[i] = o /\ o # NULL /\ o \in fes /\ msgAt[o] = now
        BY <2>3, <3>1, SizeAssumption, NullAssumption, TimeAssumption DEF Deliver, SlotsMatchEvents
      <4>2. i < size
        BY <3>0, <3>1, <4>1 DEF SlotsMatchEvents
      <4>3. timerMessages' = [timerMessages EXCEPT ![i] = NULL] /\ fired' = i
        BY <2>3, <3>1, <4>1, <4>2 DEF Deliver
      <4>4. \A j \in Index : Deadline(j)' = IF j = i THEN -1 ELSE Deadline(j)
        BY <3>0, <3>1, <4>3 DEF Deadline, ServiceTypeOK
      <4>5. deadlines[i] = now
        BY <3>0, <3>1, <4>1 DEF Deadline
      <4>6. deadlines' = [deadlines EXCEPT ![i] = -1]
        BY <4>4
      <4>7. Promise!Fire(i)
        BY <3>0, <3>1, <4>3, <4>5, <4>6 DEF Promise!Fire
      <4> QED BY <3>0, <4>7 DEF Promise!Next
    <3>2. CASE moduleDisabled
      <4>1. fired' = fired
        BY <2>3, <3>2 DEF Deliver
      <4>2. \A j \in Index : Deadline(j)' = -1 /\ Deadline(j) = -1
        BY <3>0, <3>2 DEF Deadline
      <4>3. deadlines' = deadlines
        BY <4>2
      <4> QED BY <3>0, <4>1, <4>3 DEF Promise!vars
    <3> QED BY <3>1, <3>2 DEF ServiceTypeOK
  <2>4. CASE Disable
    <3>1. \A j \in Index : Deadline(j)' = -1
      BY <2>4 DEF Disable, Deadline
    <3>2. deadlines' = [j \in Index |-> -1]
      BY <3>1
    <3>3. Promise!Disable
      BY <2>4, <3>2 DEF Disable, Promise!Disable
    <3> QED BY <3>3 DEF Promise!Next
  <2>5. CASE Tick
    <3>1. \A j \in Index : Deadline(j)' = Deadline(j) /\ Deadline(j) # now
      BY <2>5 DEF Tick, Deadline, SlotsMatchEvents, ServiceTypeOK, Time
    <3>2. deadlines' = deadlines /\ \A j \in Index : deadlines[j] # now
      BY <3>1
    <3>3. Promise!Tick
      BY <2>5, <3>2 DEF Tick, Promise!Tick
    <3> QED BY <3>3 DEF Promise!Next
  <2>6. CASE UNCHANGED serviceVars
    <3>1. deadlines' = deadlines
      BY <2>6 DEF serviceVars, Deadline
    <3> QED BY <2>6, <3>1 DEF serviceVars, Promise!vars
  <2> QED BY <2>1, <2>2, <2>3, <2>4, <2>5, <2>6 DEF ServiceNext
<1> QED BY <1>1, <1>2, TimerTypeCorrect, SlotsAgree, DisabledIsSilent, PTL
        DEF ServiceSpec, ImplementsPromise, Promise!Spec

=============================================================================
