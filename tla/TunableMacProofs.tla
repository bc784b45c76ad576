-------------------------- MODULE TunableMacProofs --------------------------
(***************************************************************************)
(* Proofs about TunableMac for every number of packets, attempts, beacons  *)
(* and frames, and every size of the buffer.                               *)
(*                                                                         *)
(* The heart of the invariant is a balance: the attempts made for the head *)
(* of the buffer and those that are left make NumTx, and no other packet   *)
(* in the buffer has been tried yet.  The balance fails in one place, for  *)
(* a packet that comes to an empty buffer while the MAC receives.          *)
(***************************************************************************)
EXTENDS TunableMac, SequenceTheorems, TLAPS

(* What holds of a buffer, with tx attempts left for its head, when the     *)
(* attempts t were made, the packets u not sent yet, and those of c came in *)
(* MAC_STATE_RX                                                             *)
QueueOK(buffer, tx, t, u, c) ==
    /\ buffer \in Seq(Packet) /\ Len(buffer) <= MacBufferSize
    /\ tx \in 0 .. NumTx /\ t \in [Packet -> Nat]
    /\ \A i, j \in DOMAIN buffer : buffer[i] = buffer[j] => i = j
    /\ \A i \in DOMAIN buffer : buffer[i] \notin u
    /\ \A i \in DOMAIN buffer : i > 1 => t[buffer[i]] = 0 /\ buffer[i] \notin c
    /\ \A p \in u : p \in Packet => t[p] = 0 /\ p \notin c
    /\ buffer # <<>> =>
          IF buffer[1] \in c THEN tx = 0 /\ t[buffer[1]] = 0
                            ELSE t[buffer[1]] + tx = NumTx

(* TriedBeforeDropped of the attempts t, the deleted packets d, and c       *)
TriedOK(t, d, c) ==
    /\ d \subseteq Packet
    /\ \A p \in d : t[p] = NumTx \/ p \in c
    /\ \A p \in Packet : t[p] <= NumTx

(* An empty buffer has no attempts left, or those granted to the packet     *)
(* that comes next while the MAC is sending; whoever senses or sends has    *)
(* attempts left.                                                           *)
Granted ==
    /\ TXBuffer = <<>> =>
          IF macState = "TX"
          THEN numTxTries = NumTx /\ "SEND_BEACONS_OR_DATA" \in timers
          ELSE macState \in {"DEFAULT", "RX"} /\ numTxTries = 0
    /\ \A t \in {"START_CARRIER_SENSING", "SEND_BEACONS_OR_DATA"} :
          t \in timers => numTxTries > 0

RestType ==
    /\ par \in Parameters /\ dutyCycle \in BOOLEAN
    /\ macState \in MacState
    /\ remainingBeaconsToTx \in 0 .. Beacons
    /\ timers \subseteq Timer
    /\ radio \in RadioState /\ afterTX \in {"RX", "SLEEP"}
    /\ inbox \in {None, "BEACON_FRAME", "DATA_FRAME"}
    /\ unsent \subseteq Packet /\ cameInRX \subseteq Packet
    /\ frames \in 0 .. MaxFrames /\ commands \in 0 .. MaxCommands

QueueInv == QueueOK(TXBuffer, numTxTries, tries, unsent, cameInRX)
TriedInv == TriedOK(tries, dropped, cameInRX)

IInv ==
    /\ RestType
    /\ NeverStranded /\ PacketIsServed /\ Granted
    /\ QueueInv /\ TriedInv

-----------------------------------------------------------------------------
(* Buffers                                                                  *)

(* The last packet of the first place may go, with its attempts used up.    *)
LEMMA TailOK ==
  ASSUME NEW b, NEW tx, NEW t, NEW u, NEW c, QueueOK(b, tx, t, u, c), b # <<>>
  PROVE  /\ QueueOK(Tail(b), NumTx, t, u, c)
         /\ Tail(b) = <<>> => QueueOK(Tail(b), 0, t, u, c)
<1> DEFINE r == Tail(b)
<1>1. /\ b \in Seq(Packet) /\ Len(b) \in Nat \ {0}
      /\ r \in Seq(Packet) /\ Len(r) = Len(b) - 1
      /\ \A i \in 1 .. Len(b) - 1 : r[i] = b[i + 1]
  BY DEF QueueOK
<1>2. /\ DOMAIN b = 1 .. Len(b) /\ DOMAIN r = 1 .. Len(b) - 1
      /\ \A i \in DOMAIN r : i + 1 \in DOMAIN b /\ i + 1 > 1
  BY <1>1
<1>3. \A i, j \in DOMAIN r : r[i] = r[j] => i = j
  BY <1>1, <1>2 DEF QueueOK
<1>4. \A i \in DOMAIN r : r[i] \notin u /\ t[r[i]] = 0 /\ r[i] \notin c
  BY <1>1, <1>2 DEF QueueOK
<1>5. NumTx \in Nat /\ MacBufferSize \in Nat
  BY TunableMacAssumption
<1>6. r # <<>> => 1 \in DOMAIN r
  BY <1>1, <1>2
<1>7. Len(r) <= MacBufferSize
  BY <1>1, <1>5 DEF QueueOK
<1>8. t \in [Packet -> Nat] /\ \A p \in u : p \in Packet => t[p] = 0 /\ p \notin c
  BY DEF QueueOK
<1> HIDE DEF r
<1>9. r # <<>> => r[1] \notin c /\ t[r[1]] + NumTx = NumTx
  BY <1>4, <1>5, <1>6
<1>10. QueueOK(r, NumTx, t, u, c)
  BY <1>1, <1>3, <1>4, <1>5, <1>7, <1>8, <1>9 DEF QueueOK
<1>11. r = <<>> => QueueOK(r, 0, t, u, c)
  BY <1>1, <1>3, <1>4, <1>5, <1>7, <1>8 DEF QueueOK
<1> QED
  BY <1>10, <1>11 DEF r

(* A packet that has not been sent joins the end.                           *)
LEMMA AppendOK ==
  ASSUME NEW b, NEW tx, NEW t, NEW u, NEW c, QueueOK(b, tx, t, u, c),
         NEW p \in u, p \in Packet, Len(b) < MacBufferSize,
         NEW tx2 \in 0 .. NumTx, b # <<>> => tx2 = tx,
         NEW c2, c2 = c \/ (c2 = c \cup {p} /\ b = <<>>),
         b = <<>> => tx2 = IF p \in c2 THEN 0 ELSE NumTx
  PROVE  QueueOK(Append(b, p), tx2, t, u \ {p}, c2)
<1> DEFINE a == Append(b, p)
<1>1. /\ b \in Seq(Packet) /\ Len(b) \in Nat /\ DOMAIN b = 1 .. Len(b)
      /\ a \in Seq(Packet) /\ Len(a) = Len(b) + 1 /\ DOMAIN a = 1 .. Len(b) + 1
      /\ \A i \in 1 .. Len(b) : a[i] = b[i]
      /\ a[Len(b) + 1] = p
  BY DEF QueueOK
<1>2. MacBufferSize \in Nat /\ NumTx \in Nat
  BY TunableMacAssumption
<1>3. Len(a) <= MacBufferSize
  BY <1>1, <1>2
<1>4. \A i \in 1 .. Len(b) : b[i] \notin u /\ b[i] # p
  BY <1>1 DEF QueueOK
<1>5. \A i, j \in DOMAIN a : a[i] = a[j] => i = j
  <2> SUFFICES ASSUME NEW i \in 1 .. Len(b) + 1, NEW j \in 1 .. Len(b) + 1, a[i] = a[j]
               PROVE  i = j
    BY <1>1
  <2>1. CASE i \in 1 .. Len(b) /\ j \in 1 .. Len(b)
    BY <2>1, <1>1 DEF QueueOK
  <2>2. CASE i = Len(b) + 1 \/ j = Len(b) + 1
    BY <2>2, <1>1, <1>4
  <2> QED
    BY <2>1, <2>2, <1>1
<1>6. \A i \in DOMAIN a : a[i] \notin u \ {p}
  BY <1>1, <1>4
<1>7. /\ t \in [Packet -> Nat] /\ t[p] = 0
      /\ \A q \in u \ {p} : q \in Packet => t[q] = 0 /\ q \notin c2
  BY DEF QueueOK
<1>8. \A i \in DOMAIN a : i > 1 => t[a[i]] = 0 /\ a[i] \notin c2
  <2> SUFFICES ASSUME NEW i \in 1 .. Len(b) + 1, i > 1
               PROVE  t[a[i]] = 0 /\ a[i] \notin c2
    BY <1>1
  <2>a. c2 = c
    BY <1>1
  <2>1. CASE i \in 1 .. Len(b)
    BY <2>1, <2>a, <1>1 DEF QueueOK
  <2>2. CASE i = Len(b) + 1
    <3>1. p \notin c
      BY DEF QueueOK
    <3> QED
      BY <2>2, <2>a, <3>1, <1>1, <1>7
  <2> QED
    BY <2>1, <2>2, <1>1
<1>9. IF a[1] \in c2 THEN tx2 = 0 /\ t[a[1]] = 0 ELSE t[a[1]] + tx2 = NumTx
  <2>1. CASE b = <<>>
    <3>1. a[1] = p
      BY <2>1, <1>1
    <3> QED
      BY <2>1, <3>1, <1>2, <1>7
  <2>2. CASE b # <<>>
    <3>1. a[1] = b[1] /\ c2 = c
      BY <2>2, <1>1
    <3> QED
      BY <2>2, <3>1 DEF QueueOK
  <2> QED
    BY <2>1, <2>2
<1> HIDE DEF a
<1>10. QueueOK(a, tx2, t, u \ {p}, c2)
  BY <1>1, <1>3, <1>5, <1>6, <1>7, <1>8, <1>9 DEF QueueOK
<1> QED
  BY <1>10 DEF a

(* An attempt for the head is taken from those that are left.               *)
LEMMA AttemptOK ==
  ASSUME NEW b, NEW tx, NEW t, NEW u, NEW c, NEW d, u \subseteq Packet,
         QueueOK(b, tx, t, u, c), TriedOK(t, d, c), b # <<>>, tx > 0
  PROVE  /\ QueueOK(b, tx - 1, [t EXCEPT ![b[1]] = @ + 1], u, c)
         /\ TriedOK([t EXCEPT ![b[1]] = @ + 1], d, c)
         /\ b[1] \in Packet
         /\ tx = 1 => [t EXCEPT ![b[1]] = @ + 1][b[1]] = NumTx
<1> DEFINE p == b[1]
           t2 == [t EXCEPT ![p] = @ + 1]
<1>1. /\ b \in Seq(Packet) /\ Len(b) \in Nat \ {0} /\ DOMAIN b = 1 .. Len(b)
      /\ 1 \in DOMAIN b /\ p \in Packet /\ \A i \in DOMAIN b : b[i] \in Packet
  BY DEF QueueOK
<1>2. /\ NumTx \in Nat /\ tx \in 1 .. NumTx /\ t \in [Packet -> Nat]
      /\ t[p] + tx = NumTx /\ t[p] \in Nat
  BY <1>1, TunableMacAssumption DEF QueueOK
<1>3. /\ t2 \in [Packet -> Nat] /\ t2[p] = t[p] + 1
      /\ \A q \in Packet : q # p => t2[q] = t[q]
  BY <1>1, <1>2
<1>4. \A i \in DOMAIN b : i > 1 => b[i] # p /\ t2[b[i]] = 0
  BY <1>1, <1>3 DEF QueueOK
<1>5. \A q \in u : q # p /\ t2[q] = 0
  BY <1>1, <1>3 DEF QueueOK
<1>6. tx - 1 \in 0 .. NumTx /\ t2[p] + (tx - 1) = NumTx
  BY <1>2, <1>3
<1>7. \A q \in d : t2[q] = NumTx \/ q \in c
  <2> SUFFICES ASSUME NEW q \in d, q \notin c  PROVE  t2[q] = NumTx
    OBVIOUS
  <2>1. q \in Packet /\ t[q] = NumTx
    BY DEF TriedOK
  <2> QED
    BY <2>1, <1>2, <1>3
<1>8. \A q \in Packet : t2[q] <= NumTx
  <2> SUFFICES ASSUME NEW q \in Packet  PROVE  t2[q] <= NumTx
    OBVIOUS
  <2>1. CASE q = p
    BY <2>1, <1>2, <1>3
  <2>2. CASE q # p
    BY <2>2, <1>3 DEF TriedOK
  <2> QED
    BY <2>1, <2>2
<1> HIDE DEF t2
<1>9. QueueOK(b, tx - 1, t2, u, c)
  BY <1>1, <1>3, <1>4, <1>5, <1>6 DEF QueueOK
<1>10. TriedOK(t2, d, c)
  BY <1>7, <1>8 DEF TriedOK
<1> QED
  BY <1>1, <1>2, <1>3, <1>9, <1>10 DEF t2


-----------------------------------------------------------------------------
(* attemptTx                                                                *)

LEMMA ContendOK ==
  ASSUME NEW b, NEW tx, NEW set, NEW u, NEW d, u \subseteq Packet,
         QueueOK(b, tx, tries, u, cameInRX), TriedOK(tries, d, cameInRX),
         b # <<>>, tx > 0,
         set \subseteq Timer, set \cap (Timer \ DutyTimers) = {},
         Contend(b, tx, set)
  PROVE  /\ QueueOK(TXBuffer', numTxTries', tries', u, cameInRX)
         /\ TriedOK(tries', d, cameInRX)
         /\ macState' = "CONTENDING" /\ timers' \subseteq Timer
         /\ NeverStranded' /\ PacketIsServed' /\ Granted'
<1>1. /\ TXBuffer' = b /\ macState' = "CONTENDING"
      /\ \/ timers' = set \cup {"START_CARRIER_SENSING"} /\ numTxTries' = tx /\ tries' = tries
         \/ /\ timers' = set \cup {"ATTEMPT_TX"} /\ numTxTries' = tx - 1
            /\ tries' = [tries EXCEPT ![b[1]] = @ + 1]
  BY DEF Contend, QueueOK
<1>2. /\ QueueOK(TXBuffer', numTxTries', tries', u, cameInRX)
      /\ TriedOK(tries', d, cameInRX)
  BY <1>1, AttemptOK
<1>3. NeverStranded' /\ timers' \subseteq Timer
  BY <1>1 DEF NeverStranded, Timer, DutyTimers
<1>4. PacketIsServed' /\ Granted'
  BY <1>1 DEF PacketIsServed, Granted, Timer, DutyTimers
<1> QED
  BY <1>1, <1>2, <1>3, <1>4

LEMMA AttemptTxOK ==
  ASSUME NEW b, NEW tx, NEW set, NEW u, u \subseteq Packet,
         QueueOK(b, tx, tries, u, cameInRX), TriedInv, b # <<>> \/ tx = 0,
         set \subseteq Timer, set \cap (Timer \ DutyTimers) = {},
         dutyCycle' = dutyCycle,
         AttemptTx(b, tx, set)
  PROVE  /\ QueueOK(TXBuffer', numTxTries', tries', u, cameInRX)
         /\ TriedOK(tries', dropped', cameInRX)
         /\ macState' \in MacState /\ timers' \subseteq Timer
         /\ NeverStranded' /\ PacketIsServed' /\ Granted'
<1>1. tx \in 0 .. NumTx /\ NumTx \in Nat \ {0}
  BY TunableMacAssumption DEF QueueOK
<1>2. CASE tx > 0 /\ Contend(b, tx, set) /\ dropped' = dropped
  <2>1. b # <<>>
    BY <1>1, <1>2
  <2> QED
    BY <1>2, <2>1, ContendOK DEF TriedInv, MacState
<1>3. CASE tx = 0 /\ DropHead(b)
  <2> DEFINE rest == IF b = <<>> THEN <<>> ELSE Tail(b)
  <2>1. TriedOK(tries, dropped', cameInRX)
    <3>1. b # <<>> => b[1] \in Packet /\ (tries[b[1]] = NumTx \/ b[1] \in cameInRX)
      BY <1>3, TunableMacAssumption DEF QueueOK
    <3> QED
      BY <1>3, <3>1 DEF DropHead, TriedInv, TriedOK
  <2>2. QueueOK(rest, NumTx, tries, u, cameInRX) \/ rest = <<>>
    BY TailOK
  <2>3. rest = <<>> => QueueOK(rest, 0, tries, u, cameInRX)
    BY <1>3, TailOK
  <2>4. \/ /\ rest = <<>>
           /\ TXBuffer' = rest /\ numTxTries' = 0 /\ macState' = "DEFAULT"
           /\ timers' = set \cup WithDutyCycle({"START_SLEEPING"}) /\ tries' = tries
        \/ rest # <<>> /\ Contend(rest, NumTx, set)
    <3>1. CASE rest = <<>>
      BY <3>1, <1>3 DEF AttemptTx, NextTurn
    <3>2. CASE rest # <<>>
      BY <3>2, <1>3 DEF AttemptTx, NextTurn
    <3> QED
      BY <3>1, <3>2
  <2> HIDE DEF rest
  <2>5. CASE rest # <<>> /\ Contend(rest, NumTx, set)
    BY <2>5, <2>1, <2>2, <1>1, ContendOK DEF MacState
  <2>6. CASE /\ rest = <<>>
             /\ TXBuffer' = rest /\ numTxTries' = 0 /\ macState' = "DEFAULT"
             /\ timers' = set \cup WithDutyCycle({"START_SLEEPING"}) /\ tries' = tries
    <3>1. NeverStranded' /\ timers' \subseteq Timer
      BY <2>6 DEF NeverStranded, WithDutyCycle, Timer, DutyTimers
    <3>2. PacketIsServed' /\ Granted'
      BY <2>6 DEF PacketIsServed, Granted, WithDutyCycle, Timer, DutyTimers
    <3> QED
      BY <2>6, <2>1, <2>3, <3>1, <3>2 DEF MacState
  <2> QED
    BY <2>4, <2>5, <2>6
<1> QED
  BY <1>1, <1>2, <1>3 DEF AttemptTx

(* With its timer gone, nothing is going on but the duty cycle.             *)
LEMMA OneActivity ==
  ASSUME IInv, NEW t \in Timer \ DutyTimers, t \in timers
  PROVE  /\ Others(t) \subseteq Timer /\ Others(t) \cap (Timer \ DutyTimers) = {}
         /\ t = "START_CARRIER_SENSING" => macState = "CONTENDING"
         /\ t = "SEND_BEACONS_OR_DATA" => macState = "TX"
<1>1. timers \ DutyTimers = {t}
  BY DEF IInv, RestType, NeverStranded, MacState
<1> QED
  BY <1>1 DEF IInv, RestType, NeverStranded, Others, MacState, DutyTimers

-----------------------------------------------------------------------------
(* sendBeaconsOrData                                                        *)

LEMMA SetStateType ==
  ASSUME RestType, NEW s \in RadioState, s # "TX" \/ radio' = s, SetState(s)
  PROVE  radio' \in RadioState /\ afterTX' \in {"RX", "SLEEP"}
BY DEF RestType, SetState, RadioState

LEMMA SendBeaconsOrDataOK ==
  ASSUME IInv, NEW t \in {"START_CARRIER_SENSING", "SEND_BEACONS_OR_DATA"}, t \in timers,
         NEW beacons \in 0 .. Beacons,
         UNCHANGED <<par, dutyCycle, envVars, cameInRX>>,
         SendBeaconsOrData(beacons, Others(t))
  PROVE  IInv'
<1> DEFINE set == Others(t)
<1>1. /\ set \subseteq Timer /\ set \cap (Timer \ DutyTimers) = {}
      /\ t = "SEND_BEACONS_OR_DATA" => macState = "TX"
      /\ t = "START_CARRIER_SENSING" => macState = "CONTENDING"
  BY OneActivity DEF Timer, DutyTimers
<1>2. /\ numTxTries > 0 /\ numTxTries \in 0 .. NumTx
      /\ TXBuffer = <<>> => t = "SEND_BEACONS_OR_DATA" /\ numTxTries = NumTx
      /\ unsent \subseteq Packet
  BY <1>1 DEF IInv, Granted, QueueInv, QueueOK, RestType
<1>3. NumTx \in Nat \ {0} /\ Beacons \in Nat
  BY TunableMacAssumption
<1> HIDE DEF set
<1>4. CASE /\ remainingBeaconsToTx' \in 0 .. Beacons
           /\ timers' = set \cup {"SEND_BEACONS_OR_DATA"} /\ macState' = "TX"
           /\ SetState("TX")
           /\ UNCHANGED <<numTxTries, TXBuffer, tries, dropped>>
  <2>1. RestType'
    BY <1>4, <1>1 DEF IInv, RestType, SetState, RadioState, MacState, Timer, envVars
  <2>2. NeverStranded' /\ PacketIsServed'
    BY <1>4, <1>1 DEF NeverStranded, PacketIsServed, Timer, DutyTimers
  <2>3. Granted'
    BY <1>4, <1>2 DEF Granted
  <2>4. QueueInv' /\ TriedInv'
    BY <1>4 DEF IInv, QueueInv, TriedInv, envVars
  <2> QED
    BY <2>1, <2>2, <2>3, <2>4 DEF IInv
<1>5. CASE TXBuffer # <<>> /\ remainingBeaconsToTx' = 0 /\ SendData(set) /\ SetState("TX")
  <2> DEFINE p == TXBuffer[1]
             left == numTxTries - 1
             done == LastCopy(left)
             t2 == [tries EXCEPT ![p] = @ + 1]
  <2>1. /\ tries' = t2
        /\ numTxTries' = IF done THEN NumTx ELSE left
        /\ TXBuffer' = IF done THEN Tail(TXBuffer) ELSE TXBuffer
        /\ dropped' = IF done THEN dropped \cup {p} ELSE dropped
        /\ timers' = set \cup {IF par.txAll THEN "SEND_BEACONS_OR_DATA" ELSE "ATTEMPT_TX"}
        /\ macState' = "TX"
    BY <1>5 DEF SendData, IInv, QueueInv, QueueOK
  <2>2. /\ QueueOK(TXBuffer, left, t2, unsent, cameInRX)
        /\ TriedOK(t2, dropped, cameInRX)
        /\ p \in Packet
        /\ numTxTries = 1 => t2[p] = NumTx
    BY <1>2, <1>5, AttemptOK DEF IInv, QueueInv, TriedInv
  <2>3. done => par.txAll /\ numTxTries = 1
    BY <1>2 DEF LastCopy
  <2>4. par.txAll /\ ~done => left > 0
    BY <1>2 DEF LastCopy
  <2> HIDE DEF done, t2
  <2>5. TriedInv'
    BY <2>1, <2>2, <2>3 DEF TriedInv, TriedOK
  <2>6. QueueInv'
    <3>1. CASE done
      BY <3>1, <2>1, <2>2, <1>5, TailOK DEF QueueInv, envVars
    <3>2. CASE ~done
      BY <3>2, <2>1, <2>2 DEF QueueInv, envVars
    <3> QED
      BY <3>1, <3>2
  <2>7. RestType'
    BY <2>1, <1>1, <1>3, <1>5 DEF IInv, RestType, SetState, RadioState, MacState, Timer, envVars
  <2>8. NeverStranded' /\ PacketIsServed'
    BY <2>1, <1>1 DEF NeverStranded, PacketIsServed, Timer, DutyTimers
  <2>9. Granted'
    <3>1. CASE done
      BY <3>1, <2>1, <2>3, <1>1, <1>3 DEF Granted, Timer, DutyTimers
    <3>2. CASE ~done
      BY <3>2, <2>1, <2>4, <1>1, <1>5 DEF Granted, Timer, DutyTimers
    <3> QED
      BY <3>1, <3>2
  <2> QED
    BY <2>5, <2>6, <2>7, <2>8, <2>9 DEF IInv
<1>6. CASE /\ TXBuffer = <<>> /\ remainingBeaconsToTx' = 0
           /\ AttemptTx(<<>>, 0, set) /\ UNCHANGED radioVars
  <2>1. QueueOK(<<>>, 0, tries, unsent, cameInRX)
    BY <1>3, <1>6 DEF IInv, QueueInv, QueueOK
  <2>2. /\ QueueOK(TXBuffer', numTxTries', tries', unsent, cameInRX)
        /\ TriedOK(tries', dropped', cameInRX)
        /\ macState' \in MacState /\ timers' \subseteq Timer
        /\ NeverStranded' /\ PacketIsServed' /\ Granted'
    BY <1>1, <1>2, <1>6, <2>1, AttemptTxOK DEF IInv
  <2>3. RestType'
    BY <2>2, <1>3, <1>6 DEF IInv, RestType, radioVars, envVars
  <2> QED
    BY <2>2, <2>3 DEF IInv, QueueInv, TriedInv, envVars
<1> QED
  <2>1. beacons > 0 => beacons - 1 \in 0 .. Beacons
    BY <1>3
  <2> QED
    BY <2>1, <1>4, <1>5, <1>6 DEF SendBeaconsOrData, set

-----------------------------------------------------------------------------
(* Steps that leave the buffer and its attempts alone                       *)

LEMMA QuietStep ==
  ASSUME IInv, UNCHANGED <<TXBuffer, numTxTries, historyVars, unsent>>,
         RestType', NeverStranded',
         macState' = macState \/ (macState \in {"DEFAULT", "CONTENDING", "RX"} /\ macState' = "RX"),
         timers' \ (DutyTimers \cup {"ATTEMPT_TX"}) \subseteq timers,
         macState' = "TX" => timers \ DutyTimers \subseteq timers'
  PROVE  IInv'
<1>1. QueueInv' /\ TriedInv'
  BY DEF IInv, QueueInv, TriedInv, historyVars
<1>2. PacketIsServed'
  BY DEF IInv, PacketIsServed
<1>3. Granted'
  BY DEF IInv, Granted, DutyTimers
<1> QED
  BY <1>1, <1>2, <1>3 DEF IInv

-----------------------------------------------------------------------------
(* The actions                                                              *)

LEMMA InitOK ==
  ASSUME Init  PROVE IInv
<1>1. NumTx \in Nat \ {0} /\ MacBufferSize \in Nat /\ 0 \in 0 .. Beacons
      /\ MaxFrames \in 0 .. MaxFrames /\ MaxCommands \in 0 .. MaxCommands
  BY TunableMacAssumption
<1>2. RestType
  BY <1>1 DEF Init, RestType, MacState, Timer, RadioState, WithDutyCycle
<1>3. NeverStranded
  BY DEF Init, NeverStranded, WithDutyCycle, DutyTimers
<1>4. PacketIsServed /\ Granted
  BY DEF Init, PacketIsServed, Granted, WithDutyCycle
<1>5. QueueInv /\ TriedInv
  BY <1>1 DEF Init, QueueInv, QueueOK, TriedInv, TriedOK
<1> QED
  BY <1>2, <1>3, <1>4, <1>5 DEF IInv

LEMMA StepOK ==
  ASSUME IInv, Next  PROVE IInv'
<1>0. /\ numTxTries \in 0 .. NumTx /\ NumTx \in Nat \ {0} /\ Beacons \in Nat
      /\ MaxFrames \in Nat /\ MaxCommands \in Nat /\ unsent \subseteq Packet
      /\ TXBuffer = <<>> /\ macState # "TX" => numTxTries = 0
  BY TunableMacAssumption DEF IInv, RestType, QueueInv, QueueOK, Granted
<1>1. CASE StartSleeping
  <2>1. RestType'
    BY <1>1 DEF IInv, RestType, StartSleeping, SetState, RadioState, Others, Timer, envVars,
                historyVars
  <2>2. NeverStranded'
    BY <1>1 DEF IInv, RestType, NeverStranded, StartSleeping, Others, DutyTimers
  <2> QED
    BY <1>1, <2>1, <2>2, QuietStep DEF StartSleeping, Others, DutyTimers, envVars
<1>2. CASE StartListening
  <2>1. RestType'
    BY <1>2 DEF IInv, RestType, StartListening, SetState, RadioState, Others, Timer, envVars,
                historyVars
  <2>2. NeverStranded'
    BY <1>2 DEF IInv, RestType, NeverStranded, StartListening, Others, DutyTimers
  <2> QED
    BY <1>2, <2>1, <2>2, QuietStep DEF StartListening, Others, DutyTimers, envVars
<1>3. CASE SenseAgain \/ SenseBusy
  <2>1. RestType'
    BY <1>3 DEF IInv, RestType, SenseAgain, SenseBusy, Sensing, SetState, RadioState, envVars
  <2>2. NeverStranded'
    BY <1>3 DEF IInv, NeverStranded, SenseAgain, SenseBusy, Sensing
  <2> QED
    BY <1>3, <2>1, <2>2, QuietStep DEF SenseAgain, SenseBusy, Sensing, historyVars, envVars
<1>4. CASE SenseClear
  <2>1. (IF dutyCycle THEN Beacons ELSE 0) \in 0 .. Beacons
    BY <1>0
  <2> QED
    BY <1>4, <2>1, SendBeaconsOrDataOK DEF SenseClear, Sensing
<1>5. CASE AttemptTimer
  <2>1. TXBuffer # <<>> \/ numTxTries = 0
    <3>1. macState # "TX" \/ "SEND_BEACONS_OR_DATA" \notin timers
      BY <1>5 DEF IInv, NeverStranded, AttemptTimer, DutyTimers
    <3> QED
      BY <3>1, <1>0 DEF IInv, Granted
  <2>2. /\ Others("ATTEMPT_TX") \subseteq Timer
        /\ Others("ATTEMPT_TX") \cap (Timer \ DutyTimers) = {}
    BY <1>5, OneActivity DEF AttemptTimer, Timer, DutyTimers
  <2>3. /\ QueueOK(TXBuffer', numTxTries', tries', unsent, cameInRX)
        /\ TriedOK(tries', dropped', cameInRX)
        /\ macState' \in MacState /\ timers' \subseteq Timer
        /\ NeverStranded' /\ PacketIsServed' /\ Granted'
    BY <1>5, <1>0, <2>1, <2>2, AttemptTxOK DEF AttemptTimer, IInv, QueueInv
  <2> QED
    BY <1>5, <2>3 DEF AttemptTimer, IInv, RestType, QueueInv, TriedInv, radioVars, envVars
<1>6. CASE SendTimer
  BY <1>6, SendBeaconsOrDataOK DEF SendTimer, IInv, RestType
<1>7. CASE FromNetworkLayer
  <2> PICK p \in unsent :
        /\ unsent' = unsent \ {p}
        /\ LET buffer == IF BufferHasRoom THEN Append(TXBuffer, p) ELSE TXBuffer
           IN  IF BufferHasRoom /\ macState = "DEFAULT" /\ Len(buffer) = 1
               THEN /\ AttemptTx(buffer, NumTx, timers \ WithDutyCycle(DutyTimers))
                    /\ UNCHANGED cameInRX
               ELSE /\ TXBuffer' = buffer
                    /\ cameInRX' = IF BufferHasRoom /\ macState = "RX" /\ TXBuffer = <<>>
                                   THEN cameInRX \cup {p} ELSE cameInRX
                    /\ UNCHANGED <<macState, numTxTries, timers, tries, dropped>>
        /\ UNCHANGED <<par, dutyCycle, remainingBeaconsToTx, radioVars, inbox, frames, commands>>
    BY <1>7 DEF FromNetworkLayer
  <2>1. p \in Packet /\ unsent' \subseteq Packet /\ TXBuffer \in Seq(Packet)
        /\ QueueOK(TXBuffer, numTxTries, tries, unsent, cameInRX)
    BY <1>0 DEF IInv, QueueInv, QueueOK
  <2>2. CASE BufferHasRoom /\ macState = "DEFAULT"
    <3>1. TXBuffer = <<>> /\ Len(Append(TXBuffer, p)) = 1
      BY <2>1, <2>2 DEF IInv, PacketIsServed
    <3>2. QueueOK(Append(TXBuffer, p), NumTx, tries, unsent', cameInRX)
      <4>1. /\ unsent' = unsent \ {p} /\ Len(TXBuffer) < MacBufferSize
            /\ NumTx \in 0 .. NumTx /\ p \notin cameInRX
        BY <2>1, <2>2, <1>0 DEF BufferHasRoom, QueueOK
      <4>2. QueueOK(Append(TXBuffer, p), NumTx, tries, unsent \ {p}, cameInRX)
        BY <4>1, <2>1, <3>1, AppendOK
      <4> QED
        BY <4>1, <4>2
    <3> DEFINE set == timers \ WithDutyCycle(DutyTimers)
    <3>3. set \subseteq Timer /\ set \cap (Timer \ DutyTimers) = {}
      BY <2>2 DEF IInv, RestType, NeverStranded, DutyTimers, Timer
    <3>4. AttemptTx(Append(TXBuffer, p), NumTx, set) /\ cameInRX' = cameInRX
      BY <2>2, <3>1
    <3>5. Append(TXBuffer, p) # <<>>
      BY <2>1
    <3> HIDE DEF set
    <3>6. /\ QueueOK(TXBuffer', numTxTries', tries', unsent', cameInRX)
          /\ TriedOK(tries', dropped', cameInRX)
          /\ macState' \in MacState /\ timers' \subseteq Timer
          /\ NeverStranded' /\ PacketIsServed' /\ Granted'
      BY <2>1, <3>2, <3>3, <3>4, <3>5, AttemptTxOK DEF IInv
    <3> QED
      BY <2>1, <3>4, <3>6 DEF IInv, RestType, QueueInv, TriedInv, radioVars
  <2>3. CASE ~BufferHasRoom
    <3>1. TXBuffer # <<>>
      BY <2>1, <2>3, TunableMacAssumption DEF BufferHasRoom
    <3>2. UNCHANGED <<TXBuffer, cameInRX, macState, numTxTries, timers, tries, dropped>>
      BY <2>3
    <3>3. QueueInv'
      BY <3>2, <2>1 DEF QueueInv, QueueOK
    <3> QED
      BY <2>1, <3>2, <3>3
         DEF IInv, RestType, QueueInv, TriedInv, radioVars, NeverStranded, PacketIsServed, Granted
  <2>4. CASE BufferHasRoom /\ macState # "DEFAULT"
    <3>1. /\ TXBuffer' = Append(TXBuffer, p)
          /\ cameInRX' = IF macState = "RX" /\ TXBuffer = <<>>
                         THEN cameInRX \cup {p} ELSE cameInRX
          /\ UNCHANGED <<macState, numTxTries, timers, tries, dropped>>
      BY <2>4
    <3>2. TXBuffer = <<>> => numTxTries = IF p \in cameInRX' THEN 0 ELSE NumTx
      BY <2>1, <3>1, <2>4 DEF IInv, Granted, QueueOK, RestType, MacState
    <3>3. QueueInv'
      <4>1. /\ cameInRX' = cameInRX \/ (cameInRX' = cameInRX \cup {p} /\ TXBuffer = <<>>)
            /\ Len(TXBuffer) < MacBufferSize /\ numTxTries' = numTxTries
        BY <3>1, <2>4 DEF BufferHasRoom
      <4>2. QueueOK(Append(TXBuffer, p), numTxTries, tries, unsent \ {p}, cameInRX')
        BY <4>1, <2>1, <3>2, <1>0, AppendOK
      <4> QED
        BY <4>2, <3>1 DEF QueueInv
    <3>4. TriedInv' /\ cameInRX' \subseteq Packet
      BY <3>1, <2>1 DEF IInv, TriedInv, TriedOK, RestType
    <3>5. TXBuffer' # <<>>
      BY <3>1, <2>1
    <3>6. PacketIsServed' /\ Granted' /\ NeverStranded'
      BY <3>1, <3>5, <2>4 DEF IInv, PacketIsServed, Granted, NeverStranded
    <3> QED
      BY <2>1, <3>1, <3>3, <3>4, <3>6 DEF IInv, RestType, radioVars
  <2> QED
    BY <2>2, <2>3, <2>4
<1>8. CASE ReceiveBeacon
  <2>1. RestType'
    BY <1>8 DEF IInv, RestType, ReceiveBeacon, AfterBeacon, WithDutyCycle, MacState, Timer,
                radioVars, historyVars
  <2>2. CASE macState = "TX"
    <3>1. NeverStranded'
      BY <1>8, <2>2 DEF IInv, NeverStranded, ReceiveBeacon
    <3> QED
      BY <1>8, <2>1, <2>2, <3>1, QuietStep DEF ReceiveBeacon
  <2>3. CASE macState # "TX"
    <3>1. macState' = "RX" /\ timers' = AfterBeacon
      BY <1>8, <2>3 DEF ReceiveBeacon
    <3>2. macState \in {"DEFAULT", "CONTENDING", "RX"}
      BY <2>3 DEF IInv, RestType, MacState
    <3>3. timers' \ DutyTimers = {"ATTEMPT_TX"}
      BY <3>1, <3>2 DEF IInv, NeverStranded, AfterBeacon, WithDutyCycle, DutyTimers
    <3>4. NeverStranded'
      BY <3>1, <3>3 DEF NeverStranded
    <3> QED
      BY <1>8, <2>1, <3>1, <3>2, <3>3, <3>4, QuietStep DEF ReceiveBeacon
  <2> QED
    BY <2>2, <2>3
<1>9. CASE ReceiveData
  <2>1. CASE macState = "RX"
    <3>1. /\ AttemptTx(TXBuffer, numTxTries, Others("ATTEMPT_TX"))
          /\ UNCHANGED <<par, dutyCycle, remainingBeaconsToTx, radioVars, unsent, frames,
                         commands, cameInRX>>
          /\ inbox' = None
      BY <1>9, <2>1 DEF ReceiveData, Others
    <3>2. /\ Others("ATTEMPT_TX") \subseteq Timer
          /\ Others("ATTEMPT_TX") \cap (Timer \ DutyTimers) = {}
      <4>1. "ATTEMPT_TX" \in timers
        BY <2>1 DEF IInv, NeverStranded
      <4> QED
        BY <4>1, OneActivity DEF Timer, DutyTimers
    <3>3. TXBuffer # <<>> \/ numTxTries = 0
      BY <2>1, <1>0
    <3>4. /\ QueueOK(TXBuffer', numTxTries', tries', unsent, cameInRX)
          /\ TriedOK(tries', dropped', cameInRX)
          /\ macState' \in MacState /\ timers' \subseteq Timer
          /\ NeverStranded' /\ PacketIsServed' /\ Granted'
      BY <1>0, <3>1, <3>2, <3>3, AttemptTxOK DEF IInv, QueueInv
    <3> QED
      BY <3>1, <3>4 DEF IInv, RestType, QueueInv, TriedInv, radioVars
  <2>2. CASE macState # "RX"
    <3>1. RestType' /\ NeverStranded'
      BY <1>9, <2>2 DEF ReceiveData, IInv, RestType, NeverStranded, radioVars
    <3> QED
      BY <1>9, <2>2, <3>1, QuietStep DEF ReceiveData, historyVars
  <2> QED
    BY <2>1, <2>2
<1>10. CASE SetDutyCycle
  <2>1. RestType'
    <3>1. commands' \in 0 .. MaxCommands /\ dutyCycle' \in BOOLEAN
      BY <1>10, <1>0 DEF IInv, RestType, SetDutyCycle
    <3>2. radio' \in RadioState /\ afterTX' \in {"RX", "SLEEP"}
      BY <1>10 DEF IInv, RestType, SetDutyCycle, SetState, RadioState, radioVars
    <3>3. timers' \subseteq Timer
      BY <1>10 DEF IInv, RestType, SetDutyCycle, Timer
    <3> QED
      BY <1>10, <3>1, <3>2, <3>3 DEF IInv, RestType, SetDutyCycle, historyVars
  <2>2. NeverStranded'
    BY <1>10 DEF IInv, RestType, NeverStranded, SetDutyCycle, DutyTimers
  <2>3. UNCHANGED <<TXBuffer, numTxTries, historyVars, unsent, macState>>
    BY <1>10 DEF SetDutyCycle
  <2>4. /\ timers' \ (DutyTimers \cup {"ATTEMPT_TX"}) \subseteq timers
        /\ timers \ DutyTimers \subseteq timers'
    BY <1>10 DEF SetDutyCycle, DutyTimers
  <2> QED
    BY <2>1, <2>2, <2>3, <2>4, QuietStep
<1>11. CASE FrameArrives
  <2>1. RestType' /\ NeverStranded'
    BY <1>11, <1>0 DEF FrameArrives, IInv, RestType, NeverStranded, macVars, radioVars, historyVars
  <2> QED
    BY <1>11, <2>1, QuietStep DEF FrameArrives, macVars, historyVars
<1>12. CASE TransmissionEnds
  <2>1. RestType' /\ NeverStranded'
    BY <1>12 DEF TransmissionEnds, IInv, RestType, NeverStranded, RadioState, macVars, envVars,
                 historyVars
  <2> QED
    BY <1>12, <2>1, QuietStep DEF TransmissionEnds, macVars, envVars, historyVars
<1> QED
  BY <1>1, <1>2, <1>3, <1>4, <1>5, <1>6, <1>7, <1>8, <1>9, <1>10, <1>11, <1>12 DEF Next

LEMMA StutterOK ==
  ASSUME IInv, UNCHANGED vars  PROVE IInv'
BY DEF vars, macVars, radioVars, envVars, historyVars, IInv, RestType, NeverStranded,
       PacketIsServed, Granted, QueueInv, TriedInv

(* The inductive invariant holds in every state.                            *)
THEOREM Invariance == Spec => []IInv
<1>1. Init => IInv
  BY InitOK
<1>2. IInv /\ [Next]_vars => IInv'
  BY StepOK, StutterOK
<1> QED
  BY <1>1, <1>2, PTL DEF Spec

(* Every variable keeps its type; the attempts left are never negative      *)
(* (TunableMAC.cc:314-378).                                                 *)
THEOREM TypeCorrect == Spec => []TypeOK
<1>1. IInv => TypeOK
  BY DEF IInv, RestType, QueueInv, QueueOK, TriedInv, TriedOK, TypeOK
<1> QED
  BY <1>1, Invariance, PTL

(* The timer that goes on with what the MAC does is set, and only that one  *)
(* (TunableMAC.cc:82-118).                                                  *)
THEOREM TimerGoesOn == Spec => []NeverStranded
<1>1. IInv => NeverStranded
  BY DEF IInv
<1> QED
  BY <1>1, Invariance, PTL

(* No packet waits in the buffer of an idle MAC (TunableMAC.cc:239-248).    *)
THEOREM PacketsServed == Spec => []PacketIsServed
<1>1. IInv => PacketIsServed
  BY DEF IInv
<1> QED
  BY <1>1, Invariance, PTL

(* A packet has all its attempts, and no more, before it is deleted, unless *)
(* it came to an empty buffer while the MAC was receiving                   *)
(* (TunableMAC.cc:314-378).                                                 *)
THEOREM AllAttemptsMade == Spec => []TriedBeforeDropped
<1>1. IInv => TriedBeforeDropped
  BY DEF IInv, TriedInv, TriedOK, TriedBeforeDropped
<1> QED
  BY <1>1, Invariance, PTL


-----------------------------------------------------------------------------
(* The buffer implements AttemptQueue.                                      *)

LEMMA ContendTries ==
  ASSUME NEW b, NEW tx, NEW set, NEW u, b # <<>>, tx > 0,
         QueueOK(b, tx, tries, u, cameInRX), Contend(b, tx, set)
  PROVE  TXBuffer' = b /\ (tries' = tries \/ Queue!TryHead(b))
<1>1. /\ b \in Seq(Packet) /\ 1 \in DOMAIN b /\ Head(b) = b[1] /\ b[1] \in Packet
      /\ tx \in 1 .. NumTx /\ NumTx \in Nat /\ tries[b[1]] \in Nat
      /\ tries[b[1]] + tx = NumTx /\ b[1] \notin cameInRX
  BY TunableMacAssumption DEF QueueOK
<1>2. tries[Head(b)] < NumTx /\ Head(b) \notin cameInRX
  BY <1>1
<1> QED
  BY <1>2 DEF Contend, Queue!TryHead

(* attemptTx with the buffer as it is: the head is tried, or leaves.        *)
LEMMA AttemptTxServes ==
  ASSUME NEW tx, NEW set, IInv, UNCHANGED <<unsent, cameInRX>>,
         QueueOK(TXBuffer, tx, tries, unsent, cameInRX), TXBuffer # <<>> \/ tx = 0,
         AttemptTx(TXBuffer, tx, set)
  PROVE  Queue!Leave \/ Queue!Try \/ UNCHANGED Queue!vars
<1>1. tx \in 0 .. NumTx /\ NumTx \in Nat \ {0} /\ TXBuffer \in Seq(Packet)
  BY TunableMacAssumption DEF QueueOK
<1>2. CASE tx > 0 /\ Contend(TXBuffer, tx, set)
  <2>1. TXBuffer' = TXBuffer /\ (tries' = tries \/ Queue!TryHead(TXBuffer))
    BY <1>1, <1>2, ContendTries
  <2> QED
    BY <2>1 DEF Queue!Try, Queue!vars
<1>3. CASE tx = 0 /\ TXBuffer = <<>>
  BY <1>3 DEF AttemptTx, NextTurn, Queue!vars
<1>4. CASE tx = 0 /\ TXBuffer # <<>>
  <2>1. Queue!Finished(Head(TXBuffer))
    <3>1. Head(TXBuffer) = TXBuffer[1] /\ TXBuffer[1] \in Packet
      BY <1>1, <1>4
    <3>2. tries[TXBuffer[1]] \in Nat
      BY <3>1 DEF QueueOK
    <3> QED
      BY <1>4, <3>1, <3>2 DEF QueueOK, Queue!Finished
  <2>2. CASE Tail(TXBuffer) = <<>>
    <3>1. TXBuffer' = Tail(TXBuffer) /\ tries' = tries
      BY <1>4, <2>2 DEF AttemptTx, NextTurn
    <3> QED
      BY <1>4, <2>1, <3>1 DEF Queue!Leave
  <2>3. CASE Tail(TXBuffer) # <<>>
    <3>1. Contend(Tail(TXBuffer), NumTx, set)
      BY <1>4, <2>3 DEF AttemptTx, NextTurn
    <3>2. QueueOK(Tail(TXBuffer), NumTx, tries, unsent, cameInRX)
      BY <1>4, TailOK
    <3>3. /\ TXBuffer' = Tail(TXBuffer)
          /\ tries' = tries \/ Queue!TryHead(Tail(TXBuffer))
      <4> DEFINE rest == Tail(TXBuffer)
      <4>1. /\ rest # <<>> /\ NumTx > 0 /\ Contend(rest, NumTx, set)
            /\ QueueOK(rest, NumTx, tries, unsent, cameInRX)
        BY <1>1, <2>3, <3>1, <3>2
      <4> HIDE DEF rest
      <4>2. TXBuffer' = rest /\ (tries' = tries \/ Queue!TryHead(rest))
        BY <4>1, ContendTries
      <4> QED
        BY <4>2 DEF rest
    <3>4. CASE tries' = tries
      BY <1>4, <2>1, <3>3, <3>4 DEF Queue!Leave
    <3>5. CASE Queue!TryHead(Tail(TXBuffer))
      BY <1>4, <2>1, <3>3, <3>5 DEF Queue!Leave, Queue!TryHead
    <3> QED
      BY <3>3, <3>4, <3>5
  <2> QED
    BY <2>2, <2>3
<1> QED
  BY <1>1, <1>2, <1>3, <1>4 DEF AttemptTx

(* A copy of the head on the air is an attempt, the last if it then leaves. *)
LEMMA SendBeaconsOrDataServes ==
  ASSUME IInv, NEW t \in {"START_CARRIER_SENSING", "SEND_BEACONS_OR_DATA"}, t \in timers,
         NEW beacons, NEW set, UNCHANGED <<unsent, cameInRX>>,
         SendBeaconsOrData(beacons, set)
  PROVE  Queue!Leave \/ Queue!Try \/ UNCHANGED Queue!vars
<1>1. /\ NumTx \in Nat \ {0} /\ numTxTries \in 1 .. NumTx /\ unsent \subseteq Packet
      /\ QueueOK(TXBuffer, numTxTries, tries, unsent, cameInRX)
      /\ TriedOK(tries, dropped, cameInRX)
  BY TunableMacAssumption DEF IInv, Granted, QueueInv, QueueOK, TriedInv, RestType
<1>2. CASE UNCHANGED <<TXBuffer, tries>>
  BY <1>2 DEF Queue!vars
<1>3. CASE TXBuffer # <<>> /\ SendData(set)
  <2>1. /\ TXBuffer \in Seq(Packet) /\ Head(TXBuffer) = TXBuffer[1] /\ TXBuffer[1] \in Packet
        /\ tries[TXBuffer[1]] \in Nat /\ tries[TXBuffer[1]] + numTxTries = NumTx
        /\ TXBuffer[1] \notin cameInRX
    BY <1>1, <1>3 DEF QueueOK
  <2>2. tries[Head(TXBuffer)] < NumTx /\ Head(TXBuffer) \notin cameInRX
    BY <1>1, <2>1
  <2>3. /\ tries' = [tries EXCEPT ![Head(TXBuffer)] = @ + 1]
        /\ \/ TXBuffer' = TXBuffer
           \/ numTxTries - 1 <= 0 /\ TXBuffer' = Tail(TXBuffer)
    BY <1>3 DEF SendData, LastCopy
  <2>4. numTxTries - 1 <= 0 => tries'[Head(TXBuffer)] = NumTx
    <3>1. numTxTries - 1 <= 0 => numTxTries = 1
      BY <1>1
    <3> QED
      BY <1>1, <2>1, <2>3, <3>1 DEF QueueOK
  <2> QED
    BY <1>3, <2>2, <2>3, <2>4 DEF Queue!Try, Queue!TryHead
<1>4. CASE TXBuffer = <<>> /\ AttemptTx(<<>>, 0, set)
  <2>1. QueueOK(TXBuffer, 0, tries, unsent, cameInRX)
    BY <1>1, <1>4 DEF QueueOK
  <2> QED
    BY <1>4, <2>1, AttemptTxServes
<1> QED
  BY <1>2, <1>3, <1>4 DEF SendBeaconsOrData

LEMMA FromNetworkLayerGives ==
  ASSUME IInv, FromNetworkLayer
  PROVE  \E p \in Packet : Queue!Give(p)
<1> PICK p \in unsent :
        /\ unsent' = unsent \ {p}
        /\ LET buffer == IF BufferHasRoom THEN Append(TXBuffer, p) ELSE TXBuffer
           IN  IF BufferHasRoom /\ macState = "DEFAULT" /\ Len(buffer) = 1
               THEN /\ AttemptTx(buffer, NumTx, timers \ WithDutyCycle(DutyTimers))
                    /\ UNCHANGED cameInRX
               ELSE /\ TXBuffer' = buffer
                    /\ cameInRX' = IF BufferHasRoom /\ macState = "RX" /\ TXBuffer = <<>>
                                   THEN cameInRX \cup {p} ELSE cameInRX
                    /\ UNCHANGED <<macState, numTxTries, timers, tries, dropped>>
  BY DEF FromNetworkLayer
<1>1. /\ p \in Packet /\ TXBuffer \in Seq(Packet) /\ NumTx \in Nat \ {0}
      /\ QueueOK(TXBuffer, numTxTries, tries, unsent, cameInRX)
  BY TunableMacAssumption DEF IInv, RestType, QueueInv, QueueOK
<1>2. CASE BufferHasRoom /\ macState = "DEFAULT"
  <2>1. TXBuffer = <<>> /\ Len(Append(TXBuffer, p)) = 1 /\ Append(TXBuffer, p) # <<>>
    BY <1>1, <1>2 DEF IInv, PacketIsServed
  <2>2. QueueOK(Append(TXBuffer, p), NumTx, tries, unsent \ {p}, cameInRX)
    <3>1. /\ Len(TXBuffer) < MacBufferSize /\ NumTx \in 0 .. NumTx
          /\ p \notin cameInRX
      BY <1>1, <1>2 DEF BufferHasRoom, QueueOK
    <3> QED
      BY <1>1, <2>1, <3>1, AppendOK
  <2>3. /\ Contend(Append(TXBuffer, p), NumTx, timers \ WithDutyCycle(DutyTimers))
        /\ cameInRX' = cameInRX
    BY <1>1, <1>2, <2>1 DEF AttemptTx
  <2>4. /\ TXBuffer' = Append(TXBuffer, p)
        /\ tries' = tries \/ Queue!TryHead(Append(TXBuffer, p))
    BY <1>1, <2>1, <2>2, <2>3, ContendTries
  <2>5. CASE tries' = tries
    BY <1>1, <1>2, <2>3, <2>4, <2>5 DEF Queue!Give, BufferHasRoom
  <2>6. CASE Queue!TryHead(Append(TXBuffer, p))
    BY <1>1, <1>2, <2>1, <2>3, <2>4, <2>6 DEF Queue!Give, Queue!TryHead, BufferHasRoom
  <2> QED
    BY <2>4, <2>5, <2>6
<1>3. CASE ~(BufferHasRoom /\ macState = "DEFAULT")
  <2>1. /\ TXBuffer' = IF BufferHasRoom THEN Append(TXBuffer, p) ELSE TXBuffer
        /\ tries' = tries
        /\ cameInRX' = cameInRX \/ (TXBuffer = <<>> /\ cameInRX' = cameInRX \cup {p})
    BY <1>3
  <2>2. Queue!Give(p)
    BY <1>1, <2>1 DEF Queue!Give, BufferHasRoom
  <2> QED
    BY <1>1, <2>2
<1> QED
  BY <1>2, <1>3

LEMMA StepServes ==
  ASSUME IInv, Next
  PROVE  Queue!Next \/ UNCHANGED Queue!vars
<1>1. CASE \/ StartSleeping \/ StartListening \/ SenseAgain \/ SenseBusy \/ ReceiveBeacon
           \/ SetDutyCycle \/ FrameArrives \/ TransmissionEnds
  BY <1>1 DEF StartSleeping, StartListening, SenseAgain, SenseBusy, Sensing, ReceiveBeacon,
              SetDutyCycle, FrameArrives, TransmissionEnds, envVars, historyVars, macVars,
              Queue!vars
<1>2. CASE SenseClear
  BY <1>2, SendBeaconsOrDataServes DEF SenseClear, Sensing, envVars, Queue!Next
<1>3. CASE SendTimer
  BY <1>3, SendBeaconsOrDataServes DEF SendTimer, envVars, Queue!Next
<1>4. CASE AttemptTimer \/ ReceiveData
  <2>1. CASE UNCHANGED <<TXBuffer, tries, unsent, cameInRX>>
    BY <2>1 DEF Queue!vars
  <2>2. CASE AttemptTx(TXBuffer, numTxTries, timers \ {"ATTEMPT_TX"}) /\ macState # "TX"
    <3>1. /\ TXBuffer # <<>> \/ numTxTries = 0
          /\ QueueOK(TXBuffer, numTxTries, tries, unsent, cameInRX)
      BY <2>2 DEF IInv, Granted, QueueInv
    <3>2. UNCHANGED <<unsent, cameInRX>>
      BY <1>4 DEF AttemptTimer, ReceiveData, envVars
    <3> QED
      BY <2>2, <3>1, <3>2, AttemptTxServes DEF Queue!Next
  <2>3. CASE AttemptTx(TXBuffer, numTxTries, timers \ {"ATTEMPT_TX"}) /\ TXBuffer # <<>>
    <3>1. UNCHANGED <<unsent, cameInRX>>
      BY <1>4 DEF AttemptTimer, ReceiveData, envVars
    <3> QED
      BY <2>3, <3>1, AttemptTxServes DEF Queue!Next, IInv, QueueInv
  <2>4. CASE AttemptTimer /\ macState = "TX"
    <3>1. "SEND_BEACONS_OR_DATA" \notin timers
      BY <2>4 DEF IInv, NeverStranded, AttemptTimer, DutyTimers
    <3> QED
      BY <2>3, <2>4, <3>1 DEF IInv, Granted, AttemptTimer, Others
  <2> QED
    BY <1>4, <2>1, <2>2, <2>4 DEF AttemptTimer, ReceiveData, Others
<1>5. CASE FromNetworkLayer
  BY <1>5, FromNetworkLayerGives DEF Queue!Next
<1> QED
  BY <1>1, <1>2, <1>3, <1>4, <1>5 DEF Next

(* The buffer keeps the promise of AttemptQueue, whatever is received or    *)
(* commanded in between (TunableMAC.cc:228-402).                            *)
THEOREM ServedInTurn == Spec => ImplementsAttemptQueue
<1>1. Init => Queue!Init
  BY DEF Init, Queue!Init
<1>2. IInv /\ [Next]_vars => [Queue!Next]_(Queue!vars)
  <2> SUFFICES ASSUME IInv, [Next]_vars PROVE [Queue!Next]_(Queue!vars)
    OBVIOUS
  <2>1. CASE Next
    BY <2>1, StepServes
  <2>2. CASE UNCHANGED vars
    BY <2>2 DEF vars, macVars, envVars, historyVars, Queue!vars
  <2> QED
    BY <2>1, <2>2
<1> QED
  BY <1>1, <1>2, Invariance, PTL DEF Spec, ImplementsAttemptQueue, Queue!Spec

=============================================================================
