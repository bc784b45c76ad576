------------------------- MODULE ResourceManagerProofs -------------------------
(***************************************************************************)
(* Proofs about the energy account of ResourceManager for every finite set *)
(* of consumers, set of powers, battery and interval.                      *)
(***************************************************************************)
EXTENDS ResourceManager, ListProofs, SequenceTheorems, FiniteSetTheorems, TLAPS

-----------------------------------------------------------------------------
(* The energy account.  Between two calculations the manager charges the    *)
(* sum of the powers it has stored.  A consumer may already draw another    *)
(* power, but then its report is still to be delivered, and no time passes  *)
(* before it is.                                                            *)
Report == [id : Consumer, power : Power]

Latest(c, i) ==
    /\ mail[i].id = c
    /\ \A j \in DOMAIN mail : j > i => mail[j].id # c

EnergyType ==
    /\ now \in Nat /\ timeOfLastCalculation \in Nat /\ timeOfLastCalculation <= now
    /\ disabled \in BOOLEAN
    /\ remainingEnergy \in Int /\ currentNodePower \in Int /\ used \in Int
    /\ outOfEnergy \in {0, 1} /\ energyMsgAt \in Nat \cup {-1}
    /\ storedPowerConsumptions \in [Consumer -> Int] /\ draw \in [Consumer -> Int]
    /\ mail \in Seq(Report)

DrawReported ==
    \A c \in Consumer :
        \/ \E i \in DOMAIN mail : Latest(c, i) /\ mail[i].power = draw[c]
        \/ /\ \A i \in DOMAIN mail : mail[i].id # c
           /\ draw[c] = storedPowerConsumptions[c]

BatteryOK ==
    /\ outOfEnergy = 0 => remainingEnergy > 0
    /\ outOfEnergy # 0 => remainingEnergy = 0
    /\ Alive => ~disabled
    /\ ~Started => mail = <<>> /\ used = 0 /\ remainingEnergy = InitialEnergy

PowerIsSum == currentNodePower = Baseline + SumOver(storedPowerConsumptions, Consumer)

EnergyInv ==
    EnergyType /\ DrawReported /\ BatteryOK /\ PowerIsSum /\ EnergyBalance

LEMMA TimesZero == \A x \in Int : 0 * x = 0
OBVIOUS

(* What a calculation does to the account: it charges what is due, and the  *)
(* balance is even again, or it finds the battery empty.                    *)
LEMMA CalculateOK ==
  ASSUME EnergyInv, NEW pending \in Nat \cup {-1},
         CalculateEnergySpent(pending), Started,
         now' = now, used' = used, currentNodePower' \in Int
  PROVE  /\ timeOfLastCalculation' \in Nat /\ timeOfLastCalculation' <= now'
         /\ disabled' \in BOOLEAN /\ remainingEnergy' \in Int
         /\ outOfEnergy' \in {0, 1} /\ energyMsgAt' \in Nat \cup {-1}
         /\ outOfEnergy' = 0 => remainingEnergy' > 0
         /\ outOfEnergy' # 0 => remainingEnergy' = 0
         /\ Started' /\ (Alive' => ~disabled')
         /\ EnergyBalance'
<1> DEFINE due == (now - timeOfLastCalculation) * currentNodePower
<1>0. EnergyType /\ BatteryOK /\ EnergyBalance
  BY DEF EnergyInv
<1>1. due \in Int /\ EnergyDue = due
  BY <1>0 DEF EnergyType, EnergyDue
<1> HIDE DEF due
<1>2. now + Interval \in Nat /\ now + Interval # -1
  BY <1>0, EnergyAssumption DEF EnergyType
<1>3. CASE remainingEnergy > 0 /\ remainingEnergy <= due
  <2>1. /\ remainingEnergy' = 0 /\ outOfEnergy' = outOfEnergy + 1 /\ disabled' = TRUE
        /\ timeOfLastCalculation' = now /\ energyMsgAt' = now + Interval
    BY <1>1, <1>3 DEF CalculateEnergySpent, ConsumeEnergy
  <2>2. outOfEnergy = 0
    BY <1>0, <1>3 DEF BatteryOK
  <2>3. outOfEnergy' = 1
    BY <2>1, <2>2
  <2>4. Started' /\ ~Alive'
    BY <2>3 DEF Started, Alive
  <2> QED BY <1>0, <1>2, <2>1, <2>3, <2>4 DEF EnergyType, EnergyBalance
<1>4. CASE remainingEnergy > 0 /\ ~(remainingEnergy <= due)
  <2>1. /\ remainingEnergy' = remainingEnergy - due
        /\ UNCHANGED <<outOfEnergy, disabled>>
        /\ timeOfLastCalculation' = now /\ energyMsgAt' = now + Interval
    BY <1>1, <1>4 DEF CalculateEnergySpent, ConsumeEnergy
  <2>2. outOfEnergy = 0 /\ Alive /\ ~disabled
    BY <1>0, <1>4 DEF BatteryOK, EnergyType, Alive
  <2>3. EnergyDue' = 0
    <3>1. now' - timeOfLastCalculation' = 0
      BY <1>0, <2>1 DEF EnergyType
    <3>2. 0 * currentNodePower' = 0
      BY TimesZero
    <3> QED BY <3>1, <3>2 DEF EnergyDue
  <2>4. InitialEnergy - remainingEnergy + due = used
    BY <1>0, <1>1, <2>2 DEF EnergyBalance
  <2>5. EnergyBalance'
    BY <1>0, <1>1, <2>1, <2>3, <2>4, EnergyAssumption DEF EnergyBalance, EnergyType
  <2>6. Started' /\ remainingEnergy' > 0 /\ remainingEnergy' \in Int
    BY <1>0, <1>1, <1>2, <1>4, <2>1 DEF Started, Idle, EnergyType
  <2> QED BY <1>0, <1>2, <2>1, <2>2, <2>5, <2>6 DEF EnergyType
<1>5. CASE ~(remainingEnergy > 0)
  <2>1. /\ energyMsgAt' = pending
        /\ UNCHANGED <<remainingEnergy, outOfEnergy, disabled, timeOfLastCalculation>>
    BY <1>5 DEF CalculateEnergySpent
  <2>2. outOfEnergy = 1
    BY <1>0, <1>5 DEF BatteryOK, EnergyType
  <2>3. Started' /\ ~Alive'
    BY <2>1, <2>2 DEF Started, Alive
  <2> QED BY <1>0, <2>1, <2>2, <2>3 DEF EnergyType, BatteryOK, EnergyBalance
<1> QED BY <1>3, <1>4, <1>5

LEMMA PeriodicCalculationOK ==
  ASSUME EnergyInv, PeriodicCalculation
  PROVE  EnergyInv'
<1>0. EnergyType /\ DrawReported /\ BatteryOK /\ PowerIsSum
  BY DEF EnergyInv
<1>1. /\ energyMsgAt = now /\ CalculateEnergySpent(-1)
      /\ UNCHANGED <<now, currentNodePower, storedPowerConsumptions, mail, draw, used>>
  BY DEF PeriodicCalculation, Idle
<1>2. Started /\ currentNodePower' \in Int
  BY <1>0, <1>1 DEF EnergyType, Started, Idle
<1>3. /\ timeOfLastCalculation' \in Nat /\ timeOfLastCalculation' <= now'
      /\ disabled' \in BOOLEAN /\ remainingEnergy' \in Int
      /\ outOfEnergy' \in {0, 1} /\ energyMsgAt' \in Nat \cup {-1}
      /\ outOfEnergy' = 0 => remainingEnergy' > 0
      /\ outOfEnergy' # 0 => remainingEnergy' = 0
      /\ Started' /\ (Alive' => ~disabled')
      /\ EnergyBalance'
  BY <1>1, <1>2, CalculateOK
<1>4. EnergyType'
  BY <1>0, <1>1, <1>3 DEF EnergyType
<1>5. DrawReported' /\ PowerIsSum'
  BY <1>0, <1>1 DEF DrawReported, Latest, PowerIsSum
<1> QED BY <1>3, <1>4, <1>5 DEF EnergyInv, BatteryOK

LEMMA StartupOK ==
  ASSUME EnergyInv, Startup
  PROVE  EnergyInv'
<1>0. EnergyType /\ DrawReported /\ BatteryOK /\ PowerIsSum
  BY DEF EnergyInv
<1>1. /\ ~Started /\ disabled' = FALSE
      /\ timeOfLastCalculation' = now /\ energyMsgAt' = now + Interval
      /\ UNCHANGED <<now, remainingEnergy, currentNodePower, storedPowerConsumptions,
                     mail, outOfEnergy, draw, used>>
  BY DEF Startup
<1>2. now + Interval \in Nat /\ now \in Nat
  BY <1>0, EnergyAssumption DEF EnergyType
<1>3. EnergyType'
  <2>1. /\ now' \in Nat /\ timeOfLastCalculation' \in Nat /\ timeOfLastCalculation' <= now'
        /\ energyMsgAt' \in Nat \cup {-1} /\ disabled' \in BOOLEAN
    <3>1. now <= now
      BY <1>2
    <3> QED BY <1>1, <1>2, <3>1
  <2> QED BY <1>0, <1>1, <2>1 DEF EnergyType
<1>4. DrawReported' /\ PowerIsSum'
  BY <1>0, <1>1 DEF DrawReported, Latest, PowerIsSum
<1>5. used = 0 /\ remainingEnergy = InitialEnergy
  BY <1>0, <1>1 DEF BatteryOK
<1>6. Started'
  BY <1>1, <1>2 DEF Started, Idle
<1>7. BatteryOK'
  BY <1>0, <1>1, <1>6 DEF BatteryOK
<1>8. EnergyBalance'
  <2>1. now' - timeOfLastCalculation' = 0
    BY <1>1, <1>2
  <2>2. 0 * currentNodePower' = 0
    BY <1>0, <1>1, TimesZero DEF EnergyType
  <2>3. EnergyDue' = 0
    BY <2>1, <2>2 DEF EnergyDue
  <2> QED BY <1>1, <1>5, <2>3, EnergyAssumption DEF EnergyBalance
<1> QED BY <1>3, <1>4, <1>7, <1>8 DEF EnergyInv

LEMMA PowerDrawnOK ==
  ASSUME EnergyInv, NEW c \in Consumer, NEW p \in Power,
         PowerDrawn(c, p)
  PROVE  EnergyInv'
<1> DEFINE new == [id |-> c, power |-> p]
<1>0. EnergyType /\ DrawReported /\ BatteryOK /\ PowerIsSum /\ EnergyBalance
  BY DEF EnergyInv
<1>1. /\ Started
      /\ draw' = [draw EXCEPT ![c] = p] /\ mail' = Append(mail, new)
      /\ UNCHANGED <<now, disabled, remainingEnergy, currentNodePower,
                     storedPowerConsumptions, timeOfLastCalculation, energyMsgAt,
                     outOfEnergy, used>>
  BY DEF PowerDrawn
<1>2. new \in Report /\ new.id = c /\ new.power = p /\ p \in Int
  BY EnergyAssumption DEF Report
<1> HIDE DEF new
<1>3. /\ mail' \in Seq(Report) /\ Len(mail) \in Nat
      /\ DOMAIN mail = 1 .. Len(mail) /\ DOMAIN mail' = 1 .. Len(mail) + 1
      /\ \A i \in 1 .. Len(mail) : mail'[i] = mail[i]
      /\ mail'[Len(mail) + 1] = new
  BY <1>0, <1>1, <1>2, AppendProperties, LenProperties DEF EnergyType
<1>4. EnergyType'
  BY <1>0, <1>1, <1>2, <1>3 DEF EnergyType
<1>5. ASSUME NEW k \in Consumer
      PROVE  \/ \E i \in DOMAIN mail' : Latest(k, i)' /\ mail'[i].power = draw'[k]
             \/ /\ \A i \in DOMAIN mail' : mail'[i].id # k
                /\ draw'[k] = storedPowerConsumptions'[k]
  <2>1. CASE k = c
    <3>1. draw'[k] = p
      BY <1>0, <1>1, <2>1 DEF EnergyType
    <3>2. PICK n \in 1 .. Len(mail) + 1 : n = Len(mail) + 1
      BY <1>3
    <3>3. n \in DOMAIN mail' /\ mail'[n] = new /\ ~\E j \in DOMAIN mail' : j > n
      BY <1>3, <3>2
    <3>4. Latest(k, n)'
      BY <1>2, <2>1, <3>3 DEF Latest
    <3> QED BY <1>2, <3>1, <3>3, <3>4
  <2>2. CASE k # c
    <3>1. draw'[k] = draw[k] /\ storedPowerConsumptions'[k] = storedPowerConsumptions[k]
      BY <1>0, <1>1, <2>2 DEF EnergyType
    <3>2. \A j \in DOMAIN mail' :
             (j \in DOMAIN mail /\ mail'[j] = mail[j]) \/ mail'[j].id # k
      BY <1>2, <1>3, <2>2
    <3>3. ASSUME NEW i \in DOMAIN mail, Latest(k, i), mail[i].power = draw[k]
          PROVE  i \in DOMAIN mail' /\ Latest(k, i)' /\ mail'[i].power = draw'[k]
      BY <1>3, <3>1, <3>2, <3>3 DEF Latest
    <3>4. ASSUME \A i \in DOMAIN mail : mail[i].id # k
          PROVE  \A i \in DOMAIN mail' : mail'[i].id # k
      BY <3>2, <3>4
    <3> QED BY <1>0, <3>1, <3>3, <3>4 DEF DrawReported
  <2> QED BY <2>1, <2>2
<1>6. DrawReported'
  BY <1>5 DEF DrawReported
<1>7. BatteryOK' /\ PowerIsSum' /\ EnergyBalance'
  BY <1>0, <1>1 DEF BatteryOK, PowerIsSum, EnergyBalance, EnergyDue,
                    Alive, Started
<1> QED BY <1>4, <1>6, <1>7 DEF EnergyInv

LEMMA ReportTaken ==
  ASSUME EnergyType, DrawReported, mail # <<>>, NEW c, NEW p,
         c = Head(mail).id, p = Head(mail).power,
         mail' = Tail(mail), draw' = draw,
         storedPowerConsumptions' = [storedPowerConsumptions EXCEPT ![c] = p]
  PROVE  mail' \in Seq(Report) /\ c \in Consumer /\ p \in Power /\ DrawReported'
<1>1. /\ mail' \in Seq(Report) /\ Len(mail) \in Nat /\ 1 \in DOMAIN mail
      /\ DOMAIN mail = 1 .. Len(mail) /\ DOMAIN mail' = 1 .. Len(mail) - 1
      /\ \A i \in 1 .. Len(mail) - 1 : mail'[i] = mail[i + 1]
      /\ Head(mail) = mail[1] /\ mail[1] \in Report
  BY HeadTailProperties, LenProperties, EmptySeq, ElementOfSeq DEF EnergyType
<1>2. c = mail[1].id /\ p = mail[1].power /\ c \in Consumer /\ p \in Power
  BY <1>1 DEF Report
<1>3. ASSUME NEW k \in Consumer, NEW i \in DOMAIN mail, Latest(k, i),
             mail[i].power = draw[k]
      PROVE  \/ \E j \in DOMAIN mail' : Latest(k, j)' /\ mail'[j].power = draw'[k]
             \/ /\ \A j \in DOMAIN mail' : mail'[j].id # k
                /\ draw'[k] = storedPowerConsumptions'[k]
  <2>1. CASE i = 1
    <3>1. k = c /\ draw[k] = p
      BY <1>2, <1>3, <2>1 DEF Latest
    <3>2. \A j \in DOMAIN mail' : j + 1 \in DOMAIN mail /\ j + 1 > 1
      BY <1>1
    <3>3. \A j \in DOMAIN mail' : mail'[j].id # k
      BY <1>1, <1>3, <2>1, <3>2 DEF Latest
    <3>4. draw'[k] = storedPowerConsumptions'[k]
      BY <1>2, <3>1 DEF EnergyType
    <3> QED BY <3>3, <3>4
  <2>2. CASE i # 1
    <3>1. PICK n \in DOMAIN mail' : n + 1 = i
      <4>1. i - 1 \in DOMAIN mail' /\ (i - 1) + 1 = i
        BY <1>1, <2>2
      <4> QED BY <4>1
    <3>2. mail'[n] = mail[i]
      BY <1>1, <3>1
    <3>3. ASSUME NEW j \in DOMAIN mail', j > n PROVE mail'[j].id # k
      <4>1. j + 1 \in DOMAIN mail /\ j + 1 > i /\ mail'[j] = mail[j + 1]
        BY <1>1, <3>1, <3>3
      <4> QED BY <1>3, <4>1 DEF Latest
    <3>4. Latest(k, n)'
      BY <1>3, <3>2, <3>3 DEF Latest
    <3> QED BY <1>3, <3>2, <3>4
  <2> QED BY <2>1, <2>2
<1>4. ASSUME NEW k \in Consumer, \A i \in DOMAIN mail : mail[i].id # k,
             draw[k] = storedPowerConsumptions[k]
      PROVE  /\ \A j \in DOMAIN mail' : mail'[j].id # k
             /\ draw'[k] = storedPowerConsumptions'[k]
  <2>1. k # c
    BY <1>1, <1>2, <1>4
  <2>2. \A j \in DOMAIN mail' : j + 1 \in DOMAIN mail /\ mail'[j] = mail[j + 1]
    BY <1>1
  <2> QED BY <1>2, <1>4, <2>1, <2>2 DEF EnergyType
<1>5. DrawReported'
  BY <1>3, <1>4 DEF DrawReported
<1> QED BY <1>1, <1>2, <1>5

LEMMA DrawPowerOK ==
  ASSUME EnergyInv, DrawPower
  PROVE  EnergyInv'
<1> DEFINE c == Head(mail).id
           p == Head(mail).power
<1>0. EnergyType /\ DrawReported /\ BatteryOK /\ PowerIsSum /\ EnergyBalance
  BY DEF EnergyInv
<1>1. /\ mail # <<>> /\ mail' = Tail(mail)
      /\ currentNodePower' = currentNodePower - storedPowerConsumptions[c] + p
      /\ storedPowerConsumptions' = [storedPowerConsumptions EXCEPT ![c] = p]
      /\ ~disabled => CalculateEnergySpent(energyMsgAt)
      /\ disabled => UNCHANGED <<remainingEnergy, outOfEnergy, disabled,
                                 timeOfLastCalculation, energyMsgAt>>
      /\ UNCHANGED <<now, draw, used>>
  BY DEF DrawPower
<1> HIDE DEF c, p
<1>2. mail' \in Seq(Report) /\ c \in Consumer /\ p \in Int /\ DrawReported'
  <2>1. mail' \in Seq(Report) /\ c \in Consumer /\ p \in Power /\ DrawReported'
    BY <1>0, <1>1, ReportTaken DEF c, p
  <2> QED BY <2>1, EnergyAssumption
<1>3. Started
  BY <1>0, <1>1 DEF BatteryOK
<1>4. PowerIsSum' /\ currentNodePower' \in Int
  <2>1. /\ storedPowerConsumptions \in [Consumer -> Int] /\ currentNodePower \in Int
        /\ IsFiniteSet(Consumer) /\ Baseline \in Int
        /\ storedPowerConsumptions[c] \in Int
    BY <1>0, <1>2, EnergyAssumption DEF EnergyType
  <2>2. SumOver(storedPowerConsumptions, Consumer) \in Int
    BY <2>1, SumIsInt
  <2>3. SumOver(storedPowerConsumptions', Consumer)
          = SumOver(storedPowerConsumptions, Consumer) - storedPowerConsumptions[c] + p
    <3> DEFINE f == storedPowerConsumptions
               e == storedPowerConsumptions'
    <3>1. f \in [Consumer -> Int] /\ c \in Consumer /\ p \in Int /\ IsFiniteSet(Consumer)
      BY <1>2, <2>1
    <3>2. e \in [Consumer -> Int] /\ e[c] = p /\ \A x \in Consumer \ {c} : e[x] = f[x]
      BY <1>1, <3>1
    <3> HIDE DEF f, e
    <3>3. SumOver(e, Consumer) = SumOver(f, Consumer) - f[c] + p
      BY <3>1, <3>2, SumChange
    <3> QED BY <3>3 DEF f, e
  <2> QED BY <1>0, <1>1, <1>2, <2>1, <2>2, <2>3 DEF PowerIsSum
<1>5. storedPowerConsumptions' \in [Consumer -> Int]
  BY <1>0, <1>1, <1>2 DEF EnergyType
<1>6. CASE ~disabled
  <2>1. /\ timeOfLastCalculation' \in Nat /\ timeOfLastCalculation' <= now'
        /\ disabled' \in BOOLEAN /\ remainingEnergy' \in Int
        /\ outOfEnergy' \in {0, 1} /\ energyMsgAt' \in Nat \cup {-1}
        /\ outOfEnergy' = 0 => remainingEnergy' > 0
        /\ outOfEnergy' # 0 => remainingEnergy' = 0
        /\ Started' /\ (Alive' => ~disabled')
        /\ EnergyBalance'
    <3>1. energyMsgAt \in Nat \cup {-1}
      BY <1>0 DEF EnergyType
    <3> QED BY <1>1, <1>3, <1>4, <1>6, <3>1, CalculateOK
  <2>2. EnergyType'
    BY <1>0, <1>1, <1>2, <1>4, <1>5, <2>1 DEF EnergyType
  <2> QED BY <1>2, <1>4, <2>1, <2>2 DEF EnergyInv, BatteryOK
<1>7. CASE disabled
  <2>1. EnergyType'
    BY <1>0, <1>1, <1>2, <1>4, <1>5, <1>7 DEF EnergyType
  <2>2. Started' /\ ~Alive'
    BY <1>0, <1>1, <1>3, <1>7 DEF BatteryOK, Alive, Started
  <2>3. BatteryOK' /\ EnergyBalance'
    BY <1>0, <1>1, <1>7, <2>2 DEF BatteryOK, EnergyBalance
  <2> QED BY <1>2, <1>4, <2>1, <2>3 DEF EnergyInv
<1> QED BY <1>6, <1>7

LEMMA ClockOK ==
  ASSUME EnergyInv, Tick
  PROVE  EnergyInv'
<1>0. EnergyType /\ DrawReported /\ BatteryOK /\ PowerIsSum /\ EnergyBalance
  BY DEF EnergyInv
<1>1. /\ Started /\ mail = <<>> /\ now' = now + 1
      /\ used' = used + TotalDraw
      /\ UNCHANGED <<disabled, remainingEnergy, currentNodePower, storedPowerConsumptions,
                     timeOfLastCalculation, energyMsgAt, mail, outOfEnergy, draw>>
  BY DEF Tick
<1>2. draw = storedPowerConsumptions
  <2>1. \A k \in Consumer : draw[k] = storedPowerConsumptions[k]
    BY <1>0, <1>1 DEF DrawReported
  <2> QED BY <1>0, <2>1 DEF EnergyType
<1>3. used' = used + currentNodePower
  BY <1>0, <1>1, <1>2 DEF TotalDraw, PowerIsSum
<1>4. EnergyType'
  <2>1. now' \in Nat /\ timeOfLastCalculation <= now' /\ used' \in Int
    BY <1>0, <1>1, <1>3 DEF EnergyType
  <2> QED BY <1>0, <1>1, <2>1 DEF EnergyType
<1>5. DrawReported' /\ BatteryOK' /\ PowerIsSum'
  BY <1>0, <1>1 DEF DrawReported, Latest, BatteryOK, PowerIsSum, Started, Alive
<1>6. EnergyBalance'
  <2>1. /\ now \in Int /\ timeOfLastCalculation \in Int /\ currentNodePower \in Int
        /\ remainingEnergy \in Int /\ used \in Int /\ InitialEnergy \in Int
    BY <1>0, EnergyAssumption DEF EnergyType
  <2>2. EnergyDue' = EnergyDue + currentNodePower
    <3>1. (now + 1) - timeOfLastCalculation = (now - timeOfLastCalculation) + 1
      BY <2>1
    <3>2. now - timeOfLastCalculation \in Int
      BY <2>1
    <3>3. \A x, y \in Int : (x + 1) * y = x * y + y
      OBVIOUS
    <3> QED BY <1>1, <2>1, <3>1, <3>2, <3>3 DEF EnergyDue
  <2>3. Alive' <=> Alive
    BY <1>1 DEF Alive, Started
  <2>4. EnergyDue \in Int
    BY <2>1 DEF EnergyDue
  <2>5. Alive => InitialEnergy - remainingEnergy + EnergyDue = used
    BY <1>0 DEF EnergyBalance
  <2> DEFINE due == EnergyDue
  <2> HIDE DEF due
  <2>6. Alive => InitialEnergy - remainingEnergy' + EnergyDue' = used'
    BY <1>1, <1>3, <2>1, <2>2, <2>4, <2>5
  <2> QED BY <2>3, <2>6 DEF EnergyBalance
<1> QED BY <1>4, <1>5, <1>6 DEF EnergyInv

LEMMA EnergyInitOK ==
  ASSUME Init
  PROVE  EnergyInv
<1>1. ~Started /\ ~Alive
  BY DEF Init, Started, Alive, Idle
<1>2. EnergyType
  BY EmptySeq, EnergyAssumption DEF Init, EnergyType, Idle
<1>3. DrawReported
  BY DEF Init, DrawReported
<1>4. BatteryOK /\ EnergyBalance
  BY <1>1, EnergyAssumption DEF Init, BatteryOK, EnergyBalance
<1>5. PowerIsSum
  <2>1. IsFiniteSet(Consumer) /\ \A c \in Consumer : storedPowerConsumptions[c] = 0
    BY EnergyAssumption DEF Init
  <2>2. SumOver(storedPowerConsumptions, Consumer) = 0
    BY <2>1, SumOfZeros
  <2> QED BY <2>2, EnergyAssumption DEF Init, PowerIsSum
<1> QED BY <1>2, <1>3, <1>4, <1>5 DEF EnergyInv

(* The invariant of the energy account.                                     *)
THEOREM EnergyInvHolds == Spec => []EnergyInv
<1>1. Init => EnergyInv
  BY EnergyInitOK
<1>2. EnergyInv /\ [Next]_vars => EnergyInv'
  <2>1. CASE EnergyInv /\ Next
    BY <2>1, StartupOK, PeriodicCalculationOK, DrawPowerOK, PowerDrawnOK, ClockOK DEF Next
  <2>2. CASE EnergyInv /\ UNCHANGED vars
    BY <2>2 DEF vars, EnergyInv, EnergyType, DrawReported, Latest, BatteryOK, PowerIsSum,
                EnergyBalance, EnergyDue, Alive, Started
  <2> QED BY <2>1, <2>2
<1> QED BY <1>1, <1>2, PTL DEF Spec

(* No energy is lost or charged twice, for any number of consumers that     *)
(* change their power at any time (ResourceManager.cc:90-135).              *)
THEOREM NoEnergyIsLost == Spec => []EnergyBalance
<1>1. EnergyInv => EnergyBalance
  BY DEF EnergyInv
<1> QED BY <1>1, EnergyInvHolds, PTL

(* The modules of a node are told once at most that the battery is empty,   *)
(* and only when it is (ResourceManager.cc:191-209).                        *)
THEOREM ToldOnce == Spec => [](outOfEnergy <= 1 /\ (outOfEnergy = 1 <=> remainingEnergy = 0))
<1>1. EnergyInv => outOfEnergy <= 1 /\ (outOfEnergy = 1 <=> remainingEnergy = 0)
  BY DEF EnergyInv, EnergyType, BatteryOK
<1> QED BY <1>1, EnergyInvHolds, PTL

=============================================================================
