-------------------------- MODULE Mac802154Proofs --------------------------
(***************************************************************************)
(* Proofs about Mac802154 for every set of stations, length of the frame   *)
(* and load.                                                               *)
(*                                                                         *)
(* The invariant says of each station alone how its timers, its current    *)
(* packet and what it sends belong together (LocalOK); of a node and the   *)
(* coordinator whose beacon it heard that they count the same slots and    *)
(* mean the same guaranteed slots (Synced), and that the coordinator of    *)
(* its PAN knows it (InPan); and of an ACK on the air that it answers the  *)
(* packet its receiver waits for (AckOK).                                  *)
(***************************************************************************)
EXTENDS Mac802154, SequenceTheorems, TLAPS

-----------------------------------------------------------------------------
(* One station                                                              *)

(* The guaranteed slots lie behind the CAP, each before the one granted     *)
(* earlier, and are as many as their owner asks for.                        *)
ListOK(list) ==
    /\ \A i \in DOMAIN list : /\ list[i].start >= MinCap /\ list[i].length > 0
                              /\ list[i].start + list[i].length <= NumSlots
                              /\ list[i].length = par.requestGTS[list[i].owner]
    /\ \A i, j \in DOMAIN list : i < j => list[j].start + list[j].length <= list[i].start

(* What only a coordinator has                                              *)
CoordOK(s) ==
    s.addr \in Coord =>
        /\ s.pan = s.addr /\ s.state \in {"SETUP", "CAP"}
        /\ s.state = "SETUP" => "PERFORM_CCA" \notin s.timers
        /\ \A t \in SlowTimer \ {"FRAME_START"} : s.due[t] = -1
        /\ s.pos < par.period => s.due["FRAME_START"] + s.pos = par.period
        /\ s.addr \in On => s.due["FRAME_START"] >= 0 /\ s.radio = "RX"
        /\ s.gtsStart = 0
        /\ s.state = "CAP" => s.capEnd = CapLength(s.beacon)

(* The timers of a node are about the frame it is in.                       *)
TimersOK(s) ==
    s.addr \in Node =>
        /\ s.due["BEACON_TIMEOUT"] \in {-1, 0}
        /\ s.due["BEACON_TIMEOUT"] = 0 =>
               s.pos = par.period /\ s.due["FRAME_START"] = -1 /\ s.radio = "RX"
        /\ s.due["FRAME_START"] >= 0 => s.due["FRAME_START"] + s.pos >= par.period
        /\ s.due["FRAME_START"] >= 0 \/ s.due["BEACON_TIMEOUT"] = 0 => s.lost < MaxLostBeacons
        /\ s.due["SLEEP_START"] >= 0 => s.due["SLEEP_START"] + s.pos <= NumSlots
        /\ s.due["GTS_START"] >= 0 => s.gtsStart > 0 /\ s.due["GTS_START"] + s.pos = s.gtsStart
        /\ s.due["SLEEP_START"] >= 0 \/ s.due["GTS_START"] >= 0 =>
               /\ s.pan # None
               /\ s.due["FRAME_START"] >= 0 \/ s.due["BEACON_TIMEOUT"] = 0
        /\ s.addr \in On => s.due["FRAME_START"] >= 0 \/ s.radio = "RX"

(* A station that is off has no timers.                                     *)
OffOK(s) == s.addr \notin On => \A t \in SlowTimer : s.due[t] = -1

(* The state of a node is that of its PAN.                                  *)
NodeOK(s) ==
    s.addr \in Node =>
        /\ s.state \in {"GTS", "SLEEP"} => s.pan # None
        /\ s.pan # None => s.state # "SETUP" /\ s.beaconOf = s.pan
        /\ s.pan = None => s.assigned = 0
        /\ s.gtsStart > 0 => s.gtsStart < s.gtsEnd
        /\ s.state = "GTS" => s.gtsStart > 0 /\ s.pos >= s.gtsStart
        /\ s.state = "CAP" /\ ~s.joined => s.capEnd # s.gtsStart \/ s.due["GTS_START"] >= 0

(* A packet that a station sends, and those in its buffer                   *)
PacketOK(f, s) ==
    /\ f.type # "ACK" /\ f.src = s.addr
    /\ f.type = "ASSOCIATE" =>
          /\ s.addr \in Node /\ s.pan = None /\ s.joined
          /\ s.beaconOf # None /\ f.dst = s.beaconOf /\ f.pan = s.beaconOf
    /\ f.type = "GTS_REQUEST" =>
          /\ s.addr \in Node /\ s.pan # None /\ f.dst = s.pan
          /\ f.body > 0 /\ f.body = par.requestGTS[s.addr]

BufferOK(s) ==
    \A i \in DOMAIN s.buffer : s.buffer[i].type = "DATA" /\ s.buffer[i].src = s.addr

CurOK(s) == (s.cur # None => PacketOK(s.cur, s)) /\ BufferOK(s)

(* A packet that contends has attempts left.                                *)
Counted(s) ==
    "PERFORM_CCA" \in s.timers /\ s.state \in {"CAP", "SETUP"} /\ s.cur # None => s.retries > 0

Served(s) == s.pan # None /\ s.cur = None => s.buffer = <<>>

(* A frame that asks for an ACK                                             *)
Asks(f) == f.type \in {"DATA", "ASSOCIATE", "GTS_REQUEST"} /\ f.dst # Broadcast

(* The station will not try its packet before ACK_TIMEOUT.                  *)
Waiting(s) ==
    /\ "ACK_TIMEOUT" \in s.timers
    /\ s.cur # None /\ s.state \in {"CAP", "SETUP"} => "PERFORM_CCA" \notin s.timers

TxOK(s) ==
    s.tx # None =>
        /\ s.addr \in On /\ s.tx.src = s.addr
        /\ s.timers \cap {"ATTEMPT_TX", "ACK_TIMEOUT"} # {}
        /\ s.tx.type = "BEACON" =>
              s.addr \in Coord /\ s.tx.pan = s.addr /\ s.pos = 0 /\ s.tx.body = s.beacon
        /\ s.tx.type = "GTS_REQUEST" => s.tx.body > 0 /\ s.tx.body = par.requestGTS[s.addr]
        /\ s.tx.type \in {"ASSOCIATE", "GTS_REQUEST"} => s.tx.dst # Broadcast
        /\ Asks(s.tx) => Waiting(s) /\ (s.cur = s.tx \/ (s.cur = None /\ s.pan = None))

(* What does not depend on the packet that is being tried                   *)
StableOK(s) ==
    /\ ListOK(s.gtsList) /\ ListOK(s.beacon)
    /\ CoordOK(s) /\ TimersOK(s) /\ OffOK(s) /\ NodeOK(s)

LocalOK(s) == StableOK(s) /\ CurOK(s) /\ Counted(s) /\ Served(s) /\ TxOK(s)

-----------------------------------------------------------------------------
(* Several stations, whose states are m                                     *)

(* A node and the coordinator c whose beacon it heard last, in that frame   *)
SyncedWith(s, c) ==
    s.pos < par.period =>
        /\ s.pos = c.pos /\ s.capEnd = CapLength(c.beacon)
        /\ s.gtsStart > 0 =>
              \E i \in DOMAIN c.beacon :
                  /\ c.beacon[i].owner = s.addr /\ c.beacon[i].start = s.gtsStart
                  /\ s.gtsEnd = s.gtsStart + c.beacon[i].length

Synced(n, m) == m[n].beaconOf # None => SyncedWith(m[n], m[m[n].beaconOf])

(* Who has heard c's last beacon has been through its frame when c sends    *)
(* another.                                                                 *)
ReadyFor(s, c) == c.tx # None /\ c.tx.type = "BEACON" => s.pos = par.period

Ready(n, m) == m[n].beaconOf # None => ReadyFor(m[n], m[m[n].beaconOf])

Holds(c, n, slots) ==
    \E i \in DOMAIN c.gtsList : c.gtsList[i].owner = n /\ c.gtsList[i].length = slots

InPan(n, m) ==
    m[n].pan # None =>
        /\ n \in m[m[n].pan].devices
        /\ m[n].assigned > 0 => Holds(m[m[n].pan], n, m[n].assigned)

(* An ACK f of station c for the packet that station s waits for            *)
Answers(f, c, s) ==
    /\ Waiting(s)
    /\ \/ s.cur = None /\ s.pan = None
       \/ /\ s.cur # None /\ s.cur.dst = c.addr /\ f.pan = c.addr
          /\ s.cur.type = "ASSOCIATE" => s.addr \in c.devices
          /\ s.cur.type = "GTS_REQUEST" /\ f.body > 0 => Holds(c, s.addr, f.body)

IsAck(f) == f # None /\ f.type = "ACK"

AckOK(k, m) ==
    IsAck(m[k].tx) => /\ m[k].tx.dst \in Station \ {k}
                      /\ Answers(m[k].tx, m[k], m[m[k].tx.dst])

OneAck(m) ==
    \A j, k \in Station : IsAck(m[j].tx) /\ IsAck(m[k].tx) /\ m[j].tx.dst = m[k].tx.dst => j = k

(* GtsIsExclusive of station k, when all are in the states m                *)
ExclusiveIn(s, c) ==
    \A i \in DOMAIN c.beacon : \/ c.beacon[i].owner = s.addr
                               \/ c.pos < c.beacon[i].start
                               \/ c.pos >= c.beacon[i].start + c.beacon[i].length

Exclusive(k, m) ==
    m[k].tx # None /\ m[k].pan # None =>
        \/ m[k].tx.type = "ACK"
        \/ m[k].joined /\ m[k].capEnd = m[k].gtsStart
        \/ ExclusiveIn(m[k], m[m[k].pan])

AllOK(m) ==
    /\ m \in [Station -> Mac]
    /\ \A k \in Station : m[k].addr = k /\ LocalOK(m[k])
    /\ \A n \in Node : Synced(n, m) /\ Ready(n, m) /\ InPan(n, m)
    /\ \A k \in Station : AckOK(k, m) /\ Exclusive(k, m)
    /\ OneAck(m)

IInv == TypeOK /\ AllOK(mac)

-----------------------------------------------------------------------------
(* The parameters, and the helpers on the state of a station                *)

LEMMA ParFacts ==
  ASSUME par \in Settings
  PROVE  /\ par \in Parameters /\ par.period \in Nat /\ NumSlots <= par.period
         /\ NumSlots \in Nat /\ MinCap \in 1 .. NumSlots
         /\ MaxLostBeacons \in Nat \ {0} /\ MaxFrameRetries \in Nat \ {0} /\ BufferSize \in Nat
         /\ On \subseteq Station /\ None \notin Station /\ None \notin Coord /\ None \notin Node
         /\ Broadcast \notin Station /\ Coord \cap Node = {} /\ None # Broadcast
         /\ \A c \in Coord : par.requestGTS[c] = 0 /\ par.offset[c] \in 0 .. par.period
         /\ \A k \in Station : par.requestGTS[k] \in Nat
<1>1. par \in Parameters
  BY Mac802154Assumption
<1>2. /\ par.period \in Nat /\ par.on \subseteq Station
      /\ par.offset \in [Coord -> Nat] /\ par.requestGTS \in [Station -> Nat]
  BY <1>1 DEF Parameters
<1>3. /\ par.period >= NumSlots
      /\ \A c \in Coord : par.requestGTS[c] = 0 /\ par.offset[c] <= par.period
  BY Mac802154Assumption
<1>4. /\ NumSlots \in Nat /\ MinCap \in 1 .. NumSlots
      /\ MaxLostBeacons \in Nat \ {0} /\ MaxFrameRetries \in Nat \ {0} /\ BufferSize \in Nat
      /\ None \notin Station /\ None \notin Coord /\ None \notin Node
      /\ Broadcast \notin Station /\ Coord \cap Node = {} /\ None # Broadcast
  BY Mac802154Assumption DEF Station, Address
<1>5. \A c \in Coord : par.offset[c] \in Nat
  BY <1>2
<1>6. \A c \in Coord : par.offset[c] \in 0 .. par.period
  <2> SUFFICES ASSUME NEW c \in Coord PROVE par.offset[c] \in 0 .. par.period
    OBVIOUS
  <2> DEFINE o == par.offset[c]
             q == par.period
  <2>1. o \in Nat /\ q \in Nat /\ o <= q
    BY <1>2, <1>3, <1>5
  <2> HIDE DEF o, q
  <2>2. o \in 0 .. q
    BY <2>1
  <2> QED
    BY <2>2 DEF o, q
<1>7. \A k \in Station : par.requestGTS[k] \in Nat
  BY <1>2
<1>8. NumSlots <= par.period
  BY <1>2, <1>3, <1>4
<1> QED
  BY <1>1, <1>2, <1>3, <1>4, <1>6, <1>7, <1>8 DEF On

LEMMA NoneIsNoFrame == None \notin BeaconFrame /\ None \notin OtherFrame
BY Mac802154Assumption

(* What is known of the numbers in a state                                  *)
LEMMA MacFacts ==
  ASSUME par \in Settings, NEW s \in Mac
  PROVE  /\ s.addr \in Station /\ (s.addr \in Coord \/ s.addr \in Node)
         /\ ~(s.addr \in Coord /\ s.addr \in Node)
         /\ s.state \in {"SETUP", "SLEEP", "CAP", "GTS"}
         /\ s.pan \in Coord \cup {None} /\ s.beaconOf \in Coord \cup {None}
         /\ s.pos \in 0 .. par.period /\ s.pos \in Nat
         /\ s.gtsStart \in Nat /\ s.gtsEnd \in Nat /\ s.gtsEnd <= NumSlots
         /\ s.capEnd \in Nat /\ s.capEnd <= NumSlots /\ s.gtsStart <= NumSlots
         /\ s.lost \in Nat /\ s.assigned \in Nat /\ s.retries \in 0 .. MaxFrameRetries
         /\ \A x \in SlowTimer : s.due[x] \in -1 .. par.period /\ s.due[x] \in Int
         /\ par.period \in Nat /\ NumSlots \in Nat /\ NumSlots <= par.period
         /\ MaxLostBeacons \in Nat \ {0}
<1>1. /\ s.addr \in Station /\ s.state \in {"SETUP", "SLEEP", "CAP", "GTS"}
      /\ s.pan \in Coord \cup {None} /\ s.beaconOf \in Coord \cup {None}
      /\ s.pos \in 0 .. par.period /\ s.gtsStart \in 0 .. NumSlots /\ s.gtsEnd \in 0 .. NumSlots
      /\ s.capEnd \in 0 .. NumSlots
      /\ s.lost \in 0 .. MaxLostBeacons /\ s.assigned \in Nat /\ s.retries \in 0 .. MaxFrameRetries
      /\ \A x \in SlowTimer : s.due[x] \in -1 .. par.period
  BY DEF Mac
<1>2. /\ par.period \in Nat /\ NumSlots \in Nat /\ NumSlots <= par.period
      /\ MaxLostBeacons \in Nat \ {0} /\ Coord \cap Node = {}
  BY ParFacts
<1> QED
  BY <1>1, <1>2 DEF Station

(* What attempts leave alone                                                *)
Same(s, t) ==
    /\ t.addr = s.addr /\ t.state = s.state /\ t.pan = s.pan /\ t.due = s.due /\ t.pos = s.pos
    /\ t.beaconOf = s.beaconOf /\ t.joined = s.joined /\ t.capEnd = s.capEnd
    /\ t.gtsStart = s.gtsStart /\ t.gtsEnd = s.gtsEnd /\ t.lost = s.lost
    /\ t.assigned = s.assigned /\ t.devices = s.devices
    /\ t.gtsList = s.gtsList /\ t.beacon = s.beacon

SameLoad(s, t) ==
    t.cur = s.cur /\ t.retries = s.retries /\ t.gtsOnly = s.gtsOnly /\ t.buffer = s.buffer

SameRadio(s, t) == t.tx = s.tx /\ t.radio = s.radio

FastTimer == {"PERFORM_CCA", "ATTEMPT_TX", "ACK_TIMEOUT"}

LEMMA RetriesOK ==
  ASSUME NEW s \in Mac, NEW r \in 0 .. MaxFrameRetries
  PROVE  LET t == [s EXCEPT !.retries = r]
         IN  /\ t \in Mac /\ Same(s, t) /\ SameRadio(s, t) /\ t.timers = s.timers
             /\ t.cur = s.cur /\ t.buffer = s.buffer
BY DEF Mac, Same, SameRadio

LEMMA SetOK ==
  ASSUME NEW s \in Mac, NEW t \in FastTimer
  PROVE  /\ Set(s, t) \in Mac /\ Set(s, t).timers = s.timers \cup {t}
         /\ Same(s, Set(s, t)) /\ SameLoad(s, Set(s, t)) /\ SameRadio(s, Set(s, t))
BY DEF Mac, FastTimer, Set, Same, SameLoad, SameRadio

LEMMA CancelOK ==
  ASSUME NEW s \in Mac, NEW t \in FastTimer
  PROVE  /\ Cancel(s, t) \in Mac /\ Cancel(s, t).timers = s.timers \ {t}
         /\ Same(s, Cancel(s, t)) /\ SameLoad(s, Cancel(s, t)) /\ SameRadio(s, Cancel(s, t))
BY DEF Mac, FastTimer, Cancel, Same, SameLoad, SameRadio

LEMMA SendOK ==
  ASSUME NEW s \in Mac, NEW f \in BeaconFrame \cup OtherFrame
  PROVE  /\ Send(s, f) \in Mac /\ Send(s, f).tx = f /\ Send(s, f).radio = "RX"
         /\ Send(s, f).timers = s.timers
         /\ Same(s, Send(s, f)) /\ SameLoad(s, Send(s, f))
BY DEF Mac, Send, Same, SameLoad

-----------------------------------------------------------------------------
(* Trying to send a packet                                                  *)

(* What the guard of a transmission relies on                               *)
SlotOK(s) ==
    s.pan # None =>
        /\ s.state = "CAP" /\ s.capEnd = s.gtsStart =>
              s.joined \/ (0 < s.gtsStart /\ s.pos <= s.gtsStart)
        /\ s.state = "GTS" => 0 < s.gtsStart /\ s.gtsStart <= s.pos
        /\ s.gtsStart > 0 => s.gtsStart < s.gtsEnd

(* A station with a PAN sends in the CAP or in its GTS, or it has joined in *)
(* this frame and takes all of it for the CAP.                              *)
InSlot(s) ==
    s.pan # None =>
        /\ s.state \in {"CAP", "GTS"}
        /\ \/ s.joined /\ s.capEnd = s.gtsStart
           \/ s.pos < s.capEnd
           \/ 0 < s.gtsStart /\ s.gtsStart <= s.pos /\ s.pos < s.gtsEnd

Sends(s, t) ==
    \/ SameRadio(s, t)
    \/ s.tx = None /\ t.tx # None /\ t.tx = t.cur /\ t.radio = "RX" /\ InSlot(s)

Tries(s, t) ==
    /\ t \in Mac /\ Same(s, t) /\ Sends(s, t)
    /\ CurOK(t) /\ Counted(t) /\ TxOK(t)
    /\ s.state = "SETUP" /\ "PERFORM_CCA" \in t.timers => "PERFORM_CCA" \in s.timers

(* Without a PAN, and in the CAP, sensing comes first.                      *)
SensesFirst(s, t) == s.state # "GTS" => SameRadio(s, t)

LEMMA AllowedInSlot ==
  ASSUME NEW s \in Mac, NEW fits, SlotOK(s), s.state \in {"CAP", "GTS"}, AllowTx(s, fits)
  PROVE  InSlot(s)
BY DEF SlotOK, AllowTx, Fits, InSlot, Mac

LEMMA TransmitOK ==
  ASSUME par \in Settings, NEW s \in Mac, NEW fits, s.addr \in On, CurOK(s), SlotOK(s),
         s.tx = None, s.cur # None => s.retries > 0,
         \/ s.state = "GTS"
         \/ s.state = "CAP" /\ "PERFORM_CCA" \notin s.timers
         \/ s.state = "SETUP" /\ s.pan = None /\ "PERFORM_CCA" \notin s.timers
  PROVE  LET t == TransmitCurrentPacket(s, fits)
         IN  /\ Tries(s, t) /\ t.cur = s.cur /\ t.buffer = s.buffer
             /\ s.timers \subseteq t.timers
<1> DEFINE t == TransmitCurrentPacket(s, fits)
<1>1. CASE s.cur = None \/ ~AllowTx(s, fits)
  <2>1. t = s
    BY <1>1 DEF TransmitCurrentPacket
  <2> QED
    BY <2>1 DEF Tries, Same, Sends, SameRadio, Counted, TxOK
<1>2. CASE s.cur # None /\ AllowTx(s, fits)
  <2> DEFINE timer == IF s.cur.dst = Broadcast THEN "ATTEMPT_TX" ELSE "ACK_TIMEOUT"
             r == s.retries - 1
             v == [s EXCEPT !.retries = r]
             w == Set(v, timer)
             u == Send(w, s.cur)
  <2>1. t = u
    BY <1>2 DEF TransmitCurrentPacket
  <2>2. r \in 0 .. MaxFrameRetries
    <3>1. s.retries \in 0 .. MaxFrameRetries /\ s.retries > 0 /\ MaxFrameRetries \in Nat
      BY <1>2, ParFacts DEF Mac
    <3> QED
      BY <3>1
  <2>3. timer \in FastTimer
    BY DEF FastTimer
  <2> HIDE DEF r, timer
  <2>4. /\ v \in Mac /\ Same(s, v) /\ SameRadio(s, v) /\ v.timers = s.timers
        /\ v.cur = s.cur /\ v.buffer = s.buffer
    BY <2>2, RetriesOK
  <2> HIDE DEF v
  <2>5. /\ w \in Mac /\ Same(v, w) /\ SameLoad(v, w) /\ w.timers = v.timers \cup {timer}
    BY <2>3, <2>4, SetOK
  <2> HIDE DEF w
  <2>6. s.cur \in OtherFrame
    BY <1>2 DEF Mac
  <2>7. /\ u \in Mac /\ u.tx = s.cur /\ u.radio = "RX" /\ u.timers = w.timers
        /\ Same(w, u) /\ SameLoad(w, u)
    BY <2>5, <2>6, SendOK
  <2> HIDE DEF u
  <2>8. /\ Same(s, u) /\ u.cur = s.cur /\ u.buffer = s.buffer
        /\ u.timers = s.timers \cup {timer}
    BY <2>4, <2>5, <2>7 DEF Same, SameLoad
  <2>9. InSlot(s)
    <3>1. CASE s.state = "SETUP"
      BY <3>1 DEF InSlot
    <3>2. CASE s.state # "SETUP"
      BY <3>2, <1>2, AllowedInSlot
    <3> QED
      BY <3>1, <3>2
  <2>10. CurOK(u)
    BY <2>8 DEF CurOK, PacketOK, BufferOK, Same
  <2>11. "PERFORM_CCA" \in u.timers => "PERFORM_CCA" \in s.timers
    BY <2>8 DEF timer
  <2>12. Counted(u)
    BY <2>8, <2>11 DEF Counted, Same
  <2>13. TxOK(u)
    <3>1. /\ s.cur.src = s.addr /\ s.cur.type # "BEACON" /\ s.cur.type # "ACK"
          /\ s.cur.type = "GTS_REQUEST" => s.cur.body > 0 /\ s.cur.body = par.requestGTS[s.addr]
      BY <1>2, <2>6 DEF CurOK, PacketOK, OtherFrame
    <3>5. s.cur.type \in {"ASSOCIATE", "GTS_REQUEST"} => s.cur.dst # Broadcast
      <4>1. s.cur.type \in {"ASSOCIATE", "GTS_REQUEST"} => s.cur.dst # None /\ s.cur.dst \in {s.beaconOf, s.pan}
        BY <1>2 DEF CurOK, PacketOK
      <4> QED
        BY <4>1, MacFacts, ParFacts DEF Station
    <3>2. s.cur.dst # Broadcast => Waiting(u)
      BY <2>8, <2>11 DEF Waiting, Same, timer
    <3>3. timer \in {"ATTEMPT_TX", "ACK_TIMEOUT"}
      BY DEF timer
    <3>4. u.timers \cap {"ATTEMPT_TX", "ACK_TIMEOUT"} # {}
      BY <2>8, <3>3
    <3> QED
      BY <2>7, <2>8, <3>1, <3>2, <3>4, <3>5 DEF TxOK, Same, Asks
  <2> HIDE DEF t
  <2>14. Tries(s, t)
    BY <2>1, <1>2, <2>7, <2>8, <2>9, <2>10, <2>11, <2>12, <2>13 DEF Tries, Sends
  <2> QED
    BY <2>1, <2>8, <2>14 DEF t
<1> QED
  BY <1>1, <1>2

(* attemptTransmission                                                      *)
MayAttempt(s) ==
    /\ s \in Mac /\ s.addr \in On /\ CurOK(s) /\ SlotOK(s) /\ s.tx = None
    /\ s.state = "SETUP" => Counted(s)

LEMMA AttemptOK ==
  ASSUME par \in Settings, NEW s, NEW fits, MayAttempt(s),
         s.state \in {"SLEEP", "SETUP"} \/ s.cur = None \/ s.retries > 0
  PROVE  LET t == Attempt(s, fits)
         IN  /\ Tries(s, t) /\ SensesFirst(s, t) /\ t.cur = s.cur /\ t.buffer = s.buffer
             /\ "ACK_TIMEOUT" \in s.timers => "ACK_TIMEOUT" \in t.timers
<1> DEFINE t == Attempt(s, fits)
           c == Cancel(s, "ATTEMPT_TX")
<1>1. /\ s \in Mac /\ s.state \in {"SETUP", "SLEEP", "CAP", "GTS"} /\ CurOK(s) /\ SlotOK(s)
      /\ s.tx = None /\ s.addr \in On /\ (s.state = "SETUP" => Counted(s))
  BY DEF MayAttempt, Mac
<1>2. "ATTEMPT_TX" \in FastTimer /\ "PERFORM_CCA" \in FastTimer
  BY DEF FastTimer
<1>3. /\ c \in Mac /\ c.timers = s.timers \ {"ATTEMPT_TX"}
      /\ Same(s, c) /\ SameLoad(s, c) /\ SameRadio(s, c)
  BY <1>1, <1>2, CancelOK
<1> HIDE DEF c
<1>4. c.tx = None /\ CurOK(c) /\ SlotOK(c)
  BY <1>1, <1>3 DEF Same, SameLoad, SameRadio, CurOK, PacketOK, BufferOK, SlotOK
<1>5. Tries(s, c) \/ (s.state = "CAP" /\ s.cur # None) \/ s.state = "GTS"
  BY <1>1, <1>3, <1>4 DEF Tries, Sends, Counted, TxOK, Same, SameLoad
<1>6. CASE s.state \in {"SLEEP", "SETUP"} \/ (s.cur = None /\ s.state # "GTS")
  <2>1. t = c
    BY <1>6 DEF Attempt, c
  <2> QED
    BY <1>1, <1>3, <1>5, <1>6, <2>1 DEF SensesFirst, SameLoad
<1>7. CASE s.state = "GTS" /\ s.cur = None
  <2>0. TransmitCurrentPacket(c, fits) = c
    BY <1>3, <1>7 DEF TransmitCurrentPacket, SameLoad
  <2>1. t = c
    BY <1>7, <2>0 DEF Attempt, c
  <2>2. Tries(s, c)
    BY <1>3, <1>4, <1>7 DEF Tries, Sends, Counted, TxOK, Same, SameLoad
  <2> QED
    BY <1>3, <1>7, <2>1, <2>2 DEF SensesFirst, SameLoad
<1>8. CASE s.state = "GTS" /\ s.cur # None
  <2>1. t = TransmitCurrentPacket(c, fits)
    BY <1>8 DEF Attempt, c
  <2>2. c.state = "GTS" /\ c.addr \in On /\ (c.cur # None => c.retries > 0)
    BY <1>1, <1>3, <1>8 DEF Same, SameLoad
  <2>3. Tries(c, t) /\ t.cur = c.cur /\ t.buffer = c.buffer /\ c.timers \subseteq t.timers
    BY <1>3, <1>4, <2>1, <2>2, TransmitOK
  <2> HIDE DEF t
  <2>4. Same(s, t) /\ Sends(s, t)
    BY <1>3, <2>3 DEF Tries, Same, Sends, SameRadio, InSlot
  <2>5. Tries(s, t)
    BY <1>8, <2>3, <2>4 DEF Tries
  <2> QED
    BY <1>3, <1>8, <2>3, <2>5 DEF SensesFirst, SameLoad, t
<1>9. CASE s.state = "CAP" /\ s.cur # None /\ s.gtsOnly
  <2>1. t = c
    BY <1>9 DEF Attempt, c
  <2>2. Tries(s, c)
    BY <1>3, <1>4, <1>9 DEF Tries, Sends, Counted, TxOK, Same, SameLoad
  <2> QED
    BY <1>3, <1>9, <2>1, <2>2 DEF SensesFirst, SameLoad
<1>10. CASE s.state = "CAP" /\ s.cur # None /\ ~s.gtsOnly
  <2>1. t = Set(c, "PERFORM_CCA")
    BY <1>10 DEF Attempt, c
  <2>2. /\ t \in Mac /\ t.timers = c.timers \cup {"PERFORM_CCA"}
        /\ Same(c, t) /\ SameLoad(c, t) /\ SameRadio(c, t)
    BY <1>2, <1>3, <2>1, SetOK
  <2> HIDE DEF t
  <2>3. Same(s, t) /\ SameLoad(s, t) /\ SameRadio(s, t)
    BY <1>3, <2>2 DEF Same, SameLoad, SameRadio
  <2>4. CurOK(t) /\ Counted(t) /\ TxOK(t)
    BY <1>1, <1>10, <2>3 DEF CurOK, PacketOK, BufferOK, Counted, TxOK, Same, SameLoad, SameRadio
  <2>5. Tries(s, t)
    BY <1>10, <2>2, <2>3, <2>4 DEF Tries, Sends
  <2> QED
    BY <1>3, <2>2, <2>3, <2>5 DEF SensesFirst, SameLoad, t
<1> QED
  BY <1>1, <1>6, <1>7, <1>8, <1>9, <1>10

(* transmitPacket                                                           *)
LEMMA TransmitPacketOK ==
  ASSUME par \in Settings, NEW s \in Mac, NEW f \in OtherFrame, NEW gtsOnly \in BOOLEAN, NEW fits,
         s.addr \in On, SlotOK(s), TxOK(s), BufferOK(s), PacketOK(f, s),
         s.tx = None \/ (s.cur = None /\ s.pan # None)
  PROVE  LET t == TransmitPacket(s, f, gtsOnly, fits)
         IN  /\ Tries(s, t) /\ SensesFirst(s, t) /\ t.cur = f /\ t.buffer = s.buffer
             /\ "ACK_TIMEOUT" \in s.timers => "ACK_TIMEOUT" \in t.timers
<1> DEFINE r == IF f.dst = Broadcast THEN 1 ELSE MaxFrameRetries
           v == [s EXCEPT !.cur = f, !.gtsOnly = gtsOnly, !.retries = r]
           t == TransmitPacket(s, f, gtsOnly, fits)
<1>1. r \in 0 .. MaxFrameRetries /\ r > 0
  BY ParFacts
<1>2. f # None
  BY NoneIsNoFrame
<1>3. t = IF s.timers \cap {"ATTEMPT_TX", "ACK_TIMEOUT"} = {} THEN Attempt(v, fits) ELSE v
  BY DEF TransmitPacket
<1> HIDE DEF r, t
<1>4. /\ v \in Mac /\ Same(s, v) /\ SameRadio(s, v) /\ v.timers = s.timers
      /\ v.cur = f /\ v.retries > 0 /\ v.buffer = s.buffer
  BY <1>1 DEF Mac, Same, SameRadio
<1> HIDE DEF v
<1>5. CurOK(v) /\ Counted(v) /\ SlotOK(v)
  BY <1>4 DEF CurOK, PacketOK, BufferOK, Counted, SlotOK, Same
<1>6. s.tx # None => ~Asks(s.tx)
  BY DEF TxOK
<1>7. TxOK(v)
  BY <1>4, <1>6 DEF TxOK, Same, SameRadio, Asks
<1>8. Tries(s, v)
  BY <1>4, <1>5, <1>7 DEF Tries, Sends
<1>9. CASE s.timers \cap {"ATTEMPT_TX", "ACK_TIMEOUT"} # {}
  <2>1. t = v
    BY <1>3, <1>9
  <2> QED
    BY <1>4, <1>8, <2>1 DEF SensesFirst, t
<1>10. CASE s.timers \cap {"ATTEMPT_TX", "ACK_TIMEOUT"} = {}
  <2>1. t = Attempt(v, fits)
    BY <1>3, <1>10
  <2>2. s.tx = None
    BY <1>10 DEF TxOK
  <2>3. MayAttempt(v)
    BY <1>4, <1>5, <2>2 DEF MayAttempt, Same, SameRadio
  <2>4. /\ Tries(v, t) /\ SensesFirst(v, t) /\ t.cur = v.cur /\ t.buffer = v.buffer
    BY <1>4, <2>1, <2>3, AttemptOK
  <2>5. Same(s, t) /\ Sends(s, t) /\ SensesFirst(s, t)
    BY <1>4, <2>4 DEF Tries, Same, Sends, SameRadio, InSlot, SensesFirst
  <2>6. Tries(s, t)
    BY <1>4, <2>4, <2>5 DEF Tries, Same
  <2> QED
    BY <1>4, <1>10, <2>4, <2>5, <2>6 DEF t
<1> QED
  BY <1>9, <1>10

(* transmissionOutcome, when there is no current packet                     *)
LEMMA TransmissionOutcomeOK ==
  ASSUME par \in Settings, NEW s \in Mac, NEW fits, s.addr \in On, s.cur = None,
         SlotOK(s), TxOK(s), BufferOK(s)
  PROVE  LET t == TransmissionOutcome(s, fits)
         IN  /\ Tries(s, t) /\ SensesFirst(s, t) /\ Served(t)
             /\ s.pan = None => t = s
<1> DEFINE t == TransmissionOutcome(s, fits)
           slots == par.requestGTS[s.addr]
<1>1. /\ s.addr \in Station /\ slots \in Nat /\ s.assigned \in Nat
      /\ s.pan \in Coord \cup {None} /\ s.buffer \in Seq(OtherFrame)
  BY ParFacts DEF Mac
<1>2. Tries(s, s)
  BY DEF Tries, Same, Sends, SameRadio, CurOK, Counted
<1>3. CASE s.pan = None
  <2>1. t = s
    BY <1>3 DEF TransmissionOutcome
  <2> QED
    BY <1>2, <1>3, <2>1 DEF SensesFirst, SameRadio, Served
<1>4. CASE s.pan # None /\ s.assigned = 0 /\ slots > 0
  <2> DEFINE f == NewGtsRequest(s.addr, s.pan, slots)
  <2>0. par.requestGTS[s.addr] > 0 /\ par.requestGTS[s.addr] # 0
    BY <1>1, <1>4
  <2>1. t = TransmitPacket(s, f, FALSE, fits)
    BY <1>4, <2>0 DEF TransmissionOutcome
  <2>2. s.addr \in Node /\ s.pan \in Station /\ s.pan \in Address
    BY <1>1, <1>4, ParFacts DEF Station, Address
  <2>3. f \in OtherFrame /\ PacketOK(f, s)
    BY <1>1, <1>4, <2>2 DEF NewGtsRequest, Frame, OtherFrame, PacketOK
  <2> HIDE DEF f, t
  <2>4. Tries(s, t) /\ SensesFirst(s, t) /\ t.cur = f
    BY <1>4, <2>1, <2>3, TransmitPacketOK
  <2>5. f # None
    BY <2>3, NoneIsNoFrame
  <2> QED
    BY <1>4, <2>4, <2>5 DEF Served, t
<1>5. CASE s.pan # None /\ (s.assigned # 0 \/ slots = 0) /\ s.buffer = <<>>
  <2>0. ~(s.assigned = 0 /\ par.requestGTS[s.addr] > 0)
    BY <1>1, <1>5
  <2>1. t = s
    BY <1>5, <2>0 DEF TransmissionOutcome
  <2> QED
    BY <1>2, <1>5, <2>1 DEF SensesFirst, SameRadio, Served
<1>6. CASE s.pan # None /\ (s.assigned # 0 \/ slots = 0) /\ s.buffer # <<>>
  <2> DEFINE f == Head(s.buffer)
             r == Tail(s.buffer)
             u == [s EXCEPT !.buffer = r]
  <2>0. ~(s.assigned = 0 /\ par.requestGTS[s.addr] > 0)
    BY <1>1, <1>6
  <2>1. t = TransmitPacket(u, f, par.gtsOnly, fits)
    BY <1>6, <2>0 DEF TransmissionOutcome
  <2>2. /\ f \in OtherFrame /\ f = s.buffer[1] /\ 1 \in DOMAIN s.buffer /\ r \in Seq(OtherFrame)
        /\ \A i \in DOMAIN r : i + 1 \in DOMAIN s.buffer /\ r[i] = s.buffer[i + 1]
    BY <1>1, <1>6
  <2>3. f.type = "DATA" /\ f.src = s.addr
    BY <2>2 DEF BufferOK
  <2>4. par.gtsOnly \in BOOLEAN
    BY ParFacts DEF Parameters
  <2> HIDE DEF f, r, t
  <2>5. /\ u \in Mac /\ Same(s, u) /\ SameRadio(s, u) /\ u.timers = s.timers
        /\ u.cur = s.cur /\ u.buffer = r
    BY <2>2 DEF Mac, Same, SameRadio
  <2> HIDE DEF u
  <2>6. BufferOK(u)
    BY <2>2, <2>5 DEF BufferOK, Same
  <2>7. SlotOK(u) /\ TxOK(u) /\ PacketOK(f, u) /\ u.addr \in On
    BY <2>3, <2>5 DEF SlotOK, TxOK, Waiting, PacketOK, Same, SameRadio
  <2>8. Tries(u, t) /\ SensesFirst(u, t) /\ t.cur = f
    BY <1>6, <2>1, <2>2, <2>4, <2>5, <2>6, <2>7, TransmitPacketOK DEF Same
  <2>9. Same(s, t) /\ Sends(s, t) /\ SensesFirst(s, t)
    BY <2>5, <2>8 DEF Tries, Same, Sends, SameRadio, InSlot, SensesFirst
  <2>10. Tries(s, t)
    BY <2>5, <2>8, <2>9 DEF Tries, Same
  <2>11. f # None
    BY <2>2, NoneIsNoFrame
  <2> QED
    BY <1>6, <2>8, <2>9, <2>10, <2>11 DEF Served, t
<1> QED
  BY <1>1, <1>3, <1>4, <1>5, <1>6

LEMMA ClearedOK ==
  ASSUME par \in Settings, NEW s \in Mac
  PROVE  LET t == [s EXCEPT !.cur = None, !.retries = 0]
         IN  /\ t \in Mac /\ Same(s, t) /\ SameRadio(s, t) /\ t.timers = s.timers
             /\ t.cur = None /\ t.buffer = s.buffer
<1>1. 0 \in 0 .. MaxFrameRetries
  BY ParFacts
<1> QED
  BY <1>1 DEF Mac, Same, SameRadio

(* clearCurrentPacket                                                       *)
LEMMA ClearOK ==
  ASSUME par \in Settings, NEW s \in Mac, NEW fits, s.addr \in On,
         SlotOK(s), TxOK(s), BufferOK(s), s.tx = None \/ s.pan = None,
         s.cur # None \/ Served(s)
  PROVE  LET t == ClearCurrentPacket(s, fits)
         IN  /\ Tries(s, t) /\ SensesFirst(s, t) /\ Served(t)
             /\ s.pan = None \/ s.cur = None => t.timers = s.timers
             /\ s.pan = None => t.cur = None
<1> DEFINE u == [s EXCEPT !.cur = None, !.retries = 0]
           t == ClearCurrentPacket(s, fits)
<1>1. CASE s.cur = None
  <2>1. t = s
    BY <1>1 DEF ClearCurrentPacket
  <2>2. Tries(s, s)
    BY <1>1 DEF Tries, Same, Sends, SameRadio, Counted, CurOK
  <2> QED
    BY <1>1, <2>1, <2>2 DEF SensesFirst, SameRadio
<1>2. CASE s.cur # None
  <2>1. t = TransmissionOutcome(u, fits)
    BY <1>2 DEF ClearCurrentPacket
  <2>3. /\ u \in Mac /\ Same(s, u) /\ SameRadio(s, u) /\ u.timers = s.timers
        /\ u.cur = None /\ u.buffer = s.buffer
    BY ClearedOK
  <2> HIDE DEF u, t
  <2>4. BufferOK(u) /\ SlotOK(u) /\ u.addr \in On
    BY <2>3 DEF CurOK, BufferOK, SlotOK, Same
  <2>5. TxOK(u)
    BY <2>3 DEF TxOK, Waiting, Same, SameRadio
  <2>6. /\ Tries(u, t) /\ SensesFirst(u, t) /\ Served(t)
        /\ u.pan = None => t = u
    BY <2>1, <2>3, <2>4, <2>5, TransmissionOutcomeOK
  <2>7. Same(s, t) /\ Sends(s, t) /\ SensesFirst(s, t)
    BY <2>3, <2>6 DEF Tries, Same, Sends, SameRadio, InSlot, SensesFirst
  <2>8. Tries(s, t)
    BY <2>3, <2>6, <2>7 DEF Tries, Same
  <2>9. s.pan = None => t.timers = s.timers /\ t.cur = None
    BY <2>3, <2>6 DEF Same
  <2> QED
    BY <1>2, <2>6, <2>7, <2>8, <2>9 DEF t
<1> QED
  BY <1>1, <1>2

LEMMA AttemptTransmissionOK ==
  ASSUME par \in Settings, NEW s, NEW fits, MayAttempt(s), Served(s)
  PROVE  LET t == AttemptTransmission(s, fits)
         IN  /\ Tries(s, t) /\ SensesFirst(s, t) /\ Served(t)
             /\ s.cur = None => /\ t.cur = None
                                /\ "ACK_TIMEOUT" \in s.timers => "ACK_TIMEOUT" \in t.timers
<1> DEFINE c == Cancel(s, "ATTEMPT_TX")
           t == AttemptTransmission(s, fits)
<1>1. /\ s \in Mac /\ s.addr \in On /\ CurOK(s) /\ SlotOK(s) /\ s.tx = None
      /\ s.retries \in Nat
  <2>1. /\ s \in Mac /\ s.addr \in On /\ CurOK(s) /\ SlotOK(s) /\ s.tx = None
    BY DEF MayAttempt
  <2>2. s.retries \in 0 .. MaxFrameRetries
    BY <2>1 DEF Mac
  <2> QED
    BY <2>1, <2>2, ParFacts
<1>2. CASE s.state \notin {"SLEEP", "SETUP"} /\ s.cur # None /\ s.retries = 0
  <2>1. t = ClearCurrentPacket(c, fits)
    BY <1>2 DEF AttemptTransmission
  <2>2. "ATTEMPT_TX" \in FastTimer
    BY DEF FastTimer
  <2>3. c \in Mac /\ Same(s, c) /\ SameLoad(s, c) /\ SameRadio(s, c)
        /\ c.timers = s.timers \ {"ATTEMPT_TX"}
    BY <1>1, <2>2, CancelOK
  <2> HIDE DEF c, t
  <2>4. CurOK(c) /\ SlotOK(c) /\ c.addr \in On /\ c.tx = None /\ TxOK(c) /\ c.cur # None
    BY <1>1, <1>2, <2>3
       DEF CurOK, PacketOK, BufferOK, SlotOK, TxOK, Same, SameLoad, SameRadio
  <2>5. Tries(c, t) /\ SensesFirst(c, t) /\ Served(t)
    BY <2>1, <2>3, <2>4, ClearOK DEF CurOK
  <2>6. Same(s, t) /\ Sends(s, t) /\ SensesFirst(s, t)
    BY <2>3, <2>5 DEF Tries, Same, Sends, SameRadio, InSlot, SensesFirst
  <2>7. Tries(s, t)
    BY <1>2, <2>5, <2>6 DEF Tries
  <2> QED
    BY <1>2, <2>5, <2>6, <2>7 DEF t
<1>3. CASE ~(s.state \notin {"SLEEP", "SETUP"} /\ s.cur # None /\ s.retries = 0)
  <2>1. t = Attempt(s, fits)
    BY <1>3 DEF AttemptTransmission
  <2>2. s.state \in {"SLEEP", "SETUP"} \/ s.cur = None \/ s.retries > 0
    BY <1>1, <1>3
  <2> HIDE DEF t
  <2>3. /\ Tries(s, t) /\ SensesFirst(s, t) /\ t.cur = s.cur /\ t.buffer = s.buffer
        /\ "ACK_TIMEOUT" \in s.timers => "ACK_TIMEOUT" \in t.timers
    BY <2>1, <2>2, AttemptOK
  <2>4. Served(t)
    BY <2>3 DEF Served, Tries, Same
  <2> QED
    BY <2>3, <2>4 DEF t
<1> QED
  BY <1>2, <1>3

-----------------------------------------------------------------------------
(* The lists of guaranteed slots                                            *)

LEMMA CapLengthOK ==
  ASSUME par \in Settings, NEW list \in Seq(Gts), ListOK(list)
  PROVE  /\ CapLength(list) \in 1 .. NumSlots /\ CapLength(list) >= MinCap
         /\ \A i \in DOMAIN list : CapLength(list) <= list[i].start
<1>1. NumSlots \in Nat /\ MinCap \in 1 .. NumSlots
  BY ParFacts
<1>2. /\ DOMAIN list = 1 .. Len(list) /\ Len(list) \in Nat
      /\ \A i \in DOMAIN list : list[i] \in Gts
  OBVIOUS
<1>3. \A i \in DOMAIN list : list[i].start \in 0 .. NumSlots /\ list[i].length \in 0 .. NumSlots
  BY <1>2 DEF Gts
<1>4. CASE list = <<>>
  <2>1. CapLength(list) = NumSlots /\ DOMAIN list = {}
    BY <1>4 DEF CapLength
  <2> QED
    BY <1>1, <2>1
<1>5. CASE list # <<>>
  <2>1. Len(list) \in DOMAIN list /\ CapLength(list) = list[Len(list)].start
    BY <1>2, <1>5 DEF CapLength
  <2>2. list[Len(list)].start >= MinCap
    BY <2>1 DEF ListOK
  <2>3. \A i \in DOMAIN list : i = Len(list) \/ i < Len(list)
    BY <1>2
  <2>4. \A i \in DOMAIN list : i < Len(list) =>
            list[Len(list)].start + list[Len(list)].length <= list[i].start
    BY <2>1 DEF ListOK
  <2>5. \A i \in DOMAIN list : list[Len(list)].start <= list[i].start
    BY <1>1, <1>3, <2>1, <2>3, <2>4
  <2> QED
    BY <1>1, <1>3, <2>1, <2>2, <2>5
<1> QED
  BY <1>4, <1>5

LEMMA PrepareBeaconOK ==
  ASSUME par \in Settings, NEW list \in Seq(Gts), ListOK(list)
  PROVE  PrepareBeacon(list) = list
<1>1. \A i \in DOMAIN list : list[i].start \in Int
  <2>1. \A i \in DOMAIN list : list[i] \in Gts
    OBVIOUS
  <2>2. \A i \in DOMAIN list : list[i].start \in 0 .. NumSlots
    BY <2>1 DEF Gts
  <2> QED
    BY <2>2, ParFacts
<1>2. \A i \in DOMAIN list : list[i].start >= MinCap /\ MinCap > 0 /\ MinCap \in Int
  BY ParFacts DEF ListOK
<1>3. \A i \in DOMAIN list : ~(list[i].start <= 0)
  BY <1>1, <1>2
<1> QED
  BY <1>3 DEF PrepareBeacon, Corrupted

LEMMA GtsRequestOK ==
  ASSUME par \in Settings, NEW list \in Seq(Gts), ListOK(list), NEW n \in Station,
         NEW slots \in Nat, slots > 0, slots = par.requestGTS[n]
  PROVE  LET r == GtsRequest(list, n, slots)
         IN  /\ r.list \in Seq(Gts) /\ ListOK(r.list) /\ r.granted \in Nat
             /\ \A i \in DOMAIN list : i \in DOMAIN r.list /\ r.list[i] = list[i]
             /\ r.granted > 0 =>
                  \E i \in DOMAIN r.list : r.list[i].owner = n /\ r.list[i].length = r.granted
<1> DEFINE r == GtsRequest(list, n, slots)
           start == CapLength(list) - slots
           e == [owner |-> n, start |-> start, length |-> slots]
           app == Append(list, e)
<1>1. CASE HasGts(list, n)
  <2>1. r.list = list /\ r.granted = slots
    BY <1>1 DEF GtsRequest
  <2>2. PICK i \in DOMAIN list : list[i].owner = n
    BY <1>1 DEF HasGts
  <2>3. list[i].length = slots
    BY <2>2 DEF ListOK
  <2> QED
    BY <2>1, <2>2, <2>3
<1>2. CASE ~HasGts(list, n) /\ ~CanGrant(list, slots)
  <2>1. r.list = list /\ r.granted = 0
    BY <1>2 DEF GtsRequest
  <2> QED
    BY <2>1
<1>3. CASE ~HasGts(list, n) /\ CanGrant(list, slots)
  <2>1. r.list = app /\ r.granted = slots
    BY <1>3 DEF GtsRequest
  <2>2. /\ CapLength(list) \in 1 .. NumSlots /\ \A i \in DOMAIN list : CapLength(list) <= list[i].start
        /\ NumSlots \in Nat /\ MinCap \in 1 .. NumSlots
    BY CapLengthOK, ParFacts
  <2>3. start >= MinCap
    BY <1>3 DEF CanGrant
  <2>4. start \in 0 .. NumSlots /\ slots \in 0 .. NumSlots /\ start + slots = CapLength(list)
    BY <2>2, <2>3
  <2> HIDE DEF start
  <2>5. e \in Gts /\ e.owner = n /\ e.start = start /\ e.length = slots
    BY <2>4 DEF Gts
  <2> HIDE DEF e
  <2>6. /\ app \in Seq(Gts) /\ DOMAIN app = DOMAIN list \cup {Len(list) + 1}
        /\ Len(list) \in Nat /\ DOMAIN list = 1 .. Len(list)
        /\ app[Len(list) + 1] = e /\ \A i \in DOMAIN list : app[i] = list[i]
    BY <2>5
  <2> HIDE DEF app, r
  <2>7. ListOK(app)
    <3>1. ASSUME NEW i \in DOMAIN app
          PROVE  /\ app[i].start >= MinCap /\ app[i].length > 0
                 /\ app[i].start + app[i].length <= NumSlots
                 /\ app[i].length = par.requestGTS[app[i].owner]
      <4>1. CASE i \in DOMAIN list
        BY <2>6, <4>1 DEF ListOK
      <4>2. CASE i = Len(list) + 1
        BY <2>2, <2>3, <2>4, <2>5, <2>6, <4>2
      <4> QED
        BY <2>6, <3>1, <4>1, <4>2
    <3>2. ASSUME NEW i \in DOMAIN app, NEW j \in DOMAIN app, i < j
          PROVE  app[j].start + app[j].length <= app[i].start
      <4>1. i \in DOMAIN list
        BY <2>6, <3>2
      <4>2. CASE j \in DOMAIN list
        BY <2>6, <3>2, <4>1, <4>2 DEF ListOK
      <4>3. CASE j = Len(list) + 1
        BY <2>2, <2>4, <2>5, <2>6, <4>1, <4>3
      <4> QED
        BY <2>6, <4>2, <4>3
    <3> QED
      BY <3>1, <3>2 DEF ListOK
  <2>8. Len(list) + 1 \in DOMAIN app
    BY <2>6
  <2> QED
    BY <2>1, <2>5, <2>6, <2>7, <2>8 DEF r
<1> QED
  BY <1>1, <1>2, <1>3

-----------------------------------------------------------------------------
(* Steps of one station that leave its frame alone                          *)

Quiet(s, t) ==
    /\ t.addr = s.addr /\ t.beaconOf = s.beaconOf /\ t.joined = s.joined /\ t.pos = s.pos
    /\ t.capEnd = s.capEnd /\ t.gtsStart = s.gtsStart /\ t.gtsEnd = s.gtsEnd
    /\ t.devices = s.devices /\ t.gtsList = s.gtsList /\ t.beacon = s.beacon
    /\ t.pan = None \/ (t.pan = s.pan /\ t.assigned = s.assigned)
    /\ \/ t.tx = s.tx
       \/ /\ s.tx = None /\ t.tx # None /\ t.tx.type \notin {"ACK", "BEACON"}
          /\ t.pan = s.pan /\ InSlot(s)

(* Who waits for an ACK goes on to wait, and for the same packet.           *)
KeepsWaiting(s, t) ==
    Waiting(s) /\ (s.cur # None \/ s.pan = None) =>
        /\ Waiting(t)
        /\ (t.cur = s.cur /\ t.pan = s.pan) \/ (t.cur = None /\ t.pan = None)

LEMMA SlotFacts ==
  ASSUME par \in Settings, NEW s \in Mac, StableOK(s)
  PROVE  SlotOK(s)
<1>1. /\ s.addr \in Coord \/ s.addr \in Node
      /\ s.gtsStart \in Nat /\ s.pos \in Nat /\ s.due["GTS_START"] \in Int
      /\ s.beacon \in Seq(Gts)
  <2>1. /\ s.addr \in Station /\ s.gtsStart \in 0 .. NumSlots /\ s.pos \in 0 .. par.period
        /\ s.due["GTS_START"] \in -1 .. par.period /\ s.beacon \in Seq(Gts)
    BY DEF Mac, SlowTimer
  <2> QED
    BY <2>1, ParFacts DEF Station
<1>2. CASE s.addr \in Coord
  <2>1. s.state \in {"SETUP", "CAP"} /\ s.gtsStart = 0
    BY <1>2 DEF StableOK, CoordOK
  <2>2. s.state = "CAP" => s.capEnd # 0
    <3>1. s.state = "CAP" => s.capEnd = CapLength(s.beacon)
      BY <1>2 DEF StableOK, CoordOK
    <3>2. CapLength(s.beacon) \in 1 .. NumSlots
      BY <1>1, CapLengthOK DEF StableOK
    <3> QED
      BY <3>1, <3>2, ParFacts
  <2> QED
    BY <2>1, <2>2 DEF SlotOK
<1>3. CASE s.addr \in Node
  <2>1. /\ s.gtsStart > 0 => s.gtsStart < s.gtsEnd
        /\ s.state = "GTS" => s.gtsStart > 0 /\ s.pos >= s.gtsStart
        /\ s.state = "CAP" /\ ~s.joined => s.capEnd # s.gtsStart \/ s.due["GTS_START"] >= 0
    BY <1>3 DEF StableOK, NodeOK
  <2>2. s.due["GTS_START"] >= 0 => s.gtsStart > 0 /\ s.due["GTS_START"] + s.pos = s.gtsStart
    BY <1>3 DEF StableOK, TimersOK
  <2>3. s.due["GTS_START"] >= 0 => s.pos <= s.gtsStart
    BY <1>1, <2>2
  <2>4. s.state = "GTS" => s.gtsStart <= s.pos
    BY <1>1, <2>1
  <2>5. s.gtsStart > 0 => 0 < s.gtsStart
    BY <1>1
  <2> QED
    BY <2>1, <2>2, <2>3, <2>4, <2>5 DEF SlotOK
<1> QED
  BY <1>1, <1>2, <1>3

(* What trying to send a packet does to the invariant                       *)
LEMMA TriesLocal ==
  ASSUME NEW s \in Mac, StableOK(s), NEW t, Tries(s, t), Served(t)
  PROVE  t \in Mac /\ LocalOK(t)
<1>1. Same(s, t) /\ CurOK(t) /\ Counted(t) /\ TxOK(t) /\ t \in Mac
  BY DEF Tries
<1>2. t.radio = s.radio \/ t.radio = "RX"
  BY DEF Tries, Sends, SameRadio
<1>3. s.state = "SETUP" /\ "PERFORM_CCA" \in t.timers => "PERFORM_CCA" \in s.timers
  BY DEF Tries
<1>4. CoordOK(t)
  BY <1>1, <1>2, <1>3 DEF StableOK, CoordOK, Same
<1>5. TimersOK(t)
  BY <1>1, <1>2 DEF StableOK, TimersOK, Same
<1>6. OffOK(t) /\ NodeOK(t) /\ ListOK(t.gtsList) /\ ListOK(t.beacon)
  BY <1>1 DEF StableOK, OffOK, NodeOK, Same
<1> QED
  BY <1>1, <1>4, <1>5, <1>6 DEF LocalOK, StableOK

LEMMA TriesQuiet ==
  ASSUME NEW s, NEW t, Tries(s, t)
  PROVE  Quiet(s, t)
<1>1. t \in Mac /\ Same(s, t) /\ CurOK(t)
  BY DEF Tries
<1>2. t.tx = s.tx \/ (s.tx = None /\ t.tx # None /\ t.tx = t.cur /\ InSlot(s))
  BY DEF Tries, Sends, SameRadio
<1>3. t.tx = t.cur /\ t.tx # None => t.tx.type \notin {"ACK", "BEACON"}
  <2>1. t.cur # None => t.cur \in OtherFrame /\ PacketOK(t.cur, t)
    BY <1>1 DEF Mac, CurOK
  <2>2. t.cur # None => t.cur.type \in {"DATA", "ACK", "ASSOCIATE", "GTS_REQUEST"}
    BY <2>1 DEF OtherFrame
  <2> QED
    BY <2>1, <2>2 DEF PacketOK
<1> QED
  BY <1>1, <1>2, <1>3 DEF Quiet, Same

(* What timers and states leave alone                                       *)
SameFrame(s, t) ==
    /\ t.addr = s.addr /\ t.pan = s.pan /\ t.pos = s.pos
    /\ t.beaconOf = s.beaconOf /\ t.joined = s.joined /\ t.capEnd = s.capEnd
    /\ t.gtsStart = s.gtsStart /\ t.gtsEnd = s.gtsEnd
    /\ t.assigned = s.assigned /\ t.devices = s.devices
    /\ t.gtsList = s.gtsList /\ t.beacon = s.beacon

(* The bundle of facts about a step from s to t                             *)
Goes(s, t) == t \in Mac /\ LocalOK(t) /\ Quiet(s, t)

LEMMA IdleOK ==
  ASSUME NEW s \in Mac, LocalOK(s), NEW t \in Mac,
         SameFrame(s, t), SameLoad(s, t), t.tx = s.tx,
         "PERFORM_CCA" \in t.timers => "PERFORM_CCA" \in s.timers,
         "ACK_TIMEOUT" \in s.timers => "ACK_TIMEOUT" \in t.timers,
         s.tx = None \/ ("ATTEMPT_TX" \in s.timers => "ATTEMPT_TX" \in t.timers),
         t.state \in {"CAP", "SETUP"} => s.state \in {"CAP", "SETUP"},
         CoordOK(t), TimersOK(t), OffOK(t), NodeOK(t)
  PROVE  Goes(s, t) /\ KeepsWaiting(s, t)
<1>1. StableOK(s) /\ CurOK(s) /\ Counted(s) /\ Served(s) /\ TxOK(s)
  BY DEF LocalOK
<1>2. CurOK(t) /\ Served(t)
  BY <1>1 DEF CurOK, PacketOK, BufferOK, Served, SameLoad, SameFrame
<1>3. Counted(t)
  BY <1>1 DEF Counted, SameLoad, SameFrame
<1>4. Waiting(s) => Waiting(t)
  BY DEF Waiting, SameLoad, SameFrame
<1>5. TxOK(t)
  BY <1>1, <1>4 DEF TxOK, SameLoad, SameFrame
<1>6. StableOK(t)
  BY <1>1 DEF StableOK, SameFrame
<1> QED
  BY <1>1, <1>2, <1>3, <1>4, <1>5, <1>6
     DEF Goes, LocalOK, Quiet, KeepsWaiting, SameLoad, SameFrame

(* The timers of a station in state t, which has set timer x of s to d      *)
SetsTimer(s, t, x, d) ==
    \A y \in SlowTimer : t.due[y] = IF y = x THEN d ELSE s.due[y]

LEMMA SetAfterOK ==
  ASSUME NEW s \in Mac, NEW x \in SlowTimer, NEW d \in -1 .. par.period
  PROVE  LET t == SetAfter(s, x, d)
         IN  /\ t \in Mac /\ SetsTimer(s, t, x, d) /\ SameFrame(s, t)
             /\ SameLoad(s, t) /\ SameRadio(s, t)
             /\ t.timers = s.timers /\ t.state = s.state /\ t.lost = s.lost
<1> DEFINE t == SetAfter(s, x, d)
           due == [s.due EXCEPT ![x] = d]
<1>1. s.due \in [SlowTimer -> -1 .. par.period]
  BY DEF Mac
<1>2. due \in [SlowTimer -> -1 .. par.period] /\ \A y \in SlowTimer : due[y] = IF y = x THEN d ELSE s.due[y]
  BY <1>1
<1>3. t = [s EXCEPT !.due = due]
  BY DEF SetAfter
<1> HIDE DEF due, t
<1>4. /\ t \in Mac /\ t.due = due /\ SameFrame(s, t) /\ SameLoad(s, t) /\ SameRadio(s, t)
      /\ t.timers = s.timers /\ t.state = s.state /\ t.lost = s.lost
  BY <1>2, <1>3 DEF Mac, SameFrame, SameLoad, SameRadio
<1> QED
  BY <1>2, <1>4 DEF SetsTimer, t

LEMMA RadioOK ==
  ASSUME NEW s \in Mac, NEW r \in {"RX", "SLEEP"}
  PROVE  LET t == [s EXCEPT !.radio = r]
         IN  /\ t \in Mac /\ t.due = s.due /\ SameFrame(s, t) /\ SameLoad(s, t) /\ t.tx = s.tx
             /\ t.timers = s.timers /\ t.state = s.state /\ t.lost = s.lost /\ t.radio = r
BY DEF Mac, SameFrame, SameLoad

LEMMA NewStateOK ==
  ASSUME NEW s \in Mac, NEW x \in {"SETUP", "SLEEP", "CAP", "GTS"}
  PROVE  LET t == [s EXCEPT !.state = x]
         IN  /\ t \in Mac /\ t.due = s.due /\ SameFrame(s, t) /\ SameLoad(s, t) /\ SameRadio(s, t)
             /\ t.timers = s.timers /\ t.state = x /\ t.lost = s.lost
BY DEF Mac, SameFrame, SameLoad, SameRadio

LEMMA StateOK ==
  ASSUME NEW s \in Mac, NEW x \in {"SETUP", "SLEEP", "CAP", "GTS"}, NEW r \in {"RX", "SLEEP"}
  PROVE  LET t == [s EXCEPT !.state = x, !.radio = r]
         IN  /\ t \in Mac /\ t.due = s.due /\ SameFrame(s, t) /\ SameLoad(s, t) /\ t.tx = s.tx
             /\ t.timers = s.timers /\ t.state = x /\ t.lost = s.lost /\ t.radio = r
<1> DEFINE v == [s EXCEPT !.state = x]
           t == [s EXCEPT !.state = x, !.radio = r]
<1>1. /\ v \in Mac /\ v.due = s.due /\ SameFrame(s, v) /\ SameLoad(s, v) /\ SameRadio(s, v)
      /\ v.timers = s.timers /\ v.state = x /\ v.lost = s.lost
  BY NewStateOK
<1>2. t = [v EXCEPT !.radio = r]
  BY DEF Mac
<1> HIDE DEF v, t
<1>3. /\ t \in Mac /\ t.due = v.due /\ SameFrame(v, t) /\ SameLoad(v, t) /\ t.tx = v.tx
      /\ t.timers = v.timers /\ t.state = v.state /\ t.lost = v.lost /\ t.radio = r
  BY <1>1, <1>2, RadioOK
<1> QED
  BY <1>1, <1>3 DEF t, SameFrame, SameLoad, SameRadio

LEMMA AwaitBeaconOK ==
  ASSUME par \in Settings, NEW s \in Mac, LocalOK(s), s.addr \in Node, s.addr \in On,
         s.due["FRAME_START"] = 0
  PROVE  LET t == [SetAfter(SetAfter(s, "FRAME_START", -1), "BEACON_TIMEOUT", 0)
                      EXCEPT !.radio = "RX"]
         IN  Goes(s, t) /\ KeepsWaiting(s, t)
<1> DEFINE u == SetAfter(s, "FRAME_START", -1)
           v == SetAfter(u, "BEACON_TIMEOUT", 0)
           t == [v EXCEPT !.radio = "RX"]
<1>1. StableOK(s) /\ TimersOK(s) /\ NodeOK(s)
  BY DEF LocalOK, StableOK
<1>2. /\ "FRAME_START" \in SlowTimer /\ "BEACON_TIMEOUT" \in SlowTimer
      /\ "SLEEP_START" \in SlowTimer /\ "GTS_START" \in SlowTimer
      /\ -1 \in -1 .. par.period /\ 0 \in -1 .. par.period
  BY MacFacts DEF SlowTimer
<1>3. /\ u \in Mac /\ SetsTimer(s, u, "FRAME_START", -1) /\ SameFrame(s, u)
      /\ SameLoad(s, u) /\ SameRadio(s, u) /\ u.timers = s.timers /\ u.state = s.state
      /\ u.lost = s.lost
  BY <1>2, SetAfterOK
<1> HIDE DEF u
<1>4. /\ v \in Mac /\ SetsTimer(u, v, "BEACON_TIMEOUT", 0) /\ SameFrame(u, v)
      /\ SameLoad(u, v) /\ SameRadio(u, v) /\ v.timers = u.timers /\ v.state = u.state
      /\ v.lost = u.lost
  BY <1>2, <1>3, SetAfterOK
<1> HIDE DEF v
<1>5. /\ t \in Mac /\ t.due = v.due /\ SameFrame(v, t) /\ SameLoad(v, t) /\ t.tx = v.tx
      /\ t.timers = v.timers /\ t.state = v.state /\ t.lost = v.lost /\ t.radio = "RX"
  BY <1>4, RadioOK
<1> HIDE DEF t
<1>6. /\ SameFrame(s, t) /\ SameLoad(s, t) /\ t.tx = s.tx
      /\ t.timers = s.timers /\ t.state = s.state /\ t.lost = s.lost
  BY <1>3, <1>4, <1>5 DEF SameFrame, SameLoad, SameRadio
<1>7. /\ t.due["FRAME_START"] = -1 /\ t.due["BEACON_TIMEOUT"] = 0
      /\ t.due["SLEEP_START"] = s.due["SLEEP_START"] /\ t.due["GTS_START"] = s.due["GTS_START"]
  BY <1>2, <1>3, <1>4, <1>5 DEF SetsTimer
<1>8. s.pos = par.period /\ s.lost < MaxLostBeacons
  BY <1>1, MacFacts DEF TimersOK
<1>9. TimersOK(t)
  BY <1>1, <1>5, <1>6, <1>7, <1>8 DEF TimersOK, SameFrame
<1>10. NodeOK(t)
  BY <1>1, <1>6, <1>7 DEF NodeOK, SameFrame
<1>11. CoordOK(t) /\ OffOK(t)
  BY <1>6, MacFacts DEF CoordOK, OffOK, SameFrame
<1>12. Goes(s, t) /\ KeepsWaiting(s, t)
  BY <1>5, <1>6, <1>9, <1>10, <1>11, IdleOK
<1> QED
  BY <1>12 DEF t, v, u

(* Only a node has a timer other than FRAME_START.                          *)
LEMMA OnlyNodes ==
  ASSUME par \in Settings, NEW s \in Mac, LocalOK(s), NEW x \in SlowTimer, x # "FRAME_START",
         s.due[x] = 0
  PROVE  s.addr \in Node
<1>1. s.addr \in Coord => s.due[x] = -1
  BY DEF LocalOK, StableOK, CoordOK
<1> QED
  BY <1>1, MacFacts

LEMMA GtsStartOK ==
  ASSUME par \in Settings, NEW s \in Mac, LocalOK(s), s.addr \in On, s.due["GTS_START"] = 0
  PROVE  LET v == [SetAfter(s, "GTS_START", -1) EXCEPT !.state = "GTS", !.radio = "RX"]
             t == SetAfter(Set(v, "ATTEMPT_TX"), "SLEEP_START", v.gtsEnd - v.gtsStart)
         IN  Goes(s, t) /\ KeepsWaiting(s, t)
<1> DEFINE u == SetAfter(s, "GTS_START", -1)
           v == [u EXCEPT !.state = "GTS", !.radio = "RX"]
           w == Set(v, "ATTEMPT_TX")
           d == v.gtsEnd - v.gtsStart
           t == SetAfter(w, "SLEEP_START", d)
<1>1. StableOK(s) /\ TimersOK(s) /\ NodeOK(s)
  BY DEF LocalOK, StableOK
<1>2. /\ "FRAME_START" \in SlowTimer /\ "BEACON_TIMEOUT" \in SlowTimer
      /\ "SLEEP_START" \in SlowTimer /\ "GTS_START" \in SlowTimer
      /\ -1 \in -1 .. par.period /\ "ATTEMPT_TX" \in FastTimer
  BY MacFacts DEF SlowTimer, FastTimer
<1>3. s.addr \in Node
  BY <1>2, OnlyNodes
<1>4. /\ s.gtsStart > 0 /\ s.pos = s.gtsStart /\ s.gtsStart < s.gtsEnd /\ s.pan # None
      /\ s.due["FRAME_START"] >= 0 \/ s.due["BEACON_TIMEOUT"] = 0
  <2>1. s.gtsStart > 0 /\ 0 + s.pos = s.gtsStart /\ s.pan # None
        /\ (s.due["FRAME_START"] >= 0 \/ s.due["BEACON_TIMEOUT"] = 0)
    BY <1>1, <1>3 DEF TimersOK
  <2>2. s.gtsStart > 0 => s.gtsStart < s.gtsEnd
    BY <1>1, <1>3 DEF NodeOK
  <2> QED
    BY <2>1, <2>2, MacFacts
<1>5. /\ u \in Mac /\ SetsTimer(s, u, "GTS_START", -1) /\ SameFrame(s, u)
      /\ SameLoad(s, u) /\ SameRadio(s, u) /\ u.timers = s.timers /\ u.lost = s.lost
  BY <1>2, SetAfterOK
<1> HIDE DEF u
<1>6. /\ v \in Mac /\ v.due = u.due /\ SameFrame(u, v) /\ SameLoad(u, v) /\ v.tx = u.tx
      /\ v.timers = u.timers /\ v.state = "GTS" /\ v.lost = u.lost /\ v.radio = "RX"
  BY <1>5, StateOK
<1> HIDE DEF v
<1>7. d \in -1 .. par.period /\ d + s.pos <= NumSlots
  <2>1. d = s.gtsEnd - s.gtsStart
    BY <1>5, <1>6 DEF SameFrame
  <2> HIDE DEF d
  <2> QED
    BY <2>1, <1>4, MacFacts
<1> HIDE DEF d
<1>8. /\ w \in Mac /\ w.timers = v.timers \cup {"ATTEMPT_TX"}
      /\ Same(v, w) /\ SameLoad(v, w) /\ SameRadio(v, w)
  BY <1>2, <1>6, SetOK
<1> HIDE DEF w
<1>9. /\ t \in Mac /\ SetsTimer(w, t, "SLEEP_START", d) /\ SameFrame(w, t)
      /\ SameLoad(w, t) /\ SameRadio(w, t) /\ t.timers = w.timers /\ t.state = w.state
      /\ t.lost = w.lost
  BY <1>2, <1>7, <1>8, SetAfterOK
<1> HIDE DEF t
<1>10. /\ SameFrame(s, t) /\ SameLoad(s, t) /\ t.tx = s.tx
       /\ t.timers = s.timers \cup {"ATTEMPT_TX"} /\ t.state = "GTS" /\ t.lost = s.lost
       /\ t.radio = "RX"
  BY <1>5, <1>6, <1>8, <1>9 DEF SameFrame, SameLoad, SameRadio, Same
<1>11. /\ t.due["FRAME_START"] = s.due["FRAME_START"]
       /\ t.due["BEACON_TIMEOUT"] = s.due["BEACON_TIMEOUT"]
       /\ t.due["SLEEP_START"] = d /\ t.due["GTS_START"] = -1
  BY <1>2, <1>5, <1>6, <1>8, <1>9 DEF SetsTimer, Same
<1>12. TimersOK(t)
  BY <1>1, <1>3, <1>4, <1>7, <1>10, <1>11 DEF TimersOK, SameFrame
<1>13. NodeOK(t)
  BY <1>1, <1>3, <1>4, <1>10, <1>11, MacFacts DEF NodeOK, SameFrame
<1>14. CoordOK(t) /\ OffOK(t)
  BY <1>3, <1>10, MacFacts DEF CoordOK, OffOK, SameFrame
<1>15. Goes(s, t) /\ KeepsWaiting(s, t)
  BY <1>9, <1>10, <1>12, <1>13, <1>14, IdleOK
<1> QED
  BY <1>15 DEF t, d, w, v, u

LEMMA SleepStartOK ==
  ASSUME par \in Settings, NEW s \in Mac, LocalOK(s), s.addr \in On, s.due["SLEEP_START"] = 0,
         s.tx = None
  PROVE  LET t == Sleep(SetAfter(s, "SLEEP_START", -1))
         IN  Goes(s, t) /\ KeepsWaiting(s, t)
<1> DEFINE u == SetAfter(s, "SLEEP_START", -1)
           c == Cancel(u, "PERFORM_CCA")
           v == [c EXCEPT !.state = "SLEEP", !.radio = "SLEEP"]
           t == Sleep(u)
<1>1. StableOK(s) /\ TimersOK(s) /\ NodeOK(s)
  BY DEF LocalOK, StableOK
<1>2. /\ "FRAME_START" \in SlowTimer /\ "BEACON_TIMEOUT" \in SlowTimer
      /\ "SLEEP_START" \in SlowTimer /\ "GTS_START" \in SlowTimer
      /\ -1 \in -1 .. par.period /\ "PERFORM_CCA" \in FastTimer
  BY MacFacts DEF SlowTimer, FastTimer
<1>3. s.addr \in Node
  BY <1>2, OnlyNodes
<1>4. s.pan # None /\ (s.due["FRAME_START"] >= 0 \/ s.due["BEACON_TIMEOUT"] = 0)
  BY <1>1, <1>3 DEF TimersOK
<1>5. /\ u \in Mac /\ SetsTimer(s, u, "SLEEP_START", -1) /\ SameFrame(s, u)
      /\ SameLoad(s, u) /\ SameRadio(s, u) /\ u.timers = s.timers /\ u.lost = s.lost
      /\ u.state = s.state
  BY <1>2, SetAfterOK
<1>6. t = IF u.due["BEACON_TIMEOUT"] # -1 THEN u ELSE v
  BY DEF Sleep
<1> HIDE DEF u
<1>7. /\ c \in Mac /\ c.timers = u.timers \ {"PERFORM_CCA"}
      /\ Same(u, c) /\ SameLoad(u, c) /\ SameRadio(u, c)
  BY <1>2, <1>5, CancelOK
<1> HIDE DEF c
<1>8. /\ v \in Mac /\ v.due = c.due /\ SameFrame(c, v) /\ SameLoad(c, v) /\ v.tx = c.tx
      /\ v.timers = c.timers /\ v.state = "SLEEP" /\ v.lost = c.lost /\ v.radio = "SLEEP"
  BY <1>7, StateOK
<1> HIDE DEF v, t
<1>9. /\ t \in Mac /\ SameFrame(s, t) /\ SameLoad(s, t) /\ t.tx = s.tx /\ t.lost = s.lost
      /\ t.due = u.due /\ t.timers \in {s.timers, s.timers \ {"PERFORM_CCA"}}
      /\ \/ t.state = s.state /\ t.radio = s.radio
         \/ t.state = "SLEEP" /\ t.due["BEACON_TIMEOUT"] = -1
  BY <1>5, <1>6, <1>7, <1>8 DEF SameFrame, SameLoad, SameRadio, Same
<1>10. /\ t.due["FRAME_START"] = s.due["FRAME_START"]
       /\ t.due["BEACON_TIMEOUT"] = s.due["BEACON_TIMEOUT"]
       /\ t.due["SLEEP_START"] = -1 /\ t.due["GTS_START"] = s.due["GTS_START"]
  BY <1>2, <1>5, <1>9 DEF SetsTimer
<1>11. TimersOK(t)
  BY <1>1, <1>3, <1>4, <1>9, <1>10 DEF TimersOK, SameFrame
<1>12. NodeOK(t)
  BY <1>1, <1>3, <1>4, <1>9, <1>10 DEF NodeOK, SameFrame
<1>13. CoordOK(t) /\ OffOK(t)
  BY <1>3, <1>9, MacFacts DEF CoordOK, OffOK, SameFrame
<1>14. /\ "PERFORM_CCA" \in t.timers => "PERFORM_CCA" \in s.timers
       /\ "ACK_TIMEOUT" \in s.timers => "ACK_TIMEOUT" \in t.timers
       /\ t.state \in {"CAP", "SETUP"} => s.state \in {"CAP", "SETUP"}
  BY <1>9
<1>15. Goes(s, t) /\ KeepsWaiting(s, t)
  BY <1>9, <1>11, <1>12, <1>13, <1>14, IdleOK
<1> QED
  BY <1>15 DEF t, v, c, u

LEMMA BackToSetupOK ==
  ASSUME par \in Settings, NEW s \in Mac, LocalOK(s), s.addr \in On, s.due["BACK_TO_SETUP"] = 0
  PROVE  LET u == SetAfter(s, "BACK_TO_SETUP", -1)
             t == IF u.pan = None THEN [u EXCEPT !.state = "SETUP"] ELSE u
         IN  Goes(s, t) /\ KeepsWaiting(s, t)
<1> DEFINE u == SetAfter(s, "BACK_TO_SETUP", -1)
           v == [u EXCEPT !.state = "SETUP"]
           t == IF u.pan = None THEN v ELSE u
<1>1. StableOK(s) /\ TimersOK(s) /\ NodeOK(s)
  BY DEF LocalOK, StableOK
<1>2. /\ "FRAME_START" \in SlowTimer /\ "BEACON_TIMEOUT" \in SlowTimer
      /\ "SLEEP_START" \in SlowTimer /\ "GTS_START" \in SlowTimer
      /\ -1 \in -1 .. par.period /\ "BACK_TO_SETUP" \in SlowTimer
  BY MacFacts DEF SlowTimer
<1>3. s.addr \in Node
  BY <1>2, OnlyNodes
<1>4. /\ u \in Mac /\ SetsTimer(s, u, "BACK_TO_SETUP", -1) /\ SameFrame(s, u)
      /\ SameLoad(s, u) /\ SameRadio(s, u) /\ u.timers = s.timers /\ u.lost = s.lost
      /\ u.state = s.state
  BY <1>2, SetAfterOK
<1> HIDE DEF u
<1>5. /\ v \in Mac /\ v.due = u.due /\ SameFrame(u, v) /\ SameLoad(u, v) /\ SameRadio(u, v)
      /\ v.timers = u.timers /\ v.state = "SETUP" /\ v.lost = u.lost
  BY <1>4, NewStateOK
<1> HIDE DEF v
<1>6. /\ t \in Mac /\ SameFrame(s, t) /\ SameLoad(s, t) /\ SameRadio(s, t) /\ t.lost = s.lost
      /\ t.due = u.due /\ t.timers = s.timers
      /\ t.state = s.state \/ (t.state = "SETUP" /\ s.pan = None)
  BY <1>4, <1>5 DEF SameFrame, SameLoad, SameRadio
<1> HIDE DEF t
<1>7. /\ t.due["FRAME_START"] = s.due["FRAME_START"]
      /\ t.due["BEACON_TIMEOUT"] = s.due["BEACON_TIMEOUT"]
      /\ t.due["SLEEP_START"] = s.due["SLEEP_START"] /\ t.due["GTS_START"] = s.due["GTS_START"]
  BY <1>2, <1>4, <1>6 DEF SetsTimer
<1>8. TimersOK(t)
  BY <1>1, <1>3, <1>6, <1>7 DEF TimersOK, SameFrame, SameRadio
<1>9. NodeOK(t)
  BY <1>1, <1>3, <1>6, <1>7 DEF NodeOK, SameFrame
<1>10. CoordOK(t) /\ OffOK(t)
  BY <1>3, <1>6, MacFacts DEF CoordOK, OffOK, SameFrame
<1>11. t.state \in {"CAP", "SETUP"} => s.state \in {"CAP", "SETUP"}
  BY <1>1, <1>3, <1>6, MacFacts DEF NodeOK
<1>12. Goes(s, t) /\ KeepsWaiting(s, t)
  BY <1>6, <1>8, <1>9, <1>10, <1>11, IdleOK DEF SameRadio
<1> QED
  BY <1>12 DEF t, v, u

(* A node that waits for a beacon has no timer of its frame left.           *)
LEMMA FrameIsOver ==
  ASSUME par \in Settings, NEW s \in Mac, LocalOK(s), s.addr \in Node, s.pos = par.period
  PROVE  /\ s.due["GTS_START"] = -1
         /\ s.due["SLEEP_START"] # 0 => s.due["SLEEP_START"] = -1
<1> DEFINE g == s.due["GTS_START"]
           w == s.due["SLEEP_START"]
           q == par.period
           a == s.gtsStart
           b == s.gtsEnd
<1>1. TimersOK(s) /\ NodeOK(s) /\ "SLEEP_START" \in SlowTimer /\ "GTS_START" \in SlowTimer
  BY DEF LocalOK, StableOK, SlowTimer
<1>2. /\ g \in -1 .. q /\ w \in -1 .. q /\ q \in Nat /\ NumSlots \in Nat /\ NumSlots <= q
      /\ a \in Nat /\ b \in Nat /\ b <= NumSlots
  BY <1>1, MacFacts
<1>3. /\ g >= 0 => a > 0 /\ g + q = a
      /\ w >= 0 => w + q <= NumSlots
      /\ a > 0 => a < b
  BY <1>1 DEF TimersOK, NodeOK
<1> HIDE DEF g, w, q, a, b
<1>4. g = -1 /\ (w # 0 => w = -1)
  BY <1>2, <1>3
<1> QED
  BY <1>4 DEF g, w

LEMMA LostOK ==
  ASSUME NEW s \in Mac, NEW x \in 0 .. MaxLostBeacons
  PROVE  LET t == [s EXCEPT !.lost = x]
         IN  /\ t \in Mac /\ t.due = s.due /\ SameFrame(s, t) /\ SameLoad(s, t) /\ SameRadio(s, t)
             /\ t.timers = s.timers /\ t.state = s.state /\ t.lost = x
BY DEF Mac, SameFrame, SameLoad, SameRadio

LEMMA LeavePanOK ==
  ASSUME par \in Settings, NEW s \in Mac
  PROVE  LET t == LeavePan(s)
         IN  /\ t \in Mac /\ t.state = "SETUP" /\ t.pan = None /\ t.assigned = 0 /\ t.cur = None
             /\ t.addr = s.addr /\ t.pos = s.pos /\ t.due = s.due /\ t.timers = s.timers
             /\ t.lost = s.lost /\ t.beaconOf = s.beaconOf /\ t.joined = s.joined
             /\ t.capEnd = s.capEnd /\ t.gtsStart = s.gtsStart /\ t.gtsEnd = s.gtsEnd
             /\ t.devices = s.devices /\ t.gtsList = s.gtsList /\ t.beacon = s.beacon
             /\ t.buffer = s.buffer /\ SameRadio(s, t)
<1> DEFINE u == [s EXCEPT !.state = "SETUP", !.pan = None, !.assigned = 0]
           v == [u EXCEPT !.cur = None, !.retries = 0]
           t == LeavePan(s)
<1>1. /\ u \in Mac /\ u.state = "SETUP" /\ u.pan = None /\ u.assigned = 0
      /\ u.addr = s.addr /\ u.pos = s.pos /\ u.due = s.due /\ u.timers = s.timers
      /\ u.lost = s.lost /\ u.beaconOf = s.beaconOf /\ u.joined = s.joined
      /\ u.capEnd = s.capEnd /\ u.gtsStart = s.gtsStart /\ u.gtsEnd = s.gtsEnd
      /\ u.devices = s.devices /\ u.gtsList = s.gtsList /\ u.beacon = s.beacon
      /\ u.buffer = s.buffer /\ SameRadio(s, u)
  BY DEF Mac, SameRadio
<1>2. 0 \in 0 .. MaxFrameRetries
  BY ParFacts
<1>3. t = IF u.cur = None THEN u ELSE TransmissionOutcome(v, TRUE)
  BY DEF LeavePan, ClearCurrentPacket
<1> HIDE DEF u, t
<1>4. /\ v \in Mac /\ Same(u, v) /\ v.timers = u.timers /\ v.cur = None
      /\ v.buffer = u.buffer /\ SameRadio(u, v)
  BY <1>1, <1>2, ClearedOK
<1> HIDE DEF v
<1>5. v.pan = None
  BY <1>1, <1>4 DEF Same
<1>6. TransmissionOutcome(v, TRUE) = v
  BY <1>5 DEF TransmissionOutcome
<1>7. t = IF u.cur = None THEN u ELSE v
  BY <1>3, <1>6
<1> QED
  BY <1>1, <1>4, <1>7 DEF Same, SameRadio, t

LEMMA BeaconTimeoutOK ==
  ASSUME par \in Settings, NEW s \in Mac, LocalOK(s), s.addr \in On,
         s.due["BEACON_TIMEOUT"] = 0, s.due["SLEEP_START"] # 0
  PROVE  LET l == [SetAfter(s, "BEACON_TIMEOUT", -1) EXCEPT !.lost = @ + 1]
             t == CASE l.lost >= MaxLostBeacons -> LeavePan(l)
                    [] l.lost < MaxLostBeacons /\ l.pan # None -> MissBeacon(l)
                    [] l.lost < MaxLostBeacons /\ l.pan = None -> l
         IN  Goes(s, t) /\ KeepsWaiting(s, t)
<1> DEFINE u == SetAfter(s, "BEACON_TIMEOUT", -1)
           x == u.lost + 1
           l == [u EXCEPT !.lost = x]
           t == CASE l.lost >= MaxLostBeacons -> LeavePan(l)
                  [] l.lost < MaxLostBeacons /\ l.pan # None -> MissBeacon(l)
                  [] l.lost < MaxLostBeacons /\ l.pan = None -> l
<1>1. StableOK(s) /\ TimersOK(s) /\ NodeOK(s) /\ CurOK(s) /\ TxOK(s)
  BY DEF LocalOK, StableOK
<1>2. /\ "FRAME_START" \in SlowTimer /\ "BEACON_TIMEOUT" \in SlowTimer
      /\ "SLEEP_START" \in SlowTimer /\ "GTS_START" \in SlowTimer
      /\ -1 \in -1 .. par.period /\ par.period \in -1 .. par.period
  BY MacFacts DEF SlowTimer
<1>3. s.addr \in Node
  BY <1>2, OnlyNodes
<1>4. /\ s.pos = par.period /\ s.due["FRAME_START"] = -1 /\ s.radio = "RX"
      /\ s.lost < MaxLostBeacons
  BY <1>1, <1>3 DEF TimersOK
<1>5. s.due["GTS_START"] = -1 /\ s.due["SLEEP_START"] = -1
  BY <1>3, <1>4, FrameIsOver
<1>6. /\ u \in Mac /\ SetsTimer(s, u, "BEACON_TIMEOUT", -1) /\ SameFrame(s, u)
      /\ SameLoad(s, u) /\ SameRadio(s, u) /\ u.timers = s.timers /\ u.lost = s.lost
      /\ u.state = s.state
  BY <1>2, SetAfterOK
<1> HIDE DEF u
<1>7. x \in 0 .. MaxLostBeacons
  <2>1. x = s.lost + 1
    BY <1>6
  <2> HIDE DEF x
  <2> QED
    BY <2>1, <1>4, MacFacts
<1> HIDE DEF x
<1>8. /\ l \in Mac /\ l.due = u.due /\ SameFrame(u, l) /\ SameLoad(u, l) /\ SameRadio(u, l)
      /\ l.timers = u.timers /\ l.state = u.state /\ l.lost = x
  BY <1>6, <1>7, LostOK
<1>9. /\ x >= MaxLostBeacons => t = LeavePan(l)
      /\ x < MaxLostBeacons /\ l.pan # None => t = MissBeacon(l)
      /\ x < MaxLostBeacons /\ l.pan = None => t = l
      /\ x >= MaxLostBeacons \/ x < MaxLostBeacons
  <2> HIDE DEF l
  <2>1. /\ x >= MaxLostBeacons \/ x < MaxLostBeacons
        /\ ~(x >= MaxLostBeacons /\ x < MaxLostBeacons)
    BY <1>7, MacFacts
  <2>2. x >= MaxLostBeacons => t = LeavePan(l)
    BY <1>8, <2>1
  <2>3. x < MaxLostBeacons /\ l.pan # None => t = MissBeacon(l)
    BY <1>8, <2>1
  <2>4. x < MaxLostBeacons /\ l.pan = None => t = l
    BY <1>8, <2>1
  <2> QED
    BY <2>1, <2>2, <2>3, <2>4
<1> HIDE DEF l, t
<1>10. /\ SameFrame(s, l) /\ SameLoad(s, l) /\ SameRadio(s, l)
       /\ l.timers = s.timers /\ l.state = s.state
  BY <1>6, <1>8 DEF SameFrame, SameLoad, SameRadio
<1>11. /\ l.due["FRAME_START"] = -1 /\ l.due["BEACON_TIMEOUT"] = -1
       /\ l.due["SLEEP_START"] = -1 /\ l.due["GTS_START"] = -1
  BY <1>2, <1>4, <1>5, <1>6, <1>8 DEF SetsTimer
<1>12. CASE x >= MaxLostBeacons
  <2>1. /\ t \in Mac /\ t.state = "SETUP" /\ t.pan = None /\ t.assigned = 0 /\ t.cur = None
        /\ t.addr = s.addr /\ t.pos = s.pos /\ t.due = l.due /\ t.timers = s.timers
        /\ t.lost = x /\ t.beaconOf = s.beaconOf /\ t.joined = s.joined
        /\ t.capEnd = s.capEnd /\ t.gtsStart = s.gtsStart /\ t.gtsEnd = s.gtsEnd
        /\ t.devices = s.devices /\ t.gtsList = s.gtsList /\ t.beacon = s.beacon
        /\ t.buffer = s.buffer /\ SameRadio(s, t)
    BY <1>8, <1>9, <1>10, <1>12, LeavePanOK DEF SameFrame, SameLoad, SameRadio
  <2>2. TimersOK(t)
    BY <1>3, <1>4, <1>11, <2>1 DEF TimersOK, SameRadio
  <2>3. NodeOK(t)
    BY <1>1, <2>1 DEF NodeOK
  <2>4. CoordOK(t) /\ OffOK(t) /\ ListOK(t.gtsList) /\ ListOK(t.beacon)
    BY <1>1, <1>3, <2>1, MacFacts DEF CoordOK, OffOK, StableOK
  <2>5. CurOK(t) /\ Counted(t) /\ Served(t)
    BY <1>1, <2>1 DEF CurOK, BufferOK, Counted, Served
  <2>6. TxOK(t)
    BY <1>1, <2>1 DEF TxOK, Waiting, SameRadio
  <2>7. Goes(s, t)
    BY <2>1, <2>2, <2>3, <2>4, <2>5, <2>6
       DEF Goes, LocalOK, StableOK, Quiet, SameRadio
  <2>8. KeepsWaiting(s, t)
    BY <2>1 DEF KeepsWaiting, Waiting
  <2> QED
    BY <2>7, <2>8 DEF t, l, x, u
<1>13. CASE x < MaxLostBeacons /\ l.pan # None
  <2> DEFINE v == [l EXCEPT !.state = "SLEEP", !.radio = "SLEEP"]
  <2>1. t = SetAfter(v, "FRAME_START", par.period)
    BY <1>9, <1>13 DEF MissBeacon
  <2>2. /\ v \in Mac /\ v.due = l.due /\ SameFrame(l, v) /\ SameLoad(l, v) /\ v.tx = l.tx
        /\ v.timers = l.timers /\ v.state = "SLEEP" /\ v.lost = l.lost /\ v.radio = "SLEEP"
    BY <1>8, StateOK
  <2> HIDE DEF v
  <2>3. /\ t \in Mac /\ SetsTimer(v, t, "FRAME_START", par.period) /\ SameFrame(v, t)
        /\ SameLoad(v, t) /\ SameRadio(v, t) /\ t.timers = v.timers /\ t.state = v.state
        /\ t.lost = v.lost
    BY <1>2, <2>1, <2>2, SetAfterOK
  <2>4. /\ t.due["FRAME_START"] = par.period /\ t.due["BEACON_TIMEOUT"] = -1
        /\ t.due["SLEEP_START"] = -1 /\ t.due["GTS_START"] = -1
    BY <1>2, <1>11, <2>2, <2>3 DEF SetsTimer
  <2>5. /\ SameFrame(s, t) /\ SameLoad(s, t) /\ t.tx = s.tx /\ t.timers = s.timers
        /\ t.state = "SLEEP" /\ t.lost = x
    BY <1>8, <1>10, <2>2, <2>3 DEF SameFrame, SameLoad, SameRadio
  <2>6. s.pan # None
    BY <1>10, <1>13 DEF SameFrame
  <2>7. par.period >= 0 /\ par.period + s.pos >= par.period /\ ~(-1 >= 0) /\ -1 # 0
    BY MacFacts
  <2>8. TimersOK(t)
    BY <1>3, <1>13, <2>4, <2>5, <2>7 DEF TimersOK, SameFrame
  <2>9. NodeOK(t)
    BY <1>1, <2>5, <2>6 DEF NodeOK, SameFrame
  <2>10. CoordOK(t) /\ OffOK(t)
    BY <1>3, <2>5, MacFacts DEF CoordOK, OffOK, SameFrame
  <2>11. Goes(s, t) /\ KeepsWaiting(s, t)
    BY <2>3, <2>5, <2>8, <2>9, <2>10, IdleOK
  <2> QED
    BY <2>11 DEF t, l, x, u
<1>14. CASE x < MaxLostBeacons /\ l.pan = None
  <2>1. t = l
    BY <1>9, <1>14
  <2>2. TimersOK(l)
    BY <1>3, <1>4, <1>10, <1>11 DEF TimersOK, SameFrame, SameRadio
  <2>3. NodeOK(l)
    BY <1>1, <1>5, <1>10, <1>11 DEF NodeOK, SameFrame
  <2>4. CoordOK(l) /\ OffOK(l)
    BY <1>3, <1>10, MacFacts DEF CoordOK, OffOK, SameFrame
  <2>5. Goes(s, l) /\ KeepsWaiting(s, l)
    BY <1>8, <1>10, <2>2, <2>3, <2>4, IdleOK DEF SameRadio
  <2> QED
    BY <2>1, <2>5 DEF t, l, x, u
<1> QED
  BY <1>9, <1>12, <1>13, <1>14

(* The packet of s is tried in c, which has lost timers of s.               *)
LEMMA TryOK ==
  ASSUME par \in Settings, NEW s \in Mac, LocalOK(s), s.addr \in On, s.tx = None,
         NEW c \in Mac, Same(s, c), SameRadio(s, c), c.timers \subseteq s.timers,
         c.cur = s.cur, c.buffer = s.buffer,
         c.retries = s.retries \/ "PERFORM_CCA" \notin c.timers, NEW fits
  PROVE  LET t == AttemptTransmission(c, fits)
         IN  /\ Goes(s, t) /\ t.pan = s.pan /\ t.assigned = s.assigned
             /\ s.cur = None => /\ t.cur = None
                                /\ "ACK_TIMEOUT" \in c.timers => "ACK_TIMEOUT" \in t.timers
<1> DEFINE t == AttemptTransmission(c, fits)
<1>1. StableOK(s) /\ CurOK(s) /\ Counted(s) /\ Served(s) /\ TxOK(s)
  BY DEF LocalOK
<1>2. StableOK(c)
  BY <1>1 DEF StableOK, CoordOK, TimersOK, OffOK, NodeOK, Same, SameRadio
<1>3. SlotOK(c)
  BY <1>2, SlotFacts
<1>4. CurOK(c) /\ Counted(c) /\ Served(c)
  BY <1>1 DEF CurOK, PacketOK, BufferOK, Counted, Served, Same
<1>5. MayAttempt(c)
  BY <1>3, <1>4 DEF MayAttempt, Same, SameRadio
<1> HIDE DEF t
<1>6. /\ Tries(c, t) /\ Served(t)
      /\ c.cur = None => /\ t.cur = None
                         /\ "ACK_TIMEOUT" \in c.timers => "ACK_TIMEOUT" \in t.timers
  BY <1>4, <1>5, AttemptTransmissionOK DEF t
<1>7. t \in Mac /\ LocalOK(t) /\ Quiet(c, t)
  BY <1>2, <1>6, TriesLocal, TriesQuiet
<1>8. Quiet(s, t)
  BY <1>7 DEF Quiet, Same, SameRadio, InSlot
<1>9. t.pan = s.pan /\ t.assigned = s.assigned
  BY <1>6 DEF Tries, Same
<1> QED
  BY <1>6, <1>7, <1>8, <1>9 DEF Goes, t

LEMMA AckTimeoutOK ==
  ASSUME par \in Settings, NEW s \in Mac, LocalOK(s), s.addr \in On, s.tx = None, NEW fits
  PROVE  Goes(s, AttemptTransmission(Cancel(s, "ACK_TIMEOUT"), fits))
<1> DEFINE c == Cancel(s, "ACK_TIMEOUT")
<1>1. "ACK_TIMEOUT" \in FastTimer
  BY DEF FastTimer
<1>2. /\ c \in Mac /\ c.timers = s.timers \ {"ACK_TIMEOUT"}
      /\ Same(s, c) /\ SameLoad(s, c) /\ SameRadio(s, c)
  BY <1>1, CancelOK
<1> HIDE DEF c
<1>3. /\ c.timers \subseteq s.timers /\ c.cur = s.cur /\ c.buffer = s.buffer
      /\ c.retries = s.retries
  BY <1>2 DEF SameLoad
<1>4. Goes(s, AttemptTransmission(c, fits))
  BY <1>2, <1>3, TryOK
<1> QED
  BY <1>4 DEF c

LEMMA AttemptTxOK ==
  ASSUME par \in Settings, NEW s \in Mac, LocalOK(s), s.addr \in On, s.tx = None, NEW fits,
         NEW t,
         LET c == Cancel(s, "ATTEMPT_TX")
         IN  \/ "ACK_TIMEOUT" \in c.timers /\ t = c
             \/ "ACK_TIMEOUT" \notin c.timers /\ t = AttemptTransmission(c, fits)
  PROVE  Goes(s, t) /\ KeepsWaiting(s, t)
<1> DEFINE c == Cancel(s, "ATTEMPT_TX")
<1>1. "ATTEMPT_TX" \in FastTimer
  BY DEF FastTimer
<1>2. /\ c \in Mac /\ c.timers = s.timers \ {"ATTEMPT_TX"}
      /\ Same(s, c) /\ SameLoad(s, c) /\ SameRadio(s, c)
  BY <1>1, CancelOK
<1>3. \/ "ACK_TIMEOUT" \in c.timers /\ t = c
      \/ "ACK_TIMEOUT" \notin c.timers /\ t = AttemptTransmission(c, fits)
  OBVIOUS
<1> HIDE DEF c
<1>4. /\ c.timers \subseteq s.timers /\ c.cur = s.cur /\ c.buffer = s.buffer
      /\ c.retries = s.retries
  BY <1>2 DEF SameLoad
<1>5. CASE "ACK_TIMEOUT" \in c.timers /\ t = c
  <2>1. CoordOK(c) /\ TimersOK(c) /\ OffOK(c) /\ NodeOK(c)
    BY <1>2 DEF LocalOK, StableOK, CoordOK, TimersOK, OffOK, NodeOK, Same, SameRadio
  <2>2. SameFrame(s, c) /\ c.tx = s.tx /\ c.state = s.state
    BY <1>2 DEF Same, SameFrame, SameRadio
  <2> QED
    BY <1>2, <1>5, <2>1, <2>2, IdleOK
<1>6. CASE "ACK_TIMEOUT" \notin c.timers /\ t = AttemptTransmission(c, fits)
  <2>1. Goes(s, t)
    BY <1>2, <1>4, <1>6, TryOK
  <2>2. ~Waiting(s)
    BY <1>2, <1>6 DEF Waiting
  <2> QED
    BY <2>1, <2>2 DEF KeepsWaiting
<1> QED
  BY <1>3, <1>5, <1>6

LEMMA PerformCcaOK ==
  ASSUME par \in Settings, NEW s \in Mac, LocalOK(s), s.addr \in On,
         "PERFORM_CCA" \in s.timers, NEW fits, NEW t,
         LET c == Cancel(s, "PERFORM_CCA")
         IN  IF c.state \in {"GTS", "SLEEP"} \/ c.tx # None THEN t = c
             ELSE t = TransmitCurrentPacket(c, fits) \/ t = GiveUpSensing(c, fits)
  PROVE  Goes(s, t) /\ KeepsWaiting(s, t)
<1> DEFINE c == Cancel(s, "PERFORM_CCA")
<1>1. "PERFORM_CCA" \in FastTimer
  BY DEF FastTimer
<1>2. /\ c \in Mac /\ c.timers = s.timers \ {"PERFORM_CCA"}
      /\ Same(s, c) /\ SameLoad(s, c) /\ SameRadio(s, c)
  BY <1>1, CancelOK
<1>3. \/ (c.state \in {"GTS", "SLEEP"} \/ c.tx # None) /\ t = c
      \/ /\ c.state \notin {"GTS", "SLEEP"} /\ c.tx = None
         /\ t = TransmitCurrentPacket(c, fits) \/ t = GiveUpSensing(c, fits)
  OBVIOUS
<1> HIDE DEF c
<1>4. /\ c.timers \subseteq s.timers /\ c.cur = s.cur /\ c.buffer = s.buffer
      /\ c.retries = s.retries /\ c.state = s.state /\ c.tx = s.tx /\ c.pan = s.pan
      /\ c.addr = s.addr /\ "PERFORM_CCA" \notin c.timers
  BY <1>2 DEF SameLoad, Same, SameRadio
<1>5. StableOK(s) /\ CurOK(s) /\ Counted(s) /\ Served(s) /\ TxOK(s)
  BY DEF LocalOK
<1>6. StableOK(c)
  BY <1>2, <1>5 DEF StableOK, CoordOK, TimersOK, OffOK, NodeOK, Same, SameRadio
<1>7. CASE t = c
  <2>1. SameFrame(s, c)
    BY <1>2 DEF Same, SameFrame
  <2> QED
    BY <1>2, <1>4, <1>6, <1>7, <2>1, IdleOK DEF StableOK
<1>8. CASE c.state \notin {"GTS", "SLEEP"} /\ c.tx = None /\ c.cur = None
           /\ t = TransmitCurrentPacket(c, fits)
  <2>1. t = c
    BY <1>8 DEF TransmitCurrentPacket
  <2> QED
    BY <1>7, <2>1
<1>9. CASE c.state \notin {"GTS", "SLEEP"} /\ c.tx = None /\ c.cur # None
           /\ t = TransmitCurrentPacket(c, fits)
  <2>1. c.state \in {"CAP", "SETUP"}
    BY <1>2, <1>9, MacFacts
  <2>2. c.cur # None => c.retries > 0
    BY <1>4, <1>5, <2>1 DEF Counted
  <2>3. c.state = "SETUP" => c.pan = None
    BY <1>2, <1>4, <1>5, MacFacts DEF StableOK, NodeOK, CoordOK
  <2>4. CurOK(c) /\ Served(c)
    BY <1>2, <1>5 DEF CurOK, PacketOK, BufferOK, Served, Same, SameLoad
  <2>5. SlotOK(c)
    BY <1>2, <1>6, SlotFacts
  <2>6. Tries(c, t) /\ t.cur = c.cur /\ t.buffer = c.buffer
    BY <1>2, <1>4, <1>9, <2>1, <2>2, <2>3, <2>4, <2>5, TransmitOK
  <2>7. Served(t)
    BY <2>4, <2>6 DEF Served, Tries, Same
  <2>8. t \in Mac /\ LocalOK(t) /\ Quiet(c, t)
    BY <1>2, <1>6, <2>6, <2>7, TriesLocal, TriesQuiet
  <2>9. Quiet(s, t)
    BY <1>2, <2>8 DEF Quiet, Same, SameRadio, InSlot
  <2>10. ~Waiting(s)
    BY <1>4, <1>9, <2>1 DEF Waiting
  <2> QED
    BY <2>8, <2>9, <2>10 DEF Goes, KeepsWaiting
<1>10. CASE c.state \notin {"GTS", "SLEEP"} /\ c.tx = None /\ t = GiveUpSensing(c, fits)
  <2> DEFINE r == IF c.cur = None THEN c.retries ELSE c.retries - 1
             v == [c EXCEPT !.retries = r]
  <2>1. t = AttemptTransmission(v, fits)
    BY <1>10 DEF GiveUpSensing
  <2>2. c.state \in {"CAP", "SETUP"}
    BY <1>2, <1>10, MacFacts
  <2>3. r \in 0 .. MaxFrameRetries
    <3>1. c.cur # None => c.retries > 0
      BY <1>4, <1>5, <2>2 DEF Counted
    <3>2. c.retries \in 0 .. MaxFrameRetries /\ MaxFrameRetries \in Nat
      BY <1>2, MacFacts, ParFacts
    <3> QED
      BY <3>1, <3>2
  <2> HIDE DEF r
  <2>4. /\ v \in Mac /\ Same(c, v) /\ SameRadio(c, v) /\ v.timers = c.timers
        /\ v.cur = c.cur /\ v.buffer = c.buffer
    BY <1>2, <2>3, RetriesOK
  <2> HIDE DEF v
  <2>5. Same(s, v) /\ SameRadio(s, v) /\ v.timers = c.timers /\ v.cur = s.cur /\ v.buffer = s.buffer
    BY <1>2, <1>4, <2>4 DEF Same, SameRadio
  <2>6. v.timers \subseteq s.timers /\ "PERFORM_CCA" \notin v.timers /\ s.tx = None
    BY <1>4, <1>10, <2>5
  <2>7. /\ Goes(s, t) /\ t.pan = s.pan
        /\ s.cur = None => /\ t.cur = None
                           /\ "ACK_TIMEOUT" \in v.timers => "ACK_TIMEOUT" \in t.timers
    BY <2>1, <2>4, <2>5, <2>6, TryOK
  <2>8. Waiting(s) => s.cur = None
    BY <1>4, <2>2 DEF Waiting
  <2>9. "ACK_TIMEOUT" \in s.timers => "ACK_TIMEOUT" \in v.timers
    BY <1>2, <2>5
  <2> QED
    BY <2>7, <2>8, <2>9 DEF KeepsWaiting, Waiting
<1> QED
  BY <1>3, <1>7, <1>8, <1>9, <1>10

LEMMA BufferedOK ==
  ASSUME NEW s \in Mac, NEW b \in Seq(OtherFrame)
  PROVE  LET t == [s EXCEPT !.buffer = b]
         IN  /\ t \in Mac /\ Same(s, t) /\ SameRadio(s, t) /\ t.timers = s.timers
             /\ t.cur = s.cur /\ t.retries = s.retries /\ t.buffer = b
BY DEF Mac, Same, SameRadio

LEMMA AcceptNewPacketOK ==
  ASSUME par \in Settings, NEW s \in Mac, LocalOK(s), s.addr \in On,
         NEW f \in OtherFrame, f.type = "DATA", f.src = s.addr, NEW fits
  PROVE  LET t == AcceptNewPacket(s, f, fits) IN Goes(s, t) /\ KeepsWaiting(s, t)
<1> DEFINE t == AcceptNewPacket(s, f, fits)
<1>1. StableOK(s) /\ CurOK(s) /\ Counted(s) /\ Served(s) /\ TxOK(s) /\ BufferOK(s)
  BY DEF LocalOK, CurOK
<1>2. SlotOK(s)
  BY <1>1, SlotFacts
<1>3. PacketOK(f, s) /\ f # None
  BY NoneIsNoFrame DEF PacketOK
<1>4. CASE s.pan # None /\ s.cur = None
  <2>1. t = TransmitPacket(s, f, par.gtsOnly, fits)
    BY <1>4 DEF AcceptNewPacket
  <2>2. par.gtsOnly \in BOOLEAN
    BY ParFacts DEF Parameters
  <2> HIDE DEF t
  <2>3. Tries(s, t) /\ t.cur = f
    BY <1>1, <1>2, <1>3, <1>4, <2>1, <2>2, TransmitPacketOK
  <2>4. Served(t)
    BY <1>3, <2>3 DEF Served
  <2>5. t \in Mac /\ LocalOK(t) /\ Quiet(s, t)
    BY <1>1, <2>3, <2>4, TriesLocal, TriesQuiet
  <2> QED
    BY <1>4, <2>5 DEF Goes, KeepsWaiting, t
<1>5. CASE ~(s.pan # None /\ s.cur = None) /\ Len(s.buffer) >= BufferSize
  <2>1. t = s
    BY <1>5 DEF AcceptNewPacket
  <2> QED
    BY <2>1 DEF Goes, KeepsWaiting, Quiet
<1>6. CASE ~(s.pan # None /\ s.cur = None) /\ ~(Len(s.buffer) >= BufferSize)
  <2> DEFINE b == Append(s.buffer, f)
  <2>1. t = [s EXCEPT !.buffer = b]
    BY <1>6 DEF AcceptNewPacket
  <2>2. s.buffer \in Seq(OtherFrame)
    BY DEF Mac
  <2>3. /\ b \in Seq(OtherFrame) /\ DOMAIN b = DOMAIN s.buffer \cup {Len(s.buffer) + 1}
        /\ b[Len(s.buffer) + 1] = f /\ \A i \in DOMAIN s.buffer : b[i] = s.buffer[i]
    BY <2>2
  <2> HIDE DEF b, t
  <2>4. /\ t \in Mac /\ Same(s, t) /\ SameRadio(s, t) /\ t.timers = s.timers
        /\ t.cur = s.cur /\ t.retries = s.retries /\ t.buffer = b
    BY <2>1, <2>3, BufferedOK
  <2>5. BufferOK(t)
    BY <1>1, <2>3, <2>4 DEF BufferOK, Same
  <2>6. CurOK(t)
    BY <1>1, <2>4, <2>5 DEF CurOK, PacketOK, Same
  <2>7. Counted(t) /\ TxOK(t)
    BY <1>1, <2>4 DEF Counted, TxOK, Waiting, Same, SameRadio
  <2>8. Served(t)
    BY <1>6, <2>4 DEF Served, Same
  <2>9. Tries(s, t)
    BY <2>4, <2>6, <2>7 DEF Tries, Sends
  <2>10. t \in Mac /\ LocalOK(t) /\ Quiet(s, t)
    BY <1>1, <2>8, <2>9, TriesLocal, TriesQuiet
  <2>11. KeepsWaiting(s, t)
    BY <2>4 DEF KeepsWaiting, Waiting, Same
  <2> QED
    BY <2>10, <2>11 DEF Goes, t
<1> QED
  BY <1>4, <1>5, <1>6

-----------------------------------------------------------------------------
(* A coordinator starts a frame.                                            *)
NewFrame(s, list, c) ==
    [s EXCEPT !.gtsList = list, !.beacon = list, !.capEnd = c, !.state = "CAP", !.pos = 0]

LEMMA FrameOK ==
  ASSUME NEW s \in Mac, NEW list \in Seq(Gts), NEW c \in 0 .. NumSlots, 0 \in 0 .. par.period
  PROVE  LET t == NewFrame(s, list, c)
         IN  /\ t \in Mac /\ t.gtsList = list /\ t.beacon = list /\ t.capEnd = c
             /\ t.state = "CAP" /\ t.pos = 0 /\ SameLoad(s, t) /\ SameRadio(s, t)
             /\ t.timers = s.timers /\ t.due = s.due /\ t.lost = s.lost
             /\ t.addr = s.addr /\ t.pan = s.pan /\ t.beaconOf = s.beaconOf
             /\ t.joined = s.joined /\ t.gtsStart = s.gtsStart /\ t.gtsEnd = s.gtsEnd
             /\ t.assigned = s.assigned /\ t.devices = s.devices
BY DEF Mac, SameLoad, SameRadio, NewFrame

LEMMA StartFrameOK ==
  ASSUME par \in Settings, NEW s \in Mac, LocalOK(s), s.addr \in On, s.addr \in Coord,
         s.due["FRAME_START"] = 0, s.tx = None
  PROVE  LET list == PrepareBeacon(s.gtsList)
             v == [SetAfter(s, "FRAME_START", par.period)
                      EXCEPT !.gtsList = list, !.beacon = list, !.capEnd = CapLength(list),
                             !.state = "CAP", !.pos = 0]
             t == Set(Send(v, Beacon(s.addr, list)), "ATTEMPT_TX")
         IN  /\ t \in Mac /\ LocalOK(t) /\ KeepsWaiting(s, t)
             /\ s.pos = par.period /\ t.pos = 0
             /\ t.tx # None /\ t.tx.type = "BEACON"
             /\ t.addr = s.addr /\ t.pan = s.pan
             /\ t.devices = s.devices /\ t.gtsList = s.gtsList
             /\ t.beacon = s.gtsList
<1> DEFINE list == PrepareBeacon(s.gtsList)
           cap == CapLength(list)
           u == SetAfter(s, "FRAME_START", par.period)
           v == NewFrame(u, list, cap)
           f == Beacon(s.addr, list)
           w == Send(v, f)
           t == Set(w, "ATTEMPT_TX")
<1>1. /\ StableOK(s) /\ CurOK(s) /\ Counted(s) /\ Served(s) /\ TxOK(s)
      /\ CoordOK(s) /\ ListOK(s.gtsList)
  BY DEF LocalOK, StableOK
<1>2. s.gtsList \in Seq(Gts) /\ list = s.gtsList /\ cap \in 1 .. NumSlots
  <2>1. s.gtsList \in Seq(Gts)
    BY DEF Mac
  <2>2. list = s.gtsList
    BY <1>1, <2>1, PrepareBeaconOK
  <2> QED
    BY <1>1, <2>1, <2>2, CapLengthOK
<1> HIDE DEF cap, list
<1>3. /\ "FRAME_START" \in SlowTimer /\ par.period \in -1 .. par.period /\ "ATTEMPT_TX" \in FastTimer
      /\ cap \in 0 .. NumSlots /\ 0 \in 0 .. par.period
  BY <1>2, MacFacts DEF SlowTimer, FastTimer
<1>4. /\ u \in Mac /\ SetsTimer(s, u, "FRAME_START", par.period) /\ SameFrame(s, u)
      /\ SameLoad(s, u) /\ SameRadio(s, u) /\ u.timers = s.timers
  BY <1>3, SetAfterOK
<1> HIDE DEF u
<1>5. /\ v \in Mac /\ v.gtsList = list /\ v.beacon = list /\ v.capEnd = cap
      /\ v.state = "CAP" /\ v.pos = 0 /\ SameLoad(u, v) /\ SameRadio(u, v)
      /\ v.timers = u.timers /\ v.due = u.due
      /\ v.addr = u.addr /\ v.pan = u.pan /\ v.beaconOf = u.beaconOf
      /\ v.joined = u.joined /\ v.gtsStart = u.gtsStart /\ v.gtsEnd = u.gtsEnd
      /\ v.assigned = u.assigned /\ v.devices = u.devices
  <2>1. u \in Mac /\ list \in Seq(Gts)
    BY <1>2, <1>4
  <2> QED
    BY <1>3, <2>1, FrameOK
<1> HIDE DEF v
<1>6. f \in BeaconFrame /\ f.type = "BEACON" /\ f.src = s.addr /\ f.pan = s.addr /\ f.body = list
  BY <1>2 DEF Beacon, Frame, BeaconFrame
<1>7. f # None
  BY <1>6, NoneIsNoFrame
<1> HIDE DEF f
<1>8. /\ w \in Mac /\ w.tx = f /\ w.radio = "RX" /\ w.timers = v.timers
      /\ Same(v, w) /\ SameLoad(v, w)
  BY <1>5, <1>6, SendOK
<1> HIDE DEF w
<1>9. /\ t \in Mac /\ t.timers = w.timers \cup {"ATTEMPT_TX"}
      /\ Same(w, t) /\ SameLoad(w, t) /\ SameRadio(w, t)
  BY <1>3, <1>8, SetOK
<1> HIDE DEF t
<1>10. /\ t.tx = f /\ t.radio = "RX" /\ t.timers = s.timers \cup {"ATTEMPT_TX"}
       /\ t.addr = s.addr /\ t.pan = s.pan /\ t.devices = s.devices
       /\ t.gtsList = s.gtsList /\ t.beacon = s.gtsList /\ t.capEnd = CapLength(t.beacon)
       /\ t.state = "CAP" /\ t.pos = 0 /\ t.gtsStart = s.gtsStart /\ SameLoad(s, t)
       /\ t.beaconOf = s.beaconOf /\ t.joined = s.joined
  BY <1>2, <1>4, <1>5, <1>8, <1>9 DEF SameFrame, Same, SameLoad, SameRadio, cap
<1>11. \A x \in SlowTimer : t.due[x] = IF x = "FRAME_START" THEN par.period ELSE s.due[x]
  BY <1>4, <1>5, <1>8, <1>9 DEF SetsTimer, Same
<1>12. s.pos = par.period
  <2>1. s.pos < par.period => 0 + s.pos = par.period
    BY <1>1 DEF CoordOK
  <2> QED
    BY <2>1, MacFacts
<1>13. CoordOK(t)
  <2>1. t.due["FRAME_START"] + t.pos = par.period /\ t.due["FRAME_START"] >= 0
    BY <1>3, <1>10, <1>11, MacFacts
  <2>2. \A x \in SlowTimer \ {"FRAME_START"} : t.due[x] = -1
    BY <1>1, <1>11 DEF CoordOK
  <2> QED
    BY <1>1, <1>10, <2>1, <2>2 DEF CoordOK
<1>14. TimersOK(t) /\ OffOK(t) /\ NodeOK(t) /\ ListOK(t.gtsList) /\ ListOK(t.beacon)
  BY <1>1, <1>10, MacFacts DEF TimersOK, OffOK, NodeOK
<1>15. CurOK(t) /\ Counted(t) /\ Served(t)
  <2>1. s.state \in {"SETUP", "CAP"}
    BY <1>1 DEF CoordOK
  <2> QED
    BY <1>1, <1>10, <2>1 DEF CurOK, PacketOK, BufferOK, Counted, Served, SameLoad
<1>16. TxOK(t)
  BY <1>2, <1>6, <1>10 DEF TxOK, Asks
<1>17. KeepsWaiting(s, t)
  <2>1. s.state \in {"SETUP", "CAP"}
    BY <1>1 DEF CoordOK
  <2> QED
    BY <1>10, <2>1 DEF KeepsWaiting, Waiting, SameLoad
<1>18. LocalOK(t)
  BY <1>13, <1>14, <1>15, <1>16 DEF LocalOK, StableOK
<1> QED
  BY <1>6, <1>7, <1>9, <1>10, <1>12, <1>17, <1>18
     DEF t, w, f, v, u, cap, list, NewFrame

-----------------------------------------------------------------------------
(* A node hears a beacon.                                                   *)
Fresh(s, due, p, j, c) ==
    [s EXCEPT !.due = due, !.lost = 0, !.pos = 0, !.beaconOf = p, !.joined = j,
              !.state = "CAP", !.capEnd = c, !.gtsStart = 0, !.gtsEnd = 0]

(* What a beacon does not change                                            *)
SameStation(s, t) ==
    /\ t.addr = s.addr /\ t.pan = s.pan /\ t.assigned = s.assigned
    /\ t.devices = s.devices /\ t.gtsList = s.gtsList /\ t.beacon = s.beacon

LEMMA FreshOK ==
  ASSUME NEW s \in Mac, NEW due \in [SlowTimer -> -1 .. par.period], NEW p \in Coord,
         NEW j \in BOOLEAN, NEW c \in 0 .. NumSlots,
         0 \in 0 .. par.period, 0 \in 0 .. NumSlots, 0 \in 0 .. MaxLostBeacons
  PROVE  LET t == Fresh(s, due, p, j, c)
         IN  /\ t \in Mac /\ t.due = due /\ t.lost = 0 /\ t.pos = 0 /\ t.beaconOf = p
             /\ t.joined = j /\ t.state = "CAP" /\ t.capEnd = c /\ t.gtsStart = 0 /\ t.gtsEnd = 0
             /\ t.timers = s.timers /\ SameLoad(s, t) /\ SameRadio(s, t) /\ SameStation(s, t)
BY DEF Fresh, Mac, SameLoad, SameRadio, SameStation

OwnGts(s, a, b) == [s EXCEPT !.gtsStart = a, !.gtsEnd = b]

LEMMA OwnGtsOK ==
  ASSUME NEW s \in Mac, NEW a \in 0 .. NumSlots, NEW b \in 0 .. NumSlots
  PROVE  LET t == OwnGts(s, a, b)
         IN  /\ t \in Mac /\ t.due = s.due /\ t.lost = s.lost /\ t.pos = s.pos
             /\ t.beaconOf = s.beaconOf /\ t.joined = s.joined /\ t.state = s.state
             /\ t.capEnd = s.capEnd /\ t.gtsStart = a /\ t.gtsEnd = b
             /\ t.timers = s.timers /\ SameLoad(s, t) /\ SameRadio(s, t) /\ SameStation(s, t)
BY DEF OwnGts, Mac, SameLoad, SameRadio, SameStation

(* The guaranteed slots of a station are those of the list.                 *)
OwnsIn(s, list) ==
    s.gtsStart > 0 => \E i \in DOMAIN list : /\ list[i].owner = s.addr
                                             /\ list[i].start = s.gtsStart
                                             /\ s.gtsEnd = s.gtsStart + list[i].length

(* s has read the frame's parameters from beacon f.                         *)
Hears(s, t, f) ==
    /\ t \in Mac /\ t.pos = 0 /\ t.beaconOf = f.pan /\ t.capEnd = CapLength(f.body)
    /\ t.lost = 0 /\ t.joined = (s.pan = None) /\ t.state = "CAP"
    /\ t.gtsStart > 0 => t.gtsStart < t.gtsEnd
    /\ OwnsIn(t, f.body) /\ SameStation(s, t)

LEMMA ReadBeaconOK ==
  ASSUME par \in Settings, NEW s \in Mac, NEW f \in BeaconFrame, ListOK(f.body)
  PROVE  LET t == ReadBeacon(s, f)
         IN  /\ Hears(s, t, f) /\ SetsTimer(s, t, "BEACON_TIMEOUT", -1)
             /\ t.timers = s.timers /\ SameLoad(s, t) /\ SameRadio(s, t)
<1> DEFINE due == [s.due EXCEPT !["BEACON_TIMEOUT"] = -1]
           cap == CapLength(f.body)
           j == s.pan = None
           v == Fresh(s, due, f.pan, j, cap)
           g == f.body[CHOOSE i \in Mine(s, f) : TRUE]
           w == [v EXCEPT !.gtsStart = g.start, !.gtsEnd = g.start + g.length]
           t == ReadBeacon(s, f)
<1>1. f.body \in Seq(Gts) /\ f.pan \in Coord
  BY DEF BeaconFrame
<1>2. cap \in 1 .. NumSlots /\ NumSlots \in Nat
  BY <1>1, CapLengthOK, ParFacts
<1>3. cap \in 0 .. NumSlots /\ 0 \in 0 .. par.period /\ 0 \in 0 .. NumSlots /\ 0 \in 0 .. MaxLostBeacons
  BY <1>2, ParFacts
<1>4. /\ due \in [SlowTimer -> -1 .. par.period]
      /\ \A y \in SlowTimer : due[y] = IF y = "BEACON_TIMEOUT" THEN -1 ELSE s.due[y]
  <2>1. s.due \in [SlowTimer -> -1 .. par.period] /\ -1 \in -1 .. par.period
    BY ParFacts DEF Mac
  <2> QED
    BY <2>1
<1>5. v = [s EXCEPT !.due["BEACON_TIMEOUT"] = -1, !.lost = 0, !.pos = 0, !.beaconOf = f.pan,
                    !.joined = s.pan = None, !.state = "CAP", !.capEnd = CapLength(f.body),
                    !.gtsStart = 0, !.gtsEnd = 0]
  BY DEF Fresh
<1>6. t = IF Mine(s, f) = {} THEN v ELSE w
  BY <1>5 DEF ReadBeacon
<1>0. j \in BOOLEAN
  OBVIOUS
<1> HIDE DEF t, cap, due, j
<1>7. /\ v \in Mac /\ v.due = due /\ v.lost = 0 /\ v.pos = 0 /\ v.beaconOf = f.pan
      /\ v.joined = j /\ v.state = "CAP" /\ v.capEnd = cap /\ v.gtsStart = 0 /\ v.gtsEnd = 0
      /\ v.timers = s.timers /\ SameLoad(s, v) /\ SameRadio(s, v) /\ SameStation(s, v)
  BY <1>0, <1>1, <1>3, <1>4, FreshOK
<1> HIDE DEF v
<1>8. SetsTimer(s, v, "BEACON_TIMEOUT", -1)
  BY <1>4, <1>7 DEF SetsTimer
<1>9. CASE Mine(s, f) = {}
  <2>1. t = v
    BY <1>6, <1>9
  <2>2. ~(0 > 0)
    OBVIOUS
  <2>3. Hears(s, v, f)
    BY <1>7, <2>2 DEF Hears, OwnsIn, cap, j
  <2> QED
    BY <1>7, <1>8, <2>1, <2>3 DEF t
<1>10. CASE Mine(s, f) # {}
  <2>1. PICK i \in DOMAIN f.body : g = f.body[i] /\ f.body[i].owner = s.addr
    BY <1>10 DEF Mine
  <2>2. g \in Gts /\ g.length > 0 /\ g.start >= MinCap /\ g.start + g.length <= NumSlots
    BY <1>1, <2>1 DEF ListOK
  <2> HIDE DEF g
  <2>3. g.start \in 0 .. NumSlots /\ g.length \in 0 .. NumSlots
    BY <2>2 DEF Gts
  <2> DEFINE a == g.start
             b == g.start + g.length
  <2>4. a \in 0 .. NumSlots /\ b \in 0 .. NumSlots /\ a < b
    BY <1>2, <2>2, <2>3
  <2>5. w = OwnGts(v, a, b)
    BY DEF OwnGts
  <2> HIDE DEF a, b, w
  <2>6. /\ w \in Mac /\ w.due = v.due /\ w.lost = v.lost /\ w.pos = v.pos
        /\ w.beaconOf = v.beaconOf /\ w.joined = v.joined /\ w.state = v.state
        /\ w.capEnd = v.capEnd /\ w.gtsStart = a /\ w.gtsEnd = b
        /\ w.timers = v.timers /\ SameLoad(v, w) /\ SameRadio(v, w) /\ SameStation(v, w)
    BY <1>7, <2>4, <2>5, OwnGtsOK
  <2>7. w.addr = s.addr
    BY <1>7, <2>6 DEF SameStation
  <2>8. OwnsIn(w, f.body)
    BY <2>1, <2>6, <2>7 DEF OwnsIn, a, b
  <2>9. Hears(s, w, f)
    BY <1>7, <2>4, <2>6, <2>8 DEF Hears, SameStation, cap, j
  <2>10. SetsTimer(s, w, "BEACON_TIMEOUT", -1)
    BY <1>8, <2>6 DEF SetsTimer
  <2>11. t = w
    BY <1>6, <1>10
  <2> QED
    BY <1>7, <2>6, <2>9, <2>10, <2>11 DEF SameLoad, SameRadio, t
<1> QED
  BY <1>9, <1>10

(* s has heard beacon f and has set the timers of the frame.                *)
Heard(s, u, f) ==
    /\ Hears(s, u, f) /\ CurOK(u) /\ Served(u) /\ u.tx = None
    /\ u.due["BEACON_TIMEOUT"] = -1
    /\ u.due["SLEEP_START"] >= 0 => u.due["SLEEP_START"] <= NumSlots /\ u.pan # None
    /\ u.due["GTS_START"] >= 0 => /\ u.gtsStart > 0 /\ u.due["GTS_START"] = u.gtsStart
                                  /\ u.pan # None
    /\ ~u.joined => u.capEnd # u.gtsStart \/ u.due["GTS_START"] >= 0

LEMMA ScheduleFrameOK ==
  ASSUME par \in Settings, NEW s \in Mac, LocalOK(s), s.addr \in Node, s.tx = None,
         s.pan # None, s.pos = par.period,
         NEW f \in BeaconFrame, ListOK(f.body), s.pan = f.pan
  PROVE  Heard(s, ScheduleFrame(ReadBeacon(s, f)), f)
<1> DEFINE t == ReadBeacon(s, f)
           v == IF t.gtsStart # t.capEnd THEN SetAfter(t, "SLEEP_START", t.capEnd) ELSE t
           u == IF v.gtsStart > 0 THEN SetAfter(v, "GTS_START", v.gtsStart) ELSE v
<1>1. /\ Hears(s, t, f) /\ SetsTimer(s, t, "BEACON_TIMEOUT", -1)
      /\ t.timers = s.timers /\ SameLoad(s, t) /\ SameRadio(s, t)
  BY ReadBeaconOK
<1>2. /\ "BEACON_TIMEOUT" \in SlowTimer /\ "SLEEP_START" \in SlowTimer /\ "GTS_START" \in SlowTimer
  BY DEF SlowTimer
<1>3. ScheduleFrame(t) = u
  BY <1>1 DEF ScheduleFrame, SetAfter, Hears, Mac
<1> HIDE DEF t
<1>4. /\ t \in Mac /\ t.capEnd \in -1 .. par.period /\ t.gtsStart \in -1 .. par.period
      /\ t.gtsStart \in Nat /\ t.capEnd \in Nat /\ t.capEnd <= NumSlots
  <2>1. t \in Mac
    BY <1>1 DEF Hears
  <2> QED
    BY <2>1, MacFacts
<1>5. t.capEnd > 0
  <2>1. f.body \in Seq(Gts)
    BY DEF BeaconFrame
  <2>2. t.capEnd = CapLength(f.body) /\ CapLength(f.body) \in 1 .. NumSlots
    BY <1>1, <2>1, CapLengthOK DEF Hears
  <2> QED
    BY <2>2, ParFacts
<1>6. s.due["GTS_START"] = -1 /\ (s.due["SLEEP_START"] >= 0 => s.due["SLEEP_START"] <= NumSlots)
  <2>1. s.due["GTS_START"] = -1
    BY FrameIsOver
  <2>2. s.due["SLEEP_START"] >= 0 => s.due["SLEEP_START"] + s.pos <= NumSlots
    BY DEF LocalOK, StableOK, TimersOK
  <2>3. s.due["SLEEP_START"] \in Int /\ s.pos \in Nat /\ NumSlots \in Nat
    BY <1>2, MacFacts
  <2> QED
    BY <2>1, <2>2, <2>3
<1>7. /\ v \in Mac /\ SameFrame(t, v) /\ SameLoad(t, v) /\ SameRadio(t, v)
      /\ v.state = t.state /\ v.lost = t.lost
      /\ v.due["BEACON_TIMEOUT"] = -1 /\ v.due["GTS_START"] = -1
      /\ v.due["SLEEP_START"] >= 0 => v.due["SLEEP_START"] <= NumSlots
  <2>1. CASE t.gtsStart # t.capEnd
    <3>1. /\ v \in Mac /\ SetsTimer(t, v, "SLEEP_START", t.capEnd) /\ SameFrame(t, v)
          /\ SameLoad(t, v) /\ SameRadio(t, v) /\ v.state = t.state /\ v.lost = t.lost
      BY <1>2, <1>4, <2>1, SetAfterOK
    <3>2. /\ v.due["BEACON_TIMEOUT"] = -1 /\ v.due["GTS_START"] = -1
          /\ v.due["SLEEP_START"] = t.capEnd
      BY <1>1, <1>2, <1>6, <3>1 DEF SetsTimer
    <3> HIDE DEF v
    <3>3. v.due["SLEEP_START"] <= NumSlots
      BY <1>4, <3>2
    <3> QED
      BY <3>1, <3>2, <3>3
  <2>2. CASE ~(t.gtsStart # t.capEnd)
    <3>1. v = t
      BY <2>2
    <3>2. /\ t.due["BEACON_TIMEOUT"] = -1 /\ t.due["GTS_START"] = -1
          /\ t.due["SLEEP_START"] = s.due["SLEEP_START"]
      BY <1>1, <1>2, <1>6 DEF SetsTimer
    <3> QED
      BY <1>4, <1>6, <3>1, <3>2 DEF SameFrame, SameLoad, SameRadio
  <2> QED
    BY <2>1, <2>2
<1> HIDE DEF v
<1>8. /\ u \in Mac /\ SameFrame(t, u) /\ SameLoad(t, u) /\ SameRadio(t, u)
      /\ u.state = t.state /\ u.lost = t.lost
      /\ u.due["BEACON_TIMEOUT"] = -1
      /\ u.due["SLEEP_START"] >= 0 => u.due["SLEEP_START"] <= NumSlots
      /\ u.due["GTS_START"] >= 0 => t.gtsStart > 0 /\ u.due["GTS_START"] = t.gtsStart
      /\ t.gtsStart > 0 => u.due["GTS_START"] >= 0
  <2>1. v.gtsStart = t.gtsStart
    BY <1>7 DEF SameFrame
  <2>2. CASE v.gtsStart > 0
    <3>1. /\ u \in Mac /\ SetsTimer(v, u, "GTS_START", v.gtsStart) /\ SameFrame(v, u)
          /\ SameLoad(v, u) /\ SameRadio(v, u) /\ u.state = v.state /\ u.lost = v.lost
      <4>1. u = SetAfter(v, "GTS_START", v.gtsStart)
        BY <2>2
      <4>2. v \in Mac /\ v.gtsStart \in -1 .. par.period
        BY <1>4, <1>7, <2>1
      <4> HIDE DEF u
      <4> QED
        BY <1>2, <4>1, <4>2, SetAfterOK
    <3>2. /\ u.due["BEACON_TIMEOUT"] = -1 /\ u.due["GTS_START"] = v.gtsStart
          /\ u.due["SLEEP_START"] = v.due["SLEEP_START"]
      BY <1>2, <1>7, <3>1 DEF SetsTimer
    <3>3. t.gtsStart >= 0
      BY <1>4
    <3> QED
      BY <1>7, <2>1, <2>2, <3>1, <3>2, <3>3 DEF SameFrame, SameLoad, SameRadio
  <2>3. CASE ~(v.gtsStart > 0)
    <3>1. u = v /\ ~(-1 >= 0)
      BY <2>3
    <3> QED
      BY <1>7, <2>1, <2>3, <3>1
  <2> QED
    BY <2>2, <2>3
<1> HIDE DEF u
<1>9. /\ SameLoad(s, u) /\ SameRadio(s, u) /\ u.pan = s.pan /\ u.addr = s.addr
  BY <1>1, <1>8 DEF SameLoad, SameRadio, SameFrame, Hears, SameStation
<1>10. Hears(s, u, f)
  BY <1>1, <1>8 DEF Hears, SameFrame, SameStation, OwnsIn
<1>11. CurOK(u) /\ Served(u)
  BY <1>9 DEF LocalOK, CurOK, PacketOK, BufferOK, Served, SameLoad
<1>12. ~u.joined => u.capEnd # u.gtsStart \/ u.due["GTS_START"] >= 0
  <2>1. u.capEnd = t.capEnd /\ u.gtsStart = t.gtsStart
    BY <1>8 DEF SameFrame
  <2>2. CASE t.gtsStart > 0
    BY <1>8, <2>2
  <2>3. CASE ~(t.gtsStart > 0)
    BY <1>4, <1>5, <2>1, <2>3
  <2> QED
    BY <2>2, <2>3
<1>13. u.gtsStart = t.gtsStart /\ u.tx = None
  BY <1>8, <1>9 DEF SameFrame, SameRadio
<1>14. Heard(s, u, f)
  BY <1>8, <1>9, <1>10, <1>11, <1>12, <1>13 DEF Heard
<1> QED
  BY <1>3, <1>14 DEF t

LEMMA AssociateOK ==
  ASSUME par \in Settings, NEW s \in Mac, LocalOK(s), s.addr \in Node, s.addr \in On,
         s.tx = None, s.pan = None, NEW f \in BeaconFrame, ListOK(f.body), NEW fits
  PROVE  Heard(s, Associate(ReadBeacon(s, f), f, fits), f)
<1> DEFINE t == ReadBeacon(s, f)
           b == SetAfter(t, "BACK_TO_SETUP", t.capEnd)
           r == NewConnectionRequest(b.addr, f.pan)
           u == TransmitPacket(b, r, FALSE, fits)
<1>1. /\ Hears(s, t, f) /\ SetsTimer(s, t, "BEACON_TIMEOUT", -1)
      /\ t.timers = s.timers /\ SameLoad(s, t) /\ SameRadio(s, t)
  BY ReadBeaconOK
<1>2. /\ "BEACON_TIMEOUT" \in SlowTimer /\ "SLEEP_START" \in SlowTimer /\ "GTS_START" \in SlowTimer
      /\ "BACK_TO_SETUP" \in SlowTimer
  BY DEF SlowTimer
<1> HIDE DEF t
<1>3. t \in Mac /\ t.capEnd \in -1 .. par.period
  <2>1. t \in Mac
    BY <1>1 DEF Hears
  <2> QED
    BY <2>1, MacFacts
<1>4. /\ b \in Mac /\ SetsTimer(t, b, "BACK_TO_SETUP", t.capEnd) /\ SameFrame(t, b)
      /\ SameLoad(t, b) /\ SameRadio(t, b) /\ b.timers = t.timers /\ b.state = t.state
      /\ b.lost = t.lost
  BY <1>2, <1>3, SetAfterOK
<1> HIDE DEF b
<1>5. Associate(t, f, fits) = u
  BY <1>4 DEF Associate, b, SameFrame
<1>6. /\ b.addr = s.addr /\ b.pan = None /\ b.joined /\ b.beaconOf = f.pan /\ b.tx = None
      /\ b.state = "CAP" /\ b.buffer = s.buffer
  BY <1>1, <1>4 DEF Hears, SameStation, SameFrame, SameLoad, SameRadio
<1>7. f.pan \in Coord /\ f.pan # None /\ f.pan \in Station /\ f.pan \in Address
  BY ParFacts DEF BeaconFrame, Station, Address
<1>8. r \in OtherFrame /\ PacketOK(r, b)
  <2>1. b.addr \in Station
    BY <1>4, MacFacts
  <2>2. r \in OtherFrame
    BY <1>7, <2>1 DEF NewConnectionRequest, Frame, OtherFrame
  <2>3. r.type = "ASSOCIATE" /\ r.src = b.addr /\ r.dst = f.pan /\ r.pan = f.pan
    BY DEF NewConnectionRequest, Frame
  <2> QED
    BY <1>6, <1>7, <2>2, <2>3 DEF PacketOK
<1> HIDE DEF r, u
<1>9. BufferOK(b) /\ SlotOK(b) /\ TxOK(b) /\ b.addr \in On
  BY <1>6 DEF LocalOK, CurOK, BufferOK, SlotOK, TxOK
<1>10. Tries(b, u) /\ SensesFirst(b, u)
  BY <1>4, <1>6, <1>8, <1>9, TransmitPacketOK DEF u
<1>11. u \in Mac /\ Same(b, u) /\ CurOK(u) /\ u.tx = None
  BY <1>6, <1>10 DEF Tries, SensesFirst, SameRadio
<1>12. Hears(s, u, f)
  BY <1>1, <1>4, <1>11 DEF Hears, SameFrame, Same, SameStation, OwnsIn
<1>13. ~(s.due["SLEEP_START"] >= 0) /\ ~(s.due["GTS_START"] >= 0)
  BY DEF LocalOK, StableOK, TimersOK
<1>14. /\ u.due["BEACON_TIMEOUT"] = -1 /\ u.due["SLEEP_START"] = s.due["SLEEP_START"]
       /\ u.due["GTS_START"] = s.due["GTS_START"]
  BY <1>1, <1>2, <1>4, <1>11 DEF SetsTimer, Same
<1>15. Served(u) /\ u.joined
  BY <1>6, <1>11 DEF Served, Same
<1>16. Heard(s, u, f)
  BY <1>11, <1>12, <1>13, <1>14, <1>15 DEF Heard
<1> QED
  BY <1>5, <1>16 DEF t

LEMMA ReceiveBeaconOK ==
  ASSUME par \in Settings, NEW s \in Mac, LocalOK(s), s.addr \in On, s.tx = None,
         NEW f \in BeaconFrame, ListOK(f.body), NEW fits,
         s.addr \in Node /\ s.pan = f.pan => s.pos = par.period
  PROVE  LET t == ReceiveBeacon(s, f, fits)
         IN  \/ t = s
             \/ /\ t \in Mac /\ LocalOK(t) /\ t.tx = None /\ s.addr \in Node
                /\ t.pos = 0 /\ t.beaconOf = f.pan /\ t.capEnd = CapLength(f.body)
                /\ OwnsIn(t, f.body) /\ SameStation(s, t)
<1> DEFINE r == ReadBeacon(s, f)
           u == IF s.pan = f.pan THEN ScheduleFrame(r) ELSE Associate(r, f, fits)
           v == AttemptTransmission(u, fits)
           t == SetAfter(v, "FRAME_START", par.period)
<1>1. CASE s.addr \in Coord \/ s.pan \notin {None, f.pan}
  BY <1>1 DEF ReceiveBeacon
<1>2. CASE ~(s.addr \in Coord \/ s.pan \notin {None, f.pan})
  <2>1. ReceiveBeacon(s, f, fits) = t
    BY <1>2 DEF ReceiveBeacon
  <2>2. s.addr \in Node /\ s.pan \in {None, f.pan} /\ f.pan # None
    BY <1>2, MacFacts, ParFacts DEF BeaconFrame
  <2>3. Heard(s, u, f)
    <3>1. CASE s.pan = f.pan
      <4>1. u = ScheduleFrame(r)
        BY <3>1
      <4>2. s.pan # None /\ s.pos = par.period
        BY <2>2, <3>1
      <4> QED
        BY <2>2, <3>1, <4>1, <4>2, ScheduleFrameOK
    <3>2. CASE s.pan # f.pan
      <4>1. u = Associate(r, f, fits)
        BY <3>2
      <4> QED
        BY <2>2, <3>2, <4>1, AssociateOK
    <3> QED
      BY <3>1, <3>2
  <2> HIDE DEF u
  <2>4. /\ u \in Mac /\ u.pos = 0 /\ u.beaconOf = f.pan /\ u.capEnd = CapLength(f.body)
        /\ u.lost = 0 /\ u.joined = (s.pan = None) /\ u.state = "CAP"
        /\ u.gtsStart > 0 => u.gtsStart < u.gtsEnd
        /\ OwnsIn(u, f.body) /\ SameStation(s, u)
        /\ CurOK(u) /\ Served(u) /\ u.tx = None
    BY <2>3 DEF Heard, Hears
  <2>5. u.capEnd > 0 /\ u.gtsStart \in Nat /\ u.capEnd \in Nat
    <3>1. f.body \in Seq(Gts)
      BY DEF BeaconFrame
    <3>2. CapLength(f.body) \in 1 .. NumSlots
      BY <3>1, CapLengthOK
    <3> QED
      BY <2>4, <3>2, MacFacts, ParFacts
  <2>6. SlotOK(u)
    <3>1. u.capEnd = u.gtsStart => 0 < u.gtsStart /\ u.pos <= u.gtsStart
      BY <2>4, <2>5
    <3> QED
      BY <2>4, <3>1 DEF SlotOK
  <2>7. MayAttempt(u)
    BY <2>4, <2>6 DEF MayAttempt, SameStation
  <2>8. Tries(u, v) /\ SensesFirst(u, v) /\ Served(v)
    BY <2>4, <2>7, AttemptTransmissionOK
  <2> HIDE DEF v
  <2>9. /\ v \in Mac /\ Same(u, v) /\ CurOK(v) /\ Counted(v) /\ v.tx = None
    BY <2>4, <2>8 DEF Tries, SensesFirst, SameRadio
  <2>10. /\ "FRAME_START" \in SlowTimer /\ "BEACON_TIMEOUT" \in SlowTimer
         /\ "SLEEP_START" \in SlowTimer /\ "GTS_START" \in SlowTimer
         /\ par.period \in -1 .. par.period
    BY MacFacts DEF SlowTimer
  <2>11. /\ t \in Mac /\ SetsTimer(v, t, "FRAME_START", par.period) /\ SameFrame(v, t)
         /\ SameLoad(v, t) /\ SameRadio(v, t) /\ t.timers = v.timers /\ t.state = v.state
         /\ t.lost = v.lost
    BY <2>9, <2>10, SetAfterOK
  <2> HIDE DEF t
  <2>12. /\ t.pos = 0 /\ t.beaconOf = f.pan /\ t.capEnd = CapLength(f.body)
         /\ t.lost = 0 /\ t.joined = (s.pan = None) /\ t.state = "CAP"
         /\ t.gtsStart = u.gtsStart /\ t.gtsEnd = u.gtsEnd
         /\ SameStation(s, t) /\ t.tx = None /\ t.capEnd = u.capEnd
    BY <2>4, <2>9, <2>11 DEF Same, SameFrame, SameStation, SameRadio
  <2>13. /\ t.due["FRAME_START"] = par.period /\ t.due["BEACON_TIMEOUT"] = -1
         /\ t.due["SLEEP_START"] = u.due["SLEEP_START"] /\ t.due["GTS_START"] = u.due["GTS_START"]
    BY <2>3, <2>9, <2>10, <2>11 DEF SetsTimer, Same, Heard
  <2>14. TimersOK(t)
    <3>1. /\ t.due["SLEEP_START"] >= 0 => t.due["SLEEP_START"] <= NumSlots /\ t.pan # None
          /\ t.due["GTS_START"] >= 0 => /\ t.gtsStart > 0 /\ t.due["GTS_START"] = t.gtsStart
                                        /\ t.pan # None
      BY <2>3, <2>4, <2>12, <2>13 DEF Heard, SameStation
    <3>2. /\ t.due["SLEEP_START"] \in Int /\ t.due["GTS_START"] \in Int /\ t.gtsStart \in Nat
          /\ par.period >= 0 /\ par.period + 0 >= par.period /\ 0 < MaxLostBeacons
          /\ -1 # 0
      BY <2>10, <2>11, MacFacts
    <3>3. /\ t.due["SLEEP_START"] >= 0 => t.due["SLEEP_START"] + t.pos <= NumSlots
          /\ t.due["GTS_START"] >= 0 => t.due["GTS_START"] + t.pos = t.gtsStart
      BY <2>12, <3>1, <3>2
    <3> QED
      BY <2>12, <2>13, <3>1, <3>2, <3>3 DEF TimersOK
  <2>15. NodeOK(t)
    <3>1. /\ t.gtsStart > 0 => t.gtsStart < t.gtsEnd
          /\ ~t.joined => t.capEnd # t.gtsStart \/ t.due["GTS_START"] >= 0
      BY <2>3, <2>4, <2>12, <2>13 DEF Heard
    <3>2. t.pan = s.pan /\ t.assigned = s.assigned /\ (s.pan = None => s.assigned = 0)
      BY <2>2, <2>12 DEF SameStation, LocalOK, StableOK, NodeOK
    <3> QED
      BY <2>2, <2>12, <3>1, <3>2 DEF NodeOK
  <2>16. t.addr = s.addr /\ t.gtsList = s.gtsList /\ t.beacon = s.beacon
    BY <2>12 DEF SameStation
  <2>17. CoordOK(t) /\ OffOK(t) /\ ListOK(t.gtsList) /\ ListOK(t.beacon)
    BY <2>2, <2>16, MacFacts DEF LocalOK, StableOK, CoordOK, OffOK
  <2>18. CurOK(t) /\ Counted(t) /\ Served(t) /\ TxOK(t)
    BY <2>8, <2>9, <2>11, <2>12
       DEF CurOK, PacketOK, BufferOK, Counted, Served, TxOK, SameFrame, SameLoad
  <2>19. LocalOK(t)
    BY <2>14, <2>15, <2>17, <2>18 DEF LocalOK, StableOK
  <2>20. OwnsIn(t, f.body)
    BY <2>4, <2>12, <2>16 DEF OwnsIn, SameStation
  <2> QED
    BY <2>1, <2>2, <2>11, <2>12, <2>19, <2>20
<1> QED
  BY <1>1, <1>2

-----------------------------------------------------------------------------
(* A station is asked, and answers with an ACK.                             *)
Grows(list, new) == \A i \in DOMAIN list : i \in DOMAIN new /\ new[i] = list[i]

Answered(s, t, f) ==
    /\ t \in Mac /\ LocalOK(t) /\ t.tx = f /\ f \in OtherFrame /\ f.type = "ACK"
    /\ t.addr = s.addr /\ t.pan = s.pan /\ t.pos = s.pos /\ t.beaconOf = s.beaconOf
    /\ t.joined = s.joined /\ t.capEnd = s.capEnd /\ t.gtsStart = s.gtsStart
    /\ t.gtsEnd = s.gtsEnd /\ t.assigned = s.assigned /\ t.beacon = s.beacon
    /\ s.devices \subseteq t.devices /\ Grows(s.gtsList, t.gtsList)

LEMMA DevicesOK ==
  ASSUME NEW s \in Mac, NEW d \in SUBSET Station
  PROVE  LET t == [s EXCEPT !.devices = d]
         IN  /\ t \in Mac /\ t.devices = d /\ t.gtsList = s.gtsList /\ t.due = s.due
             /\ t.timers = s.timers /\ t.state = s.state /\ t.lost = s.lost
             /\ t.addr = s.addr /\ t.pan = s.pan /\ t.pos = s.pos /\ t.beaconOf = s.beaconOf
             /\ t.joined = s.joined /\ t.capEnd = s.capEnd /\ t.gtsStart = s.gtsStart
             /\ t.gtsEnd = s.gtsEnd /\ t.assigned = s.assigned /\ t.beacon = s.beacon
             /\ SameLoad(s, t) /\ SameRadio(s, t)
BY DEF Mac, SameLoad, SameRadio

LEMMA GtsListOK ==
  ASSUME NEW s \in Mac, NEW l \in Seq(Gts)
  PROVE  LET t == [s EXCEPT !.gtsList = l]
         IN  /\ t \in Mac /\ t.gtsList = l /\ t.devices = s.devices /\ t.due = s.due
             /\ t.timers = s.timers /\ t.state = s.state /\ t.lost = s.lost
             /\ t.addr = s.addr /\ t.pan = s.pan /\ t.pos = s.pos /\ t.beaconOf = s.beaconOf
             /\ t.joined = s.joined /\ t.capEnd = s.capEnd /\ t.gtsStart = s.gtsStart
             /\ t.gtsEnd = s.gtsEnd /\ t.assigned = s.assigned /\ t.beacon = s.beacon
             /\ SameLoad(s, t) /\ SameRadio(s, t)
BY DEF Mac, SameLoad, SameRadio

LEMMA AnswerDevices ==
  ASSUME NEW v \in Mac, NEW f \in OtherFrame
  PROVE  LET t == Answer(v, f) IN t.devices = v.devices /\ t.gtsList = v.gtsList
<1>1. Send(v, f) \in Mac /\ Same(v, Send(v, f))
  BY SendOK
<1>2. Same(Send(v, f), Set(Send(v, f), "ATTEMPT_TX"))
  BY <1>1, SetOK DEF FastTimer
<1> QED
  BY <1>1, <1>2 DEF Answer, Same

LEMMA AnswerOK ==
  ASSUME par \in Settings, NEW s \in Mac, LocalOK(s), s.addr \in On, s.tx = None,
         NEW v \in Mac, s.devices \subseteq v.devices, Grows(s.gtsList, v.gtsList),
         ListOK(v.gtsList), v.due = s.due,
         v.timers = s.timers, v.state = s.state, v.lost = s.lost,
         v.addr = s.addr, v.pan = s.pan, v.pos = s.pos, v.beaconOf = s.beaconOf,
         v.joined = s.joined, v.capEnd = s.capEnd, v.gtsStart = s.gtsStart,
         v.gtsEnd = s.gtsEnd, v.assigned = s.assigned, v.beacon = s.beacon,
         SameLoad(s, v), SameRadio(s, v),
         NEW f \in OtherFrame, f.type = "ACK", f.src = s.addr
  PROVE  Answered(s, Answer(v, f), f)
<1> DEFINE w == Send(v, f)
           t == Set(w, "ATTEMPT_TX")
<1>1. Answer(v, f) = t
  BY DEF Answer
<1>2. /\ w \in Mac /\ w.tx = f /\ w.radio = "RX" /\ w.timers = v.timers
      /\ Same(v, w) /\ SameLoad(v, w)
  BY SendOK
<1> HIDE DEF w
<1>3. /\ t \in Mac /\ t.timers = w.timers \cup {"ATTEMPT_TX"}
      /\ Same(w, t) /\ SameLoad(w, t) /\ SameRadio(w, t)
  BY <1>2, SetOK DEF FastTimer
<1> HIDE DEF t
<1>4. /\ t.due = s.due /\ t.timers = s.timers \cup {"ATTEMPT_TX"} /\ t.state = s.state
      /\ t.lost = s.lost /\ t.addr = s.addr /\ t.pan = s.pan /\ t.pos = s.pos
      /\ t.beaconOf = s.beaconOf /\ t.joined = s.joined /\ t.capEnd = s.capEnd
      /\ t.gtsStart = s.gtsStart /\ t.gtsEnd = s.gtsEnd /\ t.assigned = s.assigned
      /\ t.beacon = s.beacon /\ t.gtsList = v.gtsList /\ t.devices = v.devices
      /\ SameLoad(s, t) /\ t.tx = f /\ t.radio = "RX"
  BY <1>2, <1>3 DEF Same, SameLoad, SameRadio
<1>5. StableOK(s) /\ CurOK(s) /\ Counted(s) /\ Served(s)
  BY DEF LocalOK
<1>6. CoordOK(t) /\ TimersOK(t) /\ OffOK(t) /\ NodeOK(t)
  BY <1>4, <1>5 DEF StableOK, CoordOK, TimersOK, OffOK, NodeOK
<1>7. CurOK(t) /\ Counted(t) /\ Served(t)
  BY <1>4, <1>5 DEF CurOK, PacketOK, BufferOK, Counted, Served, SameLoad
<1>8. TxOK(t)
  BY <1>4 DEF TxOK, Asks
<1>9. LocalOK(t)
  BY <1>4, <1>5, <1>6, <1>7, <1>8 DEF LocalOK, StableOK
<1> QED
  BY <1>1, <1>3, <1>4, <1>9 DEF Answered

(* What a station makes of a frame that asks for an ACK                     *)
LEMMA ReceiveAssociateOK ==
  ASSUME par \in Settings, NEW s \in Mac, LocalOK(s), s.addr \in On, s.tx = None,
         NEW f \in OtherFrame, f.type = "ASSOCIATE"
  PROVE  LET t == ReceiveAssociate(s, f)
         IN  \/ t = s
             \/ /\ Answered(s, t, t.tx) /\ t.tx.dst = f.src /\ t.tx.pan = s.addr
                /\ f.src \in t.devices
<1> DEFINE d == s.devices \cup {f.src}
           v == [s EXCEPT !.devices = d]
           a == Ack(s.addr, f, s.addr, 0)
           t == Answer(v, a)
<1>1. CASE s.addr \notin Coord
  BY <1>1 DEF ReceiveAssociate
<1>2. CASE s.addr \in Coord
  <2>1. ReceiveAssociate(s, f) = t
    BY <1>2 DEF ReceiveAssociate
  <2>2. f.src \in Station /\ s.addr \in Station /\ s.devices \subseteq Station
    BY DEF OtherFrame, Mac
  <2>3. d \in SUBSET Station
    BY <2>2
  <2> HIDE DEF d
  <2>4. /\ v \in Mac /\ v.devices = d /\ v.gtsList = s.gtsList /\ v.due = s.due
        /\ v.timers = s.timers /\ v.state = s.state /\ v.lost = s.lost
        /\ v.addr = s.addr /\ v.pan = s.pan /\ v.pos = s.pos /\ v.beaconOf = s.beaconOf
        /\ v.joined = s.joined /\ v.capEnd = s.capEnd /\ v.gtsStart = s.gtsStart
        /\ v.gtsEnd = s.gtsEnd /\ v.assigned = s.assigned /\ v.beacon = s.beacon
        /\ SameLoad(s, v) /\ SameRadio(s, v)
    BY <2>3, DevicesOK
  <2> HIDE DEF v
  <2>5. /\ a \in OtherFrame /\ a.type = "ACK" /\ a.src = s.addr /\ a.dst = f.src
        /\ a.pan = s.addr
    BY <2>2 DEF Ack, Frame, OtherFrame, Address
  <2> HIDE DEF a
  <2>6. /\ s.devices \subseteq v.devices /\ f.src \in v.devices
        /\ Grows(s.gtsList, v.gtsList) /\ ListOK(v.gtsList)
    BY <2>4 DEF d, Grows, LocalOK, StableOK
  <2>7. Answered(s, t, a)
    BY <2>4, <2>5, <2>6, AnswerOK
  <2>8. f.src \in t.devices
    <3>1. t.devices = v.devices
      BY <2>4, <2>5, AnswerDevices
    <3> QED
      BY <2>6, <3>1
  <2> HIDE DEF t
  <2>9. t.tx = a
    BY <2>7 DEF Answered
  <2> QED
    BY <2>1, <2>5, <2>7, <2>8, <2>9
<1> QED
  BY <1>1, <1>2

LEMMA ReceiveGtsRequestOK ==
  ASSUME par \in Settings, NEW s \in Mac, LocalOK(s), s.addr \in On, s.tx = None,
         NEW f \in OtherFrame, f.body > 0, f.body = par.requestGTS[f.src]
  PROVE  LET t == ReceiveGtsRequest(s, f)
         IN  \/ t = s
             \/ /\ Answered(s, t, t.tx) /\ t.tx.dst = f.src /\ t.tx.pan = s.addr
                /\ t.tx.body > 0 => Holds(t, f.src, t.tx.body)
<1> DEFINE g == GtsRequest(s.gtsList, f.src, f.body)
           l == g.list
           v == [s EXCEPT !.gtsList = l]
           a == Ack(s.addr, f, s.addr, g.granted)
           t == Answer(v, a)
<1>1. CASE s.addr \notin Coord
  BY <1>1 DEF ReceiveGtsRequest
<1>2. CASE s.addr \in Coord
  <2>1. ReceiveGtsRequest(s, f) = t
    BY <1>2 DEF ReceiveGtsRequest
  <2>2. /\ f.src \in Station /\ f.body \in Nat /\ s.addr \in Station
        /\ s.gtsList \in Seq(Gts) /\ ListOK(s.gtsList)
    BY DEF OtherFrame, Mac, LocalOK, StableOK
  <2>3. /\ g.list \in Seq(Gts) /\ ListOK(g.list) /\ g.granted \in Nat
        /\ Grows(s.gtsList, g.list)
        /\ g.granted > 0 =>
             \E i \in DOMAIN g.list : g.list[i].owner = f.src /\ g.list[i].length = g.granted
    BY <2>2, GtsRequestOK DEF Grows
  <2> HIDE DEF g
  <2>4. l \in Seq(Gts)
    BY <2>3
  <2> HIDE DEF l
  <2>5. /\ v \in Mac /\ v.gtsList = l /\ v.devices = s.devices /\ v.due = s.due
        /\ v.timers = s.timers /\ v.state = s.state /\ v.lost = s.lost
        /\ v.addr = s.addr /\ v.pan = s.pan /\ v.pos = s.pos /\ v.beaconOf = s.beaconOf
        /\ v.joined = s.joined /\ v.capEnd = s.capEnd /\ v.gtsStart = s.gtsStart
        /\ v.gtsEnd = s.gtsEnd /\ v.assigned = s.assigned /\ v.beacon = s.beacon
        /\ SameLoad(s, v) /\ SameRadio(s, v)
    BY <2>4, GtsListOK
  <2> HIDE DEF v
  <2>6. /\ a \in OtherFrame /\ a.type = "ACK" /\ a.src = s.addr /\ a.dst = f.src
        /\ a.pan = s.addr /\ a.body = g.granted
    BY <2>2, <2>3 DEF Ack, Frame, OtherFrame, Address
  <2> HIDE DEF a
  <2>7. /\ s.devices \subseteq v.devices /\ Grows(s.gtsList, v.gtsList) /\ ListOK(v.gtsList)
    BY <2>3, <2>5 DEF l
  <2>8. Answered(s, t, a)
    BY <2>5, <2>6, <2>7, AnswerOK
  <2>9. t.gtsList = g.list
    <3>1. t.gtsList = v.gtsList
      BY <2>5, <2>6, AnswerDevices
    <3> QED
      BY <2>5, <3>1 DEF l
  <2> HIDE DEF t
  <2>10. t.tx = a
    BY <2>8 DEF Answered
  <2>11. t.tx.body > 0 => Holds(t, f.src, t.tx.body)
    BY <2>3, <2>6, <2>9, <2>10 DEF Holds
  <2> QED
    BY <2>1, <2>6, <2>8, <2>10, <2>11
<1> QED
  BY <1>1, <1>2

LEMMA ReceiveDataOK ==
  ASSUME par \in Settings, NEW s \in Mac, LocalOK(s), s.addr \in On, s.tx = None,
         NEW f \in OtherFrame
  PROVE  LET t == ReceiveData(s, f)
         IN  \/ t = s
             \/ Answered(s, t, t.tx) /\ t.tx.dst = f.src /\ t.tx.pan = s.addr /\ f.dst # Broadcast
<1> DEFINE a == Ack(s.addr, f, s.addr, f.body)
           t == Answer(s, a)
<1>1. CASE f.dst = Broadcast
  BY <1>1 DEF ReceiveData
<1>2. CASE f.dst # Broadcast
  <2>1. ReceiveData(s, f) = t
    BY <1>2 DEF ReceiveData
  <2>2. f.src \in Station /\ f.body \in Nat /\ s.addr \in Station
    BY DEF OtherFrame, Mac
  <2>3. /\ a \in OtherFrame /\ a.type = "ACK" /\ a.src = s.addr /\ a.dst = f.src
        /\ a.pan = s.addr
    BY <2>2 DEF Ack, Frame, OtherFrame, Address
  <2> HIDE DEF a
  <2>4. /\ SameLoad(s, s) /\ SameRadio(s, s) /\ Grows(s.gtsList, s.gtsList)
        /\ ListOK(s.gtsList)
    BY DEF SameLoad, SameRadio, Grows, LocalOK, StableOK
  <2>5. Answered(s, t, a)
    BY <2>3, <2>4, AnswerOK
  <2> HIDE DEF t
  <2>6. t.tx = a
    BY <2>5 DEF Answered
  <2> QED
    BY <1>2, <2>1, <2>3, <2>5, <2>6
<1> QED
  BY <1>1, <1>2

-----------------------------------------------------------------------------
(* A station hears an ACK.                                                  *)
JoinedPan(s, p) == [s EXCEPT !.pan = p, !.state = "CAP"]

LEMMA JoinedPanOK ==
  ASSUME NEW s \in Mac, NEW p \in Coord
  PROVE  LET t == JoinedPan(s, p)
         IN  /\ t \in Mac /\ t.pan = p /\ t.state = "CAP" /\ t.due = s.due /\ t.lost = s.lost
             /\ t.timers = s.timers /\ t.addr = s.addr /\ t.pos = s.pos /\ t.beaconOf = s.beaconOf
             /\ t.joined = s.joined /\ t.capEnd = s.capEnd /\ t.gtsStart = s.gtsStart
             /\ t.gtsEnd = s.gtsEnd /\ t.assigned = s.assigned /\ t.devices = s.devices
             /\ t.gtsList = s.gtsList /\ t.beacon = s.beacon
             /\ SameLoad(s, t) /\ SameRadio(s, t)
BY DEF JoinedPan, Mac, SameLoad, SameRadio

LEMMA AssignedOK ==
  ASSUME NEW s \in Mac, NEW a \in Nat
  PROVE  LET t == [s EXCEPT !.assigned = a]
         IN  /\ t \in Mac /\ t.assigned = a /\ t.pan = s.pan /\ t.state = s.state
             /\ t.due = s.due /\ t.lost = s.lost
             /\ t.timers = s.timers /\ t.addr = s.addr /\ t.pos = s.pos /\ t.beaconOf = s.beaconOf
             /\ t.joined = s.joined /\ t.capEnd = s.capEnd /\ t.gtsStart = s.gtsStart
             /\ t.gtsEnd = s.gtsEnd /\ t.devices = s.devices
             /\ t.gtsList = s.gtsList /\ t.beacon = s.beacon
             /\ SameLoad(s, t) /\ SameRadio(s, t)
BY DEF Mac, SameLoad, SameRadio

(* The station has the ACK f of the station whose PAN it names.             *)
Acked(s, t, f) ==
    /\ t \in Mac /\ LocalOK(t) /\ t.addr = s.addr /\ t.beaconOf = s.beaconOf
    /\ t.joined = s.joined /\ t.pos = s.pos /\ t.capEnd = s.capEnd
    /\ t.gtsStart = s.gtsStart /\ t.gtsEnd = s.gtsEnd
    /\ t.devices = s.devices /\ t.gtsList = s.gtsList /\ t.beacon = s.beacon
    /\ \/ t.tx = None
       \/ t.tx # None /\ t.tx.type \notin {"ACK", "BEACON"} /\ t.pan = s.pan /\ InSlot(s)
    /\ \/ t.pan = s.pan /\ t.assigned = s.assigned
       \/ s.cur # None /\ s.cur.type = "ASSOCIATE" /\ t.pan = f.pan /\ t.assigned = 0
       \/ /\ s.cur # None /\ s.cur.type = "GTS_REQUEST" /\ t.pan = f.pan /\ s.pan = f.pan
          /\ t.assigned = f.body

LEMMA HandleAckOK ==
  ASSUME par \in Settings, NEW s \in Mac, LocalOK(s), s.addr \in On, s.tx = None,
         NEW f \in OtherFrame, s.cur # None => f.pan = s.cur.dst, NEW fits
  PROVE  Acked(s, HandleAck(s, f, fits), f)
<1> DEFINE t == HandleAck(s, f, fits)
           c == Cancel(s, "ACK_TIMEOUT")
<1>1. /\ c \in Mac /\ c.timers = s.timers \ {"ACK_TIMEOUT"}
      /\ Same(s, c) /\ SameLoad(s, c) /\ SameRadio(s, c)
  BY CancelOK DEF FastTimer
<1>2. StableOK(s) /\ CurOK(s) /\ Counted(s) /\ Served(s)
  BY DEF LocalOK
<1> HIDE DEF c
<1>3. StableOK(c)
  BY <1>1, <1>2 DEF StableOK, CoordOK, TimersOK, OffOK, NodeOK, Same, SameRadio
<1>4. /\ CurOK(c) /\ BufferOK(c) /\ TxOK(c) /\ c.addr \in On /\ c.tx = None
      /\ c.cur = s.cur /\ c.addr = s.addr /\ c.pan = s.pan /\ c.assigned = s.assigned
  BY <1>1, <1>2 DEF CurOK, PacketOK, BufferOK, TxOK, Same, SameLoad, SameRadio
<1>5. CASE s.cur = None
  <2>1. t = s
    BY <1>5 DEF HandleAck
  <2> QED
    BY <2>1 DEF Acked
<1>6. CASE s.cur # None /\ s.cur.type = "ASSOCIATE"
  <2> DEFINE v == JoinedPan(c, f.pan)
  <2>1. t = ClearCurrentPacket(v, fits)
    BY <1>6 DEF HandleAck, c, JoinedPan
  <2>2. /\ s.addr \in Node /\ s.pan = None /\ s.joined /\ s.beaconOf # None
        /\ f.pan = s.beaconOf
    BY <1>2, <1>6 DEF CurOK, PacketOK
  <2>3. f.pan \in Coord /\ f.pan # None
    BY <2>2, MacFacts
  <2>4. /\ v \in Mac /\ v.pan = f.pan /\ v.state = "CAP" /\ v.due = c.due /\ v.lost = c.lost
        /\ v.timers = c.timers /\ v.addr = c.addr /\ v.pos = c.pos /\ v.beaconOf = c.beaconOf
        /\ v.joined = c.joined /\ v.capEnd = c.capEnd /\ v.gtsStart = c.gtsStart
        /\ v.gtsEnd = c.gtsEnd /\ v.assigned = c.assigned /\ v.devices = c.devices
        /\ v.gtsList = c.gtsList /\ v.beacon = c.beacon
        /\ SameLoad(c, v) /\ SameRadio(c, v)
    BY <1>1, <2>3, JoinedPanOK
  <2> HIDE DEF v, t
  <2>5. v.addr \in Node /\ v.addr \notin Coord /\ v.joined /\ v.beaconOf = v.pan /\ v.pan # None
    BY <1>1, <2>2, <2>3, <2>4, MacFacts DEF Same
  <2>6. StableOK(v)
    <3>1. TimersOK(v)
      BY <1>3, <2>4, <2>5 DEF StableOK, TimersOK, SameRadio
    <3>2. NodeOK(v)
      BY <1>3, <2>4, <2>5 DEF StableOK, NodeOK
    <3> QED
      BY <1>3, <2>4, <2>5, <3>1, <3>2 DEF StableOK, CoordOK, OffOK
  <2>7. SlotOK(v)
    BY <2>4, <2>6, SlotFacts
  <2>8. BufferOK(v) /\ TxOK(v) /\ v.addr \in On /\ v.tx = None /\ v.cur # None
    BY <1>4, <1>6, <2>4 DEF BufferOK, TxOK, SameLoad, SameRadio
  <2>9. Tries(v, t) /\ SensesFirst(v, t) /\ Served(t)
    BY <2>1, <2>4, <2>7, <2>8, ClearOK
  <2>10. t \in Mac /\ LocalOK(t) /\ Same(v, t) /\ t.tx = None
    BY <2>4, <2>6, <2>8, <2>9, TriesLocal DEF Tries, SensesFirst, SameRadio
  <2>11. s.assigned = 0
    BY <1>2, <2>2 DEF StableOK, NodeOK
  <2>12. Acked(s, t, f)
    BY <1>1, <1>6, <2>4, <2>10, <2>11 DEF Acked, Same
  <2> QED
    BY <2>12 DEF t
<1>7. CASE s.cur # None /\ s.cur.type = "GTS_REQUEST"
  <2> DEFINE v == [c EXCEPT !.assigned = f.body]
  <2>1. t = ClearCurrentPacket(v, fits)
    BY <1>7 DEF HandleAck, c
  <2>2. s.addr \in Node /\ s.pan # None /\ f.pan = s.pan
    BY <1>2, <1>7 DEF CurOK, PacketOK
  <2>3. f.body \in Nat
    BY DEF OtherFrame
  <2>4. /\ v \in Mac /\ v.assigned = f.body /\ v.pan = c.pan /\ v.state = c.state
        /\ v.due = c.due /\ v.lost = c.lost
        /\ v.timers = c.timers /\ v.addr = c.addr /\ v.pos = c.pos /\ v.beaconOf = c.beaconOf
        /\ v.joined = c.joined /\ v.capEnd = c.capEnd /\ v.gtsStart = c.gtsStart
        /\ v.gtsEnd = c.gtsEnd /\ v.devices = c.devices
        /\ v.gtsList = c.gtsList /\ v.beacon = c.beacon
        /\ SameLoad(c, v) /\ SameRadio(c, v)
    BY <1>1, <2>3, AssignedOK
  <2> HIDE DEF v, t
  <2>5. v.pan # None
    BY <1>4, <2>2, <2>4
  <2>6. StableOK(v)
    BY <1>3, <2>4, <2>5 DEF StableOK, CoordOK, TimersOK, OffOK, NodeOK, SameRadio
  <2>7. SlotOK(v)
    BY <2>4, <2>6, SlotFacts
  <2>8. BufferOK(v) /\ TxOK(v) /\ v.addr \in On /\ v.tx = None /\ v.cur # None
    BY <1>4, <1>7, <2>4 DEF BufferOK, TxOK, SameLoad, SameRadio
  <2>9. Tries(v, t) /\ Served(t)
    BY <2>1, <2>4, <2>7, <2>8, ClearOK
  <2>10. t \in Mac /\ LocalOK(t) /\ Same(v, t) /\ Quiet(v, t)
    BY <2>4, <2>6, <2>9, TriesLocal, TriesQuiet DEF Tries
  <2>11. \/ t.tx = None
         \/ t.tx # None /\ t.tx.type \notin {"ACK", "BEACON"} /\ t.pan = s.pan /\ InSlot(s)
    BY <1>1, <2>4, <2>8, <2>10 DEF Quiet, InSlot, Same
  <2>12. Acked(s, t, f)
    BY <1>1, <1>7, <2>2, <2>4, <2>10, <2>11 DEF Acked, Same
  <2> QED
    BY <2>12 DEF t
<1>8. CASE s.cur # None /\ s.cur.type = "DATA" /\ s.cur.body = f.body
  <2>1. t = ClearCurrentPacket(c, fits)
    BY <1>8 DEF HandleAck, c
  <2> HIDE DEF t
  <2>2. SlotOK(c)
    BY <1>1, <1>3, SlotFacts
  <2>3. Tries(c, t) /\ Served(t)
    BY <1>1, <1>4, <1>8, <2>1, <2>2, ClearOK
  <2>4. t \in Mac /\ LocalOK(t) /\ Same(c, t) /\ Quiet(c, t)
    BY <1>1, <1>3, <2>3, TriesLocal, TriesQuiet DEF Tries
  <2>5. \/ t.tx = None
        \/ t.tx # None /\ t.tx.type \notin {"ACK", "BEACON"} /\ t.pan = s.pan /\ InSlot(s)
    BY <1>1, <1>4, <2>4 DEF Quiet, InSlot, Same
  <2>6. Acked(s, t, f)
    BY <1>1, <2>4, <2>5 DEF Acked, Same
  <2> QED
    BY <2>6 DEF t
<1>9. CASE s.cur # None /\ s.cur.type = "DATA" /\ s.cur.body # f.body
  <2>1. t = AttemptTransmission(c, fits)
    BY <1>9 DEF HandleAck, c
  <2> HIDE DEF t
  <2>2. c.timers \subseteq s.timers /\ c.buffer = s.buffer /\ c.retries = s.retries
    BY <1>1 DEF SameLoad
  <2>3. Goes(s, t) /\ t.pan = s.pan /\ t.assigned = s.assigned
    BY <1>1, <1>4, <2>1, <2>2, TryOK
  <2>4. Acked(s, t, f)
    BY <2>3 DEF Acked, Goes, Quiet
  <2> QED
    BY <2>4 DEF t
<1>10. s.cur # None => s.cur.type \in {"ASSOCIATE", "GTS_REQUEST", "DATA"}
  <2>1. s.cur # None => s.cur \in OtherFrame /\ s.cur.type # "ACK"
    BY <1>2 DEF Mac, CurOK, PacketOK
  <2> QED
    BY <2>1 DEF OtherFrame
<1> QED
  BY <1>5, <1>6, <1>7, <1>8, <1>9, <1>10

-----------------------------------------------------------------------------
(* The radio has sent its frame, and the next slot comes.                   *)
Sent(s) == [s EXCEPT !.tx = None]

LEMMA SentOK ==
  ASSUME NEW s \in Mac, LocalOK(s)
  PROVE  LET t == Sent(s)
         IN  /\ t \in Mac /\ LocalOK(t) /\ t.tx = None /\ t.radio = s.radio
             /\ Same(s, t) /\ SameLoad(s, t) /\ t.timers = s.timers
<1> DEFINE t == Sent(s)
<1>1. /\ t \in Mac /\ t.tx = None /\ t.radio = s.radio
      /\ Same(s, t) /\ SameLoad(s, t) /\ t.timers = s.timers
  BY DEF Sent, Mac, Same, SameLoad
<1> HIDE DEF t
<1>2. StableOK(s) /\ CurOK(s) /\ Counted(s) /\ Served(s)
  BY DEF LocalOK
<1>3. StableOK(t)
  BY <1>1, <1>2 DEF StableOK, CoordOK, TimersOK, OffOK, NodeOK, Same
<1>4. CurOK(t) /\ Counted(t) /\ Served(t) /\ TxOK(t)
  BY <1>1, <1>2 DEF CurOK, PacketOK, BufferOK, Counted, Served, TxOK, Same, SameLoad
<1> QED
  BY <1>1, <1>3, <1>4 DEF LocalOK, t

Later(s, due, pos) == [s EXCEPT !.pos = pos, !.due = due]

LEMMA LaterOK ==
  ASSUME NEW s \in Mac, NEW due \in [SlowTimer -> -1 .. par.period],
         NEW pos \in 0 .. par.period
  PROVE  LET t == Later(s, due, pos)
         IN  /\ t \in Mac /\ t.pos = pos /\ t.due = due /\ t.timers = s.timers
             /\ t.addr = s.addr /\ t.state = s.state /\ t.pan = s.pan
             /\ t.beaconOf = s.beaconOf /\ t.joined = s.joined /\ t.capEnd = s.capEnd
             /\ t.gtsStart = s.gtsStart /\ t.gtsEnd = s.gtsEnd /\ t.lost = s.lost
             /\ t.assigned = s.assigned /\ t.devices = s.devices
             /\ t.gtsList = s.gtsList /\ t.beacon = s.beacon
             /\ SameLoad(s, t) /\ SameRadio(s, t)
BY DEF Later, Mac, SameLoad, SameRadio

(* A slot later, if no timer is due in this one                             *)
LEMMA NextSlotOK ==
  ASSUME par \in Settings, NEW s \in Mac, LocalOK(s), s.tx = None,
         \A x \in SlowTimer : s.due[x] # 0
  PROVE  LET t == NextSlot(s)
         IN  /\ t \in Mac /\ LocalOK(t) /\ t.tx = None
             /\ t.pos = (IF s.pos < par.period THEN s.pos + 1 ELSE s.pos)
             /\ t.addr = s.addr /\ t.pan = s.pan /\ t.beaconOf = s.beaconOf
             /\ t.capEnd = s.capEnd /\ t.gtsStart = s.gtsStart /\ t.gtsEnd = s.gtsEnd
             /\ t.assigned = s.assigned /\ t.devices = s.devices
             /\ t.gtsList = s.gtsList /\ t.beacon = s.beacon
<1> DEFINE pos == IF s.pos < par.period THEN s.pos + 1 ELSE s.pos
           due == [x \in SlowTimer |-> IF s.due[x] > 0 THEN s.due[x] - 1 ELSE s.due[x]]
           t == Later(s, due, pos)
<1>1. NextSlot(s) = t
  BY DEF NextSlot, Later, Mac
<1>2. pos \in 0 .. par.period /\ pos \in Nat
  BY MacFacts
<1>3. \A x \in SlowTimer : /\ due[x] \in -1 .. par.period
                           /\ s.due[x] = -1 => due[x] = -1
                           /\ s.due[x] # -1 => s.due[x] > 0 /\ due[x] = s.due[x] - 1
  <2> SUFFICES ASSUME NEW x \in SlowTimer
               PROVE  LET d == IF s.due[x] > 0 THEN s.due[x] - 1 ELSE s.due[x]
                      IN  /\ d \in -1 .. par.period
                          /\ s.due[x] = -1 => d = -1
                          /\ s.due[x] # -1 => s.due[x] > 0 /\ d = s.due[x] - 1
    OBVIOUS
  <2> DEFINE e == s.due[x]
             q == par.period
  <2>1. e \in -1 .. q /\ e # 0 /\ q \in Nat
    BY MacFacts
  <2> HIDE DEF e, q
  <2>2. LET d == IF e > 0 THEN e - 1 ELSE e
        IN  d \in -1 .. q /\ (e = -1 => d = -1) /\ (e # -1 => e > 0 /\ d = e - 1)
    BY <2>1
  <2> QED
    BY <2>2 DEF e, q
<1>4. due \in [SlowTimer -> -1 .. par.period]
  BY <1>3
<1> HIDE DEF due
<1>5. /\ t \in Mac /\ t.pos = pos /\ t.due = due /\ t.timers = s.timers
      /\ t.addr = s.addr /\ t.state = s.state /\ t.pan = s.pan
      /\ t.beaconOf = s.beaconOf /\ t.joined = s.joined /\ t.capEnd = s.capEnd
      /\ t.gtsStart = s.gtsStart /\ t.gtsEnd = s.gtsEnd /\ t.lost = s.lost
      /\ t.assigned = s.assigned /\ t.devices = s.devices
      /\ t.gtsList = s.gtsList /\ t.beacon = s.beacon
      /\ SameLoad(s, t) /\ SameRadio(s, t)
  BY <1>2, <1>4, LaterOK
<1> HIDE DEF t
<1>6. /\ StableOK(s) /\ CurOK(s) /\ Counted(s) /\ Served(s)
      /\ CoordOK(s) /\ TimersOK(s) /\ OffOK(s) /\ NodeOK(s)
  BY DEF LocalOK, StableOK
<1>7. /\ s.pos < par.period => pos = s.pos + 1
      /\ ~(s.pos < par.period) => pos = s.pos /\ s.pos = par.period
      /\ s.pos \in Nat /\ par.period \in Nat /\ s.pos <= par.period
      /\ s.gtsStart \in Nat /\ s.gtsEnd \in Nat /\ NumSlots \in Nat
      /\ s.capEnd \in Nat /\ NumSlots <= par.period /\ s.gtsStart <= NumSlots
  BY MacFacts
<1> HIDE DEF pos
<1>8. /\ "FRAME_START" \in SlowTimer /\ "BEACON_TIMEOUT" \in SlowTimer
      /\ "SLEEP_START" \in SlowTimer /\ "GTS_START" \in SlowTimer
      /\ \A x \in SlowTimer : s.due[x] \in Int /\ t.due[x] \in Int /\ s.due[x] >= -1
  <2>1. \A x \in SlowTimer : s.due[x] \in -1 .. par.period /\ t.due[x] \in -1 .. par.period
    BY <1>3, <1>5, MacFacts
  <2> QED
    BY <2>1, <1>7 DEF SlowTimer
<1>9. \A x \in SlowTimer : /\ s.due[x] = -1 <=> t.due[x] = -1
                           /\ t.due[x] >= 0 => s.due[x] > 0 /\ s.due[x] = t.due[x] + 1
                           /\ s.due[x] >= 0 => t.due[x] >= 0
  BY <1>3, <1>5, <1>8
<1>10. s.addr \in Node => s.due["BEACON_TIMEOUT"] = -1
  BY <1>6, <1>8 DEF TimersOK
<1>11. CoordOK(t)
  <2> SUFFICES ASSUME t.addr \in Coord
               PROVE  /\ t.pos < par.period => t.due["FRAME_START"] + t.pos = par.period
                      /\ t.addr \in On => t.due["FRAME_START"] >= 0
    BY <1>5, <1>6, <1>9 DEF CoordOK, SameRadio
  <2>1. /\ s.pos < par.period => s.due["FRAME_START"] + s.pos = par.period
        /\ s.addr \in On => s.due["FRAME_START"] >= 0
    BY <1>5, <1>6 DEF CoordOK
  <2>2. t.pos < par.period => s.pos < par.period /\ t.pos = s.pos + 1
    BY <1>5, <1>7
  <2>3. t.pos < par.period => t.due["FRAME_START"] + t.pos = par.period
    <3>1. ASSUME t.pos < par.period PROVE t.due["FRAME_START"] + t.pos = par.period
      <4>1. s.due["FRAME_START"] + s.pos = par.period /\ s.pos < par.period /\ t.pos = s.pos + 1
        BY <2>1, <2>2, <3>1
      <4>2. s.due["FRAME_START"] > 0
        BY <1>7, <1>8, <4>1
      <4>3. t.due["FRAME_START"] = s.due["FRAME_START"] - 1
        BY <1>3, <1>5, <1>8, <4>2
      <4> QED
        BY <1>7, <1>8, <4>1, <4>3
    <3> QED
      BY <3>1
  <2> QED
    BY <1>5, <1>8, <1>9, <2>1, <2>3
<1>12. TimersOK(t)
  <2> SUFFICES ASSUME t.addr \in Node PROVE TimersOK(t)
    BY DEF TimersOK
  <2>1. /\ s.due["FRAME_START"] >= 0 => s.due["FRAME_START"] + s.pos >= par.period
        /\ s.due["FRAME_START"] >= 0 => s.lost < MaxLostBeacons
        /\ s.due["SLEEP_START"] >= 0 => s.due["SLEEP_START"] + s.pos <= NumSlots
        /\ s.due["GTS_START"] >= 0 => s.gtsStart > 0 /\ s.due["GTS_START"] + s.pos = s.gtsStart
        /\ s.due["SLEEP_START"] >= 0 \/ s.due["GTS_START"] >= 0 =>
               s.pan # None /\ s.due["FRAME_START"] >= 0
        /\ s.addr \in On => s.due["FRAME_START"] >= 0 \/ s.radio = "RX"
    BY <1>5, <1>6, <1>10 DEF TimersOK
  <2>2. t.due["BEACON_TIMEOUT"] = -1
    BY <1>5, <1>8, <1>9, <1>10
  <2>3. t.due["FRAME_START"] >= 0 => t.due["FRAME_START"] + t.pos >= par.period
    BY <1>5, <1>7, <1>8, <1>9, <2>1
  <2>4. t.due["SLEEP_START"] >= 0 => t.due["SLEEP_START"] + t.pos <= NumSlots
    BY <1>5, <1>7, <1>8, <1>9, <2>1
  <2>5. t.due["GTS_START"] >= 0 => t.gtsStart > 0 /\ t.due["GTS_START"] + t.pos = t.gtsStart
    BY <1>5, <1>7, <1>8, <1>9, <2>1
  <2>6. /\ t.due["FRAME_START"] >= 0 <=> s.due["FRAME_START"] >= 0
        /\ t.due["SLEEP_START"] >= 0 => s.due["SLEEP_START"] >= 0
        /\ t.due["GTS_START"] >= 0 => s.due["GTS_START"] >= 0
    BY <1>8, <1>9
  <2>7. t.radio = s.radio
    BY <1>5 DEF SameRadio
  <2> QED
    BY <1>5, <2>1, <2>2, <2>3, <2>4, <2>5, <2>6, <2>7 DEF TimersOK
<1>13. NodeOK(t)
  <2> SUFFICES ASSUME t.addr \in Node
               PROVE  /\ t.state = "GTS" => t.pos >= t.gtsStart
                      /\ t.state = "CAP" /\ ~t.joined =>
                            t.capEnd # t.gtsStart \/ t.due["GTS_START"] >= 0
    BY <1>5, <1>6 DEF NodeOK
  <2>1. /\ s.state = "GTS" => s.pos >= s.gtsStart
        /\ s.state = "CAP" /\ ~s.joined => s.capEnd # s.gtsStart \/ s.due["GTS_START"] >= 0
    BY <1>5, <1>6 DEF NodeOK
  <2>2. s.state = "GTS" => pos >= s.gtsStart
    BY <1>7, <2>1
  <2>3. s.due["GTS_START"] >= 0 => t.due["GTS_START"] >= 0
    BY <1>8, <1>9
  <2> QED
    BY <1>5, <2>1, <2>2, <2>3
<1>14. OffOK(t) /\ ListOK(t.gtsList) /\ ListOK(t.beacon)
  BY <1>5, <1>6, <1>9 DEF OffOK, StableOK
<1>15. CurOK(t) /\ Counted(t) /\ Served(t) /\ TxOK(t)
  BY <1>5, <1>6 DEF CurOK, PacketOK, BufferOK, Counted, Served, TxOK, SameLoad, SameRadio
<1>16. LocalOK(t) /\ t.tx = None
  BY <1>5, <1>11, <1>12, <1>13, <1>14, <1>15 DEF LocalOK, StableOK, SameRadio
<1> QED
  BY <1>1, <1>5, <1>16 DEF pos

-----------------------------------------------------------------------------
(* Steps as the other stations see them                                     *)

LEMMA AllFacts ==
  ASSUME par \in Settings, NEW m, AllOK(m)
  PROVE  /\ \A k \in Station : /\ m[k] \in Mac /\ m[k].addr = k /\ LocalOK(m[k])
                               /\ m[k].pan \in Coord \cup {None}
                               /\ m[k].beaconOf \in Coord \cup {None}
         /\ \A k \in Station : m[k].tx # None => k \in On /\ m[k].tx.src = k
         /\ Station = Coord \cup Node /\ Coord \subseteq Station /\ Node \subseteq Station
         /\ Coord \cap Node = {} /\ None \notin Station /\ None \notin Coord
<1>1. \A k \in Station : m[k] \in Mac /\ m[k].addr = k /\ LocalOK(m[k])
  BY DEF AllOK
<1>2. \A k \in Station : m[k].tx # None => m[k].addr \in On /\ m[k].tx.src = m[k].addr
  BY <1>1 DEF LocalOK, TxOK
<1> QED
  BY <1>1, <1>2, MacFacts, ParFacts DEF Station

(* The slots in which a station may send are its own.                       *)
LEMMA SlotIsOwn ==
  ASSUME par \in Settings, NEW m, AllOK(m), NEW k \in Station, m[k].pan # None, InSlot(m[k])
  PROVE  \/ m[k].joined /\ m[k].capEnd = m[k].gtsStart
         \/ ExclusiveIn(m[k], m[m[k].pan])
<1> DEFINE s == m[k]
           c == m[m[k].pan]
           list == c.beacon
<1>1. /\ s \in Mac /\ s.addr = k /\ StableOK(s) /\ s.pan \in Coord
      /\ c \in Mac /\ c.addr = s.pan /\ ListOK(list) /\ list \in Seq(Gts)
  <2>1. s \in Mac /\ s.addr = k /\ LocalOK(s) /\ s.pan \in Coord /\ s.pan \in Station
    BY AllFacts
  <2>2. c \in Mac /\ c.addr = s.pan /\ LocalOK(c)
    BY <2>1, AllFacts
  <2> QED
    BY <2>1, <2>2 DEF LocalOK, StableOK, Mac
<1>2. /\ \A i \in DOMAIN list : CapLength(list) <= list[i].start
      /\ CapLength(list) \in Nat /\ NumSlots \in Nat
      /\ \A i \in DOMAIN list : list[i].start \in Nat /\ list[i].length \in Nat
  <2>1. \A i \in DOMAIN list : list[i] \in Gts
    BY <1>1
  <2>2. \A i \in DOMAIN list : list[i].start \in 0 .. NumSlots /\ list[i].length \in 0 .. NumSlots
    BY <2>1 DEF Gts
  <2>3. /\ CapLength(list) \in 1 .. NumSlots /\ NumSlots \in Nat
        /\ \A i \in DOMAIN list : CapLength(list) <= list[i].start
    BY <1>1, CapLengthOK, ParFacts
  <2> QED
    BY <2>2, <2>3
<1>3. \/ s.joined /\ s.capEnd = s.gtsStart
      \/ s.pos < s.capEnd
      \/ 0 < s.gtsStart /\ s.gtsStart <= s.pos /\ s.pos < s.gtsEnd
  BY DEF InSlot
<1>4. CASE s.joined /\ s.capEnd = s.gtsStart
  BY <1>4
<1>5. CASE s.addr \in Coord /\ ~(s.joined /\ s.capEnd = s.gtsStart)
  <2>1. s.pan = s.addr /\ s.gtsStart = 0 /\ s.state \in {"SETUP", "CAP"}
        /\ (s.state = "CAP" => s.capEnd = CapLength(s.beacon))
    BY <1>1, <1>5 DEF StableOK, CoordOK
  <2>2. c = s /\ s.capEnd = CapLength(list) /\ s.pos < s.capEnd /\ s.pos \in Nat
    BY <1>1, <1>3, <1>5, <2>1, MacFacts DEF InSlot
  <2>3. \A i \in DOMAIN list : c.pos < list[i].start
    BY <1>2, <2>2
  <2> QED
    BY <2>3 DEF ExclusiveIn
<1>6. CASE s.addr \in Node /\ ~(s.joined /\ s.capEnd = s.gtsStart)
  <2>1. s.beaconOf = s.pan /\ s.beaconOf # None
    BY <1>1, <1>6 DEF StableOK, NodeOK
  <2>2. SyncedWith(s, c)
    BY <1>1, <1>6, <2>1 DEF AllOK, Synced
  <2>3. /\ s.pos \in Nat /\ par.period \in Nat /\ s.capEnd \in Nat /\ s.gtsStart \in Nat
        /\ s.gtsEnd \in Nat /\ s.capEnd <= NumSlots /\ s.gtsEnd <= NumSlots
        /\ NumSlots \in Nat /\ NumSlots <= par.period
    BY <1>1, MacFacts
  <2>4. s.pos < par.period
    BY <1>3, <1>6, <2>3
  <2>5. s.pos = c.pos /\ s.capEnd = CapLength(list)
    BY <2>2, <2>4 DEF SyncedWith
  <2>6. CASE s.pos < s.capEnd
    <3>1. \A i \in DOMAIN list : c.pos < list[i].start
      BY <1>2, <2>3, <2>5, <2>6
    <3> QED
      BY <3>1 DEF ExclusiveIn
  <2>7. CASE 0 < s.gtsStart /\ s.gtsStart <= s.pos /\ s.pos < s.gtsEnd
    <3>1. PICK i \in DOMAIN list : /\ list[i].owner = s.addr /\ list[i].start = s.gtsStart
                                   /\ s.gtsEnd = s.gtsStart + list[i].length
      BY <2>2, <2>3, <2>4, <2>7 DEF SyncedWith
    <3>2. ASSUME NEW j \in DOMAIN list
          PROVE  \/ list[j].owner = s.addr \/ c.pos < list[j].start
                 \/ c.pos >= list[j].start + list[j].length
      <4>1. i \in Int /\ j \in Int
        BY <1>1
      <4>2. CASE j = i
        BY <3>1, <4>2
      <4>3. CASE i < j
        <5>1. list[j].start + list[j].length <= list[i].start
          BY <1>1, <4>3 DEF ListOK
        <5>2. list[j].start + list[j].length \in Nat
          BY <1>2
        <5> QED
          BY <2>3, <2>5, <2>7, <3>1, <5>1, <5>2
      <4>4. CASE j < i
        <5>1. list[i].start + list[i].length <= list[j].start
          BY <1>1, <4>4 DEF ListOK
        <5> QED
          BY <1>2, <2>3, <2>5, <2>7, <3>1, <5>1
      <4> QED
        BY <4>1, <4>2, <4>3, <4>4
    <3> QED
      BY <3>2 DEF ExclusiveIn
  <2> QED
    BY <1>3, <1>6, <2>6, <2>7
<1> QED
  BY <1>1, <1>4, <1>5, <1>6, MacFacts

(* What the other stations rely on, but the radio and the PAN               *)
SameView(s, t) ==
    /\ t.addr = s.addr /\ t.beaconOf = s.beaconOf /\ t.joined = s.joined /\ t.pos = s.pos
    /\ t.capEnd = s.capEnd /\ t.gtsStart = s.gtsStart /\ t.gtsEnd = s.gtsEnd
    /\ t.beacon = s.beacon

LEMMA SyncedKept ==
  ASSUME NEW m, NEW w, \A j \in Station : SameView(m[j], w[j]),
         NEW n \in Station, m[n].beaconOf \in Coord \cup {None}, Synced(n, m)
  PROVE  Synced(n, w)
<1>1. m[n].beaconOf # None => m[n].beaconOf \in Station
  BY DEF Station
<1> QED
  BY <1>1 DEF Synced, SyncedWith, SameView

LEMMA QuietStep ==
  ASSUME par \in Settings, NEW m, AllOK(m), NEW k \in Station, NEW t, Goes(m[k], t),
         KeepsWaiting(m[k], t) \/ \A j \in Station : IsAck(m[j].tx) => m[j].tx.dst # k
  PROVE  AllOK([m EXCEPT ![k] = t])
<1> DEFINE w == [m EXCEPT ![k] = t]
<1>1. /\ m \in [Station -> Mac] /\ t \in Mac /\ LocalOK(t) /\ Quiet(m[k], t)
  BY DEF AllOK, Goes
<1>2. w \in [Station -> Mac] /\ w[k] = t /\ \A j \in Station : j # k => w[j] = m[j]
  BY <1>1
<1> HIDE DEF w
<1>3. \A j \in Station : /\ SameView(m[j], w[j])
                         /\ w[j].devices = m[j].devices /\ w[j].gtsList = m[j].gtsList
                         /\ w[j].pan = None \/ (w[j].pan = m[j].pan /\ w[j].assigned = m[j].assigned)
                         /\ \/ w[j].tx = m[j].tx
                            \/ /\ j = k /\ w[k].tx # None /\ w[k].tx.type \notin {"ACK", "BEACON"}
                               /\ w[k].pan = m[k].pan /\ InSlot(m[k])
  BY <1>1, <1>2 DEF SameView, Quiet
<1>4. \A j \in Station : w[j].addr = j /\ LocalOK(w[j])
  BY <1>1, <1>2, AllFacts DEF Quiet
<1>5. ASSUME NEW n \in Node PROVE Synced(n, w) /\ Ready(n, w) /\ InPan(n, w)
  <2>1. /\ Synced(n, m) /\ Ready(n, m) /\ InPan(n, m) /\ n \in Station
        /\ m[n].beaconOf # None => m[n].beaconOf \in Station
        /\ m[n].beaconOf \in Coord \cup {None}
        /\ m[n].pan # None => m[n].pan \in Station
    BY AllFacts DEF AllOK
  <2>2. Synced(n, w)
    BY <1>3, <2>1, SyncedKept
  <2>3. Ready(n, w)
    BY <1>3, <2>1 DEF Ready, ReadyFor, SameView
  <2>4. InPan(n, w)
    BY <1>3, <2>1 DEF InPan, Holds
  <2> QED
    BY <2>2, <2>3, <2>4
<1>6. ASSUME NEW j \in Station, IsAck(w[j].tx) PROVE IsAck(m[j].tx) /\ w[j].tx = m[j].tx
  BY <1>3, <1>6 DEF IsAck
<1>7. ASSUME NEW j \in Station PROVE AckOK(j, w)
  <2> SUFFICES ASSUME IsAck(w[j].tx) PROVE AckOK(j, w)
    BY DEF AckOK
  <2> DEFINE d == w[j].tx.dst
  <2>1. /\ IsAck(m[j].tx) /\ w[j].tx = m[j].tx /\ d \in Station \ {j}
        /\ Answers(m[j].tx, m[j], m[d])
    BY <1>6 DEF AllOK, AckOK
  <2>2. /\ w[j].addr = m[j].addr /\ w[j].devices = m[j].devices
        /\ w[j].gtsList = m[j].gtsList /\ w[d].addr = m[d].addr
    BY <1>3, <2>1 DEF SameView
  <2>3. CASE d # k
    <3>1. w[d] = m[d]
      BY <1>2, <2>1, <2>3
    <3> QED
      BY <2>1, <2>2, <3>1 DEF AckOK, Answers, Holds
  <2>4. CASE d = k
    <3>1. KeepsWaiting(m[d], w[d])
      BY <1>2, <2>1, <2>4
    <3>2. Waiting(m[d]) /\ (m[d].cur # None \/ m[d].pan = None)
      BY <2>1 DEF Answers
    <3>3. Waiting(w[d]) /\ \/ w[d].cur = m[d].cur /\ w[d].pan = m[d].pan
                           \/ w[d].cur = None /\ w[d].pan = None
      BY <3>1, <3>2 DEF KeepsWaiting
    <3>4. Answers(w[j].tx, w[j], w[d])
      BY <2>1, <2>2, <3>3 DEF Answers, Holds
    <3> QED
      BY <2>1, <3>4 DEF AckOK
  <2> QED
    BY <2>3, <2>4
<1>8. ASSUME NEW j \in Station PROVE Exclusive(j, w)
  <2> SUFFICES ASSUME w[j].tx # None, w[j].pan # None PROVE Exclusive(j, w)
    BY DEF Exclusive
  <2>1. /\ w[j].pan = m[j].pan /\ m[j].pan \in Station /\ Exclusive(j, m)
    BY <1>3, AllFacts DEF AllOK
  <2>2. SameView(m[j], w[j]) /\ SameView(m[m[j].pan], w[m[j].pan])
    BY <1>3, <2>1
  <2>3. CASE w[j].tx = m[j].tx
    BY <2>1, <2>2, <2>3 DEF Exclusive, ExclusiveIn, SameView
  <2>4. CASE j = k /\ InSlot(m[k])
    <3>1. \/ m[j].joined /\ m[j].capEnd = m[j].gtsStart
          \/ ExclusiveIn(m[j], m[m[j].pan])
      BY <2>1, <2>4, SlotIsOwn
    <3> QED
      BY <2>1, <2>2, <3>1 DEF Exclusive, ExclusiveIn, SameView
  <2> QED
    BY <1>3, <2>3, <2>4
<1>9. OneAck(w)
  BY <1>6 DEF OneAck, AllOK
<1> QED
  BY <1>2, <1>4, <1>5, <1>7, <1>8, <1>9 DEF AllOK, w

LEMMA FrameStep ==
  ASSUME par \in Settings, NEW m, AllOK(m), NEW k \in Coord, NEW t \in Mac, LocalOK(t),
         KeepsWaiting(m[k], t), m[k].pos = par.period, t.pos = 0,
         t.tx # None, t.tx.type = "BEACON", t.addr = m[k].addr, t.pan = m[k].pan,
         t.devices = m[k].devices, t.gtsList = m[k].gtsList
  PROVE  AllOK([m EXCEPT ![k] = t])
<1> DEFINE w == [m EXCEPT ![k] = t]
<1>1. k \in Station /\ k \notin Node /\ m \in [Station -> Mac]
  BY AllFacts DEF AllOK
<1>2. w \in [Station -> Mac] /\ w[k] = t /\ \A j \in Station : j # k => w[j] = m[j]
  BY <1>1
<1> HIDE DEF w
<1>3. \A j \in Station : /\ w[j].addr = j /\ w[j].pan = m[j].pan
                         /\ w[j].devices = m[j].devices /\ w[j].gtsList = m[j].gtsList
  BY <1>1, <1>2, AllFacts
<1>4. \A j \in Station : LocalOK(w[j])
  BY <1>2, AllFacts
<1>5. par.period \in Nat /\ \A j \in Station : m[j].pos \in 0 .. par.period
  BY MacFacts, AllFacts
<1>6. ASSUME NEW n \in Node PROVE Synced(n, w) /\ Ready(n, w) /\ InPan(n, w)
  <2>1. /\ Synced(n, m) /\ Ready(n, m) /\ InPan(n, m) /\ n \in Station
        /\ m[n].beaconOf # None => m[n].beaconOf \in Station
        /\ m[n].pan # None => m[n].pan \in Station
    BY AllFacts DEF AllOK
  <2>2. w[n] = m[n]
    BY <1>1, <1>2, <2>1
  <2>3. CASE m[n].beaconOf = k
    <3>1. m[n].pos < par.period => m[n].pos = m[k].pos
      BY <1>1, <2>1, <2>3, AllFacts DEF Synced, SyncedWith
    <3>2. ~(m[n].pos < par.period) /\ m[n].pos = par.period
      BY <1>5, <2>1, <3>1
    <3> QED
      BY <2>2, <3>2, <2>1, <1>3 DEF Synced, SyncedWith, Ready, ReadyFor, InPan, Holds
  <2>4. CASE m[n].beaconOf # k
    <3>1. m[n].beaconOf # None => w[m[n].beaconOf] = m[m[n].beaconOf]
      BY <1>2, <2>1, <2>4
    <3> QED
      BY <2>2, <3>1, <2>1, <1>3 DEF Synced, Ready, InPan, Holds
  <2> QED
    BY <2>3, <2>4
<1>7. ASSUME NEW j \in Station, IsAck(w[j].tx) PROVE j # k /\ w[j] = m[j] /\ IsAck(m[j].tx)
  BY <1>2, <1>7 DEF IsAck
<1>8. ASSUME NEW j \in Station PROVE AckOK(j, w)
  <2> SUFFICES ASSUME IsAck(w[j].tx) PROVE AckOK(j, w)
    BY DEF AckOK
  <2> DEFINE d == m[j].tx.dst
  <2>1. /\ w[j] = m[j] /\ IsAck(m[j].tx) /\ d \in Station \ {j} /\ Answers(m[j].tx, m[j], m[d])
    BY <1>7 DEF AllOK, AckOK
  <2>2. CASE d # k
    BY <1>2, <2>1, <2>2 DEF AckOK
  <2>3. CASE d = k
    <3>1. Waiting(m[d]) /\ (m[d].cur # None \/ m[d].pan = None)
      BY <2>1 DEF Answers
    <3>2. Waiting(w[d]) /\ \/ w[d].cur = m[d].cur /\ w[d].pan = m[d].pan
                           \/ w[d].cur = None /\ w[d].pan = None
      BY <1>2, <2>1, <2>3, <3>1 DEF KeepsWaiting
    <3>3. Answers(w[j].tx, w[j], w[d])
      BY <1>3, <2>1, <3>2, AllFacts DEF Answers
    <3> QED
      BY <2>1, <3>3 DEF AckOK
  <2> QED
    BY <2>2, <2>3
<1>9. \A s : ExclusiveIn(s, t)
  <2>1. t.beacon \in Seq(Gts) /\ ListOK(t.beacon)
    BY DEF Mac, LocalOK, StableOK
  <2>2. \A i \in DOMAIN t.beacon : t.beacon[i] \in Gts
    BY <2>1
  <2>3. \A i \in DOMAIN t.beacon : t.beacon[i].start \in 0 .. NumSlots /\ t.beacon[i].start >= MinCap
    BY <2>1, <2>2 DEF Gts, ListOK
  <2>4. \A i \in DOMAIN t.beacon : t.pos < t.beacon[i].start
    BY <2>3, ParFacts
  <2> QED
    BY <2>4 DEF ExclusiveIn
<1>10. ASSUME NEW j \in Station PROVE Exclusive(j, w)
  <2> SUFFICES ASSUME w[j].tx # None, w[j].pan # None PROVE Exclusive(j, w)
    BY DEF Exclusive
  <2>1. w[j].pan = m[j].pan /\ m[j].pan \in Station /\ Exclusive(j, m)
    BY <1>3, AllFacts DEF AllOK
  <2>2. CASE w[j].pan = k
    BY <1>2, <1>9, <2>2, <1>1 DEF Exclusive
  <2>3. CASE w[j].pan # k
    <3>1. j # k
      <4>1. t.pan = t.addr
        BY <1>1, AllFacts DEF LocalOK, StableOK, CoordOK
      <4> QED
        BY <1>1, <1>2, <1>3, <2>3, <4>1
    <3> QED
      BY <1>2, <2>1, <2>3, <3>1 DEF Exclusive
  <2> QED
    BY <2>2, <2>3
<1>11. OneAck(w)
  BY <1>7 DEF OneAck, AllOK
<1> QED
  BY <1>2, <1>3, <1>4, <1>6, <1>8, <1>10, <1>11 DEF AllOK, w

LEMMA SentStep ==
  ASSUME par \in Settings, NEW m, AllOK(m), NEW k \in Station
  PROVE  AllOK([m EXCEPT ![k] = Sent(m[k])])
<1> DEFINE t == Sent(m[k])
           w == [m EXCEPT ![k] = t]
<1>1. /\ t \in Mac /\ LocalOK(t) /\ t.tx = None /\ Same(m[k], t) /\ SameLoad(m[k], t)
      /\ t.timers = m[k].timers /\ m \in [Station -> Mac]
  BY SentOK, AllFacts DEF AllOK
<1> HIDE DEF t
<1>2. w \in [Station -> Mac] /\ w[k] = t /\ \A j \in Station : j # k => w[j] = m[j]
  BY <1>1
<1> HIDE DEF w
<1>3. \A j \in Station : /\ SameView(m[j], w[j]) /\ w[j].pan = m[j].pan
                         /\ w[j].assigned = m[j].assigned /\ w[j].devices = m[j].devices
                         /\ w[j].gtsList = m[j].gtsList /\ w[j].cur = m[j].cur
                         /\ Waiting(w[j]) = Waiting(m[j])
                         /\ w[j].tx # None => w[j].tx = m[j].tx
  BY <1>1, <1>2 DEF SameView, Same, SameLoad, Waiting
<1>4. \A j \in Station : w[j].addr = j /\ LocalOK(w[j])
  BY <1>1, <1>2, AllFacts DEF Same
<1>5. ASSUME NEW n \in Node PROVE Synced(n, w) /\ Ready(n, w) /\ InPan(n, w)
  <2>1. /\ Synced(n, m) /\ Ready(n, m) /\ InPan(n, m) /\ n \in Station
        /\ m[n].beaconOf # None => m[n].beaconOf \in Station
        /\ m[n].beaconOf \in Coord \cup {None}
        /\ m[n].pan # None => m[n].pan \in Station
    BY AllFacts DEF AllOK
  <2>2. Synced(n, w)
    BY <1>3, <2>1, SyncedKept
  <2> QED
    BY <1>3, <2>1, <2>2 DEF Ready, ReadyFor, InPan, Holds, SameView
<1>6. ASSUME NEW j \in Station PROVE AckOK(j, w)
  <2> SUFFICES ASSUME IsAck(w[j].tx) PROVE AckOK(j, w)
    BY DEF AckOK
  <2> DEFINE d == m[j].tx.dst
  <2>1. /\ IsAck(m[j].tx) /\ w[j].tx = m[j].tx /\ d \in Station \ {j}
        /\ Answers(m[j].tx, m[j], m[d])
    BY <1>3 DEF AllOK, AckOK, IsAck
  <2> QED
    BY <1>3, <2>1 DEF AckOK, Answers, Holds, SameView
<1>7. ASSUME NEW j \in Station PROVE Exclusive(j, w)
  <2> SUFFICES ASSUME w[j].tx # None, w[j].pan # None PROVE Exclusive(j, w)
    BY DEF Exclusive
  <2>1. w[j].pan = m[j].pan /\ m[j].pan \in Station /\ Exclusive(j, m)
    BY <1>3, AllFacts DEF AllOK
  <2> QED
    BY <1>3, <2>1 DEF Exclusive, ExclusiveIn, SameView
<1>8. OneAck(w)
  BY <1>3 DEF OneAck, AllOK, IsAck
<1> QED
  BY <1>2, <1>4, <1>5, <1>6, <1>7, <1>8 DEF AllOK, w, t

(* Station d has heard the ACK f that station k has sent.                   *)
LEMMA AckedStep ==
  ASSUME par \in Settings, NEW m, AllOK(m), NEW k \in Station, NEW d \in Station, k # d,
         NEW f, NEW t, Acked(m[d], t, f), Answers(f, m[k], m[d]),
         \A j \in Station : IsAck(m[j].tx) => m[j].tx.dst # d
  PROVE  AllOK([m EXCEPT ![d] = t])
<1> DEFINE w == [m EXCEPT ![d] = t]
<1>1. t \in Mac /\ LocalOK(t) /\ m \in [Station -> Mac]
  BY DEF Acked, AllOK
<1>2. w \in [Station -> Mac] /\ w[d] = t /\ \A j \in Station : j # d => w[j] = m[j]
  BY <1>1
<1> HIDE DEF w
<1>3. \A j \in Station : /\ SameView(m[j], w[j])
                         /\ w[j].devices = m[j].devices /\ w[j].gtsList = m[j].gtsList
  BY <1>2 DEF SameView, Acked
<1>4. \A j \in Station : w[j].addr = j /\ LocalOK(w[j])
  BY <1>1, <1>2, <1>3, AllFacts DEF SameView
<1>5. t.tx # None => /\ t.tx.type \notin {"ACK", "BEACON"} /\ t.pan = m[d].pan
                     /\ InSlot(m[d])
  BY DEF Acked
<1>6. ASSUME NEW n \in Node PROVE Synced(n, w) /\ Ready(n, w) /\ InPan(n, w)
  <2>1. /\ Synced(n, m) /\ Ready(n, m) /\ InPan(n, m) /\ n \in Station
        /\ m[n].beaconOf # None => m[n].beaconOf \in Station
        /\ m[n].beaconOf \in Coord \cup {None}
        /\ m[n].pan # None => m[n].pan \in Station
    BY AllFacts DEF AllOK
  <2>2. Synced(n, w)
    BY <1>3, <2>1, SyncedKept
  <2>3. Ready(n, w)
    <3>1. \A j \in Station : w[j].tx # None /\ w[j].tx.type = "BEACON" => w[j].tx = m[j].tx
      BY <1>2, <1>5
    <3> QED
      BY <1>3, <2>1, <3>1 DEF Ready, ReadyFor, SameView
  <2>4. InPan(n, w)
    <3>1. CASE n # d \/ (t.pan = m[d].pan /\ t.assigned = m[d].assigned)
      <4>1. w[n].pan = m[n].pan /\ w[n].assigned = m[n].assigned
        BY <1>2, <2>1, <3>1
      <4> QED
        BY <1>3, <2>1, <4>1 DEF InPan, Holds
    <3>2. CASE /\ n = d /\ m[d].cur # None /\ m[d].cur.type = "ASSOCIATE"
               /\ t.pan = f.pan /\ t.assigned = 0
      <4>1. f.pan = k /\ d \in m[k].devices
        BY <3>2, AllFacts DEF Answers
      <4>2. w[n].pan = k /\ w[n].assigned = 0 /\ n \in w[k].devices
        BY <1>2, <1>3, <3>2, <4>1
      <4> QED
        BY <4>2 DEF InPan
    <3>3. CASE /\ n = d /\ m[d].cur # None /\ m[d].cur.type = "GTS_REQUEST"
               /\ t.pan = f.pan /\ m[d].pan = f.pan /\ t.assigned = f.body
      <4>1. f.pan = k /\ (f.body > 0 => Holds(m[k], d, f.body))
        BY <3>3, AllFacts DEF Answers
      <4>2. w[n].pan = k /\ w[n].assigned = f.body /\ m[n].pan = k /\ n = d
        BY <1>2, <3>3, <4>1
      <4>3. w[k].devices = m[k].devices /\ w[k].gtsList = m[k].gtsList
        BY <1>3
      <4>4. n \in w[k].devices
        BY <2>1, <4>2, <4>3, AllFacts DEF InPan
      <4> QED
        BY <4>1, <4>2, <4>3, <4>4 DEF InPan, Holds
    <3> QED
      BY <3>1, <3>2, <3>3 DEF Acked
  <2> QED
    BY <2>2, <2>3, <2>4
<1>7. ASSUME NEW j \in Station, IsAck(w[j].tx) PROVE j # d /\ w[j] = m[j] /\ IsAck(m[j].tx)
  BY <1>2, <1>5, <1>7 DEF IsAck
<1>8. ASSUME NEW j \in Station PROVE AckOK(j, w)
  <2> SUFFICES ASSUME IsAck(w[j].tx) PROVE AckOK(j, w)
    BY DEF AckOK
  <2>1. /\ w[j] = m[j] /\ IsAck(m[j].tx) /\ m[j].tx.dst \in Station \ {j}
        /\ Answers(m[j].tx, m[j], m[m[j].tx.dst])
    BY <1>7 DEF AllOK, AckOK
  <2>2. w[m[j].tx.dst] = m[m[j].tx.dst]
    BY <1>2, <2>1
  <2> QED
    BY <2>1, <2>2 DEF AckOK
<1>9. ASSUME NEW j \in Station PROVE Exclusive(j, w)
  <2> SUFFICES ASSUME w[j].tx # None, w[j].pan # None PROVE Exclusive(j, w)
    BY DEF Exclusive
  <2>1. w[j].pan = m[j].pan
    BY <1>2, <1>5
  <2>2. m[j].pan \in Station /\ Exclusive(j, m)
    BY <2>1, AllFacts DEF AllOK
  <2>3. SameView(m[j], w[j]) /\ SameView(m[m[j].pan], w[m[j].pan])
    BY <1>3, <2>2
  <2>4. CASE j # d
    BY <1>2, <2>1, <2>2, <2>3, <2>4 DEF Exclusive, ExclusiveIn, SameView
  <2>5. CASE j = d
    <3>1. \/ m[j].joined /\ m[j].capEnd = m[j].gtsStart
          \/ ExclusiveIn(m[j], m[m[j].pan])
      BY <1>2, <1>5, <2>1, <2>5, SlotIsOwn
    <3> QED
      BY <2>1, <2>3, <3>1 DEF Exclusive, ExclusiveIn, SameView
  <2> QED
    BY <2>4, <2>5
<1>10. OneAck(w)
  BY <1>7 DEF OneAck, AllOK
<1> QED
  BY <1>2, <1>4, <1>6, <1>8, <1>9, <1>10 DEF AllOK, w

(* Station d answers station k, which waits for it, with an ACK.            *)
LEMMA AnsweredStep ==
  ASSUME par \in Settings, NEW m, AllOK(m), NEW k \in Station, NEW d \in Station, k # d,
         NEW t, Answered(m[d], t, t.tx), t.tx.dst = k, Answers(t.tx, t, m[k]),
         \A j \in Station : ~IsAck(m[j].tx)
  PROVE  AllOK([m EXCEPT ![d] = t])
<1> DEFINE w == [m EXCEPT ![d] = t]
<1>1. t \in Mac /\ LocalOK(t) /\ m \in [Station -> Mac] /\ t.tx # None /\ t.tx.type = "ACK"
  BY NoneIsNoFrame DEF Answered, AllOK
<1>2. w \in [Station -> Mac] /\ w[d] = t /\ \A j \in Station : j # d => w[j] = m[j]
  BY <1>1
<1> HIDE DEF w
<1>3. \A j \in Station : /\ SameView(m[j], w[j])
                         /\ w[j].pan = m[j].pan /\ w[j].assigned = m[j].assigned
                         /\ m[j].devices \subseteq w[j].devices
                         /\ Grows(m[j].gtsList, w[j].gtsList)
  <2>1. \A j \in Station : Grows(m[j].gtsList, m[j].gtsList)
    BY DEF Grows
  <2> QED
    BY <1>2, <2>1 DEF SameView, Answered
<1>4. \A j \in Station : w[j].addr = j /\ LocalOK(w[j])
  BY <1>1, <1>2, <1>3, AllFacts DEF SameView
<1>5. ASSUME NEW n \in Node PROVE Synced(n, w) /\ Ready(n, w) /\ InPan(n, w)
  <2>1. /\ Synced(n, m) /\ Ready(n, m) /\ InPan(n, m) /\ n \in Station
        /\ m[n].beaconOf # None => m[n].beaconOf \in Station
        /\ m[n].beaconOf \in Coord \cup {None}
        /\ m[n].pan # None => m[n].pan \in Station
    BY AllFacts DEF AllOK
  <2>2. Synced(n, w)
    BY <1>3, <2>1, SyncedKept
  <2>3. Ready(n, w)
    <3>1. \A j \in Station : w[j].tx # None /\ w[j].tx.type = "BEACON" => w[j].tx = m[j].tx
      BY <1>1, <1>2
    <3> QED
      BY <1>3, <2>1, <3>1 DEF Ready, ReadyFor, SameView
  <2>4. InPan(n, w)
    BY <1>3, <2>1 DEF InPan, Holds, Grows
  <2> QED
    BY <2>2, <2>3, <2>4
<1>6. ASSUME NEW j \in Station, IsAck(w[j].tx) PROVE j = d
  BY <1>2, <1>6
<1>7. ASSUME NEW j \in Station PROVE AckOK(j, w)
  <2> SUFFICES ASSUME IsAck(w[j].tx) PROVE AckOK(j, w)
    BY DEF AckOK
  <2>1. j = d /\ w[j] = t /\ w[k] = m[k]
    BY <1>2, <1>6
  <2> QED
    BY <2>1 DEF AckOK
<1>8. ASSUME NEW j \in Station PROVE Exclusive(j, w)
  <2> SUFFICES ASSUME w[j].tx # None, w[j].pan # None PROVE Exclusive(j, w)
    BY DEF Exclusive
  <2>1. w[j].pan = m[j].pan /\ m[j].pan \in Station /\ Exclusive(j, m)
    BY <1>3, AllFacts DEF AllOK
  <2>2. SameView(m[j], w[j]) /\ SameView(m[m[j].pan], w[m[j].pan])
    BY <1>3, <2>1
  <2>3. CASE j # d
    BY <1>2, <2>1, <2>2, <2>3 DEF Exclusive, ExclusiveIn, SameView
  <2>4. CASE j = d
    BY <1>1, <1>2, <2>4 DEF Exclusive
  <2> QED
    BY <2>3, <2>4
<1>9. OneAck(w)
  BY <1>6 DEF OneAck
<1> QED
  BY <1>2, <1>4, <1>5, <1>7, <1>8, <1>9 DEF AllOK, w

(* The nodes that hear the beacon f of coordinator k go from m to w.        *)
LEMMA HeardStep ==
  ASSUME par \in Settings, NEW m, AllOK(m), NEW k \in Coord, m[k].tx = None, m[k].pos = 0,
         NEW f, f.pan = k, f.body = m[k].beacon,
         \A j \in Station : ~IsAck(m[j].tx),
         NEW w \in [Station -> Mac],
         \A j \in Station :
            \/ w[j] = m[j]
            \/ /\ j \in Node /\ LocalOK(w[j]) /\ w[j].tx = None /\ w[j].pos = 0
               /\ w[j].beaconOf = f.pan /\ w[j].capEnd = CapLength(f.body)
               /\ OwnsIn(w[j], f.body) /\ SameStation(m[j], w[j])
  PROVE  AllOK(w)
<1>1. k \in Station /\ \A j \in Coord : j \in Station /\ w[j] = m[j]
  BY AllFacts
<1>2. \A j \in Station : w[j].addr = j /\ LocalOK(w[j])
  BY AllFacts DEF SameStation
<1>3. ASSUME NEW n \in Node PROVE Synced(n, w) /\ Ready(n, w) /\ InPan(n, w)
  <2>1. /\ Synced(n, m) /\ Ready(n, m) /\ InPan(n, m) /\ n \in Station
        /\ m[n].beaconOf # None => m[n].beaconOf \in Coord
        /\ m[n].pan # None => m[n].pan \in Coord
    BY AllFacts DEF AllOK
  <2>2. CASE w[n] = m[n]
    BY <1>1, <2>1, <2>2 DEF Synced, Ready, InPan
  <2>3. CASE /\ w[n].pos = 0 /\ w[n].beaconOf = k /\ w[n].capEnd = CapLength(m[k].beacon)
             /\ OwnsIn(w[n], m[k].beacon) /\ SameStation(m[n], w[n])
    <3>1. SyncedWith(w[n], m[k])
      BY <2>3 DEF SyncedWith, OwnsIn
    <3>2. Synced(n, w) /\ Ready(n, w)
      BY <1>1, <2>3, <3>1 DEF Synced, Ready, ReadyFor
    <3>3. InPan(n, w)
      BY <1>1, <2>1, <2>3 DEF InPan, SameStation
    <3> QED
      BY <3>2, <3>3
  <2> QED
    BY <2>1, <2>2, <2>3
<1>4. \A j \in Station : ~IsAck(w[j].tx)
  BY DEF IsAck
<1>5. ASSUME NEW j \in Station PROVE Exclusive(j, w)
  <2> SUFFICES ASSUME w[j].tx # None, w[j].pan # None PROVE Exclusive(j, w)
    BY DEF Exclusive
  <2>1. w[j] = m[j] /\ Exclusive(j, m)
    BY DEF AllOK
  <2>2. m[j].pan \in Coord
    BY <2>1, AllFacts
  <2> QED
    BY <1>1, <2>1, <2>2 DEF Exclusive
<1> QED
  BY <1>2, <1>3, <1>4, <1>5 DEF AllOK, AckOK, OneAck

(* Time goes on by a slot.                                                  *)
LEMMA TickStep ==
  ASSUME par \in Settings, NEW m, AllOK(m), \A k \in Station : m[k].tx = None,
         \A k \in Station, x \in SlowTimer : m[k].due[x] # 0
  PROVE  AllOK([k \in Station |-> NextSlot(m[k])])
<1> DEFINE w == [k \in Station |-> NextSlot(m[k])]
<1>1. \A k \in Station :
         LET t == w[k]
             s == m[k]
         IN  /\ t \in Mac /\ LocalOK(t) /\ t.tx = None
             /\ t.pos = (IF s.pos < par.period THEN s.pos + 1 ELSE s.pos)
             /\ t.addr = s.addr /\ t.pan = s.pan /\ t.beaconOf = s.beaconOf
             /\ t.capEnd = s.capEnd /\ t.gtsStart = s.gtsStart /\ t.gtsEnd = s.gtsEnd
             /\ t.assigned = s.assigned /\ t.devices = s.devices
             /\ t.gtsList = s.gtsList /\ t.beacon = s.beacon
  BY NextSlotOK, AllFacts
<1>2. w \in [Station -> Mac]
  BY <1>1
<1> HIDE DEF w
<1>3. \A k \in Station : w[k].addr = k /\ LocalOK(w[k])
  BY <1>1, AllFacts
<1>4. ASSUME NEW n \in Node PROVE Synced(n, w) /\ Ready(n, w) /\ InPan(n, w)
  <2>1. /\ Synced(n, m) /\ InPan(n, m) /\ n \in Station
        /\ m[n].beaconOf # None => m[n].beaconOf \in Station
        /\ m[n].pan # None => m[n].pan \in Station
    BY AllFacts DEF AllOK
  <2>2. \A j \in Station : m[j].pos \in Nat /\ m[j].pos <= par.period /\ par.period \in Nat
    BY AllFacts, MacFacts
  <2>3. Synced(n, w)
    <3> SUFFICES ASSUME w[n].beaconOf # None, w[n].pos < par.period
                 PROVE  SyncedWith(w[n], w[w[n].beaconOf])
      BY DEF Synced, SyncedWith
    <3> DEFINE b == m[n].beaconOf
    <3>1. b # None /\ b \in Station /\ w[n].beaconOf = b
      BY <1>1, <2>1
    <3>2. m[n].pos < par.period /\ w[n].pos = m[n].pos + 1
      BY <1>1, <2>1, <2>2
    <3>3. SyncedWith(m[n], m[b])
      BY <2>1, <3>1 DEF Synced
    <3>4. m[n].pos = m[b].pos
      BY <3>2, <3>3 DEF SyncedWith
    <3>5. w[n].pos = w[b].pos
      BY <1>1, <3>1, <3>2, <3>4
    <3> QED
      BY <1>1, <2>1, <3>1, <3>2, <3>3, <3>5 DEF SyncedWith
  <2>4. Ready(n, w)
    BY <1>1, <2>1 DEF Ready, ReadyFor
  <2>5. InPan(n, w)
    BY <1>1, <2>1 DEF InPan, Holds
  <2> QED
    BY <2>3, <2>4, <2>5
<1>5. \A k \in Station : AckOK(k, w) /\ Exclusive(k, w)
  BY <1>1 DEF AckOK, IsAck, Exclusive
<1>6. OneAck(w)
  BY <1>1 DEF OneAck, IsAck
<1> QED
  BY <1>2, <1>3, <1>4, <1>5, <1>6 DEF AllOK, w

-----------------------------------------------------------------------------
(* The steps of the network                                                 *)

LEMMA StartsOK == ASSUME Init PROVE AllOK(mac)
<1>1. par \in Settings /\ mac = [k \in Station |-> Startup(k)]
  BY DEF Init
<1>2. ASSUME NEW k \in Station
      PROVE  LET s == Startup(k)
             IN  /\ s \in Mac /\ s.addr = k /\ LocalOK(s) /\ s.tx = None
                 /\ s.beaconOf = None
                 /\ s.pan = (IF k \in Coord THEN k ELSE None)
  <2> DEFINE due == [x \in SlowTimer |-> IF x = "FRAME_START" /\ k \in Coord \cap On
                                         THEN par.offset[k] ELSE -1]
             s == Startup(k)
  <2>1. \A x \in SlowTimer : due[x] \in -1 .. par.period
    BY <1>1, ParFacts
  <2>2. due \in [SlowTimer -> -1 .. par.period]
    BY <2>1
  <2>3. /\ "FRAME_START" \in SlowTimer /\ "BEACON_TIMEOUT" \in SlowTimer
        /\ "SLEEP_START" \in SlowTimer /\ "GTS_START" \in SlowTimer
    BY DEF SlowTimer
  <2>4. /\ \A x \in SlowTimer : x # "FRAME_START" => due[x] = -1
        /\ k \notin Coord \cap On => due["FRAME_START"] = -1
        /\ k \in Coord \cap On => due["FRAME_START"] >= 0
    BY <1>1, <2>3, ParFacts
  <2>5. s.due = due
    BY DEF Startup
  <2> HIDE DEF due
  <2>6. /\ s.addr = k /\ s.state = "SETUP" /\ s.pan = (IF k \in Coord THEN k ELSE None)
        /\ s.timers = {} /\ s.pos = par.period /\ s.beaconOf = None /\ s.joined = FALSE
        /\ s.capEnd = 0 /\ s.gtsStart = 0 /\ s.gtsEnd = 0 /\ s.lost = 0 /\ s.cur = None
        /\ s.retries = 0 /\ s.gtsOnly = FALSE /\ s.buffer = <<>> /\ s.assigned = 0
        /\ s.devices = {} /\ s.gtsList = <<>> /\ s.beacon = <<>>
        /\ s.radio = (IF k \in On THEN "RX" ELSE "SLEEP") /\ s.tx = None
    BY DEF Startup
  <2>7. /\ 0 \in 0 .. NumSlots /\ 0 \in 0 .. MaxLostBeacons /\ 0 \in 0 .. MaxFrameRetries
        /\ par.period \in 0 .. par.period
    BY <1>1, ParFacts
  <2>8. s \in Mac
    BY <2>2, <2>5, <2>7 DEF Startup, Mac
  <2> HIDE DEF s
  <2>9. CoordOK(s) /\ TimersOK(s) /\ OffOK(s) /\ NodeOK(s)
    <3>1. CoordOK(s)
      BY <1>1, <2>3, <2>4, <2>5, <2>6, ParFacts DEF CoordOK
    <3>2. TimersOK(s)
      BY <1>1, <2>3, <2>4, <2>5, <2>6, ParFacts DEF TimersOK
    <3>3. OffOK(s)
      BY <2>4, <2>5, <2>6 DEF OffOK
    <3>4. NodeOK(s)
      BY <1>1, <2>6, ParFacts DEF NodeOK
    <3> QED
      BY <3>1, <3>2, <3>3, <3>4
  <2>10. ListOK(s.gtsList) /\ ListOK(s.beacon)
    BY <2>6 DEF ListOK
  <2>11. CurOK(s) /\ Counted(s) /\ Served(s) /\ TxOK(s)
    BY <2>6 DEF CurOK, BufferOK, Counted, Served, TxOK
  <2> QED
    BY <2>6, <2>8, <2>9, <2>10, <2>11 DEF LocalOK, StableOK, s
<1>3. mac \in [Station -> Mac] /\ \A k \in Station : mac[k] = Startup(k)
  BY <1>1, <1>2
<1>4. \A n \in Node : n \in Station /\ n \notin Coord
  BY <1>1, ParFacts DEF Station
<1>5. ASSUME NEW n \in Node PROVE Synced(n, mac) /\ Ready(n, mac) /\ InPan(n, mac)
  BY <1>2, <1>3, <1>4 DEF Synced, Ready, InPan
<1>6. \A k \in Station : AckOK(k, mac) /\ Exclusive(k, mac)
  BY <1>2, <1>3 DEF AckOK, IsAck, Exclusive
<1>7. OneAck(mac)
  BY <1>2, <1>3 DEF OneAck, IsAck
<1>8. \A k \in Station : mac[k].addr = k /\ LocalOK(mac[k])
  BY <1>2, <1>3
<1> QED
  BY <1>3, <1>5, <1>6, <1>7, <1>8 DEF AllOK

LEMMA NoAckSent ==
  ASSUME par \in Settings, AllOK(mac), NEW k, k \notin AcksSent
  PROVE  \A j \in Station : IsAck(mac[j].tx) => mac[j].tx.dst # k
<1>1. \A j \in Station : IsAck(mac[j].tx) => j \in On /\ mac[j].tx # None /\ mac[j].tx.type = "ACK"
  BY AllFacts DEF IsAck
<1> QED
  BY <1>1 DEF AcksSent

(* A step of station k to t that the others do not notice                   *)
LEMMA OwnStep ==
  ASSUME par \in Settings, AllOK(mac), NEW k \in On, NEW t, Step(k, t),
         Goes(mac[k], t), KeepsWaiting(mac[k], t) \/ k \notin AcksSent
  PROVE  AllOK(mac') /\ UNCHANGED <<par, unsent>>
<1>1. k \in Station
  BY ParFacts
<1>2. KeepsWaiting(mac[k], t) \/ \A j \in Station : IsAck(mac[j].tx) => mac[j].tx.dst # k
  BY NoAckSent
<1>3. AllOK([mac EXCEPT ![k] = t])
  BY <1>1, <1>2, QuietStep
<1> QED
  BY <1>3 DEF Step

LEMMA TimersKeep ==
  ASSUME par \in Settings, AllOK(mac), NEW k \in On,
         \/ StartFrame(k) \/ AwaitBeacon(k) \/ GtsStart(k) \/ BeaconTimeout(k)
         \/ SleepStart(k) \/ BackToSetup(k)
  PROVE  AllOK(mac') /\ UNCHANGED <<par, unsent>>
<1> DEFINE s == mac[k]
<1>1. k \in Station /\ s \in Mac /\ LocalOK(s) /\ s.addr = k /\ s.addr \in On
  BY AllFacts, ParFacts
<1>2. CASE StartFrame(k)
  <2> DEFINE list == PrepareBeacon(s.gtsList)
             v == [SetAfter(s, "FRAME_START", par.period)
                      EXCEPT !.gtsList = list, !.beacon = list, !.capEnd = CapLength(list),
                             !.state = "CAP", !.pos = 0]
             t == Set(Send(v, Beacon(s.addr, list)), "ATTEMPT_TX")
  <2>1. k \in Coord /\ s.due["FRAME_START"] = 0 /\ s.tx = None /\ Step(k, t)
    BY <1>1, <1>2 DEF StartFrame, IsDue
  <2>2. /\ t \in Mac /\ LocalOK(t) /\ KeepsWaiting(s, t)
        /\ s.pos = par.period /\ t.pos = 0
        /\ t.tx # None /\ t.tx.type = "BEACON"
        /\ t.addr = s.addr /\ t.pan = s.pan
        /\ t.devices = s.devices /\ t.gtsList = s.gtsList
    BY <1>1, <2>1, StartFrameOK
  <2> HIDE DEF t, v, list
  <2>3. AllOK([mac EXCEPT ![k] = t])
    BY <2>1, <2>2, FrameStep
  <2> QED
    BY <2>1, <2>3 DEF Step
<1>3. CASE AwaitBeacon(k)
  <2> DEFINE t == [SetAfter(SetAfter(s, "FRAME_START", -1), "BEACON_TIMEOUT", 0)
                      EXCEPT !.radio = "RX"]
  <2>1. k \in Node /\ s.due["FRAME_START"] = 0 /\ Step(k, t)
    BY <1>3 DEF AwaitBeacon, IsDue, Fired
  <2>2. Goes(s, t) /\ KeepsWaiting(s, t)
    BY <1>1, <2>1, AwaitBeaconOK
  <2> HIDE DEF t
  <2> QED
    BY <2>1, <2>2, OwnStep
<1>4. CASE GtsStart(k)
  <2> DEFINE v == [SetAfter(s, "GTS_START", -1) EXCEPT !.state = "GTS", !.radio = "RX"]
             t == SetAfter(Set(v, "ATTEMPT_TX"), "SLEEP_START", v.gtsEnd - v.gtsStart)
  <2>1. s.due["GTS_START"] = 0 /\ Step(k, t)
    BY <1>4 DEF GtsStart, IsDue, Fired
  <2>2. Goes(s, t) /\ KeepsWaiting(s, t)
    BY <1>1, <2>1, GtsStartOK
  <2> HIDE DEF t
  <2> QED
    BY <2>1, <2>2, OwnStep
<1>5. CASE BeaconTimeout(k)
  <2> DEFINE l == [SetAfter(s, "BEACON_TIMEOUT", -1) EXCEPT !.lost = @ + 1]
             t == CASE l.lost >= MaxLostBeacons -> LeavePan(l)
                    [] l.lost < MaxLostBeacons /\ l.pan # None -> MissBeacon(l)
                    [] l.lost < MaxLostBeacons /\ l.pan = None -> l
  <2>1. s.due["BEACON_TIMEOUT"] = 0 /\ s.due["SLEEP_START"] # 0 /\ Step(k, t)
    BY <1>5, Zenon DEF BeaconTimeout, IsDue, Fired
  <2>2. Goes(s, t) /\ KeepsWaiting(s, t)
    BY <1>1, <2>1, BeaconTimeoutOK
  <2> HIDE DEF t
  <2> QED
    BY <2>1, <2>2, OwnStep
<1>6. CASE SleepStart(k)
  <2> DEFINE t == Sleep(SetAfter(s, "SLEEP_START", -1))
  <2>1. s.due["SLEEP_START"] = 0 /\ s.tx = None /\ Step(k, t)
    BY <1>6 DEF SleepStart, IsDue, Fired
  <2>2. Goes(s, t) /\ KeepsWaiting(s, t)
    BY <1>1, <2>1, SleepStartOK
  <2> HIDE DEF t
  <2> QED
    BY <2>1, <2>2, OwnStep
<1>7. CASE BackToSetup(k)
  <2> DEFINE u == SetAfter(s, "BACK_TO_SETUP", -1)
             t == IF u.pan = None THEN [u EXCEPT !.state = "SETUP"] ELSE u
  <2>1. s.due["BACK_TO_SETUP"] = 0 /\ Step(k, t)
    BY <1>7 DEF BackToSetup, IsDue, Fired
  <2>2. Goes(s, t) /\ KeepsWaiting(s, t)
    BY <1>1, <2>1, BackToSetupOK
  <2> HIDE DEF t
  <2> QED
    BY <2>1, <2>2, OwnStep
<1> QED
  BY <1>2, <1>3, <1>4, <1>5, <1>6, <1>7

LEMMA TriesKeep ==
  ASSUME par \in Settings, unsent \subseteq par.load, AllOK(mac), NEW k \in On,
         AckTimeout(k) \/ AttemptTx(k) \/ PerformCca(k) \/ FromNetworkLayer(k)
  PROVE  AllOK(mac') /\ par' = par /\ unsent' \subseteq unsent
<1> DEFINE s == mac[k]
<1>1. k \in Station /\ s \in Mac /\ LocalOK(s) /\ s.addr = k /\ s.addr \in On
  BY AllFacts, ParFacts
<1>2. CASE AckTimeout(k)
  <2>1. PICK fits \in BOOLEAN : /\ s.tx = None /\ k \notin AcksSent
                                /\ Step(k, AttemptTransmission(Cancel(s, "ACK_TIMEOUT"), fits))
    BY <1>2 DEF AckTimeout
  <2>2. Goes(s, AttemptTransmission(Cancel(s, "ACK_TIMEOUT"), fits))
    BY <1>1, <2>1, AckTimeoutOK
  <2> QED
    BY <2>1, <2>2, OwnStep
<1>3. CASE AttemptTx(k)
  <2> DEFINE c == Cancel(s, "ATTEMPT_TX")
  <2>1. PICK fits \in BOOLEAN : \E t :
           /\ s.tx = None /\ Step(k, t)
           /\ \/ "ACK_TIMEOUT" \in c.timers /\ t = c
              \/ "ACK_TIMEOUT" \notin c.timers /\ t = AttemptTransmission(c, fits)
    <3>1. CASE "ACK_TIMEOUT" \in c.timers
      BY <1>3, <3>1 DEF AttemptTx
    <3>2. CASE "ACK_TIMEOUT" \notin c.timers
      BY <1>3, <3>2 DEF AttemptTx
    <3> QED
      BY <3>1, <3>2
  <2>2. PICK t :
           /\ s.tx = None /\ Step(k, t)
           /\ \/ "ACK_TIMEOUT" \in c.timers /\ t = c
              \/ "ACK_TIMEOUT" \notin c.timers /\ t = AttemptTransmission(c, fits)
    BY <2>1
  <2>3. Goes(s, t) /\ KeepsWaiting(s, t)
    BY <1>1, <2>2, AttemptTxOK
  <2> QED
    BY <2>2, <2>3, OwnStep
<1>4. CASE PerformCca(k)
  <2> DEFINE c == Cancel(s, "PERFORM_CCA")
  <2>1. PICK fits \in BOOLEAN : \E t :
           /\ "PERFORM_CCA" \in s.timers /\ Step(k, t)
           /\ IF c.state \in {"GTS", "SLEEP"} \/ c.tx # None THEN t = c
              ELSE t = TransmitCurrentPacket(c, fits) \/ t = GiveUpSensing(c, fits)
    <3>1. CASE c.state \in {"GTS", "SLEEP"} \/ c.tx # None
      BY <1>4, <3>1 DEF PerformCca
    <3>2. CASE ~(c.state \in {"GTS", "SLEEP"} \/ c.tx # None)
      BY <1>4, <3>2 DEF PerformCca
    <3> QED
      BY <3>1, <3>2
  <2>2. PICK t :
           /\ "PERFORM_CCA" \in s.timers /\ Step(k, t)
           /\ IF c.state \in {"GTS", "SLEEP"} \/ c.tx # None THEN t = c
              ELSE t = TransmitCurrentPacket(c, fits) \/ t = GiveUpSensing(c, fits)
    BY <2>1
  <2>3. Goes(s, t) /\ KeepsWaiting(s, t)
    BY <1>1, <2>2, PerformCcaOK
  <2> QED
    BY <2>2, <2>3, OwnStep
<1>5. CASE FromNetworkLayer(k)
  <2>1. PICK p \in unsent, fits \in BOOLEAN :
           /\ p.src = k /\ unsent' = unsent \ {p} /\ par' = par
           /\ mac' = [mac EXCEPT ![k] = AcceptNewPacket(s, Data(p), fits)]
    BY <1>5 DEF FromNetworkLayer
  <2> DEFINE f == Data(p)
             t == AcceptNewPacket(s, f, fits)
  <2>2. p \in [src : Station, dst : Address, sn : Nat]
    <3>1. par.load \in SUBSET [src : Station, dst : Address, sn : Nat]
      BY ParFacts DEF Parameters
    <3> QED
      BY <3>1
  <2>3. f \in OtherFrame /\ f.type = "DATA" /\ f.src = s.addr
    BY <1>1, <2>1, <2>2 DEF Data, Frame, OtherFrame
  <2> HIDE DEF f
  <2>4. Goes(s, t) /\ KeepsWaiting(s, t)
    BY <1>1, <2>3, AcceptNewPacketOK
  <2> HIDE DEF t
  <2>5. AllOK([mac EXCEPT ![k] = t])
    BY <1>1, <2>4, QuietStep
  <2> QED
    BY <2>1, <2>5 DEF t, f
<1> QED
  BY <1>2, <1>3, <1>4, <1>5

LEMMA ByType ==
  ASSUME NEW s, NEW f, NEW fits
  PROVE  LET t == FromRadioLayer(s, f, fits)
         IN  /\ f.type = "BEACON" => t = ReceiveBeacon(s, f, fits)
             /\ f.type = "ASSOCIATE" => t = ReceiveAssociate(s, f)
             /\ f.type = "GTS_REQUEST" => t = ReceiveGtsRequest(s, f)
             /\ f.type = "DATA" => t = ReceiveData(s, f)
             /\ f.type = "ACK" => t = HandleAck(s, f, fits)
<1> DEFINE t == FromRadioLayer(s, f, fits)
<1>1. f.type = "BEACON" => t = ReceiveBeacon(s, f, fits)
  BY DEF FromRadioLayer
<1>2. f.type = "ASSOCIATE" => t = ReceiveAssociate(s, f)
  BY DEF FromRadioLayer
<1>3. f.type = "GTS_REQUEST" => t = ReceiveGtsRequest(s, f)
  BY DEF FromRadioLayer
<1>4. f.type = "DATA" => t = ReceiveData(s, f)
  BY DEF FromRadioLayer
<1>5. f.type = "ACK" => t = HandleAck(s, f, fits)
  BY DEF FromRadioLayer
<1> QED
  BY <1>1, <1>2, <1>3, <1>4, <1>5

(* What station d makes of a frame f of k that asks for an ACK of d         *)
LEMMA AskedOK ==
  ASSUME par \in Settings, NEW m, AllOK(m), NEW k \in On, NEW d \in On \ {k},
         m[k].tx # None, m[k].tx.type \in {"DATA", "ASSOCIATE", "GTS_REQUEST"},
         m[k].tx \in OtherFrame, m[k].tx.dst = d, m[d].tx = None, NEW fits
  PROVE  LET t == FromRadioLayer(m[d], m[k].tx, fits)
         IN  \/ t = m[d]
             \/ Answered(m[d], t, t.tx) /\ t.tx.dst = k /\ Answers(t.tx, t, Sent(m[k]))
<1> DEFINE s == m[k]
           f == s.tx
           r == m[d]
           t == FromRadioLayer(r, f, fits)
<1>1. /\ k \in Station /\ d \in Station /\ s \in Mac /\ s.addr = k /\ LocalOK(s)
      /\ r \in Mac /\ r.addr = d /\ r.addr \in On /\ LocalOK(r)
  BY AllFacts, ParFacts
<1>2. /\ f.src = k /\ f.dst # Broadcast
      /\ f.type = "GTS_REQUEST" => f.body > 0 /\ f.body = par.requestGTS[k]
      /\ Waiting(s) /\ (s.cur = f \/ (s.cur = None /\ s.pan = None))
  <2>1. f.dst # Broadcast
    BY <1>1, ParFacts
  <2> QED
    BY <1>1, <2>1 DEF LocalOK, TxOK, Asks
<1>3. /\ Sent(s).addr = k /\ Sent(s).cur = s.cur /\ Sent(s).pan = s.pan
      /\ Waiting(Sent(s))
  BY <1>1, <1>2, SentOK DEF Same, SameLoad, Waiting
<1>4. /\ f.type = "ASSOCIATE" => t = ReceiveAssociate(r, f)
      /\ f.type = "GTS_REQUEST" => t = ReceiveGtsRequest(r, f)
      /\ f.type = "DATA" => t = ReceiveData(r, f)
  BY ByType
<1> HIDE DEF t
<1>5. \/ t = r
      \/ /\ Answered(r, t, t.tx) /\ t.tx.dst = k /\ t.tx.pan = d
         /\ f.type = "ASSOCIATE" => k \in t.devices
         /\ f.type = "GTS_REQUEST" /\ t.tx.body > 0 => Holds(t, k, t.tx.body)
  <2>1. CASE f.type = "ASSOCIATE"
    BY <1>1, <1>2, <1>4, <2>1, ReceiveAssociateOK
  <2>2. CASE f.type = "GTS_REQUEST"
    BY <1>1, <1>2, <1>4, <2>2, ReceiveGtsRequestOK
  <2>3. CASE f.type = "DATA"
    BY <1>1, <1>2, <1>4, <2>3, ReceiveDataOK
  <2> QED
    BY <2>1, <2>2, <2>3
<1>6. ASSUME t # r PROVE Answers(t.tx, t, Sent(s))
  <2>1. /\ t.addr = d /\ t.tx.pan = d
        /\ f.type = "ASSOCIATE" => k \in t.devices
        /\ f.type = "GTS_REQUEST" /\ t.tx.body > 0 => Holds(t, k, t.tx.body)
    BY <1>1, <1>5, <1>6 DEF Answered
  <2>2. CASE s.cur = f
    BY <1>3, <2>1, <2>2 DEF Answers
  <2>3. CASE s.cur = None /\ s.pan = None
    BY <1>3, <2>3 DEF Answers
  <2> QED
    BY <1>2, <2>2, <2>3
<1> QED
  BY <1>5, <1>6 DEF t

LEMMA EndTxOK ==
  ASSUME par \in Settings, AllOK(mac), NEW k \in On, EndTx(k)
  PROVE  AllOK(mac') /\ UNCHANGED <<par, unsent>>
<1> DEFINE s == mac[k]
           f == s.tx
           m == [mac EXCEPT ![k] = Sent(s)]
<1>1. /\ k \in Station /\ s \in Mac /\ LocalOK(s) /\ s.addr = k /\ mac \in [Station -> Mac]
      /\ f # None /\ f.src = k /\ f \in BeaconFrame \cup OtherFrame
  <2>1. k \in Station /\ f # None
    BY ParFacts DEF EndTx
  <2>2. s \in Mac /\ LocalOK(s) /\ s.addr = k /\ mac \in [Station -> Mac] /\ f.src = k
    BY <2>1, AllFacts DEF AllOK
  <2> QED
    BY <2>1, <2>2 DEF Mac
<1>2. PICK heard \in SUBSET (On \ {k}), fits \in BOOLEAN :
         /\ \A j \in heard : mac[j].tx = None /\ f.dst \in {j, Broadcast}
         /\ mac' = [j \in Station |->
                       IF j \in heard THEN FromRadioLayer(mac[j], f, fits)
                       ELSE IF j = k THEN Sent(s) ELSE mac[j]]
  BY DEF EndTx, Listens, Sent
<1>3. (f.type = "ACK" \/ AcksSent = {}) /\ UNCHANGED <<par, unsent>>
  BY DEF EndTx
<1> SUFFICES AllOK(mac')
  BY <1>3
<1>4. AllOK(m)
  BY <1>1, SentStep
<1>5. m \in [Station -> Mac] /\ m[k] = Sent(s) /\ \A j \in Station : j # k => m[j] = mac[j]
  BY <1>1, <1>4 DEF AllOK
<1>6. /\ m[k].tx = None /\ m[k].addr = k /\ m[k].devices = s.devices /\ m[k].gtsList = s.gtsList
      /\ m[k].pos = s.pos /\ m[k].beacon = s.beacon
  BY <1>1, <1>5, SentOK DEF Same
<1> HIDE DEF m
<1>7. \A j \in heard : j \in Station /\ j # k /\ j \in On
  BY <1>2, ParFacts
<1>8. \A j \in Station : mac'[j] = IF j \in heard THEN FromRadioLayer(mac[j], f, fits) ELSE m[j]
  BY <1>2, <1>5, <1>7
<1>9. ASSUME \A j \in heard : FromRadioLayer(mac[j], f, fits) = mac[j] PROVE AllOK(mac')
  <2>1. mac' = m
    <3>1. \A j \in Station : mac'[j] = m[j]
      BY <1>5, <1>7, <1>8, <1>9
    <3> QED
      BY <1>2, <1>5, <3>1
  <2> QED
    BY <1>4, <2>1
<1>10. ASSUME NEW d \in heard, f.dst # Broadcast
       PROVE  mac' = [m EXCEPT ![d] = FromRadioLayer(mac[d], f, fits)]
  <2>1. heard = {d} /\ d \in Station
    BY <1>2, <1>7, <1>10
  <2> DEFINE w == [m EXCEPT ![d] = FromRadioLayer(mac[d], f, fits)]
  <2>2. \A j \in Station : mac'[j] = w[j]
    BY <1>5, <1>8, <2>1
  <2> QED
    BY <1>2, <1>5, <2>2
<1>11. CASE f.type = "ACK"
  <2>1. /\ f.dst \in Station \ {k} /\ Answers(f, s, mac[f.dst]) /\ f.dst # Broadcast
        /\ f \in OtherFrame
    BY <1>1, <1>11, ParFacts DEF AllOK, AckOK, IsAck, BeaconFrame
  <2>2. CASE heard = {}
    BY <1>9, <2>2
  <2>3. ASSUME NEW d \in heard PROVE AllOK(mac')
    <3> DEFINE t == HandleAck(mac[d], f, fits)
    <3>1. d = f.dst /\ d \in Station /\ d # k /\ d \in On /\ mac[d].tx = None
      BY <1>2, <1>7, <2>1
    <3>2. m[d] = mac[d] /\ mac[d] \in Mac /\ LocalOK(mac[d]) /\ mac[d].addr \in On
      BY <1>5, <3>1, AllFacts
    <3>3. mac' = [m EXCEPT ![d] = t]
      BY <1>10, <1>11, <2>1, ByType
    <3>4. Answers(f, m[k], m[d])
      BY <1>1, <1>6, <2>1, <3>1, <3>2 DEF Answers, Holds
    <3>5. mac[d].cur # None => f.pan = mac[d].cur.dst
      BY <2>1, <3>1 DEF Answers
    <3>6. Acked(m[d], t, f)
      BY <2>1, <3>1, <3>2, <3>5, HandleAckOK
    <3>7. \A j \in Station : IsAck(m[j].tx) => m[j].tx.dst # d
      <4>1. ASSUME NEW j \in Station, IsAck(m[j].tx), m[j].tx.dst = d PROVE FALSE
        <5>1. j # k /\ m[j] = mac[j]
          BY <1>5, <1>6, <4>1 DEF IsAck
        <5>2. IsAck(f)
          BY <1>1, <1>11 DEF IsAck
        <5> QED
          BY <1>1, <3>1, <4>1, <5>1, <5>2 DEF AllOK, OneAck
      <4> QED
        BY <4>1
    <3> HIDE DEF t
    <3> QED
      BY <1>1, <1>4, <3>1, <3>3, <3>4, <3>6, <3>7, AckedStep
  <2> QED
    BY <2>2, <2>3
<1>12. f.type # "ACK" => \A j \in Station : ~IsAck(mac[j].tx) /\ ~IsAck(m[j].tx)
  <2>1. \A j \in Station : IsAck(mac[j].tx) => mac[j].tx.dst \in AcksSent
    BY AllFacts DEF IsAck, AcksSent
  <2> QED
    BY <1>3, <1>5, <1>6, <2>1 DEF IsAck
<1>13. CASE f.type = "BEACON"
  <2>1. /\ k \in Coord /\ f.pan = k /\ s.pos = 0 /\ f.body = s.beacon /\ ListOK(f.body)
        /\ f \in BeaconFrame
    BY <1>1, <1>13 DEF LocalOK, StableOK, TxOK, OtherFrame
  <2>2. ASSUME NEW j \in heard
        PROVE  LET t == FromRadioLayer(mac[j], f, fits)
               IN  \/ t = mac[j]
                   \/ /\ t \in Mac /\ LocalOK(t) /\ t.tx = None /\ j \in Node
                      /\ t.pos = 0 /\ t.beaconOf = f.pan /\ t.capEnd = CapLength(f.body)
                      /\ OwnsIn(t, f.body) /\ SameStation(mac[j], t)
    <3>1. /\ j \in Station /\ mac[j] \in Mac /\ LocalOK(mac[j]) /\ mac[j].addr = j
          /\ mac[j].addr \in On /\ mac[j].tx = None
      BY <1>2, <1>7, AllFacts
    <3>2. mac[j].addr \in Node /\ mac[j].pan = f.pan => mac[j].pos = par.period
      <4>1. ASSUME j \in Node, mac[j].pan = k PROVE mac[j].pos = par.period
        <5>1. k # None
          BY <1>1, ParFacts
        <5>2. mac[j].beaconOf = k
          BY <3>1, <4>1, <5>1 DEF LocalOK, StableOK, NodeOK
        <5> QED
          BY <1>1, <1>13, <4>1, <5>1, <5>2 DEF AllOK, Ready, ReadyFor
      <4> QED
        BY <2>1, <3>1, <4>1
    <3>3. FromRadioLayer(mac[j], f, fits) = ReceiveBeacon(mac[j], f, fits)
      BY <1>13, ByType
    <3> QED
      BY <2>1, <3>1, <3>2, <3>3, ReceiveBeaconOK
  <2>3. mac' \in [Station -> Mac]
    <3>1. \A j \in Station : mac'[j] \in Mac
      BY <1>5, <1>7, <1>8, <2>2
    <3> QED
      BY <1>2, <3>1
  <2>4. \A j \in Station :
            \/ mac'[j] = m[j]
            \/ /\ j \in Node /\ LocalOK(mac'[j]) /\ mac'[j].tx = None /\ mac'[j].pos = 0
               /\ mac'[j].beaconOf = f.pan /\ mac'[j].capEnd = CapLength(f.body)
               /\ OwnsIn(mac'[j], f.body) /\ SameStation(m[j], mac'[j])
    BY <1>5, <1>7, <1>8, <2>2
  <2>5. m[k].tx = None /\ m[k].pos = 0 /\ f.body = m[k].beacon
    BY <1>6, <2>1
  <2>6. \A j \in Station : ~IsAck(m[j].tx)
    BY <1>12, <1>13
  <2> QED
    BY <1>4, <2>1, <2>3, <2>4, <2>5, <2>6, HeardStep
<1>14. CASE f.type \in {"DATA", "ASSOCIATE", "GTS_REQUEST"}
  <2>1. f \in OtherFrame /\ (f.dst = Broadcast => f.type = "DATA")
    BY <1>1, <1>14 DEF BeaconFrame, LocalOK, TxOK
  <2>2. CASE f.dst = Broadcast
    <3>1. \A j \in heard : FromRadioLayer(mac[j], f, fits) = mac[j]
      BY <2>1, <2>2, ByType DEF ReceiveData
    <3> QED
      BY <1>9, <3>1
  <2>3. CASE heard = {}
    BY <1>9, <2>3
  <2>4. ASSUME f.dst # Broadcast, NEW d \in heard PROVE AllOK(mac')
    <3> DEFINE t == FromRadioLayer(mac[d], f, fits)
    <3>1. d = f.dst /\ d \in Station /\ d # k /\ d \in On /\ mac[d].tx = None
      BY <1>2, <1>7, <2>4
    <3>2. \/ t = mac[d]
          \/ Answered(mac[d], t, t.tx) /\ t.tx.dst = k /\ Answers(t.tx, t, Sent(s))
      BY <1>1, <1>14, <2>1, <3>1, AskedOK
    <3>3. mac' = [m EXCEPT ![d] = t] /\ m[d] = mac[d] /\ m[k] = Sent(s)
      BY <1>5, <1>10, <2>4, <3>1
    <3> HIDE DEF t
    <3>4. CASE t = mac[d]
      <4>1. mac' = m
        BY <1>5, <3>1, <3>3, <3>4
      <4> QED
        BY <1>4, <4>1
    <3>5. CASE Answered(mac[d], t, t.tx) /\ t.tx.dst = k /\ Answers(t.tx, t, Sent(s))
      <4>1. \A j \in Station : ~IsAck(m[j].tx)
        BY <1>12, <1>14
      <4>2. AllOK([m EXCEPT ![d] = t])
        BY <1>1, <1>4, <3>1, <3>3, <3>5, <4>1, AnsweredStep
      <4> QED
        BY <3>3, <4>2
    <3> QED
      BY <3>2, <3>4, <3>5
  <2> QED
    BY <2>2, <2>3, <2>4
<1>15. f.type \in {"BEACON", "ACK", "DATA", "ASSOCIATE", "GTS_REQUEST"}
  BY <1>1 DEF BeaconFrame, OtherFrame
<1> QED
  BY <1>11, <1>13, <1>14, <1>15

LEMMA TickOK ==
  ASSUME par \in Settings, AllOK(mac), Tick
  PROVE  AllOK(mac') /\ UNCHANGED <<par, unsent>>
<1>1. /\ mac' = [k \in Station |-> NextSlot(mac[k])] /\ UNCHANGED <<par, unsent>>
      /\ \A k \in On : mac[k].tx = None /\ \A x \in SlowTimer : mac[k].due[x] # 0
  BY DEF Tick, SlotIsOver, IsDue
<1>2. ASSUME NEW k \in Station
      PROVE  mac[k].tx = None /\ \A x \in SlowTimer : mac[k].due[x] # 0
  <2>1. mac[k].addr = k /\ LocalOK(mac[k])
    BY AllFacts
  <2>2. CASE k \in On
    BY <1>1, <2>2
  <2>3. CASE k \notin On
    <3>1. mac[k].tx = None /\ \A x \in SlowTimer : mac[k].due[x] = -1
      BY <2>1, <2>3 DEF LocalOK, StableOK, TxOK, OffOK
    <3> QED
      BY <3>1
  <2> QED
    BY <2>2, <2>3
<1>3. AllOK([k \in Station |-> NextSlot(mac[k])])
  BY <1>2, TickStep
<1> QED
  BY <1>1, <1>3

LEMMA NextOK ==
  ASSUME par \in Settings, unsent \subseteq par.load, AllOK(mac), Next
  PROVE  AllOK(mac') /\ par' = par /\ unsent' \subseteq unsent
<1>1. CASE Tick
  BY <1>1, TickOK
<1>2. ASSUME NEW k \in On, StationStep(k)
      PROVE  AllOK(mac') /\ par' = par /\ unsent' \subseteq unsent
  <2>1. CASE \/ StartFrame(k) \/ AwaitBeacon(k) \/ GtsStart(k) \/ BeaconTimeout(k)
             \/ SleepStart(k) \/ BackToSetup(k)
    BY <2>1, TimersKeep
  <2>2. CASE AckTimeout(k) \/ AttemptTx(k) \/ PerformCca(k) \/ FromNetworkLayer(k)
    BY <2>2, TriesKeep
  <2>3. CASE EndTx(k)
    BY <2>3, EndTxOK
  <2> QED
    BY <1>2, <2>1, <2>2, <2>3 DEF StationStep
<1> QED
  BY <1>1, <1>2 DEF Next

(* The parameters do not change, so the invariant means the same after a    *)
(* step as before it.                                                       *)
LEMMA SameMeaning ==
  ASSUME par' = par, AllOK(mac')
  PROVE  AllOK(mac)'
<1>1. /\ mac' \in [Station -> Mac]
      /\ \A k \in Station : mac'[k].addr = k /\ LocalOK(mac'[k])
      /\ \A n \in Node : Synced(n, mac') /\ Ready(n, mac') /\ InPan(n, mac')
      /\ \A k \in Station : AckOK(k, mac') /\ Exclusive(k, mac')
      /\ OneAck(mac')
  BY DEF AllOK
<1>2. (mac \in [Station -> Mac])'
  <2>1. Mac' = Mac
    BY DEF Mac
  <2> QED
    BY <1>1, <2>1
<1>3. (\A k \in Station : mac[k].addr = k /\ LocalOK(mac[k]))'
  <2> SUFFICES ASSUME NEW k \in Station PROVE (mac[k].addr = k /\ LocalOK(mac[k]))'
    OBVIOUS
  <2>1. mac'[k].addr = k /\ LocalOK(mac'[k])
    BY <1>1
  <2>2. /\ ListOK(mac'[k].gtsList) /\ ListOK(mac'[k].beacon) /\ CoordOK(mac'[k])
        /\ TimersOK(mac'[k]) /\ OffOK(mac'[k]) /\ NodeOK(mac'[k])
        /\ CurOK(mac'[k]) /\ Counted(mac'[k]) /\ Served(mac'[k]) /\ TxOK(mac'[k])
    BY <2>1 DEF LocalOK, StableOK
  <2>3. ListOK(mac[k].gtsList)' /\ ListOK(mac[k].beacon)'
    BY <2>2 DEF ListOK
  <2>4. CoordOK(mac[k])'
    BY <2>2 DEF CoordOK, On, CapLength
  <2>5. TimersOK(mac[k])' /\ OffOK(mac[k])' /\ NodeOK(mac[k])'
    BY <2>2 DEF TimersOK, OffOK, NodeOK, On
  <2>6. CurOK(mac[k])' /\ Counted(mac[k])' /\ Served(mac[k])'
    BY <2>2 DEF CurOK, PacketOK, BufferOK, Counted, Served
  <2>7. TxOK(mac[k])'
    BY <2>2 DEF TxOK, On, Asks, Waiting
  <2> QED
    BY <2>1, <2>3, <2>4, <2>5, <2>6, <2>7 DEF LocalOK, StableOK
<1>4. (\A n \in Node : Synced(n, mac) /\ Ready(n, mac) /\ InPan(n, mac))'
  <2> SUFFICES ASSUME NEW n \in Node PROVE (Synced(n, mac) /\ Ready(n, mac) /\ InPan(n, mac))'
    OBVIOUS
  <2>1. Synced(n, mac)'
    BY <1>1 DEF Synced, SyncedWith, CapLength
  <2>2. Ready(n, mac)'
    BY <1>1 DEF Ready, ReadyFor
  <2>3. InPan(n, mac)'
    BY <1>1 DEF InPan, Holds
  <2> QED
    BY <2>1, <2>2, <2>3
<1>5. (\A k \in Station : AckOK(k, mac) /\ Exclusive(k, mac))'
  BY <1>1 DEF AckOK, IsAck, Answers, Waiting, Holds, Exclusive, ExclusiveIn
<1>6. OneAck(mac)'
  BY <1>1 DEF OneAck, IsAck
<1> QED
  BY <1>2, <1>3, <1>4, <1>5, <1>6 DEF AllOK

-----------------------------------------------------------------------------
(* The theorems                                                             *)

(* What the stations know of themselves and of each other holds after every *)
(* step of every one of them.                                               *)
THEOREM IInvHolds == Spec => []IInv
<1>1. Init => IInv
  <2> SUFFICES ASSUME Init PROVE IInv
    OBVIOUS
  <2>1. AllOK(mac)
    BY StartsOK
  <2> QED
    BY <2>1 DEF IInv, TypeOK, AllOK, Init
<1>2. IInv /\ [Next]_vars => IInv'
  <2> SUFFICES ASSUME IInv, [Next]_vars PROVE IInv'
    OBVIOUS
  <2>1. par \in Settings /\ unsent \subseteq par.load /\ AllOK(mac)
    BY DEF IInv, TypeOK
  <2>2. AllOK(mac') /\ par' = par /\ unsent' \subseteq unsent
    BY <2>1, NextOK DEF vars
  <2>3. AllOK(mac)'
    BY <2>2, SameMeaning
  <2>4. TypeOK'
    BY <2>1, <2>2, <2>3 DEF TypeOK, AllOK
  <2> QED
    BY <2>3, <2>4 DEF IInv
<1> QED
  BY <1>1, <1>2, PTL DEF Spec

(* The states of the MAC modules keep their types: slots, retries and lost  *)
(* beacons stay in their ranges (Basic802154.h:66-81).                    *)
THEOREM TypeCorrect == Spec => []TypeOK
<1>1. IInv => TypeOK
  BY DEF IInv
<1> QED
  BY <1>1, IInvHolds, PTL

(* A packet that contends has attempts left, so it is given up when they    *)
(* are used up (Basic802154.cc:647).                                        *)
THEOREM AttemptsAreCounted == Spec => []AttemptsLeft
<1>1. IInv => AttemptsLeft
  <2> SUFFICES ASSUME IInv, NEW k \in On
               PROVE  /\ mac[k].retries >= 0
                      /\ "PERFORM_CCA" \in mac[k].timers /\ mac[k].state = "CAP"
                            /\ mac[k].cur # None => mac[k].retries > 0
    BY DEF AttemptsLeft
  <2>1. par \in Settings /\ AllOK(mac)
    BY DEF IInv, TypeOK
  <2>2. k \in Station /\ mac[k] \in Mac /\ Counted(mac[k])
    BY <2>1, AllFacts, ParFacts DEF LocalOK
  <2>3. mac[k].retries \in 0 .. MaxFrameRetries /\ MaxFrameRetries \in Nat
    BY <2>1, <2>2, MacFacts, ParFacts
  <2> QED
    BY <2>2, <2>3 DEF Counted
<1> QED
  BY <1>1, IInvHolds, PTL

(* A node and the coordinator of its PAN agree on the association, on the   *)
(* slot they are in and on the node's GTS, whatever beacons, requests and   *)
(* ACKs get lost (Basic802154.cc:378-379, 550-561).                         *)
THEOREM PansAgree == Spec => []AgreesWithItsPan
<1>1. IInv => AgreesWithItsPan
  <2> SUFFICES ASSUME IInv, NEW n \in Node, mac[n].pan # None
               PROVE  LET c == mac[mac[n].pan]
                      IN  /\ mac[n].beaconOf = mac[n].pan
                          /\ n \in c.devices
                          /\ mac[n].pos < par.period => mac[n].pos = c.pos
                          /\ mac[n].assigned > 0 =>
                               \E i \in DOMAIN c.gtsList :
                                  /\ c.gtsList[i].owner = n
                                  /\ c.gtsList[i].length = mac[n].assigned
    BY DEF AgreesWithItsPan
  <2>1. par \in Settings /\ AllOK(mac)
    BY DEF IInv, TypeOK
  <2>2. n \in Station /\ mac[n].addr = n /\ NodeOK(mac[n]) /\ Synced(n, mac) /\ InPan(n, mac)
    BY <2>1, AllFacts DEF LocalOK, StableOK, AllOK
  <2>3. mac[n].beaconOf = mac[n].pan
    BY <2>2 DEF NodeOK
  <2> QED
    BY <2>2, <2>3 DEF Synced, SyncedWith, InPan, Holds
<1> QED
  BY <1>1, IInvHolds, PTL

(* No station sends in a guaranteed slot of its PAN that is another's, with *)
(* the exception of GtsIsExclusive (Basic802154.cc:698-712).                *)
THEOREM SlotsAreExclusive == Spec => []GtsIsExclusive
<1>1. IInv => GtsIsExclusive
  <2> SUFFICES ASSUME IInv, NEW k \in On, mac[k].tx # None, mac[k].pan # None
               PROVE  \/ mac[k].tx.type = "ACK"
                      \/ mac[k].joined /\ mac[k].capEnd = mac[k].gtsStart
                      \/ LET c == mac[mac[k].pan]
                         IN  \A i \in DOMAIN c.beacon :
                                \/ c.beacon[i].owner = k
                                \/ c.pos < c.beacon[i].start
                                \/ c.pos >= c.beacon[i].start + c.beacon[i].length
    BY DEF GtsIsExclusive
  <2>1. par \in Settings /\ AllOK(mac)
    BY DEF IInv, TypeOK
  <2>2. k \in Station /\ mac[k].addr = k /\ Exclusive(k, mac)
    BY <2>1, AllFacts, ParFacts DEF AllOK
  <2> QED
    BY <2>2 DEF Exclusive, ExclusiveIn
<1> QED
  BY <1>1, IInvHolds, PTL

(* A station that is not to be woken for a beacon listens for one, and no   *)
(* buffered packet waits for another to come (Basic802154.cc:241-251).      *)
THEOREM NoneIsStranded == Spec => []NeverStranded
<1>1. IInv => NeverStranded
  <2> SUFFICES ASSUME IInv, NEW k \in On
               PROVE  /\ mac[k].due["FRAME_START"] >= 0 \/ mac[k].radio = "RX"
                      /\ mac[k].pan # None /\ mac[k].cur = None => mac[k].buffer = <<>>
    BY DEF NeverStranded
  <2>1. par \in Settings /\ AllOK(mac)
    BY DEF IInv, TypeOK
  <2>2. /\ k \in Station /\ mac[k].addr = k /\ mac[k] \in Mac /\ Served(mac[k])
        /\ CoordOK(mac[k]) /\ TimersOK(mac[k])
    BY <2>1, AllFacts, ParFacts DEF LocalOK, StableOK
  <2>3. k \in Coord \/ k \in Node
    BY <2>2 DEF Station
  <2> QED
    BY <2>2, <2>3 DEF CoordOK, TimersOK, Served
<1> QED
  BY <1>1, IInvHolds, PTL

=============================================================================
