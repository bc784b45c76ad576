# A TLA+ verification of the Castalia node

Castalia simulates wireless sensor networks on OMNeT++. A node is a handful of
modules (application, routing, MAC, radio, sensor and resource manager) that
the simulation kernel calls one event at a time. No two handlers run at the
same moment; what is hard is the *order* of events over several nodes: copies
of broadcasts, answers that come after their request was given up, timers whose
message is already due when they are cancelled, tables that changed between a
question and its answer.

All paths below are relative to `src/src/`, `node/communication/` is left out
before `routing/`, `mac/` and `radio/`.

## 1. Inventory

| Part | State | Operations | What makes it correct | Here |
|---|---|---|---|---|
| Timer service (`helpStructures/TimerService.cc`) | vector of pointers to timer messages; the kernel's event set | `setTimer`, `cancelTimer`, `getTimer`, `handleTimerMessage` | slots and events agree; a timer fires once per arming, at its deadline, never after a cancel | modelled, proved |
| Resource manager (`node/resourceManager`) | energy left, power of every consumer, time of the last charge, one periodic message | power reports, periodic charge, out of energy | charge = power × time for every interval; an empty battery stops the node once | modelled, without RAM and clock drift; proved |
| AODV routing (`routing/aodvRouting`) | routing table, sequence and request numbers, four queues (requests, broadcasts seen, lifetimes, RREP acks), RREQ rate limiter, packet buffer | data from above and below, RREQ, RREP, RERR, hello, seven timers | tables agree with the topology and with each other, no loops, no packet stuck, doubled or handed to a node that cannot forward it | modelled, without RREP acks and blacklist; proved but for loop freedom |
| Routing base class (`routing/VirtualRouting.cc`) | packet buffer, history of five sequence numbers per source | `bufferPacket`, duplicate filter | a packet is accepted once; the buffer is bounded | the buffer, as AODV uses it |
| MAC base class (`mac/VirtualMac.cc`) | buffer, last sequence number per source | buffer, duplicate filter, disabling | as above, and nothing happens after disabling | disabling, as it meets the timers; buffer and filter, as T-MAC uses them |
| T-MAC / S-MAC (`mac/tMac`) | MAC state, schedules, current exchange, retries | SYNC, RTS/CTS/DATA/ACK, contention, sleep | no exchange is stuck, every node gets a schedule, an acknowledged packet was received, packets arrive once | modelled, without a clock, proved |
| TunableMAC (`mac/tunableMac`) | state, tries left, beacons left, buffer, five timers, duty cycle | contention, beacon trains, retransmission, sleeping and listening, a command that changes the duty cycle | nothing waits for a timer that is not set; every packet is tried as often as it should be and leaves | modelled, proved |
| Radio (`radio/Radio.cc`) | state, state being changed to, signals on air, buffer, carrier sense interrupt | commands of the MAC, transmissions, starts and ends of signals, messages to itself | a change ends once; a transmission is neither cut off nor doubled; what is received was heard from start to end | modelled without signal arithmetic, proved |
| TSTP (`routing/tstp`) | pending and trusted peers, pending keys, open requests | key exchange, expiry of keys and peers; forwarding; interests and responses | a peer is in one list; both ends agree on trust; keys were asked for | the security bootstrap, forwarding and the sink's filter; proved |
| TSTP MAC (`mac/tstpMac`) | state machine of microframes and data, schedule of messages | contention, trains of microframes, implicit acknowledgement | a message is in somebody's custody until the sink has it, and is delivered once | modelled without its variants, proved |
| IEEE 802.15.4 (`mac/mac802154`) | MAC state, PAN, the frame's slots, current packet and its attempts, eight timers; a coordinator's devices and guaranteed slots | beacons, association, CSMA-CA, guaranteed slots (GTS), acknowledgements, sleep | a node follows the PAN that knows it; a guaranteed slot is its owner's only; attempts are counted; nothing waits for a beacon it cannot hear | modelled, in slots; proved |
| Baseline BAN (`mac/baselineBanMac`), the other 802.15.4 (`mac/ieee802154`) | connections and slots; one packet and its retries | polled and scheduled access; CSMA-CA and ACKs | as above | not modelled |
| Sensor manager (`node/sensorManager`) | last value and sample time per sensor | sample requests and answers | a cached value is one that was sampled | not modelled |
| LEACH, rings, LABILE, REL, AODV test | variants and other protocols | | | not modelled |
| Channel, physical process, mobility, applications | real-valued models and workloads | | | not modelled: their effect (loss, delay, any order; any packet) is the environment of the models |

How the parts meet: a protocol module inherits the timer service and its base
class; packets go down and up by `toMacLayer`/`fromMacLayer` and
`toNetworkLayer`/`fromNetworkLayer`, all of them events of the kernel; the radio reports its
power to the resource manager by messages; the resource manager stops the other
modules with `OUT_OF_ENERGY`. Between the AODV layers of two nodes everything
below is lossy and unordered, and that is all AODV may assume.

The hazards, each at its line and with the properties that watch it, are listed in
`PROJECT.json`. The hard ones are: a RREQ copy that outlives the record of
its broadcast, a route that expires without a new sequence number, a request
that was answered but still counts as open, retry counts shared between own and
forwarded requests, a timer that is not re-armed after its queue changed, a
cancel of a timer whose message is already due, a radio command that meets a change
or a transmission in progress, a beacon that interrupts a contention, a grant that is
repeated after its key was used, a message that is deleted because somebody else
announced it, and a frame whose beacon a node missed.

## 2. Modules

| Module | What it is |
|---|---|
| `TimerPromise` | What a client may rely on: one deadline per index. |
| `TimerService` | Slots, message objects and the kernel's event set, with addresses that are reused. Implements `TimerPromise`. |
| `ResourceManager` | The energy account; power reports are messages in flight. |
| `ResourceManagerProofs` | Its inductive invariant for every set of consumers, powers and battery. |
| `AodvTable` | `RoutingTable_rt.cc` as operators on one table. |
| `Datagrams` | What AODV promises the applications: where a packet may be, and why it may be dropped. |
| `AodvRouting` | The AODV layers of all nodes and the packets between them. Implements `Datagrams`. |
| `AodvLifetime` | One node's queue of lifetime entries, their counts, and the timer. |
| `AodvRoutingProofs` | The inductive invariants of `AodvRouting` and its refinement of `Datagrams` for every topology, and the invariant of `AodvLifetime` for every set of destinations. |
| `LossyLink` | What T-MAC promises the layers above: queues, a medium that loses packets, and when a packet may leave its queue. |
| `TMac` | The T-MAC modules of all nodes and the packets on the air; S-MAC by its parameters. Implements `LossyLink`. |
| `TMacProofs` | Its inductive invariant and its refinement of `LossyLink` for every set of nodes, load and parameters. |
| `Radio` | One transceiver, its MAC's commands and the signals of other nodes. |
| `NodeProofs` | The inductive invariants of `Radio` for any senders, frequencies and buffer and of `TimerService` for any addresses and indices, which also implements `TimerPromise`. |
| `AttemptQueue` | What TunableMAC promises the network layer: a queue whose head is tried so many times and then leaves. |
| `TunableMac` | One TunableMAC, the frames of others and its radio. Implements `AttemptQueue`. |
| `TunableMacProofs` | Its inductive invariant and its refinement of `AttemptQueue` for every load, buffer and parameters. |
| `TrustLease` | What the key exchange promises: whom the sink takes in and for how long, and when a sensor trusts the sink. |
| `TstpSecurity` | The key exchange of all sensors with the sink. Implements `TrustLease`. |
| `Convergecast` | What the MAC of TSTP promises: which copies of a message are made, and when one may be given up. |
| `TstpMac` | The MAC modules of a TSTP network and the decisions of its router. Implements `Convergecast`. |
| `TstpProofs` | The inductive invariants of `TstpMac` and its refinement of `Convergecast` for every network, and the invariant of `TstpSecurity` and its refinement of `TrustLease` for every set of sensors. |
| `Mac802154` | The 802.15.4 MACs of coordinators and nodes, their radios and the slots of time. |
| `Mac802154Proofs` | Its inductive invariant for every set of stations, length of the frame and load. |
| `Lists`, `ListProofs` | What the models use of lists, sums and maps, and the lemmas about them that the proofs share. |
| `MC*` | The instances that TLC checks. |

A proof module that extends two components needs their names apart, so `TimerService` has
`ServiceSpec` and `serviceVars`, `AodvLifetime` has `LifetimeSpec`, and `TstpSecurity`
has `SecuritySpec`, where the others have `Spec`.

### Timer service

`timerMessages` is the vector, `fes` the set of scheduled message addresses,
`msgIndex` and `msgAt` the content of a message. `new` may return any free
address, so a slot that still points to a deleted message would be taken for the
next message at that address. `SetTimer`, `CancelTimer`, `Deliver`, `Disable`
are the three methods and the test of `disabled` in `handleMessage` of
the module bases. A callback that sets or cancels timers is `Deliver`
followed by those actions at the same instant; other due messages may still come
before or after, as in the kernel. A delay may be 0 as far as the module is concerned.

### Resource manager

`draw` (what a consumer really draws) and `used` (what was really used) are the
physical truth the account is compared with. A report takes no time but is an
event, so reports of several consumers can be in flight (`mail`) while a
periodic charge is due at the same instant. Energy is an integer: power units
times ticks.

### AODV routing

One action per event: `FromApplicationLayer`, `ProcessData`, `ProcessRreq`,
`ProcessRrep`, `ProcessRerr`, `ProcessHello`, and one per timer. A packet in
`net` may be received at any later moment or never, and in any order. A broadcast
is one copy per neighbour. What is abstracted:

* Time. Entries of `rreqRequest` and `rreqBroadcast` all have the same delay
  (`activeRouteTimeout/10`), so the queues are first in, first out; when their timer
  fires is free. A route may expire at any moment (`RouteExpiration`); when it
  really does is the subject of `AodvLifetime`. Timer drift is 1, here and in
  `TimerService!Deadline`, where `getTimer` multiplies by it once more
  (`TimerService.cc:99`).
* Hellos. A node that has taken part in a reply sends hellos, a neighbour may hear
  them, and may miss them at any moment.
* RREP acknowledgements and the blacklist: a RREQ from a blacklisted neighbour is a
  lost RREQ.
* The RERR rate limiter delays RERRs, as `net` does. A RERR without destinations
  (section 3) changes nothing at its receiver and is left out.
* Flags and lifetimes in packets, and the entry a node may hold for itself, which
  the code never deletes.

### AODV lifetimes

The queue is a bag of entries `[dest, lifetime, canceled]`: equal entries are
possible and a priority queue is free to order them. `Learned` is
`updateRTEntry`, `Refreshed` is `updateLifetimeEntry`, `Reset` is
`resetLifetimeEntry` (the first entry of the destination in the heap, which may be any),
`EntryExpiration` the timer. Whether an update replaces the next hop depends on
sequence numbers that `AodvRouting` models; here it is a free choice.

### T-MAC

`mac[n]` is the module: `state` is `macState`, `timers` the timers that are set,
`table` the schedules (the first is the primary one), the others have their names in
the code or are explained where they are declared. The handlers are operators on one
such record (`ResetDefaultState`, `CarrierIsBusy`, `UpdateScheduleTable`), and there is
one action per timer, packet type, interrupt and request. `delivered` and `acked`
are history. What is abstracted:

* Time. A timer that is set may fire at any moment, so every race between a
  timer and a packet is there, and some that real durations exclude.
  `activationTimeout` is ahead exactly while CHECK_TA is set.
* Offsets. Of the primary schedule only whether it was shifted; secondary
  schedules wake a node at any moment of its frame.
* The radio and the channel. A transmission reaches any set of awake neighbours and
  destroys what was on its way to the others; the sender loses what was on its way
  to it. All modelled nodes are in range of each other. `Off` are destinations that never
  answer. The carrier may be busy, and interrupt, at any moment.
* FRTS, which the code does not support, and the sink flag: a node may start with
  either SYNC_SETUP or SYNC_CREATE.

Parameters are a record `par`, chosen from `Settings` at the start.

### Radio

`mail` is what the radio has been sent and has not read at this instant (commands of
the MAC, and its messages to itself), `transition` the completion of a state change,
`continueTX` that of a transmission; the handlers have the names they have in the code.
A received signal is `clean` as long as its bit errors are not ALL_ERRORS; whether one
that was received is strong enough is left open, and so is when the power history is long
enough for a valid reading. `interference` is the set of signals in the sum
`currentInterference`. `air` is the truth: the signals of others that are
being sent; `missed` (history) those that began, or went on, while the radio did
not listen to them. Left out are the commands that change data only.

### TunableMAC

Actions have the names of the timers and handlers. `TXBuffer`'s head is served with
`numTxTries` attempts; `par` are the parameters that stay what they are. How long a
backoff is and whether an attempt is skipped (`probTx`) is free. `radio` obeys
SET_STATE, after a transmission if there is one; a received frame may reach the MAC when
the radio sleeps already (`inbox`). Of the commands only SET_DUTY_CYCLE is modelled: the
others change parameters at run time, numTx among them. `NumTx` is at least 1; the code
accepts 0, with which no packet would be tried.

### TSTP: keys

Time counts half periods of the key manager, since a message lives as long as that. The
sink's side is kept in lists as in the code (`pendingPeers`, `trustedPeers`,
`pendingKeys`), each sensor has one peer, the sink (`sinkPeer`), the number of
its `keys` (all of which match, since key pairs do not change) and its AUTH_REQUEST
timer. The network repeats, delays, reorders and loses; `repeatGrants` (chosen at the
start) says whether AUTH_GRANTED is repeated too.

### TSTP: custody

`mac[n].handler` is the interrupt that is set, and a node has only one. `schedule` is
the list of messages, whose order does not matter because backoffs are random: any of them
may be next. A microframe or data is heard by any of the neighbours that listen for
it. The router's `update` (relevance, forwarding) and the sink's filter (`Notify`) are
part of the reception; `TSTP::update` hands up what comes from a trusted peer and has a time that
is past (`tstp.cc:848-874`), by default everything (`startWithKeysEstablished`). `accepted`, `received` and `delivered` are history, `expired` is
the messages that are late.

### IEEE 802.15.4

`mac[k]` is the state of the MAC module of `k` and of its radio. Time is counted in slots
of a superframe: `due[t]` is how many slots are left until a timer fires, `pos` the
slots since `currentFrameStart`. A timer that is due in a slot fires at any moment of
it, and `Tick` comes when everything that is due has been done; the timers of an attempt
(`timers`) are shorter than a slot, and a backoff may be of any length. What is abstracted:

* A packet and its ACK take less than a slot. Whether they fit in what is left of the last
  slot of a CAP or GTS is `fits`, chosen freely; before that slot they do.
* `CW`, `NB` and `BE`: sensing ends with a free channel or is given up.
* The channel. A frame reaches any of the stations that listen. An ACK is the shortest
  frame and sent at once, so it ends before other frames do.
* A `SLEEP_START` at the end of a frame comes before the `BEACON_TIMEOUT` of the next one
  (the case of the comment at `Basic802154.cc:242`).
* The list of GTS only grows and each node asks for the same number (`requestGTS` is a
  parameter), so a GTS keeps its place and the branch of `gtsRequest_hub` that replaces one is
  not taken.

`beaconOf` and `joined` say whose beacon was heard last and in which situation, `beacon` what
the last beacon of a coordinator said; they are history.

## 3. What is checked

TLC, two workers. Every passing run ends by itself; CHECK_DEADLOCK is off where a
bounded clock or a finite set of packets ends the behaviour.

| Run | Shows | Bounds, and why they are enough |
|---|---|---|
| `timer_service` | `SlotsMatchEvents`, `ImplementsPromise`, `ArmedTimerFires` | vector grows by 2 up to 3, so both branches of the growth happen; 3 addresses for 3 slots, so an address is reused while others are in use; delays 1, 2, clock 3. |
| `resource_manager` | `EnergyBalance`, `EmptyBatteryStopsNode` | two consumers, two reports in flight; the battery of 8 lasts between one and three intervals of 2, the clock of 6 runs past its end. |
| `aodv_line` | `HopsNeverUnderestimate`, `NextHopKnowsDestination`, `RrepHasPrecursor`, `ImplementsDatagrams` | n1 - n2 - n3, the least network with a forwarder that is neither end; a packet from n1 to each of the others; one RREQ per node, so one discovery of n1 and one of a forwarder that has lost its route; a route expires, a link breaks and a broadcast record is dropped, each once and at any moment. Of `ImplementsDatagrams` it shows the relaying: packets that meet expired and broken routes on their way. |
| `aodv_retry` | `BufferedPacketLeaves`, `ImplementsDatagrams` | n1 - n2 and n3 out of range; n1 has two packets for n2 and one for n3 and room for two: discoveries overlap, packets for the same and for different destinations wait together, and the buffer overflows. Three RREQs: either discovery may be repeated and given up while the other is answered or waits. No route expires and no link breaks. |
| `tmac` | `NeverStranded`, `ExchangeMatchesHead`, `AckedWasDelivered`, `AuthorIsNewest`, `ImplementsLink` | two nodes that may create two schedules, with three sets of parameters. The defaults, with two unicast packets and a broadcast for a buffer of two, two attempts each: DATA is repeated, a packet is given up with the next one behind it, and the buffer overflows. `SMAC.ini`, where an author renews its schedule once, enough for an old SYNC to travel behind a new one, and one packet for a node that is off, which the other overhears. No RTS and no collision resolution, with a packet each way. |
| `radio` | `TransitionIsPending`, `TransmitsOnlyInTX`, `NeverStuckInTX`, `InterferenceIsReal`, `PowerMatchesState`, `CleanWasHeard` | two senders (interchangeable), so signals overlap in every way; a buffer of one, so it overflows; two messages at one instant; one change between two frequencies. |
| `tunable_mac` | `NeverStranded`, `PacketIsServed`, `ImplementsAttemptQueue`, `BufferEmptied` | all eight parameter records, with and without a duty cycle; three packets for a buffer of two, two attempts each, trains of two beacons; two frames of others and two changes of the duty cycle at any moment. |
| `tstp_keys` | `PeerInOneList`, `AuthHasKey`, `TrustIsMutual`, `ImplementsTrustLease` | two sensors, so one is asked while the other is pending; every message received up to twice; keys live two periods and the clock runs over two of those and three password windows. |
| `tstp_mac` | `Custody`, `PendingIsScheduled`, `ImplementsConvergecast` | a sensor, two relays that hear each other and the sink, the least network in which a relay gives its copy to its peer (relays are interchangeable); two messages, so that one overtakes the other, and the older one late at any moment (`OnlyOlderIsLate`; when both are, no copy matters any more); trains of two microframes, the least the code accepts. |
| `mac802154` | `AttemptsLeft`, `AgreesWithItsPan`, `GtsIsExclusive`, `NeverStranded` | frames of 4 slots, a CAP of at least one, two lost beacons, two attempts, a buffer of one; five networks: two nodes with a GTS each and no inactive part; a node and packets in both directions, one of them broadcast, in the CAP or in the GTS only; two PANs whose frames overlap; a node that asks for more than there is. Two lost beacons are enough to miss one and stay, and to leave and join again with the old GTS. |
| `aodv_lifetime` | `RouteIsTimed`, `TimerNotInPast`, `KeepsItsLifetime` | a neighbour and a farther destination, timeout 2, a clock of 7 (three timeouts), up to 6 entries. |

`LoopFree` is only checked where it fails, in `rfc_loop_free` (finding 1). Without dropped
records it fails as well: in a ring of four, TLC's simulation finds a loop with every
record kept and one expired route. A node that loses the number of a destination, because
it was also its previous hop (`RoutingTable_rt.cc:51`, below), takes a longer copy of that
destination's RREQ for fresher than its direct route, from a neighbour that routes through it.

`BufferedPacketLeaves` names its bound: a request that is due to be repeated when
`MaxRreqID` is used up (`OutOfRreqs`) is excused, since the model has no RREQ left for it.
It is checked without link breaks and expired routes: a packet that is buffered after one may
wait for a request that was answered before (a cancelled request still counts, below), until a
later packet begins another discovery.

**Fairness.** `TimerService`, `ResourceManager`: the kernel delivers what is due
and moves the clock. `AodvRouting!FairSpec`: weak fairness of two timers of each
node, `RreqExpiration` and `RreqRateLimit`, which the timer service
grants (`ArmedTimerFires`); nothing is assumed about packets arriving.
`TunableMac!FairSpec`: weak fairness of the timers that are set, of
the frame that was received and of the end of a transmission, all of them events of
the kernel. Nothing is assumed about the frames of others or the channel: of a timer that
senses the carrier only the part that wakes up the radio (`SenseAgain`) is fair, not what
is sensed. That is why `BufferEmptied` has an exception, `ChannelStaysBusy`: from some time
on the MAC only senses, and a radio that is awake again and again finds no clear channel.
Safety runs assume none. Symmetry is used for safety only.

Every property is broken by a mutant of the code's definitions (PROJECT.json,
`mutants`); the mutants stand before the definition they change, and no
specification uses them.

### Where the code departs from what is written about it

1. `rfc_loop_free` (`LoopFree`): a route expires without a new sequence number
   (`AodvRouting.cc:735`) and the record of a broadcast RREQ is dropped after
   `activeRouteTimeout/10`; a late copy of the RREQ then closes a loop.

Met while modelling, without a run:

* AODV. The assignment in the condition of `RoutingTable_rt.cc:51`, with the 0 that
  RREQ and RREP handlers offer for the previous hop, resets a known sequence number
  (rfc3561.txt:637-641), and without the number the entry no longer refuses older routes. A cancelled request still counts as outstanding
  (`AodvRouting.cc:241`), so a packet may wait for none (rfc3561.txt:790-791). The first
  precursor's RERR empties the list of the others (`:931`; rfc3561.txt:729-731).
  Forwarded RREQs use up the retries of a node's own discovery (`:455`;
  rfc3561.txt:792-796). A route may stay VALID after its last lifetime (`:348`, `:352`).
  A node without an entry for itself raises its own number only when the RREQ names
  exactly that number (`:625`; rfc3561.txt:615-618 takes the maximum). RREQs in
  `rreqBuffer` are not yet remembered, so a second copy is queued too (`:463`;
  rfc3561.txt:859-863). A new lifetime is added to the old one instead of the maximum being
  taken (`:402`; rfc3561.txt:897-903). After a missed hello the lifetime timer can be set
  to a moment that is past, which the kernel refuses (`:410`; `TimerNotInPast` has
  that case as its precondition).
* T-MAC. A node that overhears a packet (`TMAC.cc:499`) or answers a RTS (`:525`) before it
  has a schedule leaves SETUP, so SYNC_CREATE (`:111`) makes none although `:107-109` says so;
  without a SYNC it stays asleep. A FRAME_START that meets a node sensing the carrier
  before sleep extends the active period but does not keep the node awake (`:160-162`,
  `:718-727`). A SYNC_RENEW that meets a SYNC about to be sent is lost (`:123`, `:695`). A SYNC
  with a lower number than the stored one, which `:425-428` calls impossible, arrives
  when a neighbour's SYNC was built before the renewal.
* Radio. A change of the carrier clears the signals but not the total power
  (`Radio.cc:506-515`; `InterferenceIsReal` excepts it). A radio that starts in TX loses
  its own command to leave it, because it is disabled until the node starts
  (`NeverStuckInTX` holds of every other start, see `LeavesTX`). The power history is not
  flushed when RX is entered from a TX with nothing to send, which the comment at `:588`
  takes for granted. A packet and SET_STATE TX that come at the instant the buffer
  runs empty are ignored (`:407-409`), so TX is left with a packet in the buffer. SET_MODE
  during a change of state reports the power of RX (`:485-488`).
* TunableMAC. A packet that comes in MAC_STATE_RX to an empty buffer gets no attempts of its
  own and is deleted without one (`TunableMAC.cc:239-248`, `:271-279`;
  `overlooked` in `AttemptQueue`). A duty cycle that is ended while a sleeping node
  contends may leave the radio asleep, which `:499-504` means to exclude. Missing braces
  make `backoffType` 0 be overwritten (`:37-45`).
* IEEE 802.15.4. A request for association may be sent after the CAP and in the guaranteed
  slots of others: PERFORM_CCA stops only in GTS and SLEEP (`Basic802154.cc:209`), and
  `transmitCurrentPacket` tests the time only in CAP and GTS. A node that joins again with
  its old GTS first in line takes the whole frame for its CAP (`:705`; `GtsIsExclusive` excepts
  it). A denied request for a GTS is repeated for ever, so the packets in the buffer are never sent
  (`StaticGTS802154.cc:122`). A GTS is never released when its owner has left.
* TSTP. A sensor whose AUTH_REQUEST timer runs has no pending key left when a repeated
  AUTH_GRANTED has used it, and the assertion of `tstp.h:858` fails (`AuthHasKey` says that
  it holds when grants are not repeated). `last_dh_request` is a local variable (`tstp.h:1024`), so the first pending peer is
  asked every time and the others wait for its key to expire. A DH_REQUEST that
  comes after the grant makes the sensor take a trusted sink for pending. A grant that
  crosses a password window, or is lost, is not repeated, and the sensor stays
  without trust until the keys expire. Sensors do not run the key manager, so their pending keys
  never expire.
* TSTP MAC. The table at `tstp_mac.h:316-322` says that a microframe from farther away does not
  acknowledge (1 @ 1 @ 1 = 1); lines 329-331 clear the bit in any case, so it does. A
  message that is overtaken by a newer one of its origin is dropped by the sink's filter
  (`tstp.cc:304-314`). The best-case delivery time is in seconds and subtracted from
  microseconds (`tstp.h:663-671`), so it reduces deadlines by almost nothing.

## 4. What is proved

The proofs hold for every value of the constants that satisfies their
assumptions.

`NodeProofs` on `TimerService`: `TimerTypeCorrect`, `SlotsAgree`, `ServiceKeepsPromise`.
`SlotsMatchEvents` with `TypeOK` is inductive: `Deliver` is the step where it
matters, since the index of the delivered message must be the index of the slot
that is cleared. The refinement maps a slot to the arrival time of its message;
`SetTimer`, `CancelTimer`, `Deliver`, `Disable` and `Tick` map to the abstract
step of that name or to a stutter.

`AodvRoutingProofs` on routes: `RoutingTypeCorrect`, `HopsAreReal`,
`NextHopsKnowDestination`, `RrepsHavePrecursors`, for every set of nodes, every
symmetric or asymmetric neighbourhood, every set of packets and every bound.
The properties are not inductive: a RREP that is forwarded over an entry needs that
entry's next hop to know the originator, and the entry came from a RREQ in
flight or in a buffer. `IInv` therefore says of each place a route can come from
what the tables will need of it:

* `RouteOK`, `TableOK`: an entry's next hop is a neighbour that knows the
  destination, with hops no smaller than the distance;
* `MessageOK`: the sender of a RREQ knows its originator (or is it), the sender of
  a RREP knows its destination, with hop counts that are real, and the receiver
  of a forwarded RREP is a precursor;
* `BufferOK`: the same for RREQs that wait for the rate limiter.

Entries are never removed, so knowing a destination is stable, and that makes the
invariant inductive in every order of delivery. There is one lemma per action
(`ProcessRrepOK`, ...) over lemmas on `UpdateEntry` and `ReportLinkBroken`.
`DistAssumption` is all that is assumed of distances: a function that grows by at
most one per hop.

On packets: `OnePlaceEach` (`PacketInOnePlace`) and `TypeCorrect`, for any set of packets.
`PlacesInv` adds to `IInv` that `unsent`, `net`, the buffers and `delivered` are `Apart`: what is
in a buffer is there once, in no other buffer and not on the air, and what the application
still has or was handed is nowhere else. Every step is one of three: it takes packets out of
places (`FewerPlaces`), sends packets that were nowhere (`PacketsSent`) or buffers one
(`PacketBuffered`); a route that is found does the first and then the second with all packets it flushes.

`KeepsServicePromise` (`ImplementsDatagrams`): on every topology AODV implements `Datagrams`.
The mapping reads the one place of a packet off the air, the buffers, `unsent` and `delivered`
(`Place`), and `PlacesInv` is what makes it single-valued: since a packet is nowhere twice, the
choice in `Place` is none (`WhereIs`), and the packets a node holds are as many as its buffer is
long (`RoomLeft`). What the abstract steps forbid is then what is proved: a packet moves only to
a node that hears the holder; only its destination hands it up; the buffered packets for a
destination leave together, by a RREP or by giving up, and those for others stay
(`ProcessRrepService`, `RreqExpirationService`); and a source drops its own packet only when its
buffer is full or when a link is one-way. The last needs `IInv`: a route's next hop is a node that
was heard, so a packet can be lost on it only if that node does not hear back. A forwarder without
a route may drop, as the code does. `ControlStepService` is the lemma that no other step of AODV
moves a packet.

On `AodvLifetime`: `LifetimesCounted`, `RoutesAreTimed` (`RouteIsTimed`), `TimerAhead`
(`TimerNotInPast`) and the action property `LifetimesKept` (`KeepsItsLifetime`). `LifeInv` says that
the count of a destination is the number of its entries that are not canceled, and no less when
one of its hellos was missed (`Counted`), that a VALID route has such an entry and the
timer runs (`Timed`), and that the timer runs while there are entries and is never past
(`Punctual`), the last two unless a hello was missed. The queue is a bag, and the count a sum
over the bag: the lemmas on sums in `ListProofs` say what one more or one
fewer entry does to it.

`ResourceManagerProofs`: `EnergyInvHolds`, `NoEnergyIsLost` (`EnergyBalance`), `ToldOnce`, for any
finite set of consumers, any powers, any battery and any interval. `EnergyBalance`
is not inductive: between two calculations the manager charges `currentNodePower`, so that must
be the sum of the powers it has stored (`PowerIsSum`); and a consumer that draws something else
must have a report on its way, the last of its reports, before time passes (`DrawReported`).

`NodeProofs` on `Radio`: `TypeCorrect`, `OneTransition`, `SendsInTX`, `LeavesTX`,
`ChargedForItsState`, `InterferenceExact`, `CleanHeard`. The invariant has two
halves. `ControlInv` is about states and messages: the mail holds at most one message that
enters a state, one the radio sent itself and one change of carrier (`MailOK`); which of
them may be there depends on the state, the change in progress and the transmission
(`ChangeInv`, `TransmitInv`, `SelfInv`, `LeaveInv`, `DisabledInv`). `ReceiverInv` is about
signals: what is in the total power, and that an interference is all the other signals.
A command is proved to keep each half once (`SetState`, `CompleteStateTransition`), and the actions
follow. `LeavesTX` assumes that the radio does not start in TX.

`TstpProofs` on `TstpMac`: `TypeCorrect`, `NothingIsLost` (`Custody`), `PendingIsHeld`,
`NoDuplicates`, for every topology and every set of messages. Custody is not inductive: a
message is deleted by those who hear it announced, so who announces must hold it
(`PendingIsScheduled`, which is part of `NodeOK`); the sink deletes what it has answered, so what
it holds must have been received (`SinkAnswers`). Delivery at most once rests on
`NotBehind`: the sink's memory of an origin is not behind anything it has handed over.

`KeepsConvergecast` (`ImplementsConvergecast`): on every network the MACs implement
`Convergecast`, where a node's copies are its schedule. A train of microframes is a step that
relieves other nodes of their copies, allowed only because who announces keeps its own; the data
behind it is a step that makes copies nearer the sink, never farther; `UpdateTxSchedule` throws
away what is late and nothing else, and the sink what it has answered. The abstract sink hands up
a message exactly when it is newer than all it handed up of that origin, without the memory the
code keeps for this: `LastIsNewest` says that `_last_message` is the time of a message that was
handed up, and no older than anything received, which with `NotBehind` makes the two agree
(`NewsIsNew`), and makes the sink's own answer, heard back, no news. All other steps are stutters.

`TstpProofs` on `TstpSecurity`: `SecurityTypeCorrect`, `ListsApart` (`PeerInOneList`),
`RequestHasKey` (`AuthHasKey`), `TrustMutual` (`TrustIsMutual`), `KeysAskedFor`
(`KeysWereAskedFor`: each request is good for one key at most, which no run has to check any
more), for every set of sensors and every loss, delay and repetition. `TrustIsMutual` rests on
time: a grant on its way is the last the sink made for its sensor (`GrantsOK`), since a message
lives half a period and a key longer than that (`TimesOK`). `AuthHasKey` rests on a count
(`KeysOK`): a sensor whose timer runs needs one key for it, and a second one when a grant, or
a request that may yet be granted, is on its way. It is proved for grants that are not repeated,
which is what the property says.

`KeepsTrustLease` (`ImplementsTrustLease`): the exchange implements `TrustLease`, which knows no
keys, no messages and no loss. A lease is the `auth_time` of a trusted peer; the chances of the
sink to take a sensor in are its pending keys and its open requests, since a response turns the
one into the other and a grant uses a key up; a sensor is asked while a `DH_REQUEST` to it is on
its way. So a response, a request for authentication and a key that times out at a sensor are stutters,
and the rest is what the invariant was found for: a grant that is accepted is the sink's last one
for that sensor and its lease is still running (`GrantIsFresh`, from `GrantsOK` and `TimesOK`); a
sensor starts over only if it was asked in this half period, since no request outlives it
(`OldRequestsGone`); and the key manager ends exactly the leases that are over, all at once
(`ManageLease`), then asks at most one sensor, one without a lease. That a sensor may go on
trusting a sink whose lease is over until it is asked again is part of the promise: the code has no timer for it.

`TunableMacProofs`: `TypeCorrect`, `TimerGoesOn` (`NeverStranded`), `PacketsServed`
(`PacketIsServed`), `AllAttemptsMade` (`TriedBeforeDropped`), for every load, buffer and
parameters. The heart of the invariant is a balance: the attempts of the head that were
made and those that are left add up to `NumTx`, as long as the head was given
attempts of its own. Around it stand the timers each state relies on, and where the radio
is when the MAC waits for it.

`ServedInTurn` (`ImplementsAttemptQueue`): for every buffer and number of attempts, TunableMAC
implements `AttemptQueue`. The queue is the buffer; contention, beacons, backoff, the duty cycle and the frames of
others are stutters. The balance says what a step on the queue needs: whoever finds attempts
left may try the head (`ContendTries`), and whoever finds none left lets a head go that is finished.
It also settles the exception: a packet that was overlooked is never tried, not even when others
come behind it. One call of `attemptTx` may drop a head and try the next
(it calls itself), and a copy sent in one go may be the last, so two abstract steps are
compound.

`Mac802154Proofs`: `TypeCorrect`, `AttemptsAreCounted` (`AttemptsLeft`), `PansAgree`
(`AgreesWithItsPan`), `SlotsAreExclusive` (`GtsIsExclusive`), `NoneIsStranded`
(`NeverStranded`), for every set of coordinators and nodes, every number of slots, every
load and every loss of frames. `Mac802154Assumption` asks for a period at least as long as
the active part of the frame and for coordinators that want no GTS of their own. The properties are
about two stations and none of them is inductive:

* `LocalOK` is about one station: its timers are those of the frame it is in (`TimersOK`), its
  state is that of its PAN (`NodeOK`), a coordinator's slots do not overlap (`ListOK`), and who sends a
  frame that asks for an ACK goes on to wait for that ACK with that packet (`TxOK`). There is a
  lemma per helper and one per event.
* `Synced`: in the frame of a beacon it heard, a node counts the coordinator's slots
  and has the guaranteed slots of that beacon. `Ready`: who follows a beacon has been through
  its frame when the next is sent, so a beacon never moves the slots under a node.
* `InPan`: what a node believes of its association and its GTS, the coordinator holds.
* `AckOK`, `OneAck`: an ACK under way answers the packet its receiver waits for, and the coordinator that
  sends it has already done what it grants. `HandleAck` does not look at the sender of an ACK, so
  this is what keeps a node from joining, or counting on a GTS of, the wrong PAN. It
  rests on an ACK ending before other frames do and before ACK_TIMEOUT.

A step of one station is of one of five kinds for the others: it changes nothing they rely on
(`QuietStep`), starts a frame (`FrameStep`), hears a beacon (`HeardStep`), answers
(`AnsweredStep`) or has its answer (`AckedStep`). `SlotIsOwn` then derives exclusive slots from
`Synced`: the slots in which the code lets a node send are its own in the coordinator's list.

`TMacProofs`: `TypeCorrect`, `NodesGoOn` (`NeverStranded`), `ExchangesMatch`
(`ExchangeMatchesHead`), `OnceInOrder` (`DeliveredOnceInOrder`), `AcksAreTrue`
(`AckedWasDelivered`), `AuthorsLead` (`AuthorIsNewest`), for every set of nodes, load, set of
parameters and bound. The invariant has a part for one node and parts that relate nodes:

* `NodeOK` is about one record: what each state needs of the timers, of the head of the
  buffer and of the attempts left. The handlers are operators on one record, so there is
  a lemma per helper (`ResetDefaultState`, `CarrierIsBusy`, ...), and the actions follow from them.
* `AirOK`: DATA on the air is a packet its source has used, and while the source waits
  for an ACK, the packet is the head of its buffer; an ACK on the air to a node that waits for
  one means that its head was delivered.
* `HistoryOK`: the history of numbers a receiver keeps is that of the packets it
  delivered, so its test for duplicates is a test on `delivered`.
* `Vouched`: a schedule in a SYNC or a table is no newer than its author's own.

A step is one of three kinds for these parts: it changes nothing they are about, it sends,
or it receives; only the reception of DATA is a case of its own. `TMacAssumption` says that
`None`, the code's "no neighbour", is not a sequence number.

`KeepsLinkPromise` (`ImplementsLink`) is the refinement: `queue` is the buffer, `given` the number of
packets from above, `link` the DATA on the air; SYNC, RTS, CTS, ACK and the schedules are
forgotten. There is a lemma per action that says which abstract steps it may be. Most helpers leave
the queue as it is (`SameQueue`) or remove a head that has no attempts left (`GivesUp`), and losses are
part of every abstract step. Three things of the invariant are needed:

* a packet for one node leaves the queue as acknowledged only if it was delivered, which is
  `AirOK` of the ACK that is received;
* a packet for all leaves it only when it is sent, so it must not run out of attempts
  before: `UntriedInv`, an invariant of its own;
* the abstract receiver hands up what is newer than all it handed up from that source, the code
  compares with the history of one number per source: `HistoryOK` makes the two the same.

`ListProofs` has the lemmas the others share: removing an element from a list and from a list without
repetitions, the elements of a list that are in a set (`Only`), sums over a set (`SumOver`)
when one term changes, and last elements. The induction they need is not
the library's, whose theorems take an operator as a parameter, but on a least counterexample: the
set of lengths, or of cardinalities, for which the statement fails has a least element if it is not
empty. That is why `Lists` defines `Only` and `SumOver` as recursive functions and not with
`SelectSeq` and the folds, whose operator arguments the provers cannot expand.

## 5. What is only checked by TLC

Every safety invariant and action property the passing runs check is a theorem.

Liveness stays with TLC: `ArmedTimerFires`, `BufferedPacketLeaves`, `BufferEmptied` and
`EmptyBatteryStopsNode`, whose safety half is `ToldOnce`. The provers here have no rule for
`ENABLED`, which fairness is made of.

## 6. Not modelled

`mac/baselineBanMac` divides a superframe like `Mac802154` does, among scheduled and polled
nodes, and would be modelled in the same way. `mac/ieee802154`, a MAC without beacons that
sends one packet at a time, repeats what is checked of T-MAC on a smaller scale. RREP acknowledgements and the blacklist of AODV, the duplicate filter of
`VirtualRouting.cc`, the sensor manager, LEACH and the rings are within reach of the methods used
here and would be the next modules. LABILE, REL and the AODV test routing repeat the
discovery of AODV.

Out of reach: path loss, fading, mobility, physical processes, cryptographic
arithmetic (real or unbounded numbers, no state that several actors share),
generated message classes, result files and scripts.
