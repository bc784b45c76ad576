---------------------------- MODULE TstpSecurity ----------------------------
(***************************************************************************)
(* How the sensors of a TSTP network establish keys with the sink:          *)
(* TSTP::Security in routing/tstp/tstp.cc and tstp.h.  The sink asks its    *)
(* pending peers, one per period of its key manager, for a Diffie-Hellman   *)
(* exchange; the sensor answers and later asks to be authenticated; the     *)
(* sink grants it.                                                         *)
(*                                                                         *)
(* Time is counted in half periods of the key manager.  A message lives for *)
(* half a period (TSTP::destination), so it is received in the half period  *)
(* it is sent in or in the next one, up to MaxCopies times (the MAC repeats *)
(* a frame until it hears it forwarded, and has no filter for repetitions), *)
(* in any order, or never.  A master secret is known by the sensor it is    *)
(* shared with: the key pairs do not change.  A message that proves it      *)
(* knows a secret holds when it was made, which gives the time window of    *)
(* its one-time password.                                                   *)
(***************************************************************************)
EXTENDS Lists, FiniteSets, Bags, SequencesExt

CONSTANTS
    Sensor,
    Never,
    KeyExpiry,          \* KEY_EXPIRY in half periods
    Window,             \* POLY_TIME_WINDOW in half periods
    MaxCopies,          \* bound on how often a message is received
    MaxTime             \* bound on the clock

ASSUME TstpAssumption ==
    /\ IsFiniteSet(Sensor)
    /\ KeyExpiry \in Nat /\ KeyExpiry >= 2
    /\ Window \in Nat \ {0} /\ MaxCopies \in Nat \ {0} /\ MaxTime \in Nat
    /\ Never \notin Nat

VARIABLES
    now,
    \* the sink
    pendingPeers, trustedPeers,     \* _pending_peers, _trusted_peers
    authTime,                       \* _auth_time of the peer of a sensor
    pendingKeys,                    \* _pending_keys: owner and creation
    dhRequestsOpen,
    \* the sensors
    sinkPeer,                       \* the list its only peer, the sink, is in
    keys,                           \* number of its _pending_keys
    authTimer,                      \* when AUTH_REQUEST_TIMER was set
    bootstrapped,
    \* external: the messages on their way
    net,
    repeatGrants        \* whether grants, too, are received more than once

sinkVars == <<pendingPeers, trustedPeers, authTime, pendingKeys, dhRequestsOpen>>
sensorVars == <<sinkPeer, keys, authTimer, bootstrapped>>
securityVars == <<now, sinkVars, sensorVars, net, repeatGrants>>

(* The nonce of a one-time password.                                        *)
TimeWindow(t) == t \div Window

-----------------------------------------------------------------------------
(* External: the network below.                                             *)
Msg(type, n) == [type |-> type, sensor |-> n, sent |-> now]

Copies(m) ==
    [x \in {m} |-> IF m.type = "AUTH_GRANTED" /\ ~repeatGrants THEN 1 ELSE MaxCopies]

Receive(m, type) == BagIn(m, net) /\ m.type = type /\ UNCHANGED repeatGrants

Consume(m) == net' = net (-) SetToBag({m})
Reply(m, new) == net' = (net (-) SetToBag({m})) (+) Copies(new)

(* A request of the key manager is sent as a half period begins and expires *)
(* with it.                                                                 *)
Alive(m, time) == m.sent = time \/ (m.sent + 1 = time /\ m.type # "DH_REQUEST")
ExpireMessages(time) == [m \in {x \in BagToSet(net) : Alive(x, time)} |-> net[m]]

-----------------------------------------------------------------------------
(* The key manager of the sink (it is started by add_peer, which only the   *)
(* sink calls).                                                             *)

Fresh(time) == {k \in ToSet(pendingKeys) : time - k.creation <= KeyExpiry}
KeyExpired(n, time) == time - authTime[n] > KeyExpiry

(* Cleanup of expired established keys.                                     *)
Expired(time) == {n \in ToSet(trustedPeers) : KeyExpired(n, time)}
StillTrusted(time) == Only(trustedPeers, Sensor \ Expired(time))
PendingAgain(time) == pendingPeers \o Only(trustedPeers, Expired(time))

(* One peer is asked, always the first: last_dh_request is a local variable. *)
KeyManager(time) ==
    /\ trustedPeers' = StillTrusted(time)
    /\ pendingPeers' = PendingAgain(time)
    /\ pendingKeys' = Only(pendingKeys, Fresh(time))
    /\ LET asked == PendingAgain(time)
       IN  IF asked = <<>>
           THEN UNCHANGED dhRequestsOpen /\ net' = ExpireMessages(time)
           ELSE /\ dhRequestsOpen' = dhRequestsOpen + 1
                /\ net' = ExpireMessages(time)
                     (+) Copies([type |-> "DH_REQUEST", sensor |-> Head(asked), sent |-> time])
    /\ UNCHANGED authTime

(* The clock.  The authentication delay is shorter than half a period.      *)
Tick ==
    /\ now < MaxTime
    /\ \A n \in Sensor : authTimer[n] = Never \/ authTimer[n] = now
    /\ now' = now + 1
    /\ IF now' % 2 = 0
       THEN KeyManager(now')
       ELSE net' = ExpireMessages(now') /\ UNCHANGED sinkVars
    /\ UNCHANGED <<sensorVars, repeatGrants>>

-----------------------------------------------------------------------------
(* Security::update                                                         *)

ReceiveDHRequestKeyless(n) ==                                    \* mutant
    /\ sinkPeer' = [sinkPeer EXCEPT ![n] = "pending"]
    /\ keys' = [keys EXCEPT ![n] = IF sinkPeer[n] = "trusted" THEN @ ELSE @ + 1]
    /\ authTimer' = [authTimer EXCEPT ![n] = now]

(* The sensor takes the sink as pending again, computes the secret and sets *)
(* the timer of its own request.                                            *)
StartExchange(n) ==
    /\ sinkPeer' = [sinkPeer EXCEPT ![n] = "pending"]
    /\ keys' = [keys EXCEPT ![n] = @ + 1]
    /\ authTimer' = [authTimer EXCEPT ![n] = now]

ReceiveDHRequest(m) ==
    /\ Receive(m, "DH_REQUEST")
    /\ StartExchange(m.sensor)
    /\ Reply(m, Msg("DH_RESPONSE", m.sensor))
    /\ UNCHANGED <<now, sinkVars, bootstrapped>>

(* Any response is taken while a request is open, whoever was asked.        *)
RequestIsOpen == dhRequestsOpen > 0

RequestStaysOpen == dhRequestsOpen                               \* mutant
RequestAnswered == dhRequestsOpen - 1

ReceiveDHResponse(m) ==
    /\ Receive(m, "DH_RESPONSE")
    /\ Consume(m)
    /\ IF RequestIsOpen /\ Contains(pendingPeers, m.sensor)
       THEN /\ dhRequestsOpen' = RequestAnswered
            /\ pendingKeys' = Append(pendingKeys, [owner |-> m.sensor, creation |-> now])
       ELSE UNCHANGED <<dhRequestsOpen, pendingKeys>>
    /\ UNCHANGED <<now, pendingPeers, trustedPeers, authTime, sensorVars>>

(* AUTH_REQUEST_TIMER: auth_request, which asserts that there is a key.     *)
AuthRequest(n) ==
    /\ authTimer[n] # Never
    /\ keys[n] > 0
    /\ authTimer' = [authTimer EXCEPT ![n] = Never]
    /\ net' = net (+) Copies(Msg("AUTH_REQUEST", n))
    /\ UNCHANGED <<now, sinkVars, sinkPeer, keys, bootstrapped, repeatGrants>>

(* verify_auth_request: a window more or less is accepted.                  *)
ValidRequest(m, i) ==
    /\ Contains(pendingPeers, m.sensor)
    /\ pendingKeys[i].owner = m.sensor
    /\ TimeWindow(m.sent) - TimeWindow(now) \in {-1, 0, 1}

TrustTwice(n) ==                                                 \* mutant
    /\ UNCHANGED pendingPeers
    /\ trustedPeers' = Append(trustedPeers, n)
    /\ authTime' = [authTime EXCEPT ![n] = now]

(* The secret is stored with the peer, which changes lists.                 *)
Trust(n) ==
    /\ pendingPeers' = Only(pendingPeers, Sensor \ {n})
    /\ trustedPeers' = Append(trustedPeers, n)
    /\ authTime' = [authTime EXCEPT ![n] = now]

ReceiveAuthRequestAlways(m) ==                                   \* mutant
    /\ Receive(m, "AUTH_REQUEST")
    /\ Reply(m, Msg("AUTH_GRANTED", m.sensor))
    /\ UNCHANGED <<now, sinkVars, sensorVars>>

ReceiveAuthRequest(m) ==
    /\ Receive(m, "AUTH_REQUEST")
    /\ LET valid == {i \in DOMAIN pendingKeys : ValidRequest(m, i)}
       IN  IF valid # {}
           THEN /\ Trust(m.sensor)
                /\ pendingKeys' = RemoveAt(pendingKeys, Min(valid))
                /\ Reply(m, Msg("AUTH_GRANTED", m.sensor))
           ELSE /\ Consume(m)
                /\ UNCHANGED <<pendingPeers, trustedPeers, authTime, pendingKeys>>
    /\ UNCHANGED <<now, dhRequestsOpen, sensorVars>>

(* The grant is only readable in the window it was made in.                 *)
ReceiveAuthGranted(m) ==
    /\ Receive(m, "AUTH_GRANTED")
    /\ Consume(m)
    /\ LET n == m.sensor
       IN  IF /\ sinkPeer[n] = "pending" /\ keys[n] > 0
              /\ TimeWindow(m.sent) = TimeWindow(now)
           THEN /\ sinkPeer' = [sinkPeer EXCEPT ![n] = "trusted"]
                /\ keys' = [keys EXCEPT ![n] = @ - 1]
                /\ bootstrapped' = [bootstrapped EXCEPT ![n] = TRUE]
           ELSE UNCHANGED <<sinkPeer, keys, bootstrapped>>
    /\ UNCHANGED <<now, sinkVars, authTimer>>

(* Security::bootstrap, of all nodes, without keys from the start.          *)
SecurityInit ==
    /\ now = 0
    /\ \E order \in SetToSeqs(Sensor) : pendingPeers = order
    /\ trustedPeers = <<>> /\ authTime = [n \in Sensor |-> Never]
    /\ pendingKeys = <<>> /\ dhRequestsOpen = 0
    /\ sinkPeer = [n \in Sensor |-> "pending"]
    /\ keys = [n \in Sensor |-> 0]
    /\ authTimer = [n \in Sensor |-> Never]
    /\ bootstrapped = [n \in Sensor |-> FALSE]
    /\ net = EmptyBag
    /\ repeatGrants \in BOOLEAN

SecurityNext ==
    \/ Tick
    \/ \E m \in BagToSet(net) :
          \/ ReceiveDHRequest(m) \/ ReceiveDHResponse(m)
          \/ ReceiveAuthRequest(m) \/ ReceiveAuthGranted(m)
    \/ \E n \in Sensor : AuthRequest(n)

SecuritySpec == SecurityInit /\ [][SecurityNext]_securityVars

-----------------------------------------------------------------------------
(* Safety                                                                   *)

(* A peer that moves between the lists while they are walked through        *)
(* (tstp.cc:612-620, 687-688; tstp.h:1064-1072) is in exactly one of them,  *)
(* once.                                                                    *)
PeerInOneList ==
    \A n \in Sensor :
        Len(Only(pendingPeers \o trustedPeers, {n})) = 1

(* When the delayed request of a sensor is due it has a secret to prove,    *)
(* whatever other requests and grants came in the meantime (tstp.h:858),    *)
(* provided that a grant is not received twice.                             *)
AuthHasKey == ~repeatGrants => \A n \in Sensor : authTimer[n] # Never => keys[n] > 0

(* A sensor that trusts the sink is trusted by it, or was until its key     *)
(* expired (tstp.cc:671-752).                                               *)
TrustIsMutual ==
    \A n \in Sensor :
        sinkPeer[n] = "trusted" =>
            \/ Contains(trustedPeers, n)
            \/ authTime[n] # Never /\ KeyExpired(n, now)

(* The exchange implements TrustLease: the sink takes a sensor in at most   *)
(* once for each request it made and until the key expires, a sensor trusts *)
(* only a sink that has just taken it in, and starts over only when asked   *)
(* (tstp.cc:604-752; tstp.h:1055-1118).                                     *)
Lease ==
    INSTANCE TrustLease WITH
        lease    <- [n \in Sensor |-> IF Contains(trustedPeers, n) THEN authTime[n] ELSE Never],
        chances  <- Len(pendingKeys) + dhRequestsOpen,
        asked    <- {m.sensor : m \in {x \in BagToSet(net) : x.type = "DH_REQUEST"}},
        trusting <- {n \in Sensor : sinkPeer[n] = "trusted"}

ImplementsTrustLease == Lease!Spec

(* However often responses are repeated, each request of the sink is good   *)
(* for one key at most (tstp.cc:647-669; tstp.h:1090).                      *)
KeysWereAskedFor == Len(pendingKeys) + dhRequestsOpen <= now \div 2

=============================================================================
