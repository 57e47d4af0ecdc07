------------------------------- MODULE Relay -------------------------------
(***************************************************************************)
(* relay_client.rs: the opt-in relay service.  A session request is        *)
(* checked against the blacklist and the quota, then waits for the lock of *)
(* the session table; packets are counted per address and second.          *)
(***************************************************************************)
EXTENDS Integers, FiniteSets, Filters

CONSTANTS
  Sessions,      \* session ids
  Hosts,         \* addresses that send to the relay
  Accounts,      \* user ids
  PACKETS,       \* MAX_PACKETS_PER_SEC
  SESSIONS,      \* min(max_sessions, MAX_RELAY_SESSIONS)
  QUOTA,         \* daily_traffic_limit_bytes
  WINDOW,        \* a second, in ticks
  MaxTime        \* bounds the ticks

ASSUME RelayAssumption ==
  {PACKETS, SESSIONS, QUOTA, MaxTime} \subseteq Nat /\ WINDOW \in Nat \ {0}

NoAddress == "no address"
Request == [id : Sessions, from : Hosts, sender : Accounts, recipient : Accounts]

VARIABLES
  now,          \* ticks
  sessions,     \* the table: [sender, recipient] addresses of the ids in it
  checked,      \* requests past the checks that wait for the table's lock
  blacklist,
  rate,         \* per address: packets counted, and since when
  relayed,      \* daily_bytes_relayed
  passed        \* ghost: per address, packets let through in this tick and in
                \* the WINDOW - 1 ticks before, the latest first

relayVars == <<now, sessions, checked, blacklist, rate, relayed, passed>>

RelayTypeOK ==
  /\ now \in 0 .. MaxTime
  /\ DOMAIN sessions \subseteq Sessions
  /\ \A i \in DOMAIN sessions :
       sessions[i] \in [sender : Hosts, recipient : Hosts \cup {NoAddress}]
  /\ checked \subseteq Request
  /\ blacklist \subseteq Accounts
  /\ rate \in [Hosts -> [count : Nat, since : 0 .. MaxTime]]
  /\ relayed \in Nat
  /\ passed \in [Hosts -> [1 .. WINDOW -> Nat]]

RelayInit ==
  /\ now = 0
  /\ sessions = [i \in {} |-> NoAddress]
  /\ checked = {}
  /\ blacklist = {}
  /\ rate = [h \in Hosts |-> [count |-> 0, since |-> 0]]
  /\ relayed = 0
  /\ passed = [h \in Hosts |-> [t \in 1 .. WINDOW |-> 0]]
-----------------------------------------------------------------------------
(* handle_session_request, up to the lock: enabled, not expired, nobody    *)
(* blacklisted, and quota left.  Others run before the lock is held.       *)
CheckRequest(r) ==
  /\ r \notin checked
  /\ {r.sender, r.recipient} \cap blacklist = {}
  /\ relayed < QUOTA
  /\ checked' = checked \cup {r}
  /\ UNCHANGED <<now, sessions, blacklist, rate, relayed, passed>>

(* A fault to detect: the size is compared with the limit for new ids, of  *)
(* which one too many is let in.                                           *)
HasRoomForOneMore == Cardinality(DOMAIN sessions) <= SESSIONS

(* The table has room: an id that is in it already needs room as well.     *)
HasRoom == Cardinality(DOMAIN sessions) < SESSIONS

OpenSession(r) ==
  /\ r \in checked
  /\ checked' = checked \ {r}
  /\ sessions' =
       IF HasRoom
       THEN [i \in DOMAIN sessions \cup {r.id} |->
               IF i = r.id THEN [sender |-> r.from, recipient |-> NoAddress]
               ELSE sessions[i]]
       ELSE sessions
  /\ UNCHANGED <<now, blacklist, rate, relayed, passed>>

(* The packets counted for an address, in a window that began with one of  *)
(* its packets and lasts a second.                                         *)
Window(h) ==
  IF now - rate[h].since >= WINDOW THEN [count |-> 0, since |-> now] ELSE rate[h]

(* forward_packet: counted first, refused above the limit (where counting  *)
(* on changes nothing); then the packet of a party of the session counts   *)
(* as traffic.  The recipient's address is never learnt, so the sender's   *)
(* packets have nowhere to go.                                             *)
ForwardPacket(id, h) ==
  LET w == Window(h)
      fits == w.count < PACKETS
      party == id \in DOMAIN sessions /\ h \in {sessions[id].sender, sessions[id].recipient}
  IN /\ rate' = [rate EXCEPT ![h] =
                   [w EXCEPT !.count = IF fits THEN @ + 1 ELSE PACKETS + 1]]
     /\ relayed' = IF fits /\ party THEN relayed + 1 ELSE relayed
     /\ passed' = IF fits THEN [passed EXCEPT ![h][1] = @ + 1] ELSE passed
     /\ UNCHANGED <<now, sessions, checked, blacklist>>

BlacklistPeer(u) ==
  /\ blacklist' = blacklist \cup {u}
  /\ UNCHANGED <<now, sessions, checked, rate, relayed, passed>>

RelayTick ==
  /\ now < MaxTime
  /\ now' = now + 1
  /\ passed' = [h \in Hosts |-> [t \in 1 .. WINDOW |->
                  IF t = 1 THEN 0 ELSE passed[h][t - 1]]]
  /\ UNCHANGED <<sessions, checked, blacklist, rate, relayed>>

RelayNext ==
  \/ \E r \in Request : CheckRequest(r) \/ OpenSession(r)
  \/ \E id \in Sessions, h \in Hosts : ForwardPacket(id, h)
  \/ \E u \in Accounts : BlacklistPeer(u)
  \/ RelayTick

RelaySpec == RelayInit /\ [][RelayNext]_relayVars
-----------------------------------------------------------------------------
(* However requests overlap, the table stays within its limit.             *)
SessionsBounded == Cardinality(DOMAIN sessions) <= SESSIONS

(* No second, wherever it begins, lets more than two windows' packets of   *)
(* one address through.                                                    *)
PacketsBounded ==
  \A h \in Hosts : SumSeq(passed[h]) <= 2 * PACKETS

RelayBounded == SessionsBounded /\ PacketsBounded
=============================================================================
