---------------------------- MODULE PortMapping ----------------------------
(***************************************************************************)
(* upnp.rs: try_map_port asks the router for a port mapping, by UPnP first *)
(* and by NAT-PMP when that fails, all of it within one overall timeout.   *)
(* Neither looks at who sent an answer: the first datagram that comes to   *)
(* the discovery's or to NAT-PMP's socket is taken, a stranger's too.      *)
(* Time is counted in units of 500 ms.                                     *)
(***************************************************************************)
EXTENDS Naturals, FiniteSets

CONSTANTS
  Attempts,      \* bounds the calls of try_map_port
  OtherPort      \* another port than the local one NAT-PMP may grant

ASSUME PortMappingAssumption == Attempts \in Nat

LocalPort == "port"
OVERALL == 5
CONNECT == 2     \* each TCP connect, and the SSDP answer
NAT_PMP == 1
Sources == {"router", "stranger"}

Upnp(p) == [by |-> "upnp", port |-> p]
NatPmp(p) == [by |-> "natpmp", port |-> p]
Mapping == {Upnp(LocalPort)} \cup {NatPmp(p) : p \in {LocalPort, OtherPort}}
Disabled == [enabled |-> FALSE]
Status == {Disabled} \cup [enabled : {TRUE}, mapped : Mapping]

VARIABLES
  mapAttempt,   \* calls made
  step,         \* where try_map_port stands
  elapsed,      \* since the call began
  waited,       \* since the step that waits began
  mapRequests,  \* mapping requests on their way to the router
  grants,       \* the router's answers on their way back
  mappings,     \* the router's mappings
  granted,      \* ghost: what it granted in this attempt
  source,       \* ghost: who answered this attempt last
  status        \* what the last call returned

mapVars == <<mapAttempt, step, elapsed, waited, mapRequests, grants, mappings, granted,
  source, status>>

Step ==
  {"idle", "ssdp", "connect", "describe", "connectAdd", "add", "externalIp", "natpmp"}

PortMappingTypeOK ==
  /\ mapAttempt \in 0 .. Attempts
  /\ step \in Step
  /\ elapsed \in 0 .. OVERALL
  /\ waited \in 0 .. OVERALL
  /\ mapRequests \subseteq {"upnp", "natpmp"} \X (1 .. Attempts)
  /\ grants \subseteq Mapping \X (1 .. Attempts)
  /\ mappings \subseteq Mapping
  /\ granted \subseteq Mapping
  /\ source \in Sources
  /\ status \in Status

PortMappingInit ==
  /\ mapAttempt = 0
  /\ step = "idle"
  /\ elapsed = 0
  /\ waited = 0
  /\ mapRequests = {}
  /\ grants = {}
  /\ mappings = {}
  /\ granted = {}
  /\ source = "router"
  /\ status = Disabled
-----------------------------------------------------------------------------
Goto(s) ==
  /\ step' = s
  /\ waited' = 0

Return(result) ==
  /\ status' = result
  /\ Goto("idle")

TryMapPort ==
  /\ step = "idle"
  /\ mapAttempt < Attempts
  /\ mapAttempt' = mapAttempt + 1
  /\ elapsed' = 0
  /\ granted' = {}
  /\ Goto("ssdp")
  /\ UNCHANGED <<mapRequests, grants, mappings, source, status>>

(* A step of the UPnP side fails: discovery, the device description or the *)
(* mapping itself.  What the router did meanwhile is not undone.           *)
UpnpFails ==
  /\ step \in {"ssdp", "connect", "describe", "connectAdd", "add"}
  /\ Goto("natpmp")
  /\ mapRequests' = mapRequests \cup {<<"natpmp", mapAttempt>>}
  /\ UNCHANGED <<mapAttempt, elapsed, grants, mappings, granted, source, status>>

(* Somebody answers with a location that can be parsed; that is the device *)
(* asked from here on.                                                     *)
Discovered ==
  /\ step = "ssdp"
  /\ source' \in Sources
  /\ Goto("connect")
  /\ UNCHANGED <<mapAttempt, elapsed, mapRequests, grants, mappings, granted, status>>

(* fetch_control_url: the connection has a timeout, the reading has none.  *)
Described ==
  /\ step \in {"connect", "describe"}
  /\ Goto(IF step = "connect" THEN "describe" ELSE "connectAdd")
  /\ UNCHANGED <<mapAttempt, elapsed, mapRequests, grants, mappings, granted, source, status>>

(* soap_add_port_mapping: the request is written, then the answer is read  *)
(* without a timeout of its own.                                           *)
RequestMapping ==
  /\ step = "connectAdd"
  /\ Goto("add")
  /\ mapRequests' = IF source = "router" THEN mapRequests \cup {<<"upnp", mapAttempt>>}
                    ELSE mapRequests
  /\ UNCHANGED <<mapAttempt, elapsed, grants, mappings, granted, source, status>>

(* A fault to detect: a connection the router closes counts as a mapping.  *)
ConfirmsByClosing(m) == m = Upnp(LocalPort)

(* Only an answer that says so confirms the mapping; what a stranger says  *)
(* binds no router.                                                        *)
Confirms(m) ==
  m = Upnp(LocalPort) /\ (source = "stranger" \/ <<m, mapAttempt>> \in grants)

MappingConfirmed ==
  /\ step = "add"
  /\ Confirms(Upnp(LocalPort))
  /\ grants' = grants \ {<<Upnp(LocalPort), mapAttempt>>}
  /\ Goto("externalIp")
  /\ UNCHANGED <<mapAttempt, elapsed, mapRequests, mappings, granted, source, status>>

(* soap_get_external_ip: found or not, the mapping is reported; but it     *)
(* waits for the router without any timeout.                               *)
ExternalIpRead ==
  /\ step = "externalIp"
  /\ Return([enabled |-> TRUE, mapped |-> Upnp(LocalPort)])
  /\ UNCHANGED <<mapAttempt, elapsed, mapRequests, grants, mappings, granted, source>>

(* try_nat_pmp: the port in the first datagram that comes within 500 ms,   *)
(* when it looks like a grant; the gateway's or anybody's.                 *)
NatPmpGranted(p) ==
  /\ step = "natpmp"
  /\ source' \in Sources
  /\ source' = "router" => <<NatPmp(p), mapAttempt>> \in grants
  /\ grants' = IF source' = "router" THEN grants \ {<<NatPmp(p), mapAttempt>>} ELSE grants
  /\ Return([enabled |-> TRUE, mapped |-> NatPmp(p)])
  /\ UNCHANGED <<mapAttempt, elapsed, mapRequests, mappings, granted>>

(* The 500 ms pass, or before that any other datagram comes: a refusal, a  *)
(* short one, another opcode.                                              *)
NatPmpFails ==
  /\ step = "natpmp"
  /\ Return(Disabled)
  /\ UNCHANGED <<mapAttempt, elapsed, mapRequests, grants, mappings, granted, source>>

(* The overall timeout drops the call wherever it stands.                  *)
OverallTimeout ==
  /\ step # "idle"
  /\ elapsed = OVERALL
  /\ Return(Disabled)
  /\ UNCHANGED <<mapAttempt, elapsed, mapRequests, grants, mappings, granted, source>>

(* Time passes while no timeout is due.                                    *)
MappingTick ==
  /\ step # "idle"
  /\ elapsed < OVERALL
  /\ step = "natpmp" => waited < NAT_PMP
  /\ step \in {"ssdp", "connect", "connectAdd"} => waited < CONNECT
  /\ elapsed' = elapsed + 1
  /\ waited' = waited + 1
  /\ UNCHANGED <<mapAttempt, step, mapRequests, grants, mappings, granted, source, status>>

(* The router grants a request, however late, or refuses or loses it; its  *)
(* answer may be lost; a lease ends after an hour and is never renewed.    *)
RouterGrants(r, m) ==
  /\ r \in mapRequests
  /\ m.by = r[1]
  /\ mapRequests' = mapRequests \ {r}
  /\ mappings' = mappings \cup {m}
  /\ \E back \in {{}, {<<m, r[2]>>}} : grants' = grants \cup back
  /\ granted' = IF r[2] = mapAttempt THEN granted \cup {m} ELSE granted
  /\ UNCHANGED <<mapAttempt, step, elapsed, waited, source, status>>

RouterRefuses(r) ==
  /\ r \in mapRequests
  /\ mapRequests' = mapRequests \ {r}
  /\ UNCHANGED <<mapAttempt, step, elapsed, waited, grants, mappings, granted, source, status>>

LeaseEnds(m) ==
  /\ m \in mappings
  /\ mappings' = mappings \ {m}
  /\ UNCHANGED <<mapAttempt, step, elapsed, waited, mapRequests, grants, granted, source, status>>

PortMappingNext ==
  \/ TryMapPort
  \/ UpnpFails
  \/ Discovered
  \/ Described
  \/ RequestMapping
  \/ MappingConfirmed
  \/ ExternalIpRead
  \/ \E p \in {LocalPort, OtherPort} : NatPmpGranted(p)
  \/ NatPmpFails
  \/ OverallTimeout
  \/ MappingTick
  \/ \E r \in mapRequests : RouterRefuses(r) \/ \E m \in Mapping : RouterGrants(r, m)
  \/ \E m \in mappings : LeaseEnds(m)

PortMappingSpec == PortMappingInit /\ [][PortMappingNext]_mapVars
-----------------------------------------------------------------------------
(* A mapping that is reported on the router's word is one the router       *)
(* granted to this very attempt, at whatever step an answer was late or an *)
(* earlier attempt was dropped (try_map_port, try_upnp_soap, try_nat_pmp). *)
ReportedWasGranted ==
  step = "idle" /\ status.enabled /\ source = "router" => status.mapped \in granted

(* What the code does not do: make sure that the router is who answered,   *)
(* and take back a mapping it does not report.                             *)
AnsweredByRouter == step = "idle" /\ status.enabled => source = "router"
NothingLeftBehind == step = "idle" /\ ~ status.enabled => mappings = {}
=============================================================================
