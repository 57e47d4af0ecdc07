------------------------------- MODULE Startup -------------------------------
(***************************************************************************)
(* The programs of one machine and directory: the desktop client (main.rs  *)
(* of nodex-gui) takes the first free port from its base on, the daemon    *)
(* (nodex-cli) exactly its port; each opens the account whose file is      *)
(* named after the port.  Node identifier and contacts come from the one   *)
(* state file (lib.rs, state.rs), which the daemon writes when it ends and *)
(* on "save".  A program then joins the network: init_node and the daemon  *)
(* try each bootstrap address once, the desktop client keeps looking for   *)
(* nodes of its own machine, and a program in Supervised also runs the     *)
(* supervisor of reconnect.rs, which no program of the repository does.    *)
(***************************************************************************)
EXTENDS Integers, FiniteSets, FiniteSetsExt

CONSTANTS
  Programs,    \* the processes
  Gui,         \* those that are desktop clients, the others are daemons
  Supervised,  \* those that run the supervisor
  BasePort, PORT_ATTEMPTS, \* bind_auto; other programs may hold ports too
  MaxLaunches  \* bound: launches, each may make an account and a node id

ASSUME StartupAssumption ==
  /\ BasePort \in Nat \ {0}
  /\ {PORT_ATTEMPTS, MaxLaunches} \subseteq Nat

VARIABLES
  port,       \* program -> the port it is bound to, 0 when it does not run
  account,    \* program -> the account it opened
  nodeId,     \* program -> its node identifier
  table,      \* program -> routing table: "seed" and other programs
  joining,    \* programs whose bootstrap task has not tried the seed yet
  health,     \* program -> the supervised node's health
  taken,      \* ports in use by programs of others
  accounts,   \* port -> account in messenger_db_<port>.json, 0 when none
  stateFile,  \* "none", "torn", or the identifier and contacts saved
  seedUp,     \* the bootstrap node answers
  launches    \* launches so far, names new accounts and identifiers

startupVars == <<port, account, nodeId, table, joining, health, taken, accounts,
                 stateFile, seedUp, launches>>

Ports == BasePort..(BasePort + PORT_ATTEMPTS - 1)
Up(p) == port[p] # 0
InUse == taken \cup {port[p] : p \in Programs}
OtherPrograms(p) == Programs \ {p}

StartupTypeOK ==
  /\ port \in [Programs -> Ports \cup {0}]
  /\ account \in [Programs -> 0..MaxLaunches] /\ nodeId \in [Programs -> 0..MaxLaunches]
  /\ table \in [Programs -> SUBSET (Programs \cup {"seed"})]
  /\ joining \subseteq Programs /\ taken \subseteq Ports
  /\ health \in [Programs -> {"Connecting", "Online", "Degraded"}]
  /\ accounts \in [Ports -> 0..MaxLaunches]
  /\ stateFile \in [kind : {"none", "torn", "saved"}, id : 0..MaxLaunches,
                    contacts : SUBSET (Programs \cup {"seed"})]
  /\ seedUp \in BOOLEAN /\ launches \in 0..MaxLaunches

NoState == [kind |-> "none", id |-> 0, contacts |-> {}]

StartupInit ==
  /\ port = [p \in Programs |-> 0]
  /\ account = [p \in Programs |-> 0] /\ nodeId = [p \in Programs |-> 0]
  /\ table = [p \in Programs |-> {}] /\ joining = {}
  /\ health = [p \in Programs |-> "Online"]
  /\ taken = {} /\ accounts = [n \in Ports |-> 0]
  /\ stateFile = NoState
  /\ seedUp \in BOOLEAN
  /\ launches = 0

world == <<taken, seedUp>>
disks == <<accounts, stateFile>>

---------------------------------------------------------------------------
(* Starting and ending *)

(* A fault to detect: a port in use is no obstacle.                        *)
BindableShared(p) == IF p \in Gui THEN {Min(Ports)} ELSE {BasePort}

(* The daemon binds its port or fails; bind_auto the first free one.       *)
Bindable(p) ==
  LET free == Ports \ InUse
  IN  IF p \in Gui THEN (IF free = {} THEN {} ELSE {Min(free)}) ELSE {BasePort} \cap free

(* load_or_create_identity: an unreadable state file counts as none.       *)
LoadedId == IF stateFile.kind = "saved" THEN stateFile.id ELSE launches'
LoadedContacts == IF stateFile.kind = "saved" THEN stateFile.contacts ELSE {}

Launch(p) ==
  /\ ~Up(p) /\ launches < MaxLaunches
  /\ launches' = launches + 1
  /\ \E n \in Bindable(p) :
       /\ port' = [port EXCEPT ![p] = n]
       /\ accounts' = [accounts EXCEPT ![n] = IF @ = 0 THEN launches' ELSE @]
       /\ account' = [account EXCEPT ![p] = accounts'[n]]
  /\ nodeId' = [nodeId EXCEPT ![p] = LoadedId]
  /\ table' = [table EXCEPT ![p] = LoadedContacts \ {p}]
  /\ joining' = joining \cup {p}
  /\ UNCHANGED <<health, stateFile, world>>

Stopped(p) ==
  /\ port' = [port EXCEPT ![p] = 0]
  /\ table' = [table EXCEPT ![p] = {}]
  /\ joining' = joining \ {p}
  /\ UNCHANGED <<account, nodeId, health, accounts, world, launches>>

Save(p) == stateFile' = [kind |-> "saved", id |-> nodeId[p], contacts |-> table[p]]

(* quit, exit or a signal: a daemon saves its state, a window does not.    *)
Quit(p) ==
  /\ Up(p) /\ Stopped(p)
  /\ IF p \in Gui THEN UNCHANGED stateFile ELSE Save(p)

SaveState(p) ==
  /\ Up(p) /\ p \notin Gui /\ Save(p)
  /\ UNCHANGED <<port, account, nodeId, table, joining, health, accounts, world, launches>>

(* A crash, perhaps in the middle of the write of the state file           *)
CrashProgram(p) ==
  /\ Up(p) /\ Stopped(p)
  /\ \/ UNCHANGED stateFile
     \/ p \notin Gui /\ stateFile' = [NoState EXCEPT !.kind = "torn"]

---------------------------------------------------------------------------
(* Joining the network *)

Learns(p, found) == table' = [table EXCEPT ![p] = @ \cup (found \ {p})]
joined == <<port, account, nodeId, disks, world, launches>>

(* KademliaNode::bootstrap, once: the seed answers a ping, and the lookup  *)
(* finds who asked it before.                                              *)
SeedKnows == {p \in Programs : Up(p) /\ "seed" \in table[p]}
TryBootstrap(p) ==
  /\ p \in joining
  /\ joining' = joining \ {p}
  /\ IF seedUp THEN Learns(p, {"seed"} \cup SeedKnows) ELSE UNCHANGED table
  /\ UNCHANGED <<health, joined>>

(* The 3 s loop of the desktop client over the ports of its own machine    *)
LocalDiscovery(p, q) ==
  /\ p \in Gui /\ Up(p) /\ q \in OtherPrograms(p) /\ Up(q)
  /\ q \notin table[p] /\ nodeId[p] # nodeId[q]
  /\ Learns(p, {q} \cup table[q])
  /\ UNCHANGED <<joining, health, joined>>

(* start_reconnect_supervisor and run_bootstrap                            *)
Supervise(p) ==
  /\ p \in Supervised /\ Up(p)
  /\ IF table[p] # {} THEN health' = [health EXCEPT ![p] = "Online"] /\ UNCHANGED table
     ELSE /\ health' = [health EXCEPT ![p] = IF seedUp THEN "Online" ELSE "Degraded"]
          /\ IF seedUp THEN Learns(p, {"seed"} \cup SeedKnows) ELSE UNCHANGED table
  /\ UNCHANGED <<joining, joined>>

SeedChanges ==
  /\ seedUp' = ~seedUp
  /\ UNCHANGED <<port, account, nodeId, table, joining, health, taken, disks, launches>>

PortTaken(n) ==
  /\ n \in Ports \ InUse /\ taken' = taken \cup {n}
  /\ UNCHANGED <<port, account, nodeId, table, joining, health, disks, seedUp, launches>>
PortFreed(n) ==
  /\ n \in taken /\ taken' = taken \ {n}
  /\ UNCHANGED <<port, account, nodeId, table, joining, health, disks, seedUp, launches>>

StartupNext ==
  \/ \E p \in Programs :
       \/ Launch(p) \/ Quit(p) \/ SaveState(p) \/ CrashProgram(p)
       \/ TryBootstrap(p) \/ Supervise(p)
       \/ \E q \in Programs : LocalDiscovery(p, q)
  \/ SeedChanges
  \/ \E n \in Ports : PortTaken(n) \/ PortFreed(n)

StartupSpec == StartupInit /\ [][StartupNext]_startupVars

(* The supervisor runs on; nothing is asked of the bootstrap task, which   *)
(* gives up, nor of discovery, which needs a neighbour.                    *)
StartupFairness == \A p \in Programs : WF_startupVars(Supervise(p))

---------------------------------------------------------------------------
(* No two programs that run write the same account: the port one is bound  *)
(* to keeps the others from its database file.                             *)
OneProgramPerAccount ==
  \A p, q \in Programs : p # q /\ Up(p) /\ Up(q) => account[p] # account[q]

(* A program that stays up under the supervisor while the bootstrap node   *)
(* is there gets a contact, however late the node came up.                 *)
StaysUp(p) == <>[](Up(p) /\ seedUp)
SupervisedConnects == \A p \in Supervised : StaysUp(p) => <>(table[p] # {})

(* "nodes query bootstrap addresses defined in `config.json` with          *)
(* exponential backoff retries"                                            *)
EveryoneConnects == \A p \in Programs : StaysUp(p) => <>(table[p] # {})

(* A user who starts the desktop client again finds the account again.     *)
SameAccountAgain ==
  [][\A p \in Gui : Up(p)' /\ ~Up(p) /\ account[p] # 0 => account'[p] = account[p]]_startupVars
=============================================================================
