------------------------------- MODULE Presence -------------------------------
(***************************************************************************)
(* How a user finds a peer that moves: the presence cards the peer         *)
(* publishes in the DHT (presence.rs, messenger.rs publish_presence),      *)
(* discover_peer, invite links (invite.rs), the contact they leave in the  *)
(* database, and the cascade of try_deliver_payload that uses it.          *)
(*                                                                         *)
(* The peer's addresses are numbered in the order it had them.  An address *)
(* it left is dead or serves another node, which acknowledges a STORE like *)
(* any node; a call to a live address may still fail.                      *)
(***************************************************************************)
EXTENDS Integers, Sequences, FiniteSets, SequencesExt

CONSTANTS MaxPeerMoves,   \* bound: changes of address
          MaxRenames  \* bound: changes of the profile

ASSUME PresenceAssumption == {MaxPeerMoves, MaxRenames} \subseteq Nat

VARIABLES
  profile,   \* the addresses and names the peer had: card v shows profile[v]
  strangers, \* the addresses the peer left that another node has now
  network,   \* the cards its replicas hold
  record,    \* the card this node stores itself, or NoCard
  contact,   \* the contact in this user's database
  mailbox,   \* the message lies in a mailbox the peer polls
  astray,    \* the message was acknowledged by a node that is not the peer
  read       \* the peer has the message

presenceVars == <<profile, strangers, network, record, contact, mailbox, astray, read>>

NoCard == 0
UnknownAddr == -1
NoContact == [known |-> FALSE, key |-> FALSE, addr |-> UnknownAddr, name |-> "none"]
PeerAddr == Last(profile).addr
Cards == 1..Len(profile)

PresenceTypeOK ==
  /\ profile \in Seq([addr : 0..MaxPeerMoves, name : 0..MaxRenames])
  /\ strangers \subseteq 0..(PeerAddr - 1)
  /\ network \subseteq Cards /\ record \in Cards \cup {NoCard}
  /\ contact.key => contact.known
  /\ contact.addr \in -1..PeerAddr
  /\ {mailbox, astray, read} \subseteq BOOLEAN

PresenceInit ==
  /\ profile = <<[addr |-> 0, name |-> 0]>>
  /\ strangers = {} /\ network = {} /\ record = NoCard
  /\ contact = NoContact
  /\ mailbox = FALSE /\ astray = FALSE /\ read = FALSE

finding == <<profile, strangers, network, record>>
message == <<mailbox, astray, read>>

---------------------------------------------------------------------------
(* The peer *)

PeerMoves ==
  /\ PeerAddr < MaxPeerMoves
  /\ profile' = Append(profile, [Last(profile) EXCEPT !.addr = @ + 1])
  /\ UNCHANGED <<strangers, network, record, contact, message>>

(* update_profile, update_display_name: saved, and published               *)
PeerRenames ==
  /\ Last(profile).name < MaxRenames
  /\ profile' = Append(profile, [Last(profile) EXCEPT !.name = @ + 1])
  /\ UNCHANGED <<strangers, network, record, contact, message>>

(* publish_presence, at the start, every minute and after a change: put    *)
(* replaces the card of the replicas that answer, this node may be one.    *)
PublishPresence(old) ==
  /\ old \subseteq network
  /\ network' = old \cup {Len(profile)}
  /\ record' \in {record, Len(profile)}
  /\ UNCHANGED <<profile, strangers, contact, message>>

(* A card lives 24 hours where it was stored.                              *)
CardExpires(v) ==
  /\ v # Len(profile)
  /\ \/ v \in network /\ network' = network \ {v} /\ UNCHANGED record
     \/ v = record /\ record' = NoCard /\ UNCHANGED network
  /\ UNCHANGED <<profile, strangers, contact, message>>

StrangerComes(addr) ==
  /\ addr \in 0..(PeerAddr - 1) \ strangers
  /\ strangers' = strangers \cup {addr}
  /\ UNCHANGED <<profile, network, record, contact, message>>

StrangerLeaves(addr) ==
  /\ addr \in strangers
  /\ strangers' = strangers \ {addr}
  /\ UNCHANGED <<profile, network, record, contact, message>>

PeerReads ==
  /\ mailbox /\ read' = TRUE /\ mailbox' = FALSE
  /\ UNCHANGED <<finding, contact, astray>>

---------------------------------------------------------------------------
(* This user *)

(* dht_node.get: this node's own record is the answer when it has one;     *)
(* what a lookup finds becomes its record.                                 *)
CardsFound == IF record # NoCard THEN {record} ELSE network

(* discover_peer keeps a name the contact has, takes the rest of the card  *)
(* and never compares the card's timestamp.                                *)
ContactOf(v) ==
  [known |-> TRUE, key |-> TRUE, addr |-> profile[v].addr,
   name |-> IF contact.name \in {"none", "Peer_"} THEN ToString(profile[v].name) ELSE contact.name]

DiscoverPeer(v) ==
  /\ v \in CardsFound
  /\ record' = v
  /\ contact' = ContactOf(v)
  /\ UNCHANGED <<profile, strangers, network, message>>

(* add_contact_by_invite: replaces the contact, its name included          *)
AddContactByInvite(v) ==
  /\ contact' = [known |-> TRUE, key |-> TRUE, addr |-> profile[v].addr,
                 name |-> ToString(profile[v].name)]
  /\ UNCHANGED <<finding, message>>

(* The poll loop adds the sender of a message it has no contact for, the   *)
(* window one without a key when a user opens a chat with an identifier    *)
(* that its own list lacks.                                                *)
AddSender ==
  /\ ~contact.known
  /\ contact' = [known |-> TRUE, key |-> TRUE, addr |-> UnknownAddr, name |-> "Peer_"]
  /\ UNCHANGED <<finding, message>>

AddPlaceholder ==
  /\ contact' = [known |-> TRUE, key |-> FALSE, addr |-> UnknownAddr, name |-> "custom"]
  /\ UNCHANGED <<finding, message>>

(* A contact without a key of its own or without an address is not used.   *)
Usable == contact.known /\ contact.key /\ contact.addr # UnknownAddr

(* Tier 1 and 2: a node at the address acknowledges the STORE.             *)
DirectStore(addr) ==
  \/ addr = PeerAddr /\ read' = TRUE /\ UNCHANGED <<mailbox, astray>>
  \/ addr \in strangers /\ astray' = TRUE /\ UNCHANGED <<mailbox, read>>

(* Tier 3, when no call was answered: the envelope goes to the mailbox.    *)
Deposit == mailbox' = TRUE /\ UNCHANGED <<astray, read>>

(* A fault to detect: nothing is deposited.                                *)
CascadeWithoutMailbox(addr) == DirectStore(addr)

Cascade(addr) == DirectStore(addr) \/ Deposit

TryDeliverPayload ==
  /\ ~read
  /\ \/ Usable /\ Cascade(contact.addr) /\ UNCHANGED <<finding, contact>>
     \/ /\ ~Usable
        /\ \E v \in CardsFound :
             /\ record' = v
             /\ contact' = ContactOf(v)
             /\ Cascade(profile[v].addr)
        /\ UNCHANGED <<profile, strangers, network>>

PresenceNext ==
  \/ PeerMoves \/ PeerRenames \/ PeerReads
  \/ \E old \in SUBSET network : PublishPresence(old)
  \/ \E v \in Cards : CardExpires(v) \/ DiscoverPeer(v) \/ AddContactByInvite(v)
  \/ \E addr \in 0..MaxPeerMoves : StrangerComes(addr) \/ StrangerLeaves(addr)
  \/ AddSender \/ AddPlaceholder \/ TryDeliverPayload

PresenceSpec == PresenceInit /\ [][PresenceNext]_presenceVars

(* The heartbeat publishes, the outbox worker retries and the peer polls.  *)
PresenceFairness ==
  /\ WF_presenceVars(PublishPresence({}))
  /\ WF_presenceVars(TryDeliverPayload)
  /\ WF_presenceVars(PeerReads)

---------------------------------------------------------------------------
(* A retried message reaches the peer, wherever it moved, when no other    *)
(* node answers at an address it left.                                     *)
MovedPeerIsReached == (<>[](strangers = {})) => <>read

(* "Direct UDP RPC ACK confirmed receipt by recipient node."               *)
AckIsTheRecipients == ~astray
=============================================================================
