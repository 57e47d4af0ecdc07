------------------------------- MODULE Codec -------------------------------
(***************************************************************************)
(* The wire format of the DHT's messages: rpc.rs turns an RpcMessage into  *)
(* the structures of core-ffi, core-ffi writes them into a buffer whose    *)
(* size rpc.rs estimated beforehand, and the receiver reads them back.     *)
(* Bytes are counted, not kept: a value is its length, a datagram is the   *)
(* fields it announces and the number of bytes that arrived.               *)
(***************************************************************************)
EXTENDS Integers, Sequences

CONSTANTS
  Sent,       \* the messages the nodes send
  Arriving,   \* other datagrams that arrive at the port
  CutLengths  \* how much of a datagram may arrive

ID_SIZE == 20
MAX_VALUE_SIZE == 65536
MAX_CONTACTS == 20

HEADER == 1 + 8 + ID_SIZE
CONTACT == ID_SIZE + 1 + 16 + 2

Empty == {"Ping", "Pong"}
WithKey == {"FindNode", "FindValue"}
MessageType ==
  Empty \cup WithKey \cup {"Store", "StoreAck", "FindNodeResp", "FindValueResp"}

AddressClass == {"unicast", "unspecified", "broadcast", "multicast"}
WireContact == [ip_type : 0 .. 255, class : AddressClass, port : 0 .. 65535]

NoValue == -1

(* An RpcMessage: "value" is the value's length, NoValue for None and for  *)
(* the types that have none.                                               *)
Message ==
  {m \in [type : MessageType, value : Nat \cup {NoValue}, contacts : Seq(WireContact)] :
     /\ m.type = "Store" => m.value # NoValue
     /\ m.type \notin {"Store", "FindValueResp"} => m.value = NoValue
     /\ m.type \notin {"FindNodeResp", "FindValueResp"} => m.contacts = <<>>
     \* a SocketAddr is an IPv4 or an IPv6 address
     /\ \A i \in DOMAIN m.contacts : m.contacts[i].ip_type \in {4, 6}}

(* A datagram: the type byte, what a datagram of that type announces (the  *)
(* value's length, the number of contacts), the contacts its bytes hold,   *)
(* and its length.                                                         *)
Datagram ==
  {w \in [type : MessageType \cup {"unknown"}, value : Nat \cup {NoValue},
          count : Nat, contacts : Seq(WireContact), len : Nat] :
     /\ w.count <= 255
     /\ w.type = "Store" => w.value # NoValue
     /\ w.type \notin {"Store", "FindValueResp"} => w.value = NoValue
     /\ w.type \notin {"FindNodeResp", "FindValueResp"} => w.count = 0}

VARIABLES
  wire,       \* the datagram under way
  origin,     \* the message it encodes, or Nothing
  accepted    \* what the receiver made of it, or Nothing

codecVars == <<wire, origin, accepted>>

Nothing == [type |-> "nothing"]

Min2(a, b) == IF a <= b THEN a ELSE b

Taken(s) == SubSeq(s, 1, Min2(Len(s), MAX_CONTACTS))

CodecInit ==
  /\ wire = Nothing
  /\ origin = Nothing
  /\ accepted = Nothing
-----------------------------------------------------------------------------
(* A fault to detect: a reply that carries every contact of the table.     *)
ToCWithAllContacts(m) ==
  [type |-> m.type, value |-> m.value,
   contacts |-> IF m.value # NoValue THEN <<>> ELSE m.contacts]

(* to_c_message fails for a value above the limit, and drops the contacts  *)
(* of a reply with a value and those after the first MAX_CONTACTS.         *)
TooLarge(m) == m.value > MAX_VALUE_SIZE

ToC(m) ==
  [type |-> m.type, value |-> m.value,
   contacts |-> IF m.value # NoValue THEN <<>> ELSE Taken(m.contacts)]

(* The buffer "encode" hands to core-ffi.                                  *)
EstimatedSize(m) == IF m.value # NoValue THEN 64 + m.value ELSE 1024

PayloadSize(c) ==
  CASE c.type \in Empty -> 0
    [] c.type \in WithKey -> ID_SIZE
    [] c.type = "Store" -> ID_SIZE + 4 + c.value
    [] c.type = "StoreAck" -> 1
    [] c.type = "FindNodeResp" -> 1 + Len(c.contacts) * CONTACT
    [] c.type = "FindValueResp" ->
         1 + (IF c.value # NoValue THEN 4 + c.value ELSE 0) + 1 + Len(c.contacts) * CONTACT

(* ffi_encode_message: nothing, when the buffer is too short.              *)
Encode(m) ==
  LET c == ToC(m)
      written == HEADER + PayloadSize(c)
  IN IF TooLarge(m) \/ written > EstimatedSize(m)
     THEN Nothing
     ELSE [type |-> c.type, value |-> c.value, count |-> Len(c.contacts),
           contacts |-> c.contacts, len |-> written]

(* What a datagram's announced fields need, read in the order of           *)
(* ffi_decode_message; a count byte above MAX_CONTACTS is read as that.    *)
ReadCount(w) == Min2(w.count, MAX_CONTACTS)

Needed(w) ==
  HEADER +
  CASE w.type \in Empty -> 0
    [] w.type \in WithKey -> ID_SIZE
    [] w.type = "Store" -> ID_SIZE + 4 + w.value
    [] w.type = "StoreAck" -> 1
    [] w.type = "FindNodeResp" -> 1 + ReadCount(w) * CONTACT
    [] w.type = "FindValueResp" ->
         1 + (IF w.value # NoValue THEN 4 + w.value ELSE 0) + 1 + ReadCount(w) * CONTACT
    [] OTHER -> 0

(* A fault to detect: the announced length is trusted.                     *)
ReadableTrustingLength(w) ==
  /\ w.type \in MessageType
  /\ w.value <= MAX_VALUE_SIZE
  /\ w.len >= HEADER

(* ffi_decode_message refuses an unknown type, a length above the limit    *)
(* and a datagram shorter than it announces; bytes that follow are left.   *)
Readable(w) ==
  /\ w.type \in MessageType
  /\ w.value <= MAX_VALUE_SIZE
  /\ w.len >= Needed(w)

(* c_to_contact: one contact that fails it fails the whole message.        *)
Routable(c) ==
  /\ c.port # 0
  /\ \/ c.ip_type = 4 /\ c.class = "unicast"
     \/ c.ip_type = 6 /\ c.class \notin {"unspecified", "multicast"}

(* from_c_message: a reply with a value keeps no contacts.                 *)
FromC(w) ==
  LET read == SubSeq(w.contacts, 1, ReadCount(w))
  IN IF w.value # NoValue
     THEN [type |-> w.type, value |-> w.value, contacts |-> <<>>]
     ELSE IF \A i \in DOMAIN read : Routable(read[i])
          THEN [type |-> w.type, value |-> NoValue, contacts |-> read]
          ELSE Nothing

Decode(w) == IF Readable(w) THEN FromC(w) ELSE Nothing
-----------------------------------------------------------------------------
(* A node sends a message; a failed encoding sends nothing.                *)
SendMessage(m) ==
  /\ wire = Nothing
  /\ wire' = Encode(m)
  /\ origin' = IF Encode(m) = Nothing THEN Nothing ELSE m
  /\ accepted' = Nothing

(* A datagram of another origin arrives.                                   *)
Inject(w) ==
  /\ wire = Nothing
  /\ wire' = w
  /\ origin' = Nothing
  /\ accepted' = Nothing

(* Only the first n bytes arrive.                                          *)
Cut(n) ==
  /\ wire # Nothing
  /\ n < wire.len
  /\ wire' = [wire EXCEPT !.len = n]
  /\ UNCHANGED <<origin, accepted>>

ReceiveDatagram ==
  /\ wire # Nothing
  /\ accepted' = Decode(wire)
  /\ wire' = Nothing
  /\ UNCHANGED origin

CodecNext ==
  \/ \E m \in Sent : SendMessage(m)
  \/ \E w \in Arriving : Inject(w)
  \/ \E n \in CutLengths : Cut(n)
  \/ ReceiveDatagram

CodecSpec == CodecInit /\ [][CodecNext]_codecVars

(* What is sent and what arrives; the bytes a datagram announces are there *)
(* when its length says so.                                                *)
ASSUME CodecAssumption ==
  /\ Sent \subseteq Message
  /\ Arriving \subseteq Datagram
  /\ \A w \in Arriving : Readable(w) => Len(w.contacts) >= ReadCount(w)
  /\ CutLengths \subseteq Nat
-----------------------------------------------------------------------------
CodecTypeOK ==
  /\ wire \in Datagram \cup {Nothing}
  /\ origin \in Message \cup {Nothing}
  /\ accepted \in Message \cup {Nothing}

(* What a decoder accepts, from whatever datagram, is a message this       *)
(* program could have sent: to_c_message keeps all of it and its encoding  *)
(* fits the estimated buffer, so a node can pass on what it was told.      *)
AcceptedCanBeSent ==
  accepted # Nothing => Encode(accepted) # Nothing /\ ToC(accepted) = accepted

(* A message of a node is decoded to exactly what to_c_message kept of it, *)
(* when all of it arrived and every contact is routable, and refused       *)
(* otherwise: no part of a message is ever taken for the whole.            *)
DecodedAsSent ==
  [][wire # Nothing /\ wire' = Nothing /\ origin # Nothing =>
       accepted' = IF /\ wire = Encode(origin)
                      /\ \A i \in DOMAIN wire.contacts : Routable(wire.contacts[i])
                   THEN ToC(origin)
                   ELSE Nothing]_codecVars
=============================================================================
