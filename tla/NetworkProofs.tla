--------------------------- MODULE NetworkProofs ---------------------------
(* Proofs about the NAT traversal and the relay: their types, that what    *)
(* each tier reports was said by whom it asked, to this very attempt, and  *)
(* the same of the whole node, whose components step side by side.         *)
EXTENDS MCNetwork, KademliaProofs
-----------------------------------------------------------------------------
(***************************************************************************)
(* Every message whose value is within the limit fits the buffer rpc.rs    *)
(* estimates for it, is read back as it was written, and is refused when   *)
(* a single byte of it is missing.  The arithmetic is that of rpc.rs and   *)
(* core-ffi, for values and contact lists of every length.                 *)
(***************************************************************************)
(* Taking the first MAX_CONTACTS contacts: the lists both sides keep.      *)
LEMMA TakenFacts ==
  ASSUME NEW S, NEW s \in Seq(S)
  PROVE  /\ Taken(s) \in Seq(S)
         /\ Len(Taken(s)) = Min2(Len(s), MAX_CONTACTS)
         /\ Len(Taken(s)) <= MAX_CONTACTS
         /\ Len(s) <= MAX_CONTACTS => Taken(s) = s
         /\ \A i \in DOMAIN Taken(s) : i \in DOMAIN s /\ Taken(s)[i] = s[i]
  <1>1. Len(s) \in Nat /\ Min2(Len(s), MAX_CONTACTS) \in 0 .. Len(s)
    BY DEF Min2, MAX_CONTACTS
  <1>2. /\ Taken(s) \in Seq(S)
        /\ Len(Taken(s)) = Min2(Len(s), MAX_CONTACTS)
        /\ \A i \in DOMAIN Taken(s) : i \in DOMAIN s /\ Taken(s)[i] = s[i]
    BY <1>1 DEF Taken
  <1>3. Len(s) <= MAX_CONTACTS => Taken(s) = s
    <2>1. SUFFICES ASSUME Len(s) <= MAX_CONTACTS PROVE Taken(s) = s
      OBVIOUS
    <2>2. Len(Taken(s)) = Len(s)
      BY <1>1, <1>2, <2>1 DEF Min2, MAX_CONTACTS
    <2> QED BY <1>2, <2>2
  <1>4. Len(Taken(s)) <= MAX_CONTACTS
    BY <1>1, <1>2 DEF Min2, MAX_CONTACTS
  <1> QED BY <1>2, <1>3, <1>4

(* What to_c_message keeps is a message with at most MAX_CONTACTS contacts,*)
(* and to_c_message keeps all of that.                                     *)
LEMMA KeptIsMessage ==
  ASSUME NEW m \in Message
  PROVE  /\ ToC(m) \in Message
         /\ ToC(m).type = m.type
         /\ ToC(m).value = m.value
         /\ Len(ToC(m).contacts) <= MAX_CONTACTS
         /\ ToC(ToC(m)) = ToC(m)
  <1>1. m.contacts \in Seq(WireContact)
    BY DEF Message
  <1>2. m = [type |-> m.type, value |-> m.value, contacts |-> m.contacts]
    BY DEF Message
  <1>3. CASE m.value # NoValue
    <2>1. ToC(m) = [type |-> m.type, value |-> m.value, contacts |-> <<>>]
      BY <1>3 DEF ToC
    <2>2. ToC(ToC(m)) = ToC(m)
      BY <1>3, <2>1 DEF ToC
    <2>3. ToC(m) \in Message
      BY <2>1 DEF Message
    <2> QED BY <2>1, <2>2, <2>3 DEF MAX_CONTACTS
  <1>4. CASE m.value = NoValue
    <2> DEFINE t == Taken(m.contacts)
    <2>1. ToC(m) = [type |-> m.type, value |-> m.value, contacts |-> t]
      BY <1>4 DEF ToC
    <2>2. /\ t \in Seq(WireContact)
          /\ Len(t) <= MAX_CONTACTS
          /\ m.contacts = <<>> => t = <<>>
          /\ \A i \in DOMAIN t : t[i].ip_type \in {4, 6}
      <3>1. m.contacts = <<>> => Len(m.contacts) <= MAX_CONTACTS
        BY DEF MAX_CONTACTS
      <3> QED BY <1>1, <3>1, TakenFacts DEF Message
    <2>3. Taken(t) = t
      BY <2>2, TakenFacts
    <2> HIDE DEF t
    <2>4. ToC(ToC(m)) = ToC(m)
      BY <1>4, <2>1, <2>3 DEF ToC
    <2>5. ToC(m) \in Message
      BY <2>1, <2>2 DEF Message
    <2> QED BY <2>1, <2>2, <2>4, <2>5
  <1> QED BY <1>3, <1>4

(* The estimate of "encode" is never too small: the only message that      *)
(* cannot be sent is one whose value exceeds the limit.                    *)
THEOREM EveryMessageFits ==
  ASSUME NEW m \in Message, ~ TooLarge(m)
  PROVE  /\ Encode(m) \in Datagram
         /\ Encode(m) # Nothing
         /\ Encode(m).len = Needed(Encode(m))
         /\ Readable(Encode(m))
  <1> DEFINE c == ToC(m)
  <1> DEFINE n == Len(c.contacts)
  <1>1. /\ c \in Message
        /\ c.type = m.type
        /\ c.value = m.value
        /\ n \in Nat
        /\ n <= 20
    BY KeptIsMessage DEF Message, MAX_CONTACTS
  <1>2. /\ m.type \in MessageType
        /\ m.value \in Nat \cup {NoValue}
        /\ m.value <= 65536
        /\ m.type = "Store" => m.value # NoValue
        /\ m.type \notin {"Store", "FindValueResp"} => m.value = NoValue
    BY DEF Message, TooLarge, MAX_VALUE_SIZE, NoValue
  <1>3. PayloadSize(c) \in Nat /\ HEADER + PayloadSize(c) <= EstimatedSize(m)
    <2> HIDE DEF c, n
    <2>1. CASE m.type \in Empty
      BY <1>1, <1>2, <2>1 DEF Empty, PayloadSize, EstimatedSize, HEADER, ID_SIZE,
          NoValue
    <2>2. CASE m.type \in WithKey
      BY <1>1, <1>2, <2>2 DEF WithKey, Empty, PayloadSize, EstimatedSize, HEADER,
          ID_SIZE, NoValue
    <2>3. CASE m.type = "Store"
      BY <1>1, <1>2, <2>3 DEF WithKey, Empty, PayloadSize, EstimatedSize, HEADER,
          ID_SIZE, NoValue
    <2>4. CASE m.type = "StoreAck"
      BY <1>1, <1>2, <2>4 DEF WithKey, Empty, PayloadSize, EstimatedSize, HEADER,
          ID_SIZE, NoValue
    <2>5. CASE m.type = "FindNodeResp"
      <3>1. PayloadSize(c) = 1 + n * 39
        BY <1>1, <2>5 DEF WithKey, Empty, PayloadSize, CONTACT, ID_SIZE, n
      <3>2. EstimatedSize(m) = 1024
        BY <1>2, <2>5 DEF EstimatedSize
      <3> QED BY <1>1, <3>1, <3>2 DEF HEADER, ID_SIZE
    <2>6. CASE m.type = "FindValueResp"
      <3>1. PayloadSize(c) = 1 + (IF m.value # NoValue THEN 4 + m.value ELSE 0) + 1 + n * 39
        BY <1>1, <2>6 DEF WithKey, Empty, PayloadSize, CONTACT, ID_SIZE, n
      <3>2. m.value # NoValue => n = 0
        BY DEF n, c, ToC, Message
      <3> QED BY <1>1, <1>2, <3>1, <3>2 DEF HEADER, ID_SIZE, EstimatedSize, NoValue
    <2> QED BY <1>2, <2>1, <2>2, <2>3, <2>4, <2>5, <2>6 DEF MessageType
  <1>4. HEADER + PayloadSize(c) \in Nat
    BY <1>3 DEF HEADER, ID_SIZE
  <1>5. Encode(m) = [type |-> c.type, value |-> c.value, count |-> n,
                     contacts |-> c.contacts, len |-> HEADER + PayloadSize(c)]
    <2>1. EstimatedSize(m) \in Int
      BY <1>2 DEF EstimatedSize, NoValue
    <2> QED BY <1>3, <1>4, <2>1 DEF Encode
  <1>6. Encode(m) \in Datagram
    <2>1. c.contacts \in Seq(WireContact)
      BY <1>1 DEF Message
    <2>4. /\ c.type = "Store" => c.value # NoValue
          /\ c.type \notin {"Store", "FindValueResp"} => c.value = NoValue
          /\ c.type \notin {"FindNodeResp", "FindValueResp"} => n = 0
      BY <1>1 DEF Message
    <2> HIDE DEF c, n
    <2>2. n \in Nat /\ n <= 255
      BY <1>1
    <2>3. c.type \in MessageType /\ c.value \in Nat \cup {NoValue}
      BY <1>1, <1>2
    <2> QED BY <1>4, <1>5, <2>1, <2>2, <2>3, <2>4 DEF Datagram
  <1>7. Encode(m) # Nothing
    BY <1>5 DEF Nothing
  <1>8. ReadCount(Encode(m)) = n
    BY <1>1, <1>5 DEF ReadCount, Min2, MAX_CONTACTS
  <1>9. Needed(Encode(m)) = HEADER + PayloadSize(c)
    <2> HIDE DEF c, n
    <2>1. /\ Encode(m).type = m.type
          /\ Encode(m).value = m.value
          /\ ReadCount(Encode(m)) = Len(c.contacts)
      BY <1>1, <1>5, <1>8 DEF n
    <2> QED BY <1>1, <1>2, <2>1 DEF Needed, PayloadSize, MessageType, Empty, WithKey
  <1> QED BY <1>1, <1>2, <1>4, <1>5, <1>6, <1>7, <1>9 DEF Readable, MAX_VALUE_SIZE
-----------------------------------------------------------------------------
(* The count a decoder reads is within the limit.                          *)
LEMMA ReadCountFacts ==
  ASSUME NEW w, w.count \in Nat
  PROVE  /\ ReadCount(w) \in Nat
         /\ ReadCount(w) <= MAX_CONTACTS
         /\ w.count = 0 => ReadCount(w) = 0
  BY DEF ReadCount, Min2, MAX_CONTACTS

(* A datagram under way: a prefix of what its origin encodes to, or one    *)
(* that holds the contacts it announces as far as its length goes.         *)
WireInv ==
  /\ wire # Nothing =>
       \/ /\ origin # Nothing
          /\ wire.len <= Encode(origin).len
          /\ wire = [Encode(origin) EXCEPT !.len = wire.len]
       \/ /\ origin = Nothing
          /\ Readable(wire) => Len(wire.contacts) >= ReadCount(wire)
  /\ origin # Nothing => ~ TooLarge(origin)

CodecInv == CodecTypeOK /\ WireInv /\ AcceptedCanBeSent

(* Nothing is neither a message nor a datagram.                            *)
LEMMA NothingApart == Nothing \notin Message /\ Nothing \notin Datagram
  BY DEF Nothing, Message, Datagram, MessageType, Empty, WithKey

(* What a datagram needs is a number of bytes.                             *)
LEMMA NeededIsNumber == ASSUME NEW w \in Datagram PROVE Needed(w) \in Int
  <1>1. /\ w.type \in MessageType \cup {"unknown"}
        /\ w.value \in Int
        /\ w.count \in Nat
    BY DEF Datagram, NoValue
  <1>2. ReadCount(w) \in Int
    BY <1>1, ReadCountFacts
  <1> QED BY <1>1, <1>2
         DEF Needed, MessageType, Empty, WithKey, HEADER, CONTACT, ID_SIZE

(* Cutting a datagram changes neither what it announces nor what it needs. *)
LEMMA CutReads ==
  ASSUME NEW w \in Datagram, NEW n \in Nat
  PROVE  LET x == [w EXCEPT !.len = n]
         IN /\ x \in Datagram
            /\ x.len = n
            /\ ReadCount(x) = ReadCount(w)
            /\ Needed(x) = Needed(w)
            /\ FromC(x) = FromC(w)
            /\ x.contacts = w.contacts
  <1> DEFINE x == [w EXCEPT !.len = n]
  <1>1. /\ x \in Datagram
        /\ x.len = n
        /\ x.type = w.type
        /\ x.value = w.value
        /\ x.count = w.count
        /\ x.contacts = w.contacts
    <2>1. /\ w.type \in MessageType \cup {"unknown"}
          /\ w.value \in Nat \cup {NoValue}
          /\ w.count \in Nat /\ w.count <= 255
          /\ w.contacts \in Seq(WireContact)
          /\ w.type = "Store" => w.value # NoValue
          /\ w.type \notin {"Store", "FindValueResp"} => w.value = NoValue
          /\ w.type \notin {"FindNodeResp", "FindValueResp"} => w.count = 0
      BY DEF Datagram
    <2>2. x = [type |-> w.type, value |-> w.value, count |-> w.count,
               contacts |-> w.contacts, len |-> n]
      BY DEF Datagram
    <2> HIDE DEF x
    <2>3. x \in Datagram
      BY <2>1, <2>2 DEF Datagram
    <2> QED BY <2>2, <2>3
  <1>2. ReadCount(x) = ReadCount(w)
    BY <1>1 DEF ReadCount
  <1> HIDE DEF x
  <1>3. Needed(x) = Needed(w)
    BY <1>1, <1>2 DEF Needed
  <1>4. FromC(x) = FromC(w)
    BY <1>1, <1>2 DEF FromC
  <1> QED BY <1>1, <1>2, <1>3, <1>4 DEF x

(* What from_c_message makes of a readable datagram can be sent on.        *)
LEMMA AcceptedIsMessage ==
  ASSUME NEW w \in Datagram, Readable(w),
         Len(w.contacts) >= ReadCount(w),
         FromC(w) # Nothing
  PROVE  /\ FromC(w) \in Message
         /\ ~ TooLarge(FromC(w))
         /\ ToC(FromC(w)) = FromC(w)
  <1> DEFINE k == ReadCount(w)
             read == SubSeq(w.contacts, 1, k)
  <1>a. /\ w.type \in MessageType \cup {"unknown"}
        /\ w.value \in Nat \cup {NoValue}
        /\ w.count \in Nat /\ w.count <= 255
        /\ w.contacts \in Seq(WireContact)
        /\ w.type = "Store" => w.value # NoValue
        /\ w.type \notin {"Store", "FindValueResp"} => w.value = NoValue
        /\ w.type \notin {"FindNodeResp", "FindValueResp"} => w.count = 0
    BY DEF Datagram
  <1>b. w.type \in MessageType /\ w.value <= MAX_VALUE_SIZE
    BY DEF Readable
  <1>2. k \in 0 .. MAX_CONTACTS /\ (w.count = 0 => k = 0)
    <2>1. k \in Nat /\ k <= MAX_CONTACTS /\ (w.count = 0 => k = 0)
      BY <1>a, ReadCountFacts
    <2> HIDE DEF k
    <2> QED BY <2>1 DEF MAX_CONTACTS
  <1>c. read \in Seq(WireContact) /\ Len(read) = k
    <2>1. k \in 0 .. Len(w.contacts) /\ w.contacts \in Seq(WireContact)
      BY <1>a, <1>2 DEF MAX_CONTACTS
    <2> HIDE DEF k
    <2> QED BY <2>1
  <1> HIDE DEF k
  <1>3. CASE w.value # NoValue
    <2>1. FromC(w) = [type |-> w.type, value |-> w.value, contacts |-> <<>>]
      BY <1>3 DEF FromC
    <2>2. FromC(w) \in Message
      BY <1>a, <1>b, <1>3, <2>1 DEF Message
    <2>3. ToC(FromC(w)) = FromC(w)
      BY <1>3, <2>1 DEF ToC
    <2>4. ~ TooLarge(FromC(w))
      BY <1>a, <1>b, <2>1 DEF TooLarge, MAX_VALUE_SIZE, NoValue
    <2> QED BY <2>2, <2>3, <2>4
  <1>4. CASE w.value = NoValue
    <2>1. /\ FromC(w) = [type |-> w.type, value |-> NoValue, contacts |-> read]
          /\ \A i \in DOMAIN read : Routable(read[i])
      BY <1>4 DEF FromC, k
    <2>2. read \in Seq(WireContact) /\ Len(read) <= MAX_CONTACTS
      BY <1>2, <1>c DEF MAX_CONTACTS
    <2>3. \A i \in DOMAIN read : read[i].ip_type \in {4, 6}
      BY <2>1 DEF Routable
    <2>4. w.type \notin {"FindNodeResp", "FindValueResp"} => read = <<>>
      BY <1>a, <1>2, <1>c
    <2>5. Taken(read) = read
      BY <2>2, TakenFacts
    <2> HIDE DEF read
    <2>6. FromC(w) \in Message
      BY <1>a, <1>b, <1>4, <2>1, <2>2, <2>3, <2>4 DEF Message
    <2>7. ToC(FromC(w)) = FromC(w)
      BY <2>1, <2>5 DEF ToC
    <2>8. ~ TooLarge(FromC(w))
      BY <2>1 DEF TooLarge, MAX_VALUE_SIZE, NoValue
    <2> QED BY <2>6, <2>7, <2>8
  <1> QED BY <1>3, <1>4

(* The encoding of a message, read back: what to_c_message kept, unless a  *)
(* contact is not routable.                                                *)
LEMMA ReadBack ==
  ASSUME NEW m \in Message, ~ TooLarge(m)
  PROVE  /\ Decode(Encode(m)) =
              IF \A i \in DOMAIN Encode(m).contacts : Routable(Encode(m).contacts[i])
              THEN ToC(m) ELSE Nothing
         /\ Len(Encode(m).contacts) >= ReadCount(Encode(m))
  <1> DEFINE e == Encode(m)
             c == ToC(m)
             n == Len(c.contacts)
  <1>1. /\ c \in Message
        /\ c = [type |-> m.type, value |-> m.value, contacts |-> c.contacts]
        /\ c.contacts \in Seq(WireContact)
        /\ n \in Nat
        /\ n <= 20
        /\ m.value # NoValue => c.contacts = <<>>
    <2>1. c \in Message /\ n <= 20
      BY KeptIsMessage DEF MAX_CONTACTS
    <2>2. c.contacts \in Seq(WireContact)
      BY <2>1 DEF Message
    <2>3. n \in Nat
      BY <2>2
    <2> QED BY <2>1, <2>2, <2>3 DEF ToC
  <1>2. /\ e.type = m.type
        /\ e.value = m.value
        /\ e.count = n
        /\ e.contacts = c.contacts
        /\ Readable(e)
    BY EveryMessageFits DEF Encode, ToC
  <1>3. ReadCount(e) = n
    BY <1>1, <1>2 DEF ReadCount, Min2, MAX_CONTACTS
  <1>4. SubSeq(c.contacts, 1, n) = c.contacts
    BY <1>1
  <1> HIDE DEF e, c, n
  <1>5. Decode(e) = FromC(e)
    BY <1>2 DEF Decode
  <1>6. CASE m.value # NoValue
    BY <1>1, <1>2, <1>3, <1>5, <1>6 DEF FromC, n, e, c
  <1>7. CASE m.value = NoValue
    <2>1. FromC(e) = IF \A i \in DOMAIN c.contacts : Routable(c.contacts[i])
                     THEN c ELSE Nothing
      BY <1>1, <1>2, <1>3, <1>4, <1>7 DEF FromC
    <2> QED BY <1>1, <1>2, <1>3, <1>5, <2>1 DEF e, c, n
  <1> QED BY <1>6, <1>7

-----------------------------------------------------------------------------
(* The initial state satisfies the invariant.                              *)
LEMMA CodecInvInit == CodecInit => CodecInv
  BY NothingApart DEF CodecInit, CodecInv, CodecTypeOK, WireInv, AcceptedCanBeSent

(* Each step of the codec keeps the invariant.                             *)
LEMMA CodecInvNext == CodecInv /\ [CodecNext]_codecVars => CodecInv'
  <1> SUFFICES ASSUME CodecInv, [CodecNext]_codecVars PROVE CodecInv'
    OBVIOUS
  <1> USE CodecAssumption, NothingApart
  <1>1. ASSUME NEW m \in Sent, SendMessage(m) PROVE CodecInv'
    <2>1. m \in Message
      OBVIOUS
    <2>2. accepted' = Nothing
      BY <1>1 DEF SendMessage
    <2>3. CASE TooLarge(m)
      <3>1. Encode(m) = Nothing
        BY <2>3 DEF Encode
      <3> QED BY <1>1, <2>2, <3>1
             DEF SendMessage, CodecInv, CodecTypeOK, WireInv, AcceptedCanBeSent
    <2>4. CASE ~ TooLarge(m)
      <3>1. /\ Encode(m) \in Datagram
            /\ Encode(m) # Nothing
        BY <2>1, <2>4, EveryMessageFits
      <3>2. /\ wire' = Encode(m)
            /\ origin' = m
        BY <1>1, <3>1 DEF SendMessage
      <3>3. CodecTypeOK'
        BY <2>1, <2>2, <3>1, <3>2 DEF CodecTypeOK
      <3>4. WireInv'
        <4>1. Encode(m).len \in Nat /\ Encode(m) = [Encode(m) EXCEPT !.len = Encode(m).len]
          BY <3>1 DEF Datagram
        <4>2. m # Nothing
          BY <2>1
        <4> QED BY <2>4, <3>2, <4>1, <4>2 DEF WireInv
      <3> QED BY <2>2, <3>3, <3>4 DEF CodecInv, AcceptedCanBeSent
    <2> QED BY <2>3, <2>4
  <1>2. ASSUME NEW w \in Arriving, Inject(w) PROVE CodecInv'
    BY <1>2 DEF Inject, CodecInv, CodecTypeOK, WireInv, AcceptedCanBeSent
  <1>3. ASSUME NEW n \in CutLengths, Cut(n) PROVE CodecInv'
    <2>1. /\ wire \in Datagram
          /\ n \in Nat
          /\ n < wire.len
          /\ wire' = [wire EXCEPT !.len = n]
          /\ UNCHANGED <<origin, accepted>>
      BY <1>3 DEF Cut, CodecInv, CodecTypeOK
    <2>2. /\ wire' \in Datagram
          /\ wire'.len = n
          /\ ReadCount(wire') = ReadCount(wire)
          /\ Needed(wire') = Needed(wire)
          /\ wire'.contacts = wire.contacts
      BY <2>1, CutReads
    <2>3. WireInv'
      <3>1. CASE origin = Nothing
        <4>1. Readable(wire') => Readable(wire)
          <5>1. wire'.type = wire.type /\ wire'.value = wire.value
            BY <2>1 DEF Datagram
          <5>2. wire.len \in Nat
            BY <2>1 DEF Datagram
          <5>3. Readable(wire') => n >= Needed(wire)
            BY <2>2 DEF Readable
          <5>4. Needed(wire) \in Int
            BY <2>1, NeededIsNumber
          <5>5. n >= Needed(wire) => wire.len >= Needed(wire)
            BY <2>1, <5>2, <5>4
          <5> QED BY <5>1, <5>3, <5>5 DEF Readable
        <4> QED BY <1>3, <2>1, <2>2, <3>1, <4>1 DEF WireInv, CodecInv, Cut
      <3>2. CASE origin # Nothing
        <4>1. /\ wire.len <= Encode(origin).len
              /\ wire = [Encode(origin) EXCEPT !.len = wire.len]
              /\ ~ TooLarge(origin)
              /\ origin \in Message
          BY <1>3, <3>2 DEF WireInv, CodecInv, CodecTypeOK, Cut
        <4>2. Encode(origin) \in Datagram
          BY <4>1, EveryMessageFits
        <4>3. Encode(origin).len \in Nat /\ wire.len \in Nat
          BY <2>1, <4>2 DEF Datagram
        <4>4. wire' = [Encode(origin) EXCEPT !.len = n]
          BY <2>1, <4>1
        <4>5. n <= Encode(origin).len
          BY <2>1, <4>1, <4>3
        <4> QED BY <2>1, <2>2, <3>2, <4>1, <4>4, <4>5 DEF WireInv
      <3> QED BY <3>1, <3>2
    <2> QED BY <2>1, <2>2, <2>3 DEF CodecInv, CodecTypeOK, AcceptedCanBeSent
  <1>4. ASSUME ReceiveDatagram PROVE CodecInv'
    <2>1. /\ wire \in Datagram
          /\ wire' = Nothing
          /\ accepted' = Decode(wire)
          /\ origin' = origin
      BY <1>4 DEF ReceiveDatagram, CodecInv, CodecTypeOK
    <2>2. CASE Decode(wire) = Nothing
      BY <2>1, <2>2 DEF CodecInv, CodecTypeOK, WireInv, AcceptedCanBeSent
    <2>3. CASE Decode(wire) # Nothing
      <3>1. Readable(wire) /\ Decode(wire) = FromC(wire)
        BY <2>3 DEF Decode
      <3>2. Len(wire.contacts) >= ReadCount(wire)
        <4>1. CASE origin = Nothing
          BY <1>4, <3>1, <4>1 DEF CodecInv, WireInv, ReceiveDatagram
        <4>2. CASE origin # Nothing
          <5>1. /\ wire = [Encode(origin) EXCEPT !.len = wire.len]
                /\ ~ TooLarge(origin)
                /\ origin \in Message
            BY <1>4, <4>2 DEF WireInv, CodecInv, CodecTypeOK, ReceiveDatagram
          <5>2. Encode(origin) \in Datagram /\ wire.len \in Nat
            BY <2>1, <5>1, EveryMessageFits DEF Datagram
          <5> DEFINE e == Encode(origin)
          <5>3. /\ wire.contacts = e.contacts
                /\ ReadCount(wire) = ReadCount(e)
            <6> HIDE DEF e
            <6>1. e \in Datagram /\ wire = [e EXCEPT !.len = wire.len]
              BY <5>1, <5>2 DEF e
            <6>2. PICK n \in Nat : n = wire.len
              BY <5>2
            <6>3. wire = [e EXCEPT !.len = n]
              BY <6>1, <6>2
            <6> QED BY <6>1, <6>3, CutReads
          <5> QED BY <5>1, <5>3, ReadBack
        <4> QED BY <4>1, <4>2
      <3>3. /\ accepted' \in Message
            /\ ~ TooLarge(accepted')
            /\ ToC(accepted') = accepted'
        BY <2>1, <2>3, <3>1, <3>2, AcceptedIsMessage
      <3>4. Encode(accepted') # Nothing
        BY <3>3, EveryMessageFits
      <3> QED BY <2>1, <3>3, <3>4 DEF CodecInv, CodecTypeOK, WireInv, AcceptedCanBeSent
    <2> QED BY <2>2, <2>3
  <1>5. CASE UNCHANGED codecVars
    BY <1>5 DEF codecVars, CodecInv, CodecTypeOK, WireInv, AcceptedCanBeSent
  <1> QED BY <1>1, <1>2, <1>3, <1>4, <1>5 DEF CodecNext

(* The types of the codec's state hold.                                    *)
THEOREM CodecTypeOKHolds == CodecSpec => []CodecTypeOK
  <1>1. CodecInv => CodecTypeOK
    BY DEF CodecInv
  <1> QED BY <1>1, CodecInvInit, CodecInvNext, PTL DEF CodecSpec

(* Whatever is accepted, of whatever datagram, can be sent on unchanged.   *)
THEOREM AcceptedCanBeSentHolds == CodecSpec => []AcceptedCanBeSent
  <1>1. CodecInv => AcceptedCanBeSent
    BY DEF CodecInv
  <1> QED BY <1>1, CodecInvInit, CodecInvNext, PTL DEF CodecSpec

(* A message is read back whole or not at all.                             *)
THEOREM DecodedAsSentHolds == CodecSpec => DecodedAsSent
  <1> DEFINE Faithful ==
        wire # Nothing /\ wire' = Nothing /\ origin # Nothing =>
          accepted' = IF /\ wire = Encode(origin)
                         /\ \A i \in DOMAIN wire.contacts : Routable(wire.contacts[i])
                      THEN ToC(origin)
                      ELSE Nothing
  <1>1. CodecInv /\ [CodecNext]_codecVars => [Faithful]_codecVars
    <2> SUFFICES ASSUME CodecInv, CodecNext, wire # Nothing, wire' = Nothing, origin # Nothing
                 PROVE  Faithful
      OBVIOUS
    <2> HIDE DEF Faithful
    <2>1. ReceiveDatagram
      <3>1. ASSUME NEW n \in CutLengths, Cut(n) PROVE FALSE
        <4>1. /\ wire \in Datagram
              /\ n \in Nat
              /\ wire' = [wire EXCEPT !.len = n]
          BY <3>1, CodecAssumption DEF Cut, CodecInv, CodecTypeOK
        <4>2. wire' \in Datagram
          BY <4>1, CutReads
        <4> QED BY <4>2, NothingApart
      <3> QED BY <3>1 DEF CodecNext, SendMessage, Inject
    <2>2. /\ wire \in Datagram
          /\ wire = [Encode(origin) EXCEPT !.len = wire.len]
          /\ wire.len <= Encode(origin).len
          /\ ~ TooLarge(origin)
          /\ origin \in Message
      BY NothingApart DEF CodecInv, WireInv, CodecTypeOK
    <2>3. /\ Encode(origin) \in Datagram
          /\ Encode(origin).len = Needed(Encode(origin))
          /\ wire.len \in Nat
          /\ Encode(origin).len \in Nat
      BY <2>2, EveryMessageFits DEF Datagram
    <2>4. accepted' = Decode(wire)
      BY <2>1 DEF ReceiveDatagram
    <2>5. CASE wire = Encode(origin)
      BY <2>2, <2>4, <2>5, ReadBack DEF Faithful
    <2>6. CASE wire # Encode(origin)
      <3>1. wire.len # Encode(origin).len
        <4>1. Encode(origin) = [Encode(origin) EXCEPT !.len = Encode(origin).len]
          BY <2>3 DEF Datagram
        <4> QED BY <2>2, <2>6, <4>1
      <3>2. Needed(wire) = Needed(Encode(origin))
        BY <2>2, <2>3, CutReads
      <3>3. ~ Readable(wire)
        BY <2>2, <2>3, <3>1, <3>2 DEF Readable
      <3>4. accepted' = Nothing
        BY <2>4, <3>3 DEF Decode
      <3> QED BY <2>6, <3>4 DEF Faithful
    <2> QED BY <2>5, <2>6
  <1> HIDE DEF Faithful
  <1>2. CodecSpec => [][Faithful]_codecVars
    BY <1>1, CodecInvInit, CodecInvNext, PTL DEF CodecSpec
  <1> QED BY <1>2 DEF DecodedAsSent, Faithful

------------------------------------------------------------------------------
(***************************************************************************)
(* What holds of the chunk assembler for any set of datagrams and any      *)
(* limits.                                                                 *)
(***************************************************************************)
(* Every chunk an assembly holds arrived, with the assembly's count.       *)
ChunksArrived ==
  \A k \in DOMAIN assemblies : \A i \in assemblies[k].chunks :
    \E d \in arrived : Key(d) = k /\ d.index = i /\ d.count = assemblies[k].count

(* The set of keys is finite, so its members can be counted.               *)
FinitelyMany == IsFiniteSet(DOMAIN assemblies)

SameIp(S, k) == {j \in S : IpOf[j[1]] = IpOf[k[1]]}

Shape ==
  \A k \in DOMAIN assemblies :
    assemblies[k] = [chunks |-> assemblies[k].chunks, count |-> assemblies[k].count,
                     age |-> assemblies[k].age]

ChunksInv ==
  /\ ChunksTypeOK
  /\ AssembliesIncomplete
  /\ Shape
  /\ FinitelyMany
  /\ AssembliesBounded
  /\ ChunksArrived
  /\ AssembledFromArrived

-----------------------------------------------------------------------------
(* A set of chunk indices that is as large as the count is complete.       *)
LEMMA CompleteSet ==
  ASSUME NEW n \in Nat, NEW S, S \subseteq 0..(n - 1)
  PROVE  Cardinality(S) = n <=> S = 0..(n - 1)
<1>1. 0 \in Int /\ n - 1 \in Int
  OBVIOUS
<1>2. IsFiniteSet(0..(n - 1)) /\ Cardinality(0..(n - 1)) = IF 0 > n - 1 THEN 0 ELSE (n - 1) - 0 + 1
  BY <1>1, FS_Interval
<1>3. Cardinality(0..(n - 1)) = n
  BY <1>2
<1> QED
  BY <1>2, <1>3, FS_Subset

(* Dropping assemblies keeps the limits.                                   *)
LEMMA FewerBounded ==
  ASSUME NEW S, NEW T, IsFiniteSet(S), T \subseteq S,
         Cardinality(S) <= MAX_PENDING_ASSEMBLIES,
         \A k \in S : Cardinality(SameIp(S, k)) <= MAX_PENDING_PER_IP
  PROVE  /\ IsFiniteSet(T)
         /\ Cardinality(T) <= MAX_PENDING_ASSEMBLIES
         /\ \A k \in T : Cardinality(SameIp(T, k)) <= MAX_PENDING_PER_IP
<1> USE ChunksAssumption
<1>1. IsFiniteSet(T) /\ Cardinality(T) <= Cardinality(S)
  BY FS_Subset
<1>2. Cardinality(T) \in Nat /\ Cardinality(S) \in Nat
  BY <1>1, FS_CardinalityType
<1>3. ASSUME NEW k \in T PROVE Cardinality(SameIp(T, k)) <= MAX_PENDING_PER_IP
  <2>1. SameIp(T, k) \subseteq SameIp(S, k) /\ SameIp(S, k) \subseteq S
    BY DEF SameIp
  <2>2. IsFiniteSet(SameIp(S, k)) /\ IsFiniteSet(SameIp(T, k))
    BY <2>1, FS_Subset
  <2>3. Cardinality(SameIp(T, k)) <= Cardinality(SameIp(S, k))
    BY <2>1, <2>2, FS_Subset
  <2>4. Cardinality(SameIp(T, k)) \in Nat /\ Cardinality(SameIp(S, k)) \in Nat
    BY <2>2, FS_CardinalityType
  <2> QED
    BY <2>3, <2>4
<1> QED
  BY <1>1, <1>2, <1>3

(* Opening one assembly under both guards keeps the limits.                *)
LEMMA OneMoreBounded ==
  ASSUME NEW S, NEW k, IsFiniteSet(S), k \notin S,
         Cardinality(S) < MAX_PENDING_ASSEMBLIES,
         Cardinality(SameIp(S, k)) < MAX_PENDING_PER_IP,
         \A j \in S : Cardinality(SameIp(S, j)) <= MAX_PENDING_PER_IP
  PROVE  /\ IsFiniteSet(S \cup {k})
         /\ Cardinality(S \cup {k}) <= MAX_PENDING_ASSEMBLIES
         /\ \A j \in S \cup {k} : Cardinality(SameIp(S \cup {k}, j)) <= MAX_PENDING_PER_IP
<1> USE ChunksAssumption
<1>1. IsFiniteSet(S \cup {k}) /\ Cardinality(S \cup {k}) = Cardinality(S) + 1
  BY FS_AddElement
<1>2. Cardinality(S) \in Nat
  BY FS_CardinalityType
<1>3. ASSUME NEW j \in S \cup {k} PROVE Cardinality(SameIp(S \cup {k}, j)) <= MAX_PENDING_PER_IP
  <2>1. IsFiniteSet(SameIp(S, k)) /\ IsFiniteSet(SameIp(S, j))
    BY FS_Subset DEF SameIp
  <2>2. Cardinality(SameIp(S, k)) \in Nat /\ Cardinality(SameIp(S, j)) \in Nat
    BY <2>1, FS_CardinalityType
  <2>3. CASE IpOf[j[1]] = IpOf[k[1]]
    <3>1. SameIp(S \cup {k}, j) = SameIp(S, k) \cup {k} /\ k \notin SameIp(S, k)
      BY <2>3 DEF SameIp
    <3>2. Cardinality(SameIp(S \cup {k}, j)) = Cardinality(SameIp(S, k)) + 1
      BY <2>1, <3>1, FS_AddElement
    <3> QED
      BY <2>2, <3>2
  <2>4. CASE IpOf[j[1]] # IpOf[k[1]]
    <3>1. SameIp(S \cup {k}, j) = SameIp(S, j) /\ j \in S
      BY <2>4 DEF SameIp
    <3> QED
      BY <3>1
  <2> QED
    BY <2>3, <2>4
<1> QED
  BY <1>1, <1>2, <1>3

-----------------------------------------------------------------------------
LEMMA ChunksInitInv == ChunksInit => ChunksInv
<1> SUFFICES ASSUME ChunksInit PROVE ChunksInv
  OBVIOUS
<1>1. DOMAIN assemblies = {} /\ arrived = {} /\ emitted.to = "none"
  BY DEF ChunksInit, NoEvent
<1>2. IsFiniteSet(DOMAIN assemblies) /\ Cardinality(DOMAIN assemblies) = 0
  BY <1>1, FS_EmptySet
<1> QED
  BY <1>1, <1>2, ChunksAssumption DEF ChunksInv, ChunksTypeOK, AssembliesIncomplete,
      Shape, FinitelyMany,
     AssembliesBounded, ChunksArrived, AssembledFromArrived

(* cleanup_expired keeps what the invariant says of the assemblies.        *)
CleanedInv(asm) ==
  /\ DOMAIN asm \subseteq DOMAIN assemblies
  /\ \A k \in DOMAIN asm : asm[k] = assemblies[k]
  /\ IsFiniteSet(DOMAIN asm)
  /\ Cardinality(DOMAIN asm) <= MAX_PENDING_ASSEMBLIES
  /\ \A k \in DOMAIN asm : Cardinality(SameIp(DOMAIN asm, k)) <= MAX_PENDING_PER_IP

LEMMA CleanedHolds == ChunksInv => CleanedInv(Cleaned)
<1> SUFFICES ASSUME ChunksInv PROVE CleanedInv(Cleaned)
  OBVIOUS
<1>1. DOMAIN Cleaned \subseteq DOMAIN assemblies /\ \A k \in DOMAIN Cleaned : Cleaned[k] = assemblies[k]
  BY DEF Cleaned
<1>2. /\ IsFiniteSet(DOMAIN assemblies)
      /\ Cardinality(DOMAIN assemblies) <= MAX_PENDING_ASSEMBLIES
      /\ \A k \in DOMAIN assemblies : Cardinality(SameIp(DOMAIN assemblies, k)) <= MAX_PENDING_PER_IP
  BY DEF ChunksInv, FinitelyMany, AssembliesBounded, SameIp
<1> QED
  BY <1>1, <1>2, FewerBounded DEF CleanedInv

(* The entry an accepted chunk makes or extends.                           *)
EntryFacts(e, d) ==
  /\ d.intact
  /\ e = [chunks |-> e.chunks, count |-> e.count, age |-> e.age]
  /\ e.chunks \subseteq 0..(e.count - 1) /\ e.chunks # {}
  /\ e.count = d.count /\ e.count \in 2..MAX_CHUNKS_PER_MESSAGE
  /\ e.age \in 0..ReassemblyTimeout
  /\ \A i \in e.chunks : \E x \in arrived \cup {d} :
       Key(x) = Key(d) /\ x.index = i /\ x.count = e.count

LEMMA EntryInv ==
  ASSUME ChunksInv, NEW d \in Chunk, ~Dropped(Cleaned, d), d.count # 1,
         NEW e, e = [Entry(Cleaned, d) EXCEPT !.chunks = @ \cup {d.index}]
  PROVE  EntryFacts(e, d)
<1> USE ChunksAssumption DEF EntryFacts
<1>1. /\ d.index \in Nat /\ d.count \in 2..MAX_CHUNKS_PER_MESSAGE /\ d.index < d.count
      /\ d.intact
      /\ Entry(Cleaned, d).count = d.count
  BY DEF Dropped, GeometryOK, Chunk
<1>2. CASE Key(d) \in DOMAIN Cleaned
  <2>1. Entry(Cleaned, d) = assemblies[Key(d)] /\ Key(d) \in DOMAIN assemblies
    BY <1>2, CleanedHolds DEF Entry, CleanedInv
  <2>2. assemblies[Key(d)] = [chunks |-> assemblies[Key(d)].chunks, count |-> d.count,
                              age |-> assemblies[Key(d)].age]
    BY <1>1, <2>1 DEF ChunksInv, Shape
  <2>3. e = [chunks |-> assemblies[Key(d)].chunks \cup {d.index}, count |-> d.count,
             age |-> assemblies[Key(d)].age]
    BY <2>1, <2>2
  <2>4. \A i \in assemblies[Key(d)].chunks :
          \E x \in arrived : Key(x) = Key(d) /\ x.index = i /\ x.count = d.count
    BY <1>1, <2>1, <2>2 DEF ChunksInv, ChunksArrived
  <2>5. \A i \in assemblies[Key(d)].chunks : i \in 0..(d.count - 1)
    <3> SUFFICES ASSUME NEW i \in assemblies[Key(d)].chunks PROVE i \in 0..(d.count - 1)
      OBVIOUS
    <3> QED
      BY <1>1, <2>1, <2>2 DEF ChunksInv, AssembliesIncomplete
  <2>6. assemblies[Key(d)].age \in 0..ReassemblyTimeout
    BY <2>1 DEF ChunksInv, ChunksTypeOK
  <2>7. /\ e.chunks = assemblies[Key(d)].chunks \cup {d.index}
        /\ e.count = d.count /\ e.age = assemblies[Key(d)].age
    BY <2>3
  <2>8. e = [chunks |-> e.chunks, count |-> e.count, age |-> e.age]
    BY <2>3
  <2>9. e.chunks \subseteq 0..(e.count - 1)
    BY <1>1, <2>5, <2>7
  <2>10. \A i \in e.chunks : \E x \in arrived \cup {d} :
           Key(x) = Key(d) /\ x.index = i /\ x.count = e.count
    BY <2>4, <2>7
  <2>11. e.chunks # {}
    BY <2>7
  <2> QED
    BY <1>1, <2>6, <2>7, <2>8, <2>9, <2>10, <2>11
<1>3. CASE Key(d) \notin DOMAIN Cleaned
  <2>1. e = [chunks |-> {d.index}, count |-> d.count, age |-> 0]
    BY <1>3 DEF Entry
  <2>2. e.chunks = {d.index} /\ e.count = d.count /\ e.age = 0
    BY <2>1
  <2>3. e = [chunks |-> e.chunks, count |-> e.count, age |-> e.age]
    BY <2>1
  <2>4. \A i \in e.chunks : \E x \in arrived \cup {d} :
           Key(x) = Key(d) /\ x.index = i /\ x.count = e.count
    BY <2>2
  <2> QED
    BY <1>1, <2>2, <2>3, <2>4
<1> QED
  BY <1>2, <1>3

-----------------------------------------------------------------------------
(* What the assemblies keep when some are dropped and nothing new is       *)
(* handed on.                                                              *)
LEMMA KeepInv ==
  ASSUME ChunksInv, CleanedInv(assemblies'), arrived \subseteq arrived', arrived' \subseteq Chunk,
         emitted'.to \in {"none", "voice", "rpc"}
  PROVE  ChunksInv'
<1> USE DEF CleanedInv
<1>1. ChunksTypeOK' /\ AssembliesIncomplete' /\ Shape'
  BY DEF ChunksInv, ChunksTypeOK, AssembliesIncomplete, Shape
<1>2. FinitelyMany' /\ AssembliesBounded'
  BY DEF FinitelyMany, AssembliesBounded, SameIp
<1>3. ChunksArrived' /\ AssembledFromArrived'
  BY DEF ChunksInv, ChunksArrived, AssembledFromArrived
<1> QED
  BY <1>1, <1>2, <1>3 DEF ChunksInv

LEMMA AddChunkInv ==
  ASSUME ChunksInv, NEW d \in Datagrams, AddChunk(d)
  PROVE  ChunksInv'
<1> USE ChunksAssumption
<1>1. d \in Chunk /\ arrived' = arrived \cup {x \in {d} : x.intact}
  BY DEF AddChunk, Chunk
<1>2. arrived' \subseteq Chunk /\ arrived \subseteq arrived' /\ (d.intact => d \in arrived')
  BY <1>1 DEF ChunksInv, ChunksTypeOK
<1>3. CleanedInv(Cleaned)
  BY CleanedHolds
<1> DEFINE e == [Entry(Cleaned, d) EXCEPT !.chunks = @ \cup {d.index}]
           complete == Cardinality(e.chunks) = e.count
<1>4. CASE Dropped(Cleaned, d)
  <2>1. assemblies' = Cleaned /\ emitted' = NoEvent
    BY <1>4 DEF AddChunk
  <2>2. emitted'.to = "none"
    BY <2>1 DEF NoEvent
  <2> QED
    BY <1>2, <1>3, <2>1, <2>2, KeepInv
<1>5. CASE ~Dropped(Cleaned, d) /\ d.count = 1
  <2>1. /\ assemblies' = Cleaned
        /\ emitted' = [to |-> "complete", key |-> Key(d), message |-> <<0>>]
    BY <1>5 DEF AddChunk
  <2>2. d.intact /\ d.index = 0
    BY <1>1, <1>5 DEF Dropped, GeometryOK, Chunk
  <2>3. emitted'.to = "complete" /\ emitted'.key = Key(d) /\ emitted'.message = <<0>>
    BY <2>1
  <2>4. ChunksTypeOK' /\ AssembliesIncomplete' /\ Shape'
    BY <1>2, <1>3, <2>1, <2>3 DEF CleanedInv, ChunksInv, ChunksTypeOK,
        AssembliesIncomplete, Shape
  <2>5. FinitelyMany' /\ AssembliesBounded' /\ ChunksArrived'
    BY <1>2, <1>3, <2>1 DEF CleanedInv, FinitelyMany, AssembliesBounded, SameIp,
        ChunksInv, ChunksArrived
  <2>6. AssembledFromArrived'
    BY <1>2, <1>5, <2>2, <2>3 DEF AssembledFromArrived, Key
  <2> QED
    BY <2>4, <2>5, <2>6 DEF ChunksInv
<1>6. CASE ~Dropped(Cleaned, d) /\ d.count # 1
  <2>1. /\ d.intact
        /\ e = [chunks |-> e.chunks, count |-> e.count, age |-> e.age]
        /\ e.chunks \subseteq 0..(e.count - 1) /\ e.chunks # {}
        /\ e.count = d.count /\ e.count \in 2..MAX_CHUNKS_PER_MESSAGE
        /\ e.age \in 0..ReassemblyTimeout
        /\ \A i \in e.chunks : \E x \in arrived' :
             Key(x) = Key(d) /\ x.index = i /\ x.count = e.count
    <3> HIDE DEF e
    <3>1. e = [Entry(Cleaned, d) EXCEPT !.chunks = @ \cup {d.index}]
      BY DEF e
    <3>2. EntryFacts(e, d)
      BY <1>1, <1>6, <3>1, EntryInv
    <3>3. arrived \cup {d} \subseteq arrived'
      BY <1>2, <3>2 DEF EntryFacts
    <3> QED
      BY <3>2, <3>3 DEF EntryFacts
  <2>2. complete <=> e.chunks = 0..(e.count - 1)
    <3> HIDE DEF e
    <3> QED
      BY <2>1, CompleteSet
  <2>3. /\ assemblies' = IF complete THEN Without(Cleaned, Key(d)) ELSE With(Cleaned, Key(d), e)
        /\ emitted' = IF complete
                        THEN [to |-> "complete", key |-> Key(d), message |-> Assembled(e)]
                        ELSE NoEvent
    BY <1>6 DEF AddChunk
  <2> HIDE DEF e, complete
  <2>4. CASE complete
    <3>1. DOMAIN assemblies' \subseteq DOMAIN Cleaned
          /\ \A k \in DOMAIN assemblies' : assemblies'[k] = assemblies[k]
      BY <1>3, <2>3, <2>4 DEF CleanedInv, Without
    <3>2. CleanedInv(assemblies')
      BY <1>3, <3>1, FewerBounded DEF CleanedInv
    <3>3. /\ emitted'.to = "complete" /\ emitted'.key = Key(d)
          /\ emitted'.message = [i \in 1..e.count |-> i - 1]
      BY <2>3, <2>4 DEF Assembled
    <3>4. Len(emitted'.message) = e.count /\ DOMAIN emitted'.message = 1..e.count
      BY <2>1, <3>3
    <3>5. \A i \in 1..e.count : i - 1 \in e.chunks
      BY <2>1, <2>2, <2>4
    <3>6. AssembledFromArrived'
      <4> SUFFICES ASSUME NEW i \in 1..e.count
                   PROVE  \E x \in arrived' : /\ Key(x) = emitted'.key
                                              /\ x.index = emitted'.message[i]
                                              /\ x.count = Len(emitted'.message)
        BY <3>4 DEF AssembledFromArrived
      <4>1. emitted'.message[i] = i - 1
        BY <3>3
      <4>2. PICK x \in arrived' : Key(x) = Key(d) /\ x.index = i - 1 /\ x.count = e.count
        BY <2>1, <3>5
      <4> QED
        BY <3>3, <3>4, <4>1, <4>2
    <3>7. ChunksTypeOK' /\ AssembliesIncomplete' /\ Shape'
      BY <1>2, <3>2, <3>3 DEF CleanedInv, ChunksInv, ChunksTypeOK,
          AssembliesIncomplete, Shape
    <3>8. FinitelyMany' /\ AssembliesBounded' /\ ChunksArrived'
      BY <1>2, <3>2 DEF CleanedInv, FinitelyMany, AssembliesBounded, SameIp,
          ChunksInv, ChunksArrived
    <3> QED
      BY <3>6, <3>7, <3>8 DEF ChunksInv
  <2>5. CASE ~complete
    <3>1. assemblies' = With(Cleaned, Key(d), e) /\ emitted'.to = "none"
      BY <2>3, <2>5 DEF NoEvent
    <3>2. DOMAIN assemblies' = DOMAIN Cleaned \cup {Key(d)} /\ assemblies'[Key(d)] = e
          /\ \A k \in DOMAIN assemblies' : k # Key(d) => assemblies'[k] = assemblies[k] /\ k \in DOMAIN assemblies
      BY <1>3, <3>1 DEF With, CleanedInv
    <3>3. Key(d) \in Keys
      BY <1>1 DEF Keys
    <3>4. ChunksTypeOK'
      BY <1>2, <1>3, <2>1, <3>1, <3>2, <3>3 DEF CleanedInv, ChunksInv, ChunksTypeOK
    <3>5. AssembliesIncomplete' /\ Shape'
      BY <2>1, <2>2, <2>5, <3>2 DEF ChunksInv, AssembliesIncomplete, Shape
    <3>6. ChunksArrived'
      BY <1>2, <2>1, <3>2 DEF ChunksInv, ChunksArrived
    <3>7. FinitelyMany' /\ AssembliesBounded'
      <4>1. CASE Key(d) \in DOMAIN Cleaned
        <5>1. DOMAIN assemblies' = DOMAIN Cleaned
          BY <3>2, <4>1
        <5> QED
          BY <1>3, <5>1 DEF CleanedInv, FinitelyMany, AssembliesBounded, SameIp
      <4>2. CASE Key(d) \notin DOMAIN Cleaned
        <5>1. MayOpen(Cleaned, d)
          BY <1>1, <1>6 DEF Dropped, Chunk, GeometryOK
        <5>2. Key(d)[1] = d.src
          BY DEF Key
        <5>3. /\ Cardinality(DOMAIN Cleaned) < MAX_PENDING_ASSEMBLIES
              /\ Cardinality(SameIp(DOMAIN Cleaned, Key(d))) < MAX_PENDING_PER_IP
          BY <4>2, <5>1, <5>2 DEF MayOpen, SameIp
        <5>4. /\ IsFiniteSet(DOMAIN assemblies')
              /\ Cardinality(DOMAIN assemblies') <= MAX_PENDING_ASSEMBLIES
              /\ \A j \in DOMAIN assemblies' : Cardinality(SameIp(DOMAIN assemblies', j)) <= MAX_PENDING_PER_IP
          BY <1>3, <3>2, <4>2, <5>3, OneMoreBounded DEF CleanedInv
        <5> QED
          BY <5>4 DEF FinitelyMany, AssembliesBounded, SameIp
      <4> QED
        BY <4>1, <4>2
    <3>8. AssembledFromArrived'
      BY <3>1 DEF AssembledFromArrived
    <3> QED
      BY <3>4, <3>5, <3>6, <3>7, <3>8 DEF ChunksInv
  <2> QED
    BY <2>4, <2>5
<1> QED
  BY <1>4, <1>5, <1>6

LEMMA TickInv ==
  ASSUME ChunksInv, ChunkTick
  PROVE  ChunksInv'
<1> USE ChunksAssumption
<1>1. /\ DOMAIN assemblies' = DOMAIN assemblies /\ arrived' = arrived /\ emitted'.to = "none"
      /\ \A k \in DOMAIN assemblies : assemblies'[k] =
           [assemblies[k] EXCEPT !.age = IF @ < ReassemblyTimeout THEN @ + 1 ELSE @]
  BY DEF ChunkTick, NoEvent
<1>2. \A k \in DOMAIN assemblies :
        /\ assemblies'[k] = [chunks |-> assemblies[k].chunks, count |-> assemblies[k].count,
                              age |-> assemblies'[k].age]
        /\ assemblies'[k].age \in 0..ReassemblyTimeout
        /\ assemblies'[k].chunks = assemblies[k].chunks /\ assemblies'[k].count = assemblies[k].count
  <2> SUFFICES ASSUME NEW k \in DOMAIN assemblies
               PROVE  /\ assemblies'[k] = [chunks |-> assemblies[k].chunks, count |-> assemblies[k].count,
                                            age |-> assemblies'[k].age]
                      /\ assemblies'[k].age \in 0..ReassemblyTimeout
                      /\ assemblies'[k].chunks = assemblies[k].chunks
                      /\ assemblies'[k].count = assemblies[k].count
    OBVIOUS
  <2>1. /\ assemblies[k] = [chunks |-> assemblies[k].chunks, count |-> assemblies[k].count,
                             age |-> assemblies[k].age]
        /\ assemblies[k].age \in 0..ReassemblyTimeout
    BY DEF ChunksInv, Shape, ChunksTypeOK
  <2>2. assemblies'[k] = [chunks |-> assemblies[k].chunks, count |-> assemblies[k].count,
          age |-> IF assemblies[k].age < ReassemblyTimeout THEN assemblies[k].age + 1 ELSE assemblies[k].age]
    BY <1>1, <2>1
  <2> QED
    BY <2>1, <2>2
<1>3. \A k \in DOMAIN assemblies :
        assemblies'[k].chunks = assemblies[k].chunks /\ assemblies'[k].count = assemblies[k].count
  BY <1>2
<1>4. ChunksTypeOK'
  BY <1>1, <1>2, <1>3 DEF ChunksInv, ChunksTypeOK
<1>5. AssembliesIncomplete' /\ ChunksArrived'
  BY <1>1, <1>3 DEF ChunksInv, AssembliesIncomplete, ChunksArrived
<1>6. Shape'
  BY <1>1, <1>2, <1>3 DEF Shape
<1>7. FinitelyMany' /\ AssembliesBounded' /\ AssembledFromArrived'
  BY <1>1 DEF ChunksInv, FinitelyMany, AssembliesBounded, AssembledFromArrived
<1> QED
  BY <1>4, <1>5, <1>6, <1>7 DEF ChunksInv

LEMMA ChunksStepInv == ChunksInv /\ [ChunksNext]_chunkVars => ChunksInv'
<1> SUFFICES ASSUME ChunksInv, [ChunksNext]_chunkVars PROVE ChunksInv'
  OBVIOUS
<1>0. CleanedInv(assemblies) /\ arrived \subseteq Chunk
  BY DEF ChunksInv, CleanedInv, FinitelyMany, AssembliesBounded, SameIp, ChunksTypeOK
<1>1. ASSUME NEW d \in Datagrams, ReceiveVoice(d) \/ ReceiveRpc(d) PROVE ChunksInv'
  <2>1. assemblies' = assemblies /\ arrived' = arrived /\ emitted'.to \in {"none", "voice", "rpc"}
    BY <1>1 DEF ReceiveVoice, ReceiveRpc, NoEvent
  <2> QED
    BY <1>0, <2>1, KeepInv
<1>2. CASE UNCHANGED chunkVars
  BY <1>2 DEF chunkVars, ChunksInv, ChunksTypeOK, Shape, FinitelyMany,
      AssembliesBounded,
     ChunksArrived, AssembledFromArrived, AssembliesIncomplete
<1> QED
  BY <1>1, <1>2, AddChunkInv, TickInv DEF ChunksNext

-----------------------------------------------------------------------------
(* Chunks, assemblies and clocks stay what they are: Chunks.               *)
THEOREM ChunksTypeOKHolds == ChunksSpec => []ChunksTypeOK
<1>1. ChunksInv => ChunksTypeOK
  BY DEF ChunksInv
<1> QED
  BY <1>1, ChunksInitInv, ChunksStepInv, PTL DEF ChunksSpec

(* Half-received messages take a bounded number of places, together and    *)
(* per IP address, whatever the network delivers.                          *)
THEOREM AssembliesBoundedHolds == ChunksSpec => []AssembliesBounded
<1>1. ChunksInv => AssembliesBounded
  BY DEF ChunksInv
<1> QED
  BY <1>1, ChunksInitInv, ChunksStepInv, PTL DEF ChunksSpec

(* No assembly waits although its chunks are all there.                    *)
THEOREM AssembliesIncompleteHolds == ChunksSpec => []AssembliesIncomplete
<1>1. ChunksInv => AssembliesIncomplete
  BY DEF ChunksInv
<1> QED
  BY <1>1, ChunksInitInv, ChunksStepInv, PTL DEF ChunksSpec

(* A message that is handed on is made of its own chunks, all of them and  *)
(* in order.                                                               *)
THEOREM AssembledFromArrivedHolds == ChunksSpec => []AssembledFromArrived
<1>1. ChunksInv => AssembledFromArrived
  BY DEF ChunksInv
<1> QED
  BY <1>1, ChunksInitInv, ChunksStepInv, PTL DEF ChunksSpec

-----------------------------------------------------------------------------
(* HolePunch.  An acknowledgement on its way, or one of a candidate in the *)
(* socket's buffer, was sent by that candidate for the nonce it carries.   *)
AcksAreHonest == \A d \in acks : <<d.from, d.nonce>> \in acked

InboxIsHonest ==
  \A i \in 1 .. Len(inbox) :
    inbox[i].kind = "ack" /\ inbox[i].from \in Candidates
      => <<inbox[i].from, inbox[i].nonce>> \in acked

NonceDrawn == puncher # "idle" => nonce # 0

PunchInv == PunchTypeOK /\ NonceDrawn /\ AcksAreHonest /\ InboxIsHonest /\ VerifiedAnswered

(* What is read from the socket's buffer, and what stays in it. *)
LEMMA InboxRead ==
  ASSUME PunchInv, inbox # <<>>
  PROVE  /\ Head(inbox) \in Ack \cup Reply
         /\ Tail(inbox) \in Seq(Ack \cup Reply)
         /\ Len(Tail(inbox)) <= MaxInbox
         /\ \A i \in 1 .. Len(Tail(inbox)) :
              i + 1 \in 1 .. Len(inbox) /\ Tail(inbox)[i] = inbox[i + 1]
         /\ Head(inbox) = inbox[1] /\ 1 \in 1 .. Len(inbox)
  <1>1. inbox \in Seq(Ack \cup Reply) /\ Len(inbox) <= MaxInbox
    BY DEF PunchInv, PunchTypeOK
  <1>2. MaxInbox \in Nat
    BY PunchAssumption
  <1> QED BY <1>1, <1>2, HeadTailProperties, LenProperties

LEMMA InboxGrows ==
  ASSUME PunchInv, Len(inbox) < MaxInbox, NEW d \in Ack \cup Reply
  PROVE  /\ Append(inbox, d) \in Seq(Ack \cup Reply)
         /\ Len(Append(inbox, d)) <= MaxInbox
         /\ \A i \in 1 .. Len(Append(inbox, d)) :
              \/ i \in 1 .. Len(inbox) /\ Append(inbox, d)[i] = inbox[i]
              \/ Append(inbox, d)[i] = d
  <1>1. inbox \in Seq(Ack \cup Reply)
    BY DEF PunchInv, PunchTypeOK
  <1>2. MaxInbox \in Nat
    BY PunchAssumption
  <1> QED BY <1>1, <1>2, AppendProperties, LenProperties

LEMMA PunchInitially == PunchInit => PunchInv
  <1> SUFFICES ASSUME PunchInit PROVE PunchInv
    OBVIOUS
  <1>1. <<>> \in Seq(Ack \cup Reply) /\ Len(<<>>) = 0
    BY EmptySeq
  <1>2. PunchTypeOK
    <2>1. nonce \in 0 .. MaxAttempts /\ 0 <= MaxInbox
      BY PunchAssumption DEF PunchInit
    <2>2. calls \in [Awaited -> {"waiting", "replied", "answered", "lost"}]
      BY DEF PunchInit
    <2>3. inbox \in Seq(Ack \cup Reply) /\ Len(inbox) <= MaxInbox
      BY <1>1, <2>1 DEF PunchInit
    <2> QED BY <2>1, <2>2, <2>3 DEF PunchInit, PunchTypeOK
  <1> QED
    BY <1>2 DEF PunchInit, PunchInv, NonceDrawn, AcksAreHonest, InboxIsHonest, VerifiedAnswered

(* No step of the puncher, the receive loop or the network breaks it. *)
LEMMA PunchStep == PunchInv /\ [PunchNext]_punchVars => PunchInv'
  <1> SUFFICES ASSUME PunchInv, [PunchNext]_punchVars PROVE PunchInv'
    OBVIOUS
  <1> USE PunchAssumption DEF PunchInv
  <1>1. CASE StartPunch
    <2>1. /\ nonce' \in 1 .. MaxAttempts /\ puncher' = "probing"
          /\ left' = Candidates /\ verified' = {}
          /\ UNCHANGED <<probes, acks, inbox, calls, acked>>
      BY <1>1 DEF StartPunch, PunchTypeOK
    <2>2. PunchTypeOK'
      BY <2>1 DEF PunchTypeOK
    <2>3. NonceDrawn' /\ VerifiedAnswered'
      BY <2>1 DEF NonceDrawn, VerifiedAnswered
    <2>4. AcksAreHonest' /\ InboxIsHonest'
      BY <2>1 DEF AcksAreHonest, InboxIsHonest
    <2> QED
      BY <2>2, <2>3, <2>4
  <1>2. ASSUME NEW a \in Candidates, ProbeCandidate(a) PROVE PunchInv'
    <2>1. [kind |-> "probe", to |-> a, nonce |-> nonce] \in Probe
      BY <1>2 DEF ProbeCandidate, NonceDrawn, PunchTypeOK, Probe
    <2>2. /\ puncher = "probing"
          /\ left' \subseteq left
          /\ probes' \subseteq Probe
          /\ puncher' \in {"probing", "listening"}
          /\ UNCHANGED <<nonce, acks, inbox, verified, calls, acked>>
      BY <1>2, <2>1 DEF ProbeCandidate, PunchTypeOK
    <2>3. NonceDrawn' /\ left' \subseteq Candidates
      BY <2>2 DEF NonceDrawn, PunchTypeOK
    <2>4. PunchTypeOK'
      BY <2>2, <2>3 DEF PunchTypeOK
    <2> QED
      BY <2>2, <2>3, <2>4 DEF AcksAreHonest, InboxIsHonest, VerifiedAnswered
  <1>3. CASE PuncherReads
    <2> DEFINE d == Head(inbox)
    <2>1. inbox # <<>> /\ inbox' = Tail(inbox)
          /\ UNCHANGED <<nonce, puncher, left, probes, acks, acked>>
      BY <1>3 DEF PuncherReads
    <2>2. calls' \in [Awaited -> {"waiting", "replied", "answered", "lost"}]
      <3>1. d.kind = "reply" => d.call \in Awaited
        BY <2>1, InboxRead DEF Ack, Reply
      <3> QED BY <1>3, <3>1 DEF PuncherReads, PunchTypeOK
    <2>3. \/ verified' = verified
          \/ Verifies(d) /\ verified' = verified \cup {d.from}
      BY <1>3 DEF PuncherReads
    <2>4. Verifies(d) => d.from \in Candidates /\ <<d.from, nonce>> \in acked
      BY <2>1, InboxRead DEF Verifies, InboxIsHonest
    <2> HIDE DEF d
    <2>5. PunchTypeOK'
      BY <2>1, <2>2, <2>3, <2>4, InboxRead DEF PunchTypeOK
    <2>6. InboxIsHonest'
      BY <2>1, InboxRead DEF InboxIsHonest
    <2>7. VerifiedAnswered'
      BY <2>1, <2>3, <2>4 DEF VerifiedAnswered
    <2> QED BY <2>1, <2>5, <2>6, <2>7 DEF NonceDrawn, AcksAreHonest
  <1>4. CASE PuncherGivesUp
    BY <1>4 DEF PuncherGivesUp, PunchTypeOK, NonceDrawn, AcksAreHonest, InboxIsHonest, VerifiedAnswered
  <1>5. CASE LoopReads
    <2> DEFINE d == Head(inbox)
    <2>1. inbox # <<>> /\ inbox' = Tail(inbox)
          /\ UNCHANGED <<nonce, puncher, left, probes, acks, verified, acked>>
      BY <1>5 DEF LoopReads
    <2>2. calls' \in [Awaited -> {"waiting", "replied", "answered", "lost"}]
      <3>1. d.kind = "reply" => d.call \in Awaited
        BY <2>1, InboxRead DEF Ack, Reply
      <3> QED BY <1>5, <3>1 DEF LoopReads, PunchTypeOK
    <2> HIDE DEF d
    <2>3. PunchTypeOK'
      BY <2>1, <2>2, InboxRead DEF PunchTypeOK
    <2>4. InboxIsHonest'
      BY <2>1, InboxRead DEF InboxIsHonest
    <2> QED BY <2>1, <2>3, <2>4 DEF NonceDrawn, AcksAreHonest, VerifiedAnswered
  <1>6. ASSUME NEW p \in probes, RespondToProbe(p) PROVE PunchInv'
    <2> DEFINE d == [kind |-> "ack", from |-> p.to, nonce |-> p.nonce]
    <2>1. p.to \in Candidates /\ p.nonce \in 1 .. MaxAttempts
      BY DEF PunchTypeOK, Probe
    <2>2. d \in Ack /\ d.from = p.to /\ d.nonce = p.nonce
      BY <2>1 DEF Ack, Address
    <2>3. acks' = acks \cup {d} /\ acked' = acked \cup {<<p.to, p.nonce>>}
          /\ probes' \subseteq probes
          /\ UNCHANGED <<nonce, puncher, left, inbox, verified, calls>>
      BY <1>6 DEF RespondToProbe
    <2> HIDE DEF d
    <2>4. PunchTypeOK'
      BY <2>1, <2>2, <2>3 DEF PunchTypeOK, Address
    <2>5. AcksAreHonest'
      BY <2>2, <2>3 DEF AcksAreHonest
    <2> QED BY <2>3, <2>4, <2>5 DEF NonceDrawn, InboxIsHonest, VerifiedAnswered
  <1>7. ASSUME NEW p \in probes, Lose(p) PROVE PunchInv'
    BY <1>7 DEF Lose, PunchTypeOK, NonceDrawn, AcksAreHonest, InboxIsHonest, VerifiedAnswered
  <1>8. ASSUME NEW d \in acks, Deliver(d) PROVE PunchInv'
    <2>1. d \in Ack \cup Reply /\ Len(inbox) < MaxInbox /\ inbox' = Append(inbox, d)
          /\ acks' \subseteq acks
          /\ UNCHANGED <<nonce, puncher, left, probes, verified, calls, acked>>
      BY <1>8 DEF Deliver, PunchTypeOK
    <2>2. PunchTypeOK'
      BY <2>1, InboxGrows DEF PunchTypeOK
    <2>3. InboxIsHonest'
      BY <2>1, InboxGrows DEF InboxIsHonest, AcksAreHonest
    <2> QED BY <2>1, <2>2, <2>3 DEF NonceDrawn, AcksAreHonest, VerifiedAnswered
  <1>9. ASSUME NEW s \in Strangers, NEW p \in probes, StrangerAcks(s, p) PROVE PunchInv'
    <2> DEFINE d == [kind |-> "ack", from |-> s, nonce |-> p.nonce]
    <2>1. d \in Ack \cup Reply /\ d.from \notin Candidates
      BY DEF PunchTypeOK, Probe, Ack, Address
    <2>2. Len(inbox) < MaxInbox /\ inbox' = Append(inbox, d)
          /\ UNCHANGED <<nonce, puncher, left, probes, acks, verified, calls, acked>>
      BY <1>9 DEF StrangerAcks
    <2> HIDE DEF d
    <2>3. PunchTypeOK'
      BY <2>1, <2>2, InboxGrows DEF PunchTypeOK
    <2>4. InboxIsHonest'
      BY <2>1, <2>2, InboxGrows DEF InboxIsHonest
    <2> QED BY <2>2, <2>3, <2>4 DEF NonceDrawn, AcksAreHonest, VerifiedAnswered
  <1>10. ASSUME NEW c \in Awaited, PeerReplies(c) PROVE PunchInv'
    <2> DEFINE d == [kind |-> "reply", call |-> c]
    <2>1. d \in Ack \cup Reply /\ d.kind # "ack"
      BY DEF Reply
    <2>2. Len(inbox) < MaxInbox /\ inbox' = Append(inbox, d)
          /\ calls' = [calls EXCEPT ![c] = "replied"]
          /\ UNCHANGED <<nonce, puncher, left, probes, acks, verified, acked>>
      BY <1>10 DEF PeerReplies
    <2> HIDE DEF d
    <2>3. PunchTypeOK'
      BY <2>1, <2>2, InboxGrows DEF PunchTypeOK
    <2>4. InboxIsHonest'
      BY <2>1, <2>2, InboxGrows DEF InboxIsHonest
    <2> QED BY <2>2, <2>3, <2>4 DEF NonceDrawn, AcksAreHonest, VerifiedAnswered
  <1>11. CASE UNCHANGED punchVars
    BY <1>11 DEF punchVars, PunchTypeOK, NonceDrawn, AcksAreHonest, InboxIsHonest, VerifiedAnswered
  <1> QED
    BY <1>1, <1>2, <1>3, <1>4, <1>5, <1>6, <1>7, <1>8, <1>9, <1>10, <1>11 DEF PunchNext

(* Candidates, nonces and datagrams stay what they are: HolePunch. *)
THEOREM PunchTyped == PunchSpec => []PunchTypeOK
  <1> QED BY PunchInitially, PunchStep, PTL DEF PunchSpec, PunchInv

(* An address is delivered to only when that candidate itself acknowledged *)
(* a probe of this very attempt.                                           *)
THEOREM VerifiedAnsweredHolds == PunchSpec => []VerifiedAnswered
  <1> QED BY PunchInitially, PunchStep, PTL DEF PunchSpec, PunchInv
-----------------------------------------------------------------------------
(* Stun.  An answer with a transaction id of this node's (0 is one that    *)
(* somebody made up) holds what its server saw that socket as.             *)
AnswersAreHonest ==
  \A d \in answers :
    d.transaction # 0 => <<d.from, d.transaction, d.endpoint>> \in seen

QueryMade == stunPhase # "idle" => query # 0

StunInv == StunTypeOK /\ QueryMade /\ AnswersAreHonest /\ ReportedWasSeen

LEMMA StunInitially == StunInit => StunInv
  <1> SUFFICES ASSUME StunInit PROVE StunInv
    OBVIOUS
  <1>1. Len(Servers) \in Nat
    BY StunAssumption, LenProperties
  <1>2. StunTypeOK
    BY <1>1, StunAssumption DEF StunInit, StunTypeOK
  <1> QED
    BY <1>2 DEF StunInit, StunInv, QueryMade, AnswersAreHonest, ReportedWasSeen

(* Neither a late answer nor a forged one breaks it. *)
LEMMA StunStep == StunInv /\ [StunNext]_stunVars => StunInv'
  <1> SUFFICES ASSUME StunInv, [StunNext]_stunVars PROVE StunInv'
    OBVIOUS
  <1> USE DEF StunInv
  <1>0. Len(Servers) \in Nat /\ MaxQueries \in Nat
    BY StunAssumption, LenProperties
  <1>1. CASE Discover
    <2>1. /\ query' \in 1 .. MaxQueries /\ serversAsked' = 0 /\ stunPhase' = "ask"
          /\ answers' = {} /\ result' = None
          /\ UNCHANGED <<stunRequests, seen>>
      BY <1>0, <1>1 DEF Discover, StunTypeOK
    <2>2. StunTypeOK'
      BY <1>0, <2>1 DEF StunTypeOK
    <2> QED BY <2>1, <2>2 DEF QueryMade, AnswersAreHonest, ReportedWasSeen
  <1>2. CASE Ask
    <2>1. /\ query \in 1 .. MaxQueries
          /\ serversAsked' \in 0 .. Len(Servers) /\ stunPhase' = "wait"
          /\ UNCHANGED <<query, answers, seen, result>>
      BY <1>0, <1>2 DEF Ask, StunTypeOK, QueryMade
    <2>2. Servers[serversAsked + 1] \in Server
      BY <1>0, <1>2, StunAssumption, LenProperties DEF Ask, StunTypeOK, Server
    <2>3. stunRequests' \subseteq Server \X (1 .. MaxQueries)
      BY <1>2, <2>1, <2>2 DEF Ask, StunTypeOK
    <2>4. StunTypeOK'
      BY <2>1, <2>3 DEF StunTypeOK
    <2> QED BY <2>1, <2>4 DEF QueryMade, AnswersAreHonest, ReportedWasSeen
  <1>3. CASE NoServerLeft
    BY <1>3 DEF NoServerLeft, StunTypeOK, QueryMade, AnswersAreHonest, ReportedWasSeen
  <1>4. ASSUME NEW d \in answers, ReadAnswer(d) PROVE StunInv'
    <2>1. /\ stunPhase = "wait" /\ answers' \subseteq answers
          /\ UNCHANGED <<query, serversAsked, stunRequests, seen>>
      BY <1>4 DEF ReadAnswer
    <2>2. \/ Accepts(d) /\ result' = d.endpoint /\ stunPhase' = "idle"
          \/ result' = result /\ stunPhase' = "ask"
      BY <1>4 DEF ReadAnswer
    <2>3. d.from \in Server /\ d.endpoint \in Endpoints
      BY DEF StunTypeOK
    <2>4. Accepts(d) => <<d.from, query, d.endpoint>> \in seen
      BY <2>1 DEF Accepts, AnswersAreHonest, QueryMade
    <2>5. StunTypeOK'
      BY <2>1, <2>2, <2>3 DEF StunTypeOK
    <2>6. ReportedWasSeen'
      BY <2>1, <2>2, <2>3, <2>4 DEF ReportedWasSeen
    <2> QED BY <2>1, <2>2, <2>5, <2>6 DEF QueryMade, AnswersAreHonest
  <1>5. CASE WaitEnds
    BY <1>5 DEF WaitEnds, StunTypeOK, QueryMade, AnswersAreHonest, ReportedWasSeen
  <1>6. ASSUME NEW r \in stunRequests, NEW e \in Endpoints, NEW body \in Bodies,
               ServerAnswers(r, e, body)
        PROVE  StunInv'
    <2> DEFINE d == [from |-> r[1], transaction |-> r[2], endpoint |-> e, body |-> body]
    <2>1. r[1] \in Server /\ r[2] \in 1 .. MaxQueries
      BY DEF StunTypeOK
    <2>2. /\ d \in [from : Server, transaction : 0 .. MaxQueries, endpoint : Endpoints,
                    body : Bodies]
          /\ <<d.from, d.transaction, d.endpoint>> = <<r[1], r[2], e>>
      BY <1>0, <2>1
    <2>3. /\ answers' \subseteq answers \cup {d}
          /\ stunRequests' \subseteq stunRequests
          /\ seen' = seen \cup {<<r[1], r[2], e>>}
          /\ UNCHANGED <<query, serversAsked, stunPhase, result>>
      BY <1>6 DEF ServerAnswers
    <2> HIDE DEF d
    <2>4. seen' \subseteq Server \X (1 .. MaxQueries) \X Endpoints
      BY <2>1, <2>3 DEF StunTypeOK
    <2>5. StunTypeOK'
      BY <2>2, <2>3, <2>4 DEF StunTypeOK
    <2>6. AnswersAreHonest'
      BY <2>2, <2>3 DEF AnswersAreHonest
    <2> QED BY <2>3, <2>5, <2>6 DEF QueryMade, ReportedWasSeen
  <1>7. ASSUME NEW s \in Server, NEW e \in Endpoints, NEW body \in Bodies,
               StrangerAnswers(s, e, body)
        PROVE  StunInv'
    <2> DEFINE d == [from |-> s, transaction |-> 0, endpoint |-> e, body |-> body]
    <2>1. /\ d \in [from : Server, transaction : 0 .. MaxQueries, endpoint : Endpoints,
                    body : Bodies]
          /\ d.transaction = 0
      BY <1>0
    <2>2. /\ answers' = answers \cup {d}
          /\ UNCHANGED <<query, serversAsked, stunPhase, stunRequests, seen, result>>
      BY <1>7 DEF StrangerAnswers
    <2> HIDE DEF d
    <2>3. StunTypeOK'
      BY <2>1, <2>2 DEF StunTypeOK
    <2> QED BY <2>1, <2>2, <2>3 DEF QueryMade, AnswersAreHonest, ReportedWasSeen
  <1>8. CASE UNCHANGED stunVars
    BY <1>8 DEF stunVars, StunTypeOK, QueryMade, AnswersAreHonest, ReportedWasSeen
  <1> QED
    BY <1>1, <1>2, <1>3, <1>4, <1>5, <1>6, <1>7, <1>8 DEF StunNext

(* Queries, requests and answers stay what they are: Stun. *)
THEOREM StunTyped == StunSpec => []StunTypeOK
  <1> QED BY StunInitially, StunStep, PTL DEF StunSpec, StunInv

(* The endpoint a query returns is one a server saw this very socket at.   *)
THEOREM ReportedWasSeenHolds == StunSpec => []ReportedWasSeen
  <1> QED BY StunInitially, StunStep, PTL DEF StunSpec, StunInv
-----------------------------------------------------------------------------
(* PortMapping.  Nothing on its way belongs to an attempt to come, and the *)
(* router's answer to this attempt is one it gave to this attempt.         *)
NothingEarly ==
  /\ \A r \in mapRequests : r[2] <= mapAttempt
  /\ \A g \in grants : g[2] <= mapAttempt

GrantsAreHonest == \A g \in grants : g[2] = mapAttempt => g[1] \in granted

AttemptMade == step # "idle" => mapAttempt # 0

ConfirmedWasGranted ==
  step = "externalIp" /\ source = "router" => Upnp(LocalPort) \in granted

WaitedWithin == waited <= elapsed

MapInv ==
  /\ PortMappingTypeOK
  /\ NothingEarly
  /\ GrantsAreHonest
  /\ AttemptMade
  /\ ConfirmedWasGranted
  /\ WaitedWithin
  /\ ReportedWasGranted

LEMMA MapInitially == PortMappingInit => MapInv
  <1> SUFFICES ASSUME PortMappingInit PROVE MapInv
    OBVIOUS
  <1>1. PortMappingTypeOK
    BY PortMappingAssumption DEF PortMappingInit, PortMappingTypeOK, Step, OVERALL, Sources, Status
  <1>2. ~ status.enabled
    BY DEF PortMappingInit, Disabled
  <1> QED
    BY <1>1, <1>2 DEF PortMappingInit, MapInv, NothingEarly, GrantsAreHonest, AttemptMade,
      ConfirmedWasGranted, WaitedWithin, ReportedWasGranted

(* A step from one stage of an attempt to the next, a request with it. *)
LEMMA MapGoesOn ==
  ASSUME MapInv, step # "idle", step' \in Step \ {"idle", "externalIp"}, waited' = 0,
         source' \in Sources,
         mapRequests' \subseteq mapRequests \cup ({"upnp", "natpmp"} \X {mapAttempt}),
         UNCHANGED <<mapAttempt, elapsed, grants, mappings, granted, status>>
  PROVE  MapInv'
  <1> USE DEF MapInv
  <1>1. mapAttempt \in 1 .. Attempts /\ elapsed \in 0 .. 5
    BY PortMappingAssumption DEF PortMappingTypeOK, AttemptMade, OVERALL
  <1>2. mapRequests' \subseteq {"upnp", "natpmp"} \X (1 .. Attempts)
    BY <1>1 DEF PortMappingTypeOK
  <1>3. PortMappingTypeOK'
    BY <1>1, <1>2 DEF PortMappingTypeOK, OVERALL
  <1>4. NothingEarly'
    BY <1>1 DEF NothingEarly
  <1> QED
    BY <1>1, <1>3, <1>4 DEF GrantsAreHonest, AttemptMade, ConfirmedWasGranted, WaitedWithin,
      ReportedWasGranted

(* try_map_port returns: nothing, or a mapping on somebody's word, and a   *)
(* granted one if that is the router's.                                    *)
LEMMA MapReturns ==
  ASSUME MapInv, step # "idle", step' = "idle", waited' = 0, grants' \subseteq grants,
         source' \in Sources,
         \/ status' = Disabled
         \/ \E m \in Mapping : /\ status' = [enabled |-> TRUE, mapped |-> m]
                               /\ source' = "router" => m \in granted,
         UNCHANGED <<mapAttempt, elapsed, mapRequests, mappings, granted>>
  PROVE  MapInv'
  <1> USE DEF MapInv
  <1>1. elapsed \in 0 .. 5
    BY DEF PortMappingTypeOK, OVERALL
  <1>2. status' \in Status
    <2>1. ASSUME NEW m \in Mapping, status' = [enabled |-> TRUE, mapped |-> m]
          PROVE  status' \in Status
      BY <2>1 DEF Status
    <2> QED BY <2>1 DEF Disabled, Status
  <1>4. ReportedWasGranted'
    <2>1. CASE status' = Disabled
      BY <2>1 DEF ReportedWasGranted, Disabled
    <2>2. ASSUME NEW m \in Mapping, status' = [enabled |-> TRUE, mapped |-> m],
                 source' = "router" => m \in granted
          PROVE  ReportedWasGranted'
      <3>1. status'.mapped = m
        BY <2>2
      <3> QED BY <2>2, <3>1 DEF ReportedWasGranted
    <2> QED BY <2>1, <2>2
  <1>3. PortMappingTypeOK'
    BY <1>1, <1>2 DEF PortMappingTypeOK, Step, OVERALL
  <1> QED
    BY <1>1, <1>3, <1>4 DEF NothingEarly, GrantsAreHonest, AttemptMade, ConfirmedWasGranted,
      WaitedWithin

(* No stage, timeout or late answer breaks it. *)
LEMMA MapStep == MapInv /\ [PortMappingNext]_mapVars => MapInv'
  <1> SUFFICES ASSUME MapInv, [PortMappingNext]_mapVars PROVE MapInv'
    OBVIOUS
  <1> USE DEF MapInv
  <1>0. Attempts \in Nat /\ OVERALL = 5
    BY PortMappingAssumption DEF OVERALL
  <1>1. CASE TryMapPort
    <2>1. /\ mapAttempt' = mapAttempt + 1 /\ mapAttempt' \in 1 .. Attempts
          /\ elapsed' = 0 /\ waited' = 0 /\ granted' = {} /\ step' = "ssdp"
          /\ UNCHANGED <<mapRequests, grants, mappings, source, status>>
      BY <1>0, <1>1 DEF TryMapPort, Goto, PortMappingTypeOK
    <2>2. PortMappingTypeOK'
      BY <1>0, <2>1 DEF PortMappingTypeOK, Step
    <2>3. /\ \A r \in mapRequests : r[2] \in Nat
          /\ \A g \in grants : g[2] \in Nat
          /\ mapAttempt \in Nat
      BY DEF PortMappingTypeOK
    <2>4. NothingEarly' /\ GrantsAreHonest'
      BY <2>1, <2>3 DEF NothingEarly, GrantsAreHonest
    <2> QED
      BY <2>1, <2>2, <2>4 DEF AttemptMade, ConfirmedWasGranted, WaitedWithin, ReportedWasGranted
  <1>2. CASE UpnpFails
    <2>1. <<"natpmp", mapAttempt>> \in {"upnp", "natpmp"} \X {mapAttempt}
      OBVIOUS
    <2> QED BY <1>2, <2>1, MapGoesOn DEF UpnpFails, Goto, Step, PortMappingTypeOK
  <1>3. CASE Discovered
    BY <1>3, MapGoesOn DEF Discovered, Goto, Step
  <1>4. CASE Described
    BY <1>4, MapGoesOn DEF Described, Goto, Step, PortMappingTypeOK
  <1>5. CASE RequestMapping
    <2>1. <<"upnp", mapAttempt>> \in {"upnp", "natpmp"} \X {mapAttempt}
      OBVIOUS
    <2> QED BY <1>5, <2>1, MapGoesOn DEF RequestMapping, Goto, Step, PortMappingTypeOK
  <1>6. CASE MappingConfirmed
    <2>1. /\ step # "idle" /\ step' = "externalIp" /\ waited' = 0 /\ grants' \subseteq grants
          /\ UNCHANGED <<mapAttempt, elapsed, mapRequests, mappings, granted, source, status>>
      BY <1>6 DEF MappingConfirmed, Goto
    <2>2. source = "router" => Upnp(LocalPort) \in granted
      <3>1. source = "router" => <<Upnp(LocalPort), mapAttempt>> \in grants
        BY <1>6 DEF MappingConfirmed, Confirms
      <3> QED BY <3>1 DEF GrantsAreHonest
    <2>3. PortMappingTypeOK'
      BY <1>0, <2>1 DEF PortMappingTypeOK, Step
    <2>4. WaitedWithin'
      BY <2>1 DEF WaitedWithin, PortMappingTypeOK
    <2> QED
      BY <2>1, <2>2, <2>3, <2>4 DEF NothingEarly, GrantsAreHonest, AttemptMade,
        ConfirmedWasGranted, ReportedWasGranted
  <1>7. CASE ExternalIpRead
    <2>1. Upnp(LocalPort) \in Mapping /\ (source' = "router" => Upnp(LocalPort) \in granted)
      BY <1>7 DEF ExternalIpRead, ConfirmedWasGranted, Mapping
    <2> QED BY <1>7, <2>1, MapReturns DEF ExternalIpRead, Return, Goto, PortMappingTypeOK
  <1>8. ASSUME NEW p \in {LocalPort, OtherPort}, NatPmpGranted(p) PROVE MapInv'
    <2>1. NatPmp(p) \in Mapping /\ (source' = "router" => NatPmp(p) \in granted)
      <3>1. source' = "router" => <<NatPmp(p), mapAttempt>> \in grants
        BY <1>8 DEF NatPmpGranted
      <3> QED BY <3>1 DEF GrantsAreHonest, Mapping
    <2> QED BY <1>8, <2>1, MapReturns DEF NatPmpGranted, Return, Goto
  <1>9. CASE NatPmpFails
    BY <1>9, MapReturns DEF NatPmpFails, Return, Goto, PortMappingTypeOK
  <1>10. CASE OverallTimeout
    BY <1>10, MapReturns DEF OverallTimeout, Return, Goto, PortMappingTypeOK
  <1>11. CASE MappingTick
    <2>1. /\ elapsed' = elapsed + 1 /\ waited' = waited + 1 /\ elapsed < 5
          /\ UNCHANGED <<mapAttempt, step, mapRequests, grants, mappings, granted, source, status>>
      BY <1>0, <1>11 DEF MappingTick
    <2>2. elapsed' \in 0 .. 5 /\ waited' \in 0 .. 5 /\ waited' <= elapsed'
      BY <1>0, <2>1 DEF PortMappingTypeOK, WaitedWithin
    <2>3. PortMappingTypeOK'
      BY <1>0, <2>1, <2>2 DEF PortMappingTypeOK
    <2> QED
      BY <2>1, <2>2, <2>3 DEF NothingEarly, GrantsAreHonest, AttemptMade, ConfirmedWasGranted,
        WaitedWithin, ReportedWasGranted
  <1>12. ASSUME NEW r \in mapRequests, NEW m \in Mapping, RouterGrants(r, m) PROVE MapInv'
    <2>1. r[2] \in 1 .. Attempts /\ r[2] <= mapAttempt
      BY DEF PortMappingTypeOK, NothingEarly
    <2>2. /\ mapRequests' \subseteq mapRequests
          /\ mappings' = mappings \cup {m}
          /\ grants' \subseteq grants \cup {<<m, r[2]>>}
          /\ UNCHANGED <<mapAttempt, step, elapsed, waited, source, status>>
      BY <1>12 DEF RouterGrants
    <2>3. /\ granted \subseteq granted' /\ granted' \subseteq granted \cup {m}
          /\ r[2] = mapAttempt => m \in granted'
      BY <1>12 DEF RouterGrants
    <2>4. PortMappingTypeOK'
      BY <2>1, <2>2, <2>3 DEF PortMappingTypeOK
    <2>5. NothingEarly' /\ GrantsAreHonest'
      BY <2>1, <2>2, <2>3 DEF NothingEarly, GrantsAreHonest
    <2> QED
      BY <2>2, <2>3, <2>4, <2>5 DEF AttemptMade, ConfirmedWasGranted, WaitedWithin,
        ReportedWasGranted
  <1>13. ASSUME NEW r \in mapRequests, RouterRefuses(r) PROVE MapInv'
    BY <1>13 DEF RouterRefuses, PortMappingTypeOK, NothingEarly, GrantsAreHonest, AttemptMade,
      ConfirmedWasGranted, WaitedWithin, ReportedWasGranted
  <1>14. ASSUME NEW m \in mappings, LeaseEnds(m) PROVE MapInv'
    BY <1>14 DEF LeaseEnds, PortMappingTypeOK, NothingEarly, GrantsAreHonest, AttemptMade,
      ConfirmedWasGranted, WaitedWithin, ReportedWasGranted
  <1>15. CASE UNCHANGED mapVars
    BY <1>15 DEF mapVars, PortMappingTypeOK, NothingEarly, GrantsAreHonest, AttemptMade,
      ConfirmedWasGranted, WaitedWithin, ReportedWasGranted
  <1> QED
    BY <1>1, <1>2, <1>3, <1>4, <1>5, <1>6, <1>7, <1>8, <1>9, <1>10, <1>11, <1>12, <1>13,
      <1>14, <1>15 DEF PortMappingNext

(* Stages, times, requests and mappings stay what they are: PortMapping. *)
THEOREM PortMappingTyped == PortMappingSpec => []PortMappingTypeOK
  <1> QED BY MapInitially, MapStep, PTL DEF PortMappingSpec, MapInv

(* A mapping reported on the router's word is one it granted to this very  *)
(* attempt, whatever was late, lost or said by others before.              *)
THEOREM ReportedWasGrantedHolds == PortMappingSpec => []ReportedWasGranted
  <1> QED BY MapInitially, MapStep, PTL DEF PortMappingSpec, MapInv
-----------------------------------------------------------------------------
(* Relay: the size of a finite table. *)
TableInv == IsFiniteSet(DOMAIN sessions) /\ SessionsBounded

LEMMA TableStep == TableInv /\ [RelayNext]_relayVars => TableInv'
  <1> SUFFICES ASSUME TableInv, [RelayNext]_relayVars PROVE TableInv'
    OBVIOUS
  <1>1. ASSUME NEW r \in Request, OpenSession(r) PROVE TableInv'
    <2>1. CASE HasRoom
      <3>1. DOMAIN sessions' = DOMAIN sessions \cup {r.id}
        BY <1>1, <2>1 DEF OpenSession
      <3>2. IsFiniteSet(DOMAIN sessions) /\ Cardinality(DOMAIN sessions) < SESSIONS
        BY <2>1 DEF TableInv, HasRoom
      <3>3. /\ IsFiniteSet(DOMAIN sessions')
            /\ \/ Cardinality(DOMAIN sessions') = Cardinality(DOMAIN sessions)
               \/ Cardinality(DOMAIN sessions') = Cardinality(DOMAIN sessions) + 1
        BY <3>1, <3>2, FS_AddElement
      <3>4. Cardinality(DOMAIN sessions) \in Nat /\ SESSIONS \in Nat
        BY <3>2, FS_CardinalityType, RelayAssumption
      <3> QED BY <3>2, <3>3, <3>4 DEF TableInv, SessionsBounded
    <2>2. CASE ~HasRoom
      <3>1. sessions' = sessions
        BY <1>1, <2>2 DEF OpenSession
      <3> QED BY <3>1 DEF TableInv, SessionsBounded
    <2> QED BY <2>1, <2>2
  <1>2. CASE UNCHANGED sessions
    BY <1>2 DEF TableInv, SessionsBounded
  <1>3. \/ \E r \in Request : OpenSession(r)
        \/ UNCHANGED sessions
    BY DEF RelayNext, CheckRequest, ForwardPacket, BlacklistPeer, RelayTick, relayVars
  <1> QED BY <1>1, <1>2, <1>3

(* However requests overlap between their checks and the table's lock, the *)
(* relay's table stays within its limit.                                   *)
THEOREM SessionsBoundedHolds == RelaySpec => []SessionsBounded
  <1>1. RelayInit => TableInv
    <2> SUFFICES ASSUME RelayInit PROVE TableInv
      OBVIOUS
    <2>1. DOMAIN sessions = {}
      BY DEF RelayInit
    <2> QED BY <2>1, FS_EmptySet, RelayAssumption DEF TableInv, SessionsBounded
  <1> QED BY <1>1, TableStep, PTL DEF RelaySpec, TableInv

(* age of the window that counts them and count its count.  In the window  *)
(* are the first a + 1 ticks, as far as p goes back, and before it at most *)
(* one other window; none passed since a window ended.                     *)
Shifted(p) == [t \in 1..WINDOW |-> IF t = 1 THEN 0 ELSE p[t-1]]

Counts(c, p, a, count) ==
  LET k == IF a < WINDOW THEN a + 1 ELSE WINDOW
  IN  /\ PartialSums(c, p)
      /\ c[k] <= PACKETS
      /\ a < WINDOW => c[k] <= count
      /\ c[WINDOW] - c[k] <= PACKETS
      /\ \A t \in 1..WINDOW : t <= a - WINDOW + 1 => p[t] = 0

Counted(p, a, count) == \E c : Counts(c, p, a, count)

LEMMA PassedIsSeq ==
  ASSUME NEW p \in [1..WINDOW -> Nat]
  PROVE  p \in Seq(Nat) /\ p \in Seq(Int) /\ Len(p) = WINDOW
  <1>1. WINDOW \in Nat
    BY RelayAssumption
  <1>2. p \in [1..WINDOW -> Int]
    OBVIOUS
  <1> QED BY <1>1, <1>2, FunctionIsSeq

LEMMA CountsNumbers ==
  ASSUME NEW p \in [1..WINDOW -> Nat], NEW c, PartialSums(c, p)
  PROVE  /\ \A k \in 0..WINDOW : c[k] \in Int
         /\ c[0] = 0 /\ \A k \in 1..WINDOW : c[k] = c[k-1] + p[k]
  BY PassedIsSeq, PartialSumsNumbers DEF PartialSums

LEMMA TickCounted ==
  ASSUME NEW p \in [1..WINDOW -> Nat], NEW a \in Nat, NEW count \in Nat, Counted(p, a, count)
  PROVE  Shifted(p) \in [1..WINDOW -> Nat] /\ Counted(Shifted(p), a + 1, count)
  <1> DEFINE W == WINDOW
             q == Shifted(p)
             k == IF a < W THEN a + 1 ELSE W
             l == IF a + 1 < W THEN (a + 1) + 1 ELSE W
  <1>1. PICK c : Counts(c, p, a, count)
    BY DEF Counted
  <1>2. W \in Nat /\ W >= 1 /\ PACKETS \in Nat
    BY RelayAssumption
  <1>3. /\ \A j \in 0..W : c[j] \in Int
        /\ c[0] = 0 /\ \A j \in 1..W : c[j] = c[j-1] + p[j]
    BY <1>1, CountsNumbers DEF Counts
  <1>4. /\ c[k] <= PACKETS /\ (a < W => c[k] <= count) /\ c[W] - c[k] <= PACKETS
        /\ \A t \in 1..W : t <= a - W + 1 => p[t] = 0
    BY <1>1 DEF Counts
  <1>5. q \in [1..W -> Nat]
    BY <1>2 DEF Shifted
  <1>6. \A t \in 1..W : q[t] = IF t = 1 THEN 0 ELSE p[t-1]
    BY DEF Shifted
  <1> DEFINE d == [j \in 0..W |-> IF j = 0 THEN 0 ELSE c[j-1]]
  <1>7. \A j \in 0..W : d[j] = IF j = 0 THEN 0 ELSE c[j-1]
    OBVIOUS
  <1> HIDE DEF W, q, d
  <1>8. PartialSums(d, q)
    <2>1. d[0] = 0
      BY <1>2, <1>7
    <2>2. ASSUME NEW j \in 1..W PROVE d[j] = d[j-1] + q[j]
      <3>1. j \in 0..W /\ j - 1 \in 0..W /\ j # 0
        BY <1>2
      <3>2. d[j] = c[j-1]
        BY <1>7, <3>1
      <3>3. CASE j = 1
        <4>1. d[j-1] = 0 /\ c[j-1] = 0 /\ q[j] = 0
          BY <1>3, <1>6, <2>1, <3>3
        <4> QED BY <3>2, <4>1
      <3>4. CASE j # 1
        <4>1. j - 1 \in 1..W /\ (j - 1) - 1 \in 0..W
          BY <1>2, <3>4
        <4>2. d[j-1] = c[(j-1)-1] /\ q[j] = p[j-1] /\ c[j-1] = c[(j-1)-1] + p[j-1]
          BY <1>3, <1>6, <1>7, <3>1, <3>4, <4>1
        <4> QED BY <3>2, <4>2
      <3> QED BY <3>3, <3>4
    <2>3. Len(q) = W
      BY <1>5, PassedIsSeq DEF W
    <2> QED BY <2>1, <2>2, <2>3 DEF PartialSums
  <1>9. d[l] = c[l-1] /\ d[W] = c[W-1] /\ c[W] = c[W-1] + p[W] /\ p[W] \in Nat
        /\ c[W-1] \in Int /\ c[W] \in Int /\ l - 1 \in 0..W /\ c[l-1] \in Int /\ c[k] \in Int
    <2>1. l \in 1..W /\ l - 1 \in 0..W /\ W \in 1..W /\ W - 1 \in 0..W /\ k \in 0..W /\ l # 0 /\ W # 0
      BY <1>2
    <2>2. d[l] = c[l-1] /\ d[W] = c[W-1]
      BY <1>7, <2>1
    <2>3. p[W] \in Nat
      BY <2>1 DEF W
    <2> HIDE DEF k, l
    <2> QED BY <1>3, <2>1, <2>2, <2>3
  <1>10. /\ d[l] <= PACKETS /\ (a + 1 < W => d[l] <= count) /\ d[W] - d[l] <= PACKETS
    <2>1. CASE a + 1 < W
      <3>1. l - 1 = k /\ a < W
        BY <1>2, <2>1
      <3> HIDE DEF k, l
      <3> QED BY <1>2, <1>4, <1>9, <3>1
    <2>2. CASE ~(a + 1 < W)
      <3>1. l = W /\ k = W
        BY <1>2, <2>2
      <3> HIDE DEF k, l
      <3> QED BY <1>2, <1>4, <1>9, <2>2, <3>1
    <2> QED BY <2>1, <2>2
  <1>11. ASSUME NEW t \in 1..W, t <= (a + 1) - W + 1 PROVE q[t] = 0
    <2>1. CASE t = 1
      BY <1>6, <2>1
    <2>2. CASE t # 1
      <3>1. t - 1 \in 1..W /\ t - 1 <= a - W + 1
        BY <1>2, <1>11, <2>2
      <3> QED BY <1>4, <1>6, <2>2, <3>1
    <2> QED BY <2>1, <2>2
  <1>12. Counts(d, q, a + 1, count)
    BY <1>8, <1>10, <1>11 DEF Counts, W
  <1> QED BY <1>5, <1>12 DEF Counted, q, W
LEMMA PassCounted ==
  ASSUME NEW p \in [1..WINDOW -> Nat], NEW a \in Nat, NEW count \in Nat, Counted(p, a, count),
         a < WINDOW, count < PACKETS
  PROVE  Counted([p EXCEPT ![1] = @ + 1], a, count + 1)
  <1> DEFINE W == WINDOW
             q == [p EXCEPT ![1] = @ + 1]
             k == a + 1
  <1>1. PICK c : Counts(c, p, a, count)
    BY DEF Counted
  <1>2. W \in Nat /\ W >= 1 /\ PACKETS \in Nat /\ 1 \in 1..W
    BY RelayAssumption
  <1>3. /\ \A j \in 0..W : c[j] \in Int
        /\ c[0] = 0 /\ \A j \in 1..W : c[j] = c[j-1] + p[j]
    BY <1>1, CountsNumbers DEF Counts
  <1>4. c[k] <= count /\ c[W] - c[k] <= PACKETS
    BY <1>1 DEF Counts
  <1>5. q \in [1..W -> Nat] /\ q[1] = p[1] + 1 /\ \A j \in 1..W : j # 1 => q[j] = p[j]
    BY <1>2
  <1> DEFINE d == [j \in 0..W |-> IF j = 0 THEN 0 ELSE c[j] + 1]
  <1>6. \A j \in 0..W : d[j] = IF j = 0 THEN 0 ELSE c[j] + 1
    OBVIOUS
  <1> HIDE DEF W, q, d
  <1>7. PartialSums(d, q)
    <2>1. d[0] = 0
      BY <1>2, <1>6
    <2>2. ASSUME NEW j \in 1..W PROVE d[j] = d[j-1] + q[j]
      <3>1. j \in 0..W /\ j - 1 \in 0..W /\ j # 0
        BY <1>2
      <3>2. d[j] = c[j] + 1 /\ c[j] = c[j-1] + p[j] /\ c[j-1] \in Int /\ p[j] \in Nat
        BY <1>3, <1>6, <3>1 DEF W
      <3>3. CASE j = 1
        <4>1. d[j-1] = 0 /\ c[j-1] = 0 /\ q[j] = p[j] + 1
          BY <1>3, <1>5, <2>1, <3>3
        <4> QED BY <3>2, <4>1
      <3>4. CASE j # 1
        <4>1. d[j-1] = c[j-1] + 1 /\ q[j] = p[j]
          BY <1>5, <1>6, <3>1, <3>4
        <4> QED BY <3>2, <4>1
      <3> QED BY <3>3, <3>4
    <2>3. Len(q) = W
      BY <1>5, PassedIsSeq DEF W
    <2> QED BY <2>1, <2>2, <2>3 DEF PartialSums
  <1>8. d[k] = c[k] + 1 /\ d[W] = c[W] + 1 /\ c[k] \in Int /\ c[W] \in Int
    <2>1. k \in 0..W /\ W \in 0..W /\ k # 0 /\ W # 0
      BY <1>2 DEF W
    <2> HIDE DEF k
    <2> QED BY <1>3, <1>6, <2>1
  <1>9. d[k] <= PACKETS /\ d[k] <= count + 1 /\ d[W] - d[k] <= PACKETS
    <2> HIDE DEF k
    <2> QED BY <1>2, <1>4, <1>8
  <1>10. \A t \in 1..W : t <= a - W + 1 => q[t] = 0
    BY <1>2 DEF W
  <1>11. Counts(d, q, a, count + 1)
    BY <1>7, <1>9, <1>10 DEF Counts, W
  <1> QED BY <1>11 DEF Counted, q

LEMMA RefuseCounted ==
  ASSUME NEW p \in [1..WINDOW -> Nat], NEW a \in Nat, NEW count \in Nat, Counted(p, a, count),
         a < WINDOW
  PROVE  Counted(p, a, PACKETS + 1)
  <1>1. PICK c : Counts(c, p, a, count)
    BY DEF Counted
  <1>2. WINDOW \in Nat /\ PACKETS \in Nat /\ a + 1 \in 0..WINDOW
    BY RelayAssumption
  <1>3. c[a + 1] \in Int
    BY <1>1, <1>2, CountsNumbers DEF Counts
  <1>4. c[a + 1] <= PACKETS + 1
    BY <1>1, <1>2, <1>3 DEF Counts
  <1>5. Counts(c, p, a, PACKETS + 1)
    BY <1>1, <1>4 DEF Counts
  <1> QED BY <1>5 DEF Counted

LEMMA RenewCounted ==
  ASSUME NEW p \in [1..WINDOW -> Nat], NEW a \in Nat, NEW count \in Nat, Counted(p, a, count),
         ~(a < WINDOW)
  PROVE  Counted(p, 0, 0)
  <1>1. PICK c : Counts(c, p, a, count)
    BY DEF Counted
  <1>2. WINDOW \in Nat /\ WINDOW >= 1 /\ PACKETS \in Nat /\ 1 \in 1..WINDOW /\ 0 < WINDOW
    BY RelayAssumption
  <1>3. /\ c[0] = 0 /\ c[1] = c[1-1] + p[1] /\ c[WINDOW] \in Int
    BY <1>1, <1>2, CountsNumbers DEF Counts
  <1>4. p[1] = 0 /\ c[WINDOW] <= PACKETS
    BY <1>1, <1>2 DEF Counts
  <1>5. c[0 + 1] = 0
    BY <1>3, <1>4
  <1>6. \A t \in 1..WINDOW : ~(t <= 0 - WINDOW + 1)
    BY <1>2
  <1>7. c[0 + 1] <= PACKETS /\ c[0 + 1] <= 0 /\ c[WINDOW] - c[0 + 1] <= PACKETS
    BY <1>2, <1>3, <1>4, <1>5
  <1>8. Counts(c, p, 0, 0)
    BY <1>1, <1>2, <1>6, <1>7 DEF Counts
  <1> QED BY <1>8 DEF Counted

LEMMA CountedBounded ==
  ASSUME NEW p \in [1..WINDOW -> Nat], NEW a \in Nat, NEW count \in Nat, Counted(p, a, count)
  PROVE  SumSeq(p) <= 2 * PACKETS
  <1> DEFINE k == IF a < WINDOW THEN a + 1 ELSE WINDOW
  <1>1. PICK c : Counts(c, p, a, count)
    BY DEF Counted
  <1>2. WINDOW \in Nat /\ PACKETS \in Nat /\ k \in 0..WINDOW /\ WINDOW \in 0..WINDOW
    BY RelayAssumption
  <1>3. SumSeq(p) = c[WINDOW]
    BY <1>1, PassedIsSeq, SumDetermined DEF Counts
  <1>4. c[k] <= PACKETS /\ c[WINDOW] - c[k] <= PACKETS
    BY <1>1 DEF Counts
  <1> HIDE DEF k
  <1>5. c[k] \in Int /\ c[WINDOW] \in Int
    BY <1>1, <1>2, CountsNumbers DEF Counts
  <1> QED BY <1>2, <1>3, <1>4, <1>5

(* At the start nothing has passed. *)
LEMMA NothingCounted ==
  [t \in 1..WINDOW |-> 0] \in [1..WINDOW -> Nat] /\ Counted([t \in 1..WINDOW |-> 0], 0, 0)
  <1> DEFINE p == [t \in 1..WINDOW |-> 0]
             c == [k \in 0..WINDOW |-> 0]
  <1>1. WINDOW \in Nat /\ WINDOW >= 1 /\ PACKETS \in Nat
    BY RelayAssumption
  <1>2. p \in [1..WINDOW -> Nat] /\ \A k \in 1..WINDOW : p[k] = 0
    OBVIOUS
  <1>3. \A k \in 0..WINDOW : c[k] = 0
    OBVIOUS
  <1> HIDE DEF p, c
  <1>4. PartialSums(c, p)
    <2>1. Len(p) = WINDOW
      BY <1>2, PassedIsSeq
    <2>2. ASSUME NEW k \in 1..WINDOW PROVE c[k] = c[k-1] + p[k]
      <3>1. k \in 0..WINDOW /\ k - 1 \in 0..WINDOW
        BY <1>1
      <3>2. c[k] = 0 /\ c[k-1] = 0 /\ p[k] = 0
        BY <1>2, <1>3, <3>1
      <3> QED BY <3>2
    <2> QED BY <1>1, <1>3, <2>1, <2>2 DEF PartialSums
  <1>5. c[0 + 1] = 0 /\ c[WINDOW] = 0
    BY <1>1, <1>3
  <1>6. Counts(c, p, 0, 0)
    BY <1>1, <1>2, <1>4, <1>5 DEF Counts
  <1> QED BY <1>2, <1>6 DEF Counted, p
(* The relay's state, with what its counters count. *)
HostCounted(h) ==
  /\ rate[h].since <= now
  /\ Counted(passed[h], now - rate[h].since, rate[h].count)

RelayInv == RelayTypeOK /\ \A h \in Hosts : HostCounted(h)

LEMMA WindowCounted ==
  ASSUME RelayInv, NEW h \in Hosts
  PROVE  LET w == Window(h)
         IN  /\ w \in [count : Nat, since : 0 .. MaxTime]
             /\ w.since <= now /\ now - w.since \in Nat /\ now - w.since < WINDOW
             /\ Counted(passed[h], now - w.since, w.count)
  <1>1. /\ now \in 0..MaxTime /\ rate[h] \in [count : Nat, since : 0 .. MaxTime]
        /\ passed[h] \in [1..WINDOW -> Nat] /\ HostCounted(h)
    BY DEF RelayInv, RelayTypeOK
  <1>2. MaxTime \in Nat /\ WINDOW \in Nat /\ 0 < WINDOW
    BY RelayAssumption
  <1> DEFINE a == now - rate[h].since
             count == rate[h].count
  <1>3. a \in Nat /\ count \in Nat /\ Counted(passed[h], a, count)
    BY <1>1, <1>2 DEF HostCounted
  <1>4. CASE a >= WINDOW
    <2>1. Window(h) = [count |-> 0, since |-> now]
      BY <1>4 DEF Window
    <2>2. ~(a < WINDOW)
      BY <1>2, <1>3, <1>4
    <2>3. Counted(passed[h], 0, 0)
      <3> HIDE DEF a, count
      <3> QED BY <1>1, <1>3, <2>2, RenewCounted
    <2>4. now - now = 0
      BY <1>1, <1>2
    <2> QED BY <1>1, <1>2, <2>1, <2>3, <2>4
  <1>5. CASE ~(a >= WINDOW)
    <2>1. Window(h) = rate[h]
      BY <1>5 DEF Window
    <2>2. a < WINDOW
      BY <1>2, <1>3, <1>5
    <2> QED BY <1>1, <1>3, <2>1, <2>2 DEF HostCounted
  <1> QED BY <1>4, <1>5

LEMMA ForwardPacketStep ==
  ASSUME RelayInv, NEW id \in Sessions, NEW h \in Hosts, ForwardPacket(id, h)
  PROVE  RelayInv'
  <1> DEFINE w == Window(h)
             fits == w.count < PACKETS
             count == IF fits THEN w.count + 1 ELSE PACKETS + 1
             p == IF fits THEN [passed[h] EXCEPT ![1] = @ + 1] ELSE passed[h]
  <1>1. /\ w \in [count : Nat, since : 0 .. MaxTime]
        /\ w.since <= now /\ now - w.since \in Nat /\ now - w.since < WINDOW
        /\ Counted(passed[h], now - w.since, w.count)
    BY WindowCounted
  <1>2. /\ RelayTypeOK /\ passed \in [Hosts -> [1..WINDOW -> Nat]] /\ PACKETS \in Nat
        /\ rate \in [Hosts -> [count : Nat, since : 0 .. MaxTime]] /\ relayed \in Nat
    BY RelayAssumption DEF RelayInv, RelayTypeOK
  <1>3. /\ rate' = [rate EXCEPT ![h] = [w EXCEPT !.count = IF fits THEN @ + 1 ELSE PACKETS + 1]]
        /\ passed' = IF fits THEN [passed EXCEPT ![h][1] = @ + 1] ELSE passed
        /\ relayed' \in {relayed, relayed + 1}
        /\ UNCHANGED <<now, sessions, checked, blacklist>>
    BY DEF ForwardPacket
  <1> HIDE DEF w
  <1>4. [w EXCEPT !.count = IF fits THEN @ + 1 ELSE PACKETS + 1]
          = [count |-> count, since |-> w.since]
    BY <1>1
  <1>5. count \in Nat /\ p \in [1..WINDOW -> Nat]
    <2>1. WINDOW \in Nat /\ 1 \in 1..WINDOW /\ w.count \in Nat /\ passed[h] \in [1..WINDOW -> Nat]
      BY <1>1, <1>2, RelayAssumption
    <2>2. [passed[h] EXCEPT ![1] = @ + 1] \in [1..WINDOW -> Nat]
      BY <2>1
    <2>3. count \in Nat
      BY <1>2, <2>1
    <2> QED BY <2>1, <2>2, <2>3
  <1>6. passed' = [passed EXCEPT ![h] = p]
    BY <1>2, <1>3
  <1>7. Counted(p, now - w.since, count)
    <2>1. CASE fits
      <3>1. passed[h] \in [1..WINDOW -> Nat] /\ w.count \in Nat
        BY <1>1, <1>2
      <3>2. Counted([passed[h] EXCEPT ![1] = @ + 1], now - w.since, w.count + 1)
        BY <1>1, <2>1, <3>1, PassCounted
      <3> QED BY <2>1, <3>2
    <2>2. CASE ~fits
      <3>1. passed[h] \in [1..WINDOW -> Nat] /\ w.count \in Nat
        BY <1>1, <1>2
      <3>2. Counted(passed[h], now - w.since, PACKETS + 1)
        BY <1>1, <3>1, RefuseCounted
      <3> QED BY <2>2, <3>2
    <2> QED BY <2>1, <2>2
  <1> HIDE DEF count, p, fits
  <1>8. rate' = [rate EXCEPT ![h] = [count |-> count, since |-> w.since]]
    BY <1>3, <1>4
  <1>9. RelayTypeOK'
    <2>1. rate' \in [Hosts -> [count : Nat, since : 0 .. MaxTime]]
      BY <1>1, <1>2, <1>5, <1>8
    <2>2. passed' \in [Hosts -> [1..WINDOW -> Nat]]
      BY <1>2, <1>5, <1>6
    <2>3. relayed' \in Nat
      BY <1>2, <1>3
    <2> QED BY <1>2, <1>3, <2>1, <2>2, <2>3 DEF RelayTypeOK
  <1>10. ASSUME NEW g \in Hosts PROVE HostCounted(g)'
    <2>1. CASE g = h
      <3>1. rate'[g] = [count |-> count, since |-> w.since] /\ passed'[g] = p /\ now' = now
        BY <1>2, <1>3, <1>6, <1>8, <2>1
      <3> QED BY <1>1, <1>7, <3>1 DEF HostCounted
    <2>2. CASE g # h
      <3>1. rate'[g] = rate[g] /\ passed'[g] = passed[g] /\ now' = now
        BY <1>2, <1>3, <1>6, <1>8, <2>2
      <3> QED BY <3>1 DEF HostCounted, RelayInv
    <2> QED BY <2>1, <2>2
  <1> QED BY <1>9, <1>10 DEF RelayInv

LEMMA RelayTickStep ==
  ASSUME RelayInv, RelayTick
  PROVE  RelayInv'
  <1>1. /\ RelayTypeOK /\ now \in 0..MaxTime /\ passed \in [Hosts -> [1..WINDOW -> Nat]]
        /\ rate \in [Hosts -> [count : Nat, since : 0 .. MaxTime]] /\ MaxTime \in Nat
    BY RelayAssumption DEF RelayInv, RelayTypeOK
  <1>2. /\ now < MaxTime /\ now' = now + 1
        /\ UNCHANGED <<sessions, checked, blacklist, rate, relayed>>
        /\ passed' = [h \in Hosts |-> Shifted(passed[h])]
    BY DEF RelayTick, Shifted
  <1>3. ASSUME NEW h \in Hosts
        PROVE  HostCounted(h)' /\ Shifted(passed[h]) \in [1..WINDOW -> Nat]
    <2> DEFINE a == now - rate[h].since
               count == rate[h].count
               p == passed[h]
    <2>1. /\ a \in Nat /\ count \in Nat /\ p \in [1..WINDOW -> Nat] /\ Counted(p, a, count)
          /\ rate[h].since <= now /\ rate[h].since \in 0..MaxTime
      BY <1>1 DEF RelayInv, HostCounted
    <2>2. (now + 1) - rate[h].since = a + 1 /\ rate[h].since <= now + 1
      BY <1>1, <2>1
    <2> HIDE DEF a, count, p
    <2>3. Shifted(p) \in [1..WINDOW -> Nat] /\ Counted(Shifted(p), a + 1, count)
      BY <2>1, TickCounted
    <2> QED BY <1>2, <2>2, <2>3 DEF HostCounted, count, p
  <1>4. RelayTypeOK'
    BY <1>1, <1>2, <1>3 DEF RelayTypeOK
  <1> QED BY <1>3, <1>4 DEF RelayInv

LEMMA RelayStep == RelayInv /\ [RelayNext]_relayVars => RelayInv'
  <1> SUFFICES ASSUME RelayInv, [RelayNext]_relayVars PROVE RelayInv'
    OBVIOUS
  <1>1. ASSUME UNCHANGED <<now, rate, relayed, passed>>,
               DOMAIN sessions' \subseteq Sessions,
               \A i \in DOMAIN sessions' :
                 sessions'[i] \in [sender : Hosts, recipient : Hosts \cup {NoAddress}],
               checked' \subseteq Request, blacklist' \subseteq Accounts
        PROVE  RelayInv'
    BY <1>1 DEF RelayInv, RelayTypeOK, HostCounted
  <1>2. /\ DOMAIN sessions \subseteq Sessions
        /\ \A i \in DOMAIN sessions :
             sessions[i] \in [sender : Hosts, recipient : Hosts \cup {NoAddress}]
        /\ checked \subseteq Request /\ blacklist \subseteq Accounts
    BY DEF RelayInv, RelayTypeOK
  <1>3. ASSUME NEW r \in Request, CheckRequest(r) PROVE RelayInv'
    BY <1>1, <1>2, <1>3 DEF CheckRequest
  <1>4. ASSUME NEW r \in Request, OpenSession(r) PROVE RelayInv'
    <2>1. r.id \in Sessions /\ r.from \in Hosts
      BY DEF Request
    <2>2. \/ sessions' = sessions
          \/ sessions' = [i \in DOMAIN sessions \cup {r.id} |->
               IF i = r.id THEN [sender |-> r.from, recipient |-> NoAddress] ELSE sessions[i]]
      BY <1>4 DEF OpenSession
    <2>3. /\ DOMAIN sessions' \subseteq Sessions
          /\ \A i \in DOMAIN sessions' :
               sessions'[i] \in [sender : Hosts, recipient : Hosts \cup {NoAddress}]
      BY <1>2, <2>1, <2>2
    <2> QED BY <1>1, <1>2, <1>4, <2>3 DEF OpenSession
  <1>5. ASSUME NEW u \in Accounts, BlacklistPeer(u) PROVE RelayInv'
    BY <1>1, <1>2, <1>5 DEF BlacklistPeer
  <1>6. CASE UNCHANGED relayVars
    BY <1>1, <1>2, <1>6 DEF relayVars
  <1> QED BY <1>3, <1>4, <1>5, <1>6, ForwardPacketStep, RelayTickStep DEF RelayNext

LEMMA RelayInitially == RelayInit => RelayInv
  <1> SUFFICES ASSUME RelayInit PROVE RelayInv
    OBVIOUS
  <1>1. RelayTypeOK
    BY NothingCounted, RelayAssumption DEF RelayInit, RelayTypeOK
  <1>2. \A h \in Hosts : HostCounted(h)
    BY NothingCounted DEF RelayInit, HostCounted
  <1> QED BY <1>1, <1>2 DEF RelayInv

(* Tables, counters and times stay what they are: Relay. *)
THEOREM RelayTyped == RelaySpec => []RelayTypeOK
  BY RelayInitially, RelayStep, PTL DEF RelaySpec, RelayInv

(* No second, wherever it begins, lets more than two windows' packets of   *)
(* one address through: at most one window ends in it and one begins.      *)
THEOREM PacketsBoundedHolds == RelaySpec => []PacketsBounded
  <1>1. RelayInv => PacketsBounded
    <2> SUFFICES ASSUME RelayInv, NEW h \in Hosts PROVE SumSeq(passed[h]) <= 2 * PACKETS
      BY DEF PacketsBounded
    <2>1. /\ passed[h] \in [1..WINDOW -> Nat] /\ rate[h].count \in Nat
          /\ now - rate[h].since \in Nat
      BY RelayAssumption DEF RelayInv, RelayTypeOK, HostCounted
    <2>2. Counted(passed[h], now - rate[h].since, rate[h].count)
      BY DEF RelayInv, HostCounted
    <2> QED BY <2>1, <2>2, CountedBounded
  <1> QED BY <1>1, RelayInitially, RelayStep, PTL DEF RelaySpec
-----------------------------------------------------------------------------
(* The node as a whole: every behaviour of it is one of each component.    *)
THEOREM ComponentsKeepTheirSpecs ==
  NetworkSpec =>
    /\ Spec
    /\ LookupSpec
    /\ RpcSpec
    /\ ChunksSpec
    /\ CodecSpec
    /\ StorageSpec
    /\ PunchSpec
    /\ StunSpec
    /\ PortMappingSpec
    /\ RelaySpec
  <1>1. NetworkInit =>
          /\ Init /\ LookupInit /\ RpcInit /\ ChunksInit /\ CodecInit /\ StorageInit
          /\ PunchInit /\ StunInit /\ PortMappingInit /\ RelayInit
    BY DEF NetworkInit
  <1>2. [NetworkNext]_networkVars =>
          /\ [Next]_vars /\ [LookupNext]_lookupVars /\ [RpcNext]_rpcVars /\ [ChunksNext]_chunkVars
          /\ [CodecNext]_codecVars /\ [StorageNext]_storageVars /\ [PunchNext]_punchVars /\ [StunNext]_stunVars
          /\ [PortMappingNext]_mapVars /\ [RelayNext]_relayVars
    BY DEF NetworkNext, networkVars, RoutingSteps, RpcSteps, ChunksSteps, CodecSteps,
      StorageSteps, LookupSteps, PunchSteps, StunSteps, MappingSteps, RelaySteps
  <1> QED
    BY <1>1, <1>2, PTL DEF NetworkSpec, Spec, LookupSpec, RpcSpec, ChunksSpec, CodecSpec,
      StorageSpec, PunchSpec, StunSpec, PortMappingSpec, RelaySpec

(* What the NAT traversal reports was said to this very attempt by whom it *)
(* asked: a candidate, a STUN server and, as far as it was the router that *)
(* answered, the router.                                                   *)
THEOREM TraversalIsConfirmedHolds == NetworkSpec => []TraversalIsConfirmed
  <1> QED
    BY ComponentsKeepTheirSpecs, VerifiedAnsweredHolds, ReportedWasSeenHolds,
      ReportedWasGrantedHolds, PTL DEF TraversalIsConfirmed

(* Every variable of the node's components has its type, whatever the      *)
(* components do.                                                          *)
THEOREM NetworkTyped == NetworkSpec => []NetworkTypeOK
  <1> QED
    BY ComponentsKeepTheirSpecs, TypeCorrect, RpcTypeOKHolds, ChunksTypeOKHolds, CodecTypeOKHolds,
      StorageLimitsHold, LookupTyped, PunchTyped, StunTyped, PortMappingTyped, RelayTyped,
      PTL DEF NetworkTypeOK

(* Every limit of the node holds: permits, half-received messages, records *)
(* and their bytes, answers, relay sessions and the packets they forward;  *)
(* and a bootstrap node applies the limits the other nodes apply.          *)
THEOREM LimitsHoldAlways == NetworkSpec => []LimitsHold
  <1> QED
    BY ComponentsKeepTheirSpecs, SlotsBoundedHolds, AssembliesBoundedHolds, StorageLimitsHold,
      SessionsBoundedHolds, PacketsBoundedHolds, PTL DEF LimitsHold, RelayBounded

(* The components' promises hold of the whole node: all that is checked of *)
(* it.                                                                     *)
THEOREM NodeKeepsPromises ==
  NetworkSpec =>
    /\ [](BucketsSound /\ OnlyTargetAnswers /\ PendingOwned /\ AssembledFromArrived /\ FindsClosest)
    /\ OnlyEvictionRemoves
    /\ DecodedAsSent
    /\ AckedIsStored
  <1> QED
    BY ComponentsKeepTheirSpecs, TableShape, OnlyTargetAnswersHolds, PendingOwnedHolds,
      AssembledFromArrivedHolds, FindsClosestHolds, OnlyEvictionRemovesHolds, DecodedAsSentHolds,
      AckedIsStoredHolds, PTL
=============================================================================
