------------------------------ MODULE Storage ------------------------------
(***************************************************************************)
(* The record storage of the nodes of the DHT (storage.rs), the STORE and  *)
(* FIND_VALUE handlers that merge and repair mailbox records, and the put, *)
(* get and republish calls that exchange records (lib.rs of                *)
(* nodex-kademlia; the bootstrap node has a copy of it).                   *)
(*                                                                         *)
(* A value is [mailbox |-> b, parts |-> s]: a JSON array of envelopes s,   *)
(* or another value <<v>>, or no bytes at all, <<>>.  Size gives the bytes *)
(* of each envelope and value.  A node's records are a sequence, the       *)
(* oldest created_at first.                                                *)
(***************************************************************************)
EXTENDS Integers, Sequences, FiniteSets, SequencesExt, Filters

CONSTANTS
  StoreNodes,
  Seeds,                      \* the nodes that run the bootstrap node's copy
  DHTKeys,
  Puts,                       \* what applications put: <<node, key, value>>
  Gets,                       \* what they look for: <<node, key>>
  Drains,                     \* the nodes whose messenger drains and wipes
  Size,
  MAX_MAILBOX_VALUE_BYTES,
  MAX_MAILBOX_ENVELOPES,
  STORE_SIZE,                 \* core_ffi::MAX_VALUE_SIZE, a message's value
  MAX_STORAGE_BYTES,
  MAX_STORAGE_RECORDS,
  RecordTtl,                  \* in ticks of the model's clock
  RepublishInterval,
  MaxStores                   \* bound on the STOREs under way

Value == [mailbox : BOOLEAN, parts : Seq(DOMAIN Size)]

(* The limits of the code are 48 KiB, 50, 64 KiB, 64 MiB and 50000.        *)
ASSUME StorageAssumption ==
  /\ Size \in [DOMAIN Size -> Nat]
  /\ Puts \subseteq StoreNodes \X DHTKeys \X Value
  /\ Gets \subseteq StoreNodes \X DHTKeys
  /\ Drains \subseteq StoreNodes
  /\ {MAX_MAILBOX_VALUE_BYTES, MAX_MAILBOX_ENVELOPES, STORE_SIZE, MAX_STORAGE_BYTES,
      MAX_STORAGE_RECORDS, RecordTtl, RepublishInterval, MaxStores} \subseteq Nat
  /\ 2 <= MAX_MAILBOX_VALUE_BYTES /\ MAX_MAILBOX_VALUE_BYTES <= MAX_STORAGE_BYTES
  /\ 1 <= MAX_MAILBOX_ENVELOPES /\ 1 <= MAX_STORAGE_RECORDS

VARIABLES
  records,      \* node -> sequence of [key, value, ttl, due]
  storedBytes,  \* node -> the byte count the storage keeps
  looking,      \* node -> the get under way
  storing       \* the STOREs under way: [to, key, value]

storageVars == <<records, storedBytes, looking, storing>>

NoGet == [key |-> "none"]

Total(s) == SumSeq([i \in DOMAIN s |-> Size[s[i]]])

(* serde_json::to_vec: brackets and the commas between the envelopes.      *)
EncodedLen(v) ==
  IF ~v.mailbox THEN Total(v.parts)
  ELSE IF v.parts = <<>> THEN 2 ELSE 1 + Total(v.parts) + Len(v.parts)

Mailbox(s) == [mailbox |-> TRUE, parts |-> s]
Suffix(s, i) == SubSeq(s, i + 1, Len(s))

----------------------------------------------------------------------------
(* merge_store_value                                                       *)

Fits(e) == Size[e] <= MAX_MAILBOX_VALUE_BYTES

(* The envelopes that fit and are new join the end of the mailbox; another *)
(* kind of value that is there counts as an empty one.                     *)
Fitting(s) == Picked(s, {e \in ToSet(s) : Fits(e)})

Joined(existing, incoming) ==
  AllPushed(IF existing.mailbox THEN existing.parts ELSE <<>>, Fitting(incoming.parts))

(* The oldest envelopes are dropped: those beyond the number allowed, then *)
(* one by one until the encoding fits or nothing is left.                  *)
Excess(s) ==
  Min({i \in 0..Len(s) :
    \/ i = Len(s)
    \/ /\ Len(s) - i <= MAX_MAILBOX_ENVELOPES
       /\ EncodedLen(Mailbox(Suffix(s, i))) <= MAX_MAILBOX_VALUE_BYTES})

(* A fault to detect: the newest envelopes are dropped.                    *)
PrunedNewest(s) == SubSeq(s, 1, Len(s) - Excess(s))

Pruned(s) == Suffix(s, Excess(s))

NoBytes == [mailbox |-> FALSE, parts |-> <<>>]

(* What is stored and whether the STORE is acknowledged with ok: one       *)
(* envelope of too many bytes refuses the whole STORE, and another value   *)
(* of too many bytes leaves what there was.                                *)
MergeStoreValue(existing, incoming) ==
  IF incoming.mailbox
    THEN [value |-> Mailbox(Pruned(Joined(existing, incoming))),
          ok |-> \A e \in ToSet(incoming.parts) : Fits(e)]
  ELSE IF EncodedLen(incoming) > STORE_SIZE
    THEN [value |-> existing, ok |-> FALSE]
    ELSE [value |-> incoming, ok |-> TRUE]

(* A fault to detect: the bootstrap node's copy accepts what the other     *)
(* refuses.                                                                *)
BoundedMailboxMergeAccepting(existing, incoming) ==
  IF incoming.mailbox
    THEN [value |-> Mailbox(Pruned(Joined(existing, incoming))), ok |-> TRUE]
    ELSE [value |-> incoming, ok |-> EncodedLen(incoming) <= STORE_SIZE]

(* The bootstrap node's copy removes envelopes from the front one at a     *)
(* time, first by their number and then by the bytes.                      *)
BoundedMailboxMerge(existing, incoming) ==
  LET all == Joined(existing, incoming)
      few == IF Len(all) > MAX_MAILBOX_ENVELOPES
               THEN Suffix(all, Len(all) - MAX_MAILBOX_ENVELOPES) ELSE all
      cut == Min({i \in 0..Len(few) :
               i = Len(few) \/ EncodedLen(Mailbox(Suffix(few, i))) <= MAX_MAILBOX_VALUE_BYTES})
  IN  IF incoming.mailbox
        THEN [value |-> Mailbox(Suffix(few, cut)),
              ok |-> Fitting(incoming.parts) = incoming.parts]
      ELSE IF EncodedLen(incoming) <= STORE_SIZE
        THEN [value |-> incoming, ok |-> TRUE]
        ELSE [value |-> existing, ok |-> FALSE]

Merge(n, existing, incoming) ==
  IF n \in Seeds THEN BoundedMailboxMerge(existing, incoming)
                 ELSE MergeStoreValue(existing, incoming)

----------------------------------------------------------------------------
(* Storage                                                                 *)

Expired(r) == r.ttl < 0
BytesOf(s) == SumSeq([i \in DOMAIN s |-> EncodedLen(s[i].value)])
Others(s, k) == Picked(s, {r \in ToSet(s) : r.key # k})
Previous(s, k) == Picked(s, {r \in ToSet(s) : r.key = k})

(* get: an expired record is there but not found.                          *)
Available(n, k) == {r.value : r \in {x \in ToSet(records[n]) : x.key = k /\ ~Expired(x)}}
Found(n, k) == IF Available(n, k) = {} THEN NoBytes ELSE CHOOSE v \in Available(n, k) : TRUE

(* The number of the oldest records that go until the new one fits; who is *)
(* oldest does not depend on who has expired.                              *)
Room(s, bytes, size) ==
  Min({i \in 0..Len(s) :
    \/ i = Len(s)
    \/ /\ bytes - BytesOf(SubSeq(s, 1, i)) + size <= MAX_STORAGE_BYTES
       /\ Len(s) - i < MAX_STORAGE_RECORDS})

(* A fault to detect: the bytes of the previous record stay counted.       *)
PutForgettingPrevious(n, k, v) ==
  LET others == Others(records[n], k)
      i == Room(others, storedBytes[n], EncodedLen(v))
  IN  /\ records' = [records EXCEPT ![n] =
           Append(Suffix(others, i),
                  [key |-> k, value |-> v, ttl |-> RecordTtl, due |-> RepublishInterval])]
      /\ storedBytes' = [storedBytes EXCEPT ![n] =
           @ - BytesOf(SubSeq(others, 1, i)) + EncodedLen(v)]

(* put: the previous record of the key goes first, then the oldest ones.   *)
Put(n, k, v) ==
  LET size == EncodedLen(v)
      others == Others(records[n], k)
      bytes == storedBytes[n] - BytesOf(Previous(records[n], k))
      i == Room(others, bytes, size)
  IN  IF size > MAX_STORAGE_BYTES THEN UNCHANGED <<records, storedBytes>>
      ELSE /\ records' = [records EXCEPT ![n] =
                Append(Suffix(others, i),
                       [key |-> k, value |-> v, ttl |-> RecordTtl, due |-> RepublishInterval])]
           /\ storedBytes' = [storedBytes EXCEPT ![n] =
                bytes - BytesOf(SubSeq(others, 1, i)) + size]

----------------------------------------------------------------------------
StorageInit ==
  /\ records = [n \in StoreNodes |-> <<>>]
  /\ storedBytes = [n \in StoreNodes |-> 0]
  /\ looking = [n \in StoreNodes |-> NoGet]
  /\ storing = {}

(* A value beyond the wire's limit is not encoded, so it is not sent.      *)
Sendable(v) == EncodedLen(v) <= STORE_SIZE

Stores(n, k, v) ==
  {[to |-> m, key |-> k, value |-> v] : m \in {x \in StoreNodes \ {n} : Sendable(v)}}

(* put: the local record is replaced, then the closest nodes get a STORE.  *)
ApplicationPut(n, k, v) ==
  /\ Cardinality(storing) < MaxStores
  /\ Put(n, k, v)
  /\ storing' = storing \cup Stores(n, k, v)
  /\ UNCHANGED looking

(* The handler reads, merges and puts under one lock.                      *)
HandleStore(m) ==
  LET merged == Merge(m.to, Found(m.to, m.key), m.value)
  IN  /\ m \in storing
      /\ storing' = storing \ {m}
      /\ \/ merged.ok /\ Put(m.to, m.key, merged.value)
         \/ ~merged.ok /\ UNCHANGED <<records, storedBytes>>
      /\ UNCHANGED looking

StoreLost(m) ==
  /\ m \in storing
  /\ storing' = storing \ {m}
  /\ UNCHANGED <<records, storedBytes, looking>>

(* get: what is here is the answer; otherwise a lookup asks other nodes,   *)
(* and the answer is cached when it comes, whatever is stored by then.     *)
GetMiss(n, k) ==
  /\ looking[n] = NoGet
  /\ Available(n, k) = {}
  /\ looking' = [looking EXCEPT ![n] = [key |-> k, answer |-> {}]]
  /\ UNCHANGED <<records, storedBytes, storing>>

(* A fault to detect: an oversized mailbox is served as it is.             *)
HandleFindValueUnrepaired(n, asker) ==
  /\ n # asker
  /\ looking[asker] # NoGet
  /\ looking[asker].answer = {}
  /\ Available(n, looking[asker].key) # {}
  /\ looking' = [looking EXCEPT ![asker].answer = {Found(n, looking[asker].key)}]
  /\ UNCHANGED <<records, storedBytes, storing>>

(* FIND_VALUE at n: a mailbox that exceeds the limits is cut, put back and *)
(* served; a mailbox within them and any other value are served as stored. *)
HandleFindValue(n, asker) ==
  LET k == looking[asker].key
      value == Found(n, k)
      bounded == Merge(n, NoBytes, value).value
  IN  /\ n # asker
      /\ looking[asker] # NoGet
      /\ looking[asker].answer = {}
      /\ Available(n, k) # {}
      /\ IF EncodedLen(bounded) < EncodedLen(value)
           THEN /\ Put(n, k, bounded)
                /\ looking' = [looking EXCEPT ![asker].answer = {bounded}]
           ELSE /\ looking' = [looking EXCEPT ![asker].answer = {value}]
                /\ UNCHANGED <<records, storedBytes>>
      /\ UNCHANGED storing

GetFound(n) ==
  /\ looking[n] # NoGet
  /\ \E v \in looking[n].answer : Put(n, looking[n].key, v)
  /\ looking' = [looking EXCEPT ![n] = NoGet]
  /\ UNCHANGED storing

GetNotFound(n) ==
  /\ looking[n] # NoGet
  /\ looking[n].answer = {}
  /\ looking' = [looking EXCEPT ![n] = NoGet]
  /\ UNCHANGED <<records, storedBytes, storing>>

(* Storage::remove (the poll loop's drain) and clear (wipe).               *)
Drop(n, k) ==
  /\ \E r \in ToSet(records[n]) : r.key = k
  /\ records' = [records EXCEPT ![n] = Others(@, k)]
  /\ storedBytes' = [storedBytes EXCEPT ![n] =
       @ - BytesOf(Previous(records[n], k))]
  /\ UNCHANGED <<looking, storing>>

Clear(n) ==
  /\ records[n] # <<>>
  /\ records' = [records EXCEPT ![n] = <<>>]
  /\ storedBytes' = [storedBytes EXCEPT ![n] = 0]
  /\ UNCHANGED <<looking, storing>>

(* The maintenance task: cleanup_stale, then get_keys_to_republish, whose  *)
(* records go to the closest nodes as new STOREs.                          *)
CleanupStale(n) ==
  LET live == Picked(records[n], {r \in ToSet(records[n]) : ~Expired(r)})
  IN  /\ live # records[n]
      /\ records' = [records EXCEPT ![n] = live]
      /\ storedBytes' = [storedBytes EXCEPT ![n] = BytesOf(live)]
      /\ UNCHANGED <<looking, storing>>

Republished(r) == ~Expired(r) /\ r.due = 0

Republish(n) ==
  /\ \E r \in ToSet(records[n]) : Republished(r)
  /\ Cardinality(storing) < MaxStores
  /\ records' = [records EXCEPT ![n] = [i \in DOMAIN @ |->
       IF Republished(@[i]) THEN [@[i] EXCEPT !.due = RepublishInterval] ELSE @[i]]]
  /\ storing' = storing \cup
       UNION {Stores(n, r.key, r.value) : r \in {x \in ToSet(records[n]) : Republished(x)}}
  /\ UNCHANGED <<storedBytes, looking>>

Older(r) == [r EXCEPT !.ttl = IF @ < 0 THEN @ ELSE @ - 1, !.due = IF @ = 0 THEN @ ELSE @ - 1]

StorageTick ==
  /\ records' = [n \in StoreNodes |-> [i \in DOMAIN records[n] |-> Older(records[n][i])]]
  /\ UNCHANGED <<storedBytes, looking, storing>>

StorageNext ==
  \/ \E p \in Puts : ApplicationPut(p[1], p[2], p[3])
  \/ \E g \in Gets : GetMiss(g[1], g[2])
  \/ \E n \in Drains : Clear(n) \/ \E k \in DHTKeys : Drop(n, k)
  \/ \E m \in storing : HandleStore(m) \/ StoreLost(m)
  \/ \E n \in StoreNodes :
       \/ \E asker \in StoreNodes : HandleFindValue(n, asker)
       \/ GetFound(n) \/ GetNotFound(n)
       \/ CleanupStale(n) \/ Republish(n)
  \/ StorageTick

StorageSpec == StorageInit /\ [][StorageNext]_storageVars

----------------------------------------------------------------------------
Record ==
  [key : DHTKeys, value : Value, ttl : -1..RecordTtl, due : 0..RepublishInterval]

StorageTypeOK ==
  /\ records \in [StoreNodes -> Seq(Record)]
  /\ storedBytes \in [StoreNodes -> Nat]
  /\ looking \in [StoreNodes -> {NoGet} \cup [key : DHTKeys, answer : SUBSET Value]]
  /\ storing \subseteq [to : StoreNodes, key : DHTKeys, value : Value]
  /\ \A m \in storing : Sendable(m.value)

(* The byte count is that of the records, over puts, evictions, removals   *)
(* and cleanups; no limit is exceeded and no key is there twice.           *)
StorageBounded ==
  \A n \in StoreNodes :
    /\ storedBytes[n] = BytesOf(records[n])
    /\ storedBytes[n] <= MAX_STORAGE_BYTES
    /\ Len(records[n]) <= MAX_STORAGE_RECORDS
    /\ \A i, j \in DOMAIN records[n] : records[n][i].key = records[n][j].key => i = j

(* A STORE that ends with an envelope new to it and to the mailbox, and    *)
(* one that alone is no mailbox too large: the brackets around it count,   *)
(* and Fits forgets them.                                                  *)
EndsNew(m) ==
  LET s == m.value.parts
  IN  /\ m.value.mailbox /\ s # <<>>
      /\ \A i \in 1 .. Len(s) - 1 : s[i] # Last(s)
      /\ Last(s) \notin ToSet(Found(m.to, m.key).parts)
      /\ EncodedLen(Mailbox(<<Last(s)>>)) <= MAX_MAILBOX_VALUE_BYTES

(* Such a STORE that is acknowledged with ok is stored: its last envelope  *)
(* can be read, whatever had to be pruned or evicted for it.               *)
AckedIsStored ==
  [][\A m \in storing :
       HandleStore(m) /\ EndsNew(m) /\ Merge(m.to, Found(m.to, m.key), m.value).ok
       => Last(m.value.parts) \in ToSet(Found(m.to, m.key)'.parts)]_storageVars

(* Whatever a mailbox grew to, what a node answers a FIND_VALUE with fits  *)
(* in one reply.                                                           *)
AnswersFit ==
  \A n \in StoreNodes : looking[n] # NoGet =>
    \A v \in looking[n].answer :
      EncodedLen(v) <= IF v.mailbox THEN MAX_MAILBOX_VALUE_BYTES ELSE STORE_SIZE

(* A bootstrap node keeps the envelopes another node would keep.           *)
SeedsAgree ==
  \A n \in StoreNodes, m \in storing :
    MergeStoreValue(Found(n, m.key), m.value) = BoundedMailboxMerge(Found(n, m.key), m.value)

(* A value that is not a mailbox is served as it was put: asking for it    *)
(* does not change it.                                                     *)
ServedAsPut ==
  \A n \in StoreNodes : looking[n] # NoGet =>
    \A v \in looking[n].answer : ~v.mailbox => \E p \in Puts : p[2] = looking[n].key /\ p[3] = v
=============================================================================
