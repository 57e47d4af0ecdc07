--------------------------- MODULE KademliaProofs ---------------------------
(***************************************************************************)
(* Proofs about the nodes of the DHT: the shape of the routing table and   *)
(* what can be lost from it, for any peers, buckets and bucket sizes, and  *)
(* any number of late replacements; what an iterative lookup finds, for    *)
(* any number of peers, any K and any ALPHA; and the limits and the merge  *)
(* of the record storage, for any values, sizes and limits.                *)
(***************************************************************************)
EXTENDS
  RoutingTable, Lookup, Storage, Rpc, SequenceLemmas, SequenceTheorems, FiniteSetTheorems, TLAPS

(* The contacts that may be in bucket b. *)
Placed(b) == {c \in Contact : c.id \in Peers /\ c.addr \in Addrs /\ BucketIndex[c.id] = b}

GoodBucket(s, b) == s \in Seq(Placed(b)) /\ Len(s) <= K

(***************************************************************************)
(* The inductive invariant.  What replace_oldest puts in is not checked    *)
(* there, so the invariant remembers that update had let the newcomer of   *)
(* every task through.                                                     *)
(***************************************************************************)
IInv ==
  /\ buckets \in [Buckets -> Seq(Contact)]
  /\ \A b \in Buckets : GoodBucket(buckets[b], b)
  /\ tasks \subseteq Task
  /\ \A t \in tasks : t.new \in Placed(BucketOf(t.new))
  /\ home \in [Ids -> Addrs]
  /\ clock \in 0..MaxClock

(* s' holds every id of s, and is not shorter. *)
Keeps(s, r) == Len(r) >= Len(s) /\ \A n \in Ids : Has(s, n) => Has(r, n)

-----------------------------------------------------------------------------
(* A known id has a position. *)
LEMMA PositionFound ==
  ASSUME NEW b, NEW s \in Seq(Placed(b)), NEW n, Has(s, n)
  PROVE  Position(s, n) \in 1..Len(s) /\ s[Position(s, n)].id = n
  <1> DEFINE T == {i \in 1..Len(s) : s[i].id = n}
  <1>1. Len(s) \in Nat
    BY LenProperties
  <1>2. T \subseteq Nat /\ T # {}
    BY <1>1 DEF Has
  <1>3. PICK i \in T : \A j \in T : i <= j
    BY <1>2, LeastNatural
  <1>4. \A j \in 1..(i-1) : s[j].id # n
    BY <1>1, <1>3
  <1>5. \E k \in 1..Len(s) : s[k].id = n /\ \A j \in 1..(k-1) : s[j].id # n
    BY <1>3, <1>4
  <1> QED BY <1>5 DEF Position

(* Moving a contact to the tail, under its id, keeps bucket and ids. *)
LEMMA MovedToTail ==
  ASSUME NEW b, NEW s, GoodBucket(s, b), NEW i \in 1..Len(s),
         NEW c \in Placed(b), c.id = s[i].id
  PROVE  /\ GoodBucket(Append(RemoveAt(s, i), c), b)
         /\ Keeps(s, Append(RemoveAt(s, i), c))
  <1> DEFINE q == RemoveAt(s, i)
             r == Append(q, c)
  <1>1. s \in Seq(Placed(b)) /\ Len(s) \in Nat /\ Len(s) <= K
    BY LenProperties DEF GoodBucket
  <1>2. /\ q \in Seq(Placed(b)) /\ Len(q) = Len(s) - 1
        /\ \A k \in 1..(Len(s) - 1) : q[k] = IF k < i THEN s[k] ELSE s[k+1]
    BY <1>1, RemoveAtElements
  <1> HIDE DEF q
  <1>3. /\ r \in Seq(Placed(b)) /\ Len(r) = Len(q) + 1
        /\ \A k \in 1..Len(q) : r[k] = q[k]
        /\ r[Len(q) + 1] = c
    BY <1>2, AppendProperties
  <1> HIDE DEF r
  <1>4. Len(r) = Len(s)
    BY <1>1, <1>2, <1>3
  <1>5. ASSUME NEW n \in Ids, NEW k \in 1..Len(s), s[k].id = n PROVE Has(r, n)
    <2>1. CASE k < i
      <3>1. k \in 1..Len(q) /\ k \in 1..Len(r) /\ r[k] = s[k]
        BY <1>1, <1>2, <1>3, <2>1
      <3> QED BY <1>5, <3>1 DEF Has
    <2>2. CASE k = i
      <3>1. Len(q) + 1 \in 1..Len(r) /\ r[Len(q) + 1].id = n
        BY <1>1, <1>2, <1>3, <1>5, <2>2
      <3> QED BY <3>1 DEF Has
    <2>3. CASE k > i
      <3>1. k - 1 \in 1..(Len(s) - 1) /\ ~(k - 1 < i) /\ (k - 1) + 1 = k
        BY <1>1, <2>3
      <3>2. q[k-1] = s[k] /\ k - 1 \in 1..Len(q) /\ k - 1 \in 1..Len(r)
        BY <1>1, <1>2, <1>4, <3>1
      <3> QED BY <1>3, <1>5, <3>2 DEF Has
    <2> QED BY <1>1, <2>1, <2>2, <2>3
  <1>6. Keeps(s, r)
    BY <1>1, <1>4, <1>5 DEF Keeps, Has
  <1> QED BY <1>1, <1>3, <1>4, <1>6 DEF GoodBucket, r, q

(* Appending to a bucket that is not full. *)
LEMMA Appended ==
  ASSUME NEW b, NEW s, GoodBucket(s, b), NEW c \in Placed(b), Len(s) < K
  PROVE  GoodBucket(Append(s, c), b) /\ Keeps(s, Append(s, c))
  <1>1. s \in Seq(Placed(b)) /\ Len(s) \in Nat
    BY LenProperties DEF GoodBucket
  <1>2. /\ Append(s, c) \in Seq(Placed(b)) /\ Len(Append(s, c)) = Len(s) + 1
        /\ \A k \in 1..Len(s) : Append(s, c)[k] = s[k]
    BY <1>1, AppendProperties
  <1>3. GoodBucket(Append(s, c), b)
    BY <1>1, <1>2, RoutingTableConstants DEF GoodBucket
  <1>4. Keeps(s, Append(s, c))
    BY <1>1, <1>2 DEF Keeps, Has
  <1> QED BY <1>3, <1>4

(* update keeps the bucket in shape and every contact in it. *)
LEMMA UpdateKeeps ==
  ASSUME NEW b, NEW s, GoodBucket(s, b), NEW c \in Placed(b)
  PROVE  GoodBucket(KBucketUpdate(s, c), b) /\ Keeps(s, KBucketUpdate(s, c))
  <1>1. CASE Has(s, c.id)
    <2> DEFINE i == Position(s, c.id)
               d == [s[i] EXCEPT !.seen = c.seen]
    <2>1. s \in Seq(Placed(b))
      BY DEF GoodBucket
    <2>2. i \in 1..Len(s) /\ s[i].id = c.id
      BY <1>1, <2>1, PositionFound
    <2>3. s[i] \in Placed(b)
      BY <2>1, <2>2, ElementOfSeq
    <2>4. d \in Placed(b) /\ d.id = s[i].id
      BY <2>2, <2>3 DEF Placed, Contact
    <2>5. KBucketUpdate(s, c) = Append(RemoveAt(s, i), d)
      BY <1>1 DEF KBucketUpdate
    <2> HIDE DEF i, d
    <2> QED BY <2>2, <2>4, <2>5, MovedToTail
  <1>2. CASE ~Has(s, c.id) /\ Len(s) < K
    BY <1>2, Appended DEF KBucketUpdate
  <1>3. CASE ~Has(s, c.id) /\ ~(Len(s) < K)
    <2>1. KBucketUpdate(s, c) = s
      BY <1>3 DEF KBucketUpdate
    <2>2. Len(s) \in Nat
      BY LenProperties DEF GoodBucket
    <2> QED BY <2>1, <2>2 DEF Keeps
  <1> QED BY <1>1, <1>2, <1>3

(* So does force_update. *)
LEMMA ForceUpdateKeeps ==
  ASSUME NEW b, NEW s, GoodBucket(s, b), NEW c \in Placed(b)
  PROVE  GoodBucket(KBucketForceUpdate(s, c), b) /\ Keeps(s, KBucketForceUpdate(s, c))
  <1>1. CASE Has(s, c.id)
    <2> DEFINE i == Position(s, c.id)
    <2>1. s \in Seq(Placed(b))
      BY DEF GoodBucket
    <2>2. i \in 1..Len(s) /\ s[i].id = c.id
      BY <1>1, <2>1, PositionFound
    <2>3. KBucketForceUpdate(s, c) = Append(RemoveAt(s, i), c)
      BY <1>1 DEF KBucketForceUpdate
    <2> HIDE DEF i
    <2> QED BY <2>2, <2>3, MovedToTail
  <1>2. CASE ~Has(s, c.id) /\ Len(s) < K
    BY <1>2, Appended DEF KBucketForceUpdate
  <1>3. CASE ~Has(s, c.id) /\ ~(Len(s) < K)
    <2>1. KBucketForceUpdate(s, c) = s
      BY <1>3 DEF KBucketForceUpdate
    <2>2. Len(s) \in Nat
      BY LenProperties DEF GoodBucket
    <2> QED BY <2>1, <2>2 DEF Keeps
  <1> QED BY <1>1, <1>2, <1>3

(* replace_oldest keeps the shape and the length, but not the contacts. *)
LEMMA ReplaceKeepsShape ==
  ASSUME NEW b, NEW s, GoodBucket(s, b), NEW c \in Placed(b)
  PROVE  GoodBucket(ReplaceOldest(s, c), b) /\ Len(ReplaceOldest(s, c)) >= Len(s)
  <1>1. s \in Seq(Placed(b)) /\ Len(s) \in Nat /\ Len(s) <= K
    BY LenProperties DEF GoodBucket
  <1>2. CASE s = <<>>
    <2>1. ReplaceOldest(s, c) = Append(s, c) /\ Len(s) < K
      BY <1>2, RoutingTableConstants DEF ReplaceOldest
    <2> QED BY <2>1, <1>1, Appended, LenProperties DEF Keeps
  <1>3. CASE s # <<>>
    <2>1. Tail(s) \in Seq(Placed(b)) /\ Len(Tail(s)) = Len(s) - 1
      BY <1>1, <1>3, HeadTailProperties
    <2>2. Append(Tail(s), c) \in Seq(Placed(b)) /\ Len(Append(Tail(s), c)) = Len(Tail(s)) + 1
      BY <2>1, AppendProperties
    <2> QED BY <1>1, <1>3, <2>1, <2>2 DEF ReplaceOldest, GoodBucket
  <1> QED BY <1>2, <1>3

-----------------------------------------------------------------------------
(* The table after update, as Arrival and Learn use it. *)
LEMMA UpdatedTable ==
  ASSUME IInv, NEW n \in Ids, NEW a \in Addrs \cup {Unusable}, clock < MaxClock
  PROVE  /\ NewContact(n, a) \in Contact
         /\ Acceptable(NewContact(n, a)) => NewContact(n, a) \in Placed(BucketIndex[n])
         /\ Updated(NewContact(n, a)) \in [Buckets -> Seq(Contact)]
         /\ \A b \in Buckets :
              /\ GoodBucket(Updated(NewContact(n, a))[b], b)
              /\ Keeps(buckets[b], Updated(NewContact(n, a))[b])
  <1> DEFINE c == NewContact(n, a)
             i == BucketIndex[n]
  <1>1. c \in Contact /\ c.id = n /\ c.addr = a
    BY RoutingTableConstants DEF IInv, NewContact, Contact
  <1>2. i \in Buckets /\ BucketOf(c) = i
    BY <1>1, RoutingTableConstants DEF BucketOf
  <1>3. Acceptable(c) => c \in Placed(i)
    BY <1>1, RoutingTableConstants DEF Acceptable, Placed, Ids, Unusable
  <1> HIDE DEF c, i
  <1>4. \A b \in Buckets : Keeps(buckets[b], buckets[b]) /\ Len(buckets[b]) \in Nat
    BY LenProperties DEF IInv, Keeps
  <1>5. CASE Acceptable(c)
    <2>1. c \in Placed(i) /\ GoodBucket(buckets[i], i)
      BY <1>2, <1>3, <1>5 DEF IInv
    <2>2. /\ GoodBucket(KBucketUpdate(buckets[i], c), i)
          /\ Keeps(buckets[i], KBucketUpdate(buckets[i], c))
      BY <2>1, UpdateKeeps
    <2>3. KBucketUpdate(buckets[i], c) \in Seq(Contact)
      <3>1. Placed(i) \subseteq Contact
        BY DEF Placed
      <3> QED BY <2>2, <3>1 DEF GoodBucket
    <2>4. Updated(c) = [buckets EXCEPT ![i] = KBucketUpdate(buckets[i], c)]
      BY <1>2, <1>5 DEF Updated, IInv
    <2>5. Updated(c) \in [Buckets -> Seq(Contact)]
      BY <1>2, <2>3, <2>4 DEF IInv
    <2>6. \A b \in Buckets : GoodBucket(Updated(c)[b], b) /\ Keeps(buckets[b], Updated(c)[b])
      BY <1>2, <1>4, <2>2, <2>4 DEF IInv
    <2> QED BY <1>1, <1>3, <2>5, <2>6 DEF c, i
  <1>6. CASE ~Acceptable(c)
    BY <1>1, <1>4, <1>6 DEF Updated, IInv, c
  <1> QED BY <1>5, <1>6

(* A step that keeps the table's contacts. *)
TableKept ==
  \A b \in Buckets : Keeps(buckets[b], buckets'[b])

LEMMA ArrivalStep ==
  ASSUME IInv, NEW n \in Ids, NEW ts \in SUBSET tasks, Arrival(n, ts)
  PROVE  IInv' /\ TableKept
  <1> DEFINE c == NewContact(n, home[n])
             s == buckets[BucketOf(c)]
             t == [new |-> c, oldest |-> Head(s), state |-> "pinging"]
  <1>1. home[n] \in Addrs /\ clock < MaxClock /\ clock' = clock + 1 /\ home' = home
    BY DEF IInv, Arrival, Tick
  <1>2. c \in Contact /\ c.id = n
    BY <1>1, UpdatedTable DEF NewContact
  <1>3. /\ buckets' \in [Buckets -> Seq(Contact)]
        /\ \A b \in Buckets : GoodBucket(buckets'[b], b) /\ Keeps(buckets[b], buckets'[b])
    BY <1>1, UpdatedTable DEF Arrival
  <1>4. \A u \in ts : u \in Task /\ u.new \in Placed(BucketOf(u.new))
    BY DEF IInv
  <1>5. ASSUME Acceptable(c), IsFull(s, c)
        PROVE  t \in Task /\ t.new \in Placed(BucketOf(t.new))
    <2>1. BucketOf(c) \in Buckets /\ BucketOf(c) = BucketIndex[n]
      BY <1>2, RoutingTableConstants DEF BucketOf
    <2>2. s \in Seq(Contact) /\ Len(s) >= K
      BY <1>5, <2>1 DEF IInv, IsFull
    <2>3. s # <<>>
      BY <2>2, RoutingTableConstants, EmptySeq
    <2>4. Head(s) \in Contact
      BY <2>2, <2>3, HeadTailProperties
    <2>5. c \in Placed(BucketOf(c))
      BY <1>1, <1>5, <2>1, UpdatedTable
    <2> HIDE DEF c, s
    <2> QED BY <1>2, <2>4, <2>5 DEF Task
  <1>6. tasks' = ts \/ (Acceptable(c) /\ IsFull(s, c) /\ tasks' = ts \cup {t})
    BY DEF Arrival
  <1> HIDE DEF c, s, t
  <1>7. tasks' \subseteq Task /\ \A u \in tasks' : u.new \in Placed(BucketOf(u.new))
    BY <1>4, <1>5, <1>6
  <1>8. IInv'
    BY <1>1, <1>3, <1>7, RoutingTableConstants DEF IInv, BucketOf
  <1> QED BY <1>3, <1>8 DEF TableKept

LEMMA LearnStep ==
  ASSUME IInv, NEW n \in Ids, Learn(n)
  PROVE  IInv' /\ TableKept
  <1>1. PICK a \in 0..home[n] \cup {Unusable} : buckets' = Updated(NewContact(n, a))
    BY DEF Learn
  <1>2. a \in Addrs \cup {Unusable}
    BY RoutingTableConstants DEF IInv, Addrs
  <1>3. clock < MaxClock /\ clock' = clock + 1 /\ UNCHANGED <<tasks, home>>
    BY DEF Learn, Tick
  <1>4. /\ buckets' \in [Buckets -> Seq(Contact)]
        /\ \A b \in Buckets : GoodBucket(buckets'[b], b) /\ Keeps(buckets[b], buckets'[b])
    BY <1>1, <1>2, <1>3, UpdatedTable
  <1>5. IInv'
    BY <1>3, <1>4, RoutingTableConstants DEF IInv, BucketOf
  <1> QED BY <1>4, <1>5 DEF TableKept

LEMMA ForceUpdateStep ==
  ASSUME IInv, NEW n \in Ids, ForceUpdate(n)
  PROVE  IInv' /\ TableKept
  <1>0. PICK a \in 0..home[n] \cup {Unusable} : buckets' = ForceUpdated(NewContact(n, a))
    BY DEF ForceUpdate
  <1> DEFINE c == NewContact(n, a)
             i == BucketIndex[n]
  <1>1. a \in Addrs \cup {Unusable} /\ clock < MaxClock /\ clock' = clock + 1
        /\ UNCHANGED <<tasks, home>>
    BY RoutingTableConstants DEF IInv, Addrs, ForceUpdate, Tick
  <1>2. c.id = n /\ i \in Buckets /\ BucketOf(c) = i
    BY RoutingTableConstants DEF NewContact, BucketOf
  <1>3. Acceptable(c) => c \in Placed(i)
    BY <1>1, UpdatedTable
  <1>4. buckets' = IF Acceptable(c)
                   THEN [buckets EXCEPT ![i] = KBucketForceUpdate(buckets[i], c)]
                   ELSE buckets
    BY <1>0, <1>2 DEF ForceUpdated, IInv
  <1> HIDE DEF c, i
  <1>5. \A b \in Buckets : Keeps(buckets[b], buckets[b])
    BY LenProperties DEF IInv, Keeps
  <1>6. CASE Acceptable(c)
    <2>1. /\ GoodBucket(KBucketForceUpdate(buckets[i], c), i)
          /\ Keeps(buckets[i], KBucketForceUpdate(buckets[i], c))
      BY <1>2, <1>3, <1>6, ForceUpdateKeeps DEF IInv
    <2>2. KBucketForceUpdate(buckets[i], c) \in Seq(Contact)
      BY <2>1 DEF GoodBucket, Placed
    <2>3. buckets' \in [Buckets -> Seq(Contact)]
      BY <1>2, <1>4, <1>6, <2>2 DEF IInv
    <2>4. \A b \in Buckets : GoodBucket(buckets'[b], b) /\ Keeps(buckets[b], buckets'[b])
      BY <1>2, <1>4, <1>5, <1>6, <2>1 DEF IInv
    <2>5. IInv'
      BY <1>1, <2>3, <2>4, RoutingTableConstants DEF IInv, BucketOf
    <2> QED BY <2>4, <2>5 DEF TableKept
  <1>7. CASE ~Acceptable(c)
    <2>1. IInv'
      BY <1>1, <1>4, <1>7, RoutingTableConstants DEF IInv, BucketOf
    <2> QED BY <1>4, <1>5, <1>7, <2>1 DEF TableKept
  <1> QED BY <1>6, <1>7

(* A late replacement: the shape stays, and other buckets are untouched. *)
LEMMA EvictStep ==
  ASSUME IInv, NEW t \in tasks, Evict(t)
  PROVE  /\ IInv'
         /\ \A b \in Buckets : Len(buckets'[b]) >= Len(buckets[b])
         /\ \A b \in Buckets : b # BucketOf(t.new) => buckets'[b] = buckets[b]
  <1> DEFINE i == BucketOf(t.new)
  <1>1. t.new \in Placed(i) /\ i \in Buckets /\ GoodBucket(buckets[i], i)
    BY RoutingTableConstants DEF IInv, Placed, Contact, Task, BucketOf
  <1>2. buckets' = [buckets EXCEPT ![i] = ReplaceOldest(buckets[i], t.new)]
        /\ tasks' \subseteq tasks /\ UNCHANGED <<home, clock>>
    BY <1>1 DEF Evict, IInv
  <1> HIDE DEF i
  <1>3. /\ GoodBucket(ReplaceOldest(buckets[i], t.new), i)
        /\ Len(ReplaceOldest(buckets[i], t.new)) >= Len(buckets[i])
    BY <1>1, ReplaceKeepsShape
  <1>4. ReplaceOldest(buckets[i], t.new) \in Seq(Contact)
    BY <1>3 DEF GoodBucket, Placed
  <1>5. buckets' \in [Buckets -> Seq(Contact)]
    BY <1>1, <1>2, <1>4 DEF IInv
  <1>6. \A b \in Buckets : GoodBucket(buckets'[b], b)
    BY <1>1, <1>2, <1>3 DEF IInv
  <1>7. \A b \in Buckets : Len(buckets'[b]) >= Len(buckets[b])
    <2>1. \A b \in Buckets : Len(buckets[b]) \in Nat
      BY LenProperties DEF IInv
    <2> QED BY <1>1, <1>2, <1>3, <2>1 DEF IInv
  <1>8. IInv'
    BY <1>2, <1>5, <1>6 DEF IInv, BucketOf
  <1> QED BY <1>1, <1>2, <1>7, <1>8 DEF i, IInv

(* A task that gives up, and a peer that moves, leave the table alone. *)
LEMMA OtherStep ==
  ASSUME IInv, \/ \E t \in tasks : PingTimeout(t)
               \/ \E n \in Ids : Move(n)
               \/ UNCHANGED vars
  PROVE  IInv' /\ TableKept
  <1>1. buckets' = buckets
    BY DEF PingTimeout, Move, vars
  <1>2. TableKept
    BY <1>1, LenProperties DEF IInv, TableKept, Keeps
  <1>3. ASSUME NEW t \in tasks, PingTimeout(t) PROVE IInv'
    <2> DEFINE u == [t EXCEPT !.state = "failed"]
    <2>1. u \in Task /\ u.new = t.new
      BY DEF IInv, Task
    <2>2. tasks' = (tasks \ {t}) \cup {u} /\ UNCHANGED <<buckets, home, clock>>
      BY <1>3 DEF PingTimeout
    <2> HIDE DEF u
    <2> QED BY <2>1, <2>2 DEF IInv, BucketOf
  <1>4. ASSUME NEW n \in Ids, Move(n) PROVE IInv'
    BY <1>4, RoutingTableConstants DEF Move, IInv, Addrs, BucketOf
  <1>5. CASE UNCHANGED vars
    BY <1>2, <1>5 DEF vars, IInv, BucketOf
  <1>6. IInv'
    <2>1. CASE \E t \in tasks : PingTimeout(t)
      BY <1>3, <2>1
    <2>2. CASE \E n \in Ids : Move(n)
      BY <1>4, <2>2
    <2> QED BY <1>5, <2>1, <2>2
  <1> QED BY <1>2, <1>6

-----------------------------------------------------------------------------
(* Every step keeps the invariant, and loses contacts of one bucket only,  *)
(* when a task whose ping failed replaces its head.                        *)
LEMMA NextStep ==
  ASSUME IInv, [Next]_vars
  PROVE  /\ IInv'
         /\ \/ TableKept
            \/ \E t \in tasks : Evict(t)
  <1>1. ASSUME NEW n \in Ids, Receive(n) PROVE IInv' /\ TableKept
    BY <1>1, ArrivalStep DEF Receive
  <1>2. ASSUME NEW t \in tasks, Pong(t) PROVE IInv' /\ TableKept
    <2>1. t.oldest.id \in Ids
      BY DEF IInv, Task, Contact
    <2>2. Arrival(t.oldest.id, tasks \ {t})
      BY <1>2 DEF Pong
    <2> QED BY <2>1, <2>2, ArrivalStep
  <1>3. ASSUME NEW t \in tasks, Evict(t) PROVE IInv'
    BY <1>3, EvictStep
  <1> QED
    BY <1>1, <1>2, <1>3, LearnStep, ForceUpdateStep, OtherStep DEF Next

(* The shape of the table holds at all times. *)
LEMMA Invariance == Spec => []IInv
  <1>1. Init => IInv
    <2> SUFFICES ASSUME Init PROVE IInv
      OBVIOUS
    <2>1. \A b \in Buckets : buckets[b] = <<>>
      BY DEF Init
    <2>2. ASSUME NEW b \in Buckets PROVE GoodBucket(buckets[b], b)
      <3> DEFINE S == Placed(b)
      <3> HIDE DEF S
      <3>0. buckets[b] = <<>> /\ <<>> \in Seq(S) /\ Len(<<>>) = 0
        BY <2>1, EmptySeq
      <3>1. buckets[b] \in Seq(Placed(b)) /\ Len(buckets[b]) = 0
        BY <3>0 DEF S
      <3>2. K \in Nat
        BY RoutingTableConstants
      <3> QED BY <3>1, <3>2 DEF GoodBucket
    <2>3. <<>> \in Seq(Contact)
      BY EmptySeq
    <2> QED BY <2>2, <2>3, RoutingTableConstants DEF Init, IInv, Addrs
  <1>2. IInv /\ [Next]_vars => IInv'
    BY NextStep
  <1> QED BY <1>1, <1>2, PTL DEF Spec

-----------------------------------------------------------------------------
(* Type correctness of the routing table and its tasks. *)
THEOREM TypeCorrect == Spec => []TypeOK
  <1>1. IInv => TypeOK
    BY DEF IInv, TypeOK
  <1> QED BY Invariance, <1>1, PTL

(* No bucket outgrows K, and every contact is in its bucket, is not the    *)
(* node itself and can be sent to, also when replace_oldest runs late and  *)
(* on a bucket that has changed since the ping.                            *)
THEOREM TableShape == Spec => []BucketsSound
  <1>1. IInv => BucketsSound
    <2> SUFFICES ASSUME IInv, NEW b \in Buckets
                 PROVE  /\ Len(buckets[b]) <= K
                        /\ \A i \in 1..Len(buckets[b]) : buckets[b][i] \in Placed(b)
      BY DEF BucketsSound, BucketsBounded, WellPlaced, Placed
    <2> QED BY ElementOfSeq DEF IInv, GoodBucket
  <1> QED BY Invariance, <1>1, PTL

(* A bucket never shrinks, and a contact is only lost to a task whose ping *)
(* into the contact's own bucket failed.                                   *)
THEOREM OnlyEvictionRemovesHolds == Spec => OnlyEvictionRemoves
  <1> DEFINE A == /\ \A b \in Buckets : Len(buckets'[b]) >= Len(buckets[b])
                  /\ \A n \in Known \ Known' :
                       \E t \in tasks : /\ t.state = "failed"
                                        /\ BucketOf(t.new) = BucketIndex[n]
                                        /\ tasks' = tasks \ {t}
  <1>1. ASSUME IInv, [Next]_vars PROVE [A]_vars
    <2>1. CASE TableKept
      BY <2>1 DEF TableKept, Keeps, Known, Ids
    <2>2. ASSUME NEW t \in tasks, Evict(t) PROVE A
      <3>1. /\ \A b \in Buckets : Len(buckets'[b]) >= Len(buckets[b])
            /\ \A b \in Buckets : b # BucketOf(t.new) => buckets'[b] = buckets[b]
        BY <1>1, <2>2, EvictStep
      <3>2. ASSUME NEW n \in Known \ Known' PROVE BucketOf(t.new) = BucketIndex[n]
        <4>1. PICK b \in Buckets : Has(buckets[b], n)
          BY <3>2 DEF Known
        <4>2. b = BucketIndex[n]
          <5>1. PICK i \in 1..Len(buckets[b]) : buckets[b][i].id = n
            BY <4>1 DEF Has
          <5>2. buckets[b][i] \in Placed(b)
            BY <1>1, ElementOfSeq DEF IInv, GoodBucket
          <5> QED BY <5>1, <5>2 DEF Placed
        <4>3. buckets'[b] # buckets[b]
          BY <3>2, <4>1 DEF Known
        <4> QED BY <3>1, <4>2, <4>3
      <3> QED BY <2>2, <3>1, <3>2 DEF Evict
    <2> QED BY <1>1, <2>1, <2>2, NextStep
  <1>2. IInv /\ [Next]_vars => [A]_vars
    BY <1>1
  <1>3. Spec => [][A]_vars
    BY Invariance, <1>2, PTL DEF Spec
  <1> QED BY <1>3 DEF OnlyEvictionRemoves

-----------------------------------------------------------------------------
(***************************************************************************)
(* The shortlist.                                                          *)
(***************************************************************************)
States == {"Unqueried", "InFlight", "Queried", "Failed"}
Listed == [peer : LookupPeers, state : States]

SortedList(s) == \A i, j \in 1..Len(s) : i < j => s[i].peer <= s[j].peer
Lists == {s \in Seq(Listed) : SortedList(s)}

LEMMA ListTypes ==
  ASSUME NEW s \in Lists
  PROVE  /\ s \in Seq(Listed) /\ Len(s) \in Nat
         /\ \A i \in 1..Len(s) : s[i] \in Listed /\ s[i].peer \in LookupPeers
  <1>1. s \in Seq(Listed)
    BY DEF Lists
  <1>2. \A i \in 1..Len(s) : s[i] \in Listed
    BY <1>1, ElementOfSeq
  <1>3. \A c \in Listed : c.peer \in LookupPeers
    BY DEF Listed
  <1> QED BY <1>1, <1>2, <1>3, LenProperties

LEMMA PeersAreNumbers == LookupPeers \subseteq Int
  BY DEF LookupPeers

(* A sorted shortlist has a place for every peer. *)
LEMMA PlaceFound ==
  ASSUME NEW s \in Lists, NEW p \in LookupPeers
  PROVE  /\ Place(s, p) \in 1..(Len(s) + 1)
         /\ \A i \in 1..(Place(s, p) - 1) : s[i].peer <= p
         /\ \A i \in Place(s, p)..Len(s) : s[i].peer > p
  <1>1. /\ Len(s) \in Nat /\ p \in Int
        /\ \A i \in 1..Len(s) : s[i].peer \in Int
    BY ListTypes, PeersAreNumbers
  <1> DEFINE T == {k \in 1..(Len(s) + 1) : \A i \in k..Len(s) : s[i].peer > p}
  <1>2. T \subseteq Nat /\ Len(s) + 1 \in T
    BY <1>1
  <1>3. PICK k \in T : \A m \in T : k <= m
    <2> HIDE DEF T
    <2> QED BY <1>2, LeastNatural
  <1>4. k \in 1..(Len(s) + 1) /\ \A i \in k..Len(s) : s[i].peer > p
    BY <1>3
  <1>5. ASSUME NEW i \in 1..(k - 1) PROVE s[i].peer <= p
    <2>1. k - 1 \in 1..Len(s) /\ i \in 1..Len(s) /\ ~(k <= k - 1)
      BY <1>1, <1>4
    <2>2. k - 1 \notin T
      BY <1>3, <2>1
    <2>3. PICK j \in (k - 1)..Len(s) : ~(s[j].peer > p)
      BY <2>1, <2>2
    <2>4. j \in 1..Len(s) /\ (i < j \/ i = j)
      BY <1>1, <1>4, <2>1, <2>3
    <2>5. s[i].peer <= s[j].peer
      BY <1>1, <2>1, <2>4 DEF Lists, SortedList
    <2> QED BY <1>1, <2>1, <2>3, <2>4, <2>5
  <1>6. \E m \in 1..(Len(s) + 1) :
          (\A i \in 1..(m - 1) : s[i].peer <= p) /\ \A i \in m..Len(s) : s[i].peer > p
    BY <1>4, <1>5
  <1> QED BY <1>6 DEF Place

(* Adding a peer at its place keeps the order, and the head unless the     *)
(* peer is the new head.                                                   *)
Added(s, p) == InsertAt(s, Place(s, p), Candidate(p))

LEMMA AddedProperties ==
  ASSUME NEW s \in Lists, NEW p \in LookupPeers
  PROVE  /\ Added(s, p) \in Lists
         /\ Len(Added(s, p)) = Len(s) + 1
         /\ \A i \in 1..(Len(s) + 1) :
              Added(s, p)[i] = Candidate(p) \/ \E j \in 1..Len(s) : Added(s, p)[i] = s[j]
         /\ \A j \in 1..Len(s) : \E i \in 1..(Len(s) + 1) : Added(s, p)[i] = s[j]
         /\ \E i \in 1..(Len(s) + 1) : Added(s, p)[i] = Candidate(p)
         /\ Added(s, p)[1] = Candidate(p) \/ (s # <<>> /\ Added(s, p)[1] = s[1])
  <1> DEFINE k == Place(s, p)
             n == Len(s)
             e == Candidate(p)
             a == Added(s, p)
  <1>1. s \in Seq(Listed) /\ e \in Listed /\ e.peer = p
    BY DEF Lists, Candidate, Listed, States
  <1>2. /\ n \in Nat /\ p \in Int
        /\ \A i \in 1..n : s[i] \in Listed /\ s[i].peer \in Int
    BY ListTypes, PeersAreNumbers
  <1>3. /\ k \in 1..(n + 1)
        /\ \A i \in 1..(k - 1) : s[i].peer <= p
        /\ \A i \in k..n : s[i].peer > p
    BY PlaceFound
  <1>4. \A i, j \in 1..n : i < j => s[i].peer <= s[j].peer
    BY DEF Lists, SortedList
  <1> HIDE DEF k, e
  <1>5. /\ a \in Seq(Listed) /\ Len(a) = n + 1
        /\ \A i \in 1..(n + 1) : a[i] = IF i < k THEN s[i] ELSE IF i = k THEN e ELSE s[i-1]
    <2>1. a = InsertAt(s, k, e)
      BY DEF Added, k, e
    <2>2. s \in Seq(Listed) /\ e \in Listed /\ k \in 1..(Len(s) + 1)
      BY <1>1, <1>3
    <2> HIDE DEF a
    <2>3. /\ InsertAt(s, k, e) \in Seq(Listed) /\ Len(InsertAt(s, k, e)) = Len(s) + 1
          /\ \A i \in 1..(Len(s) + 1) :
               InsertAt(s, k, e)[i] = IF i < k THEN s[i] ELSE IF i = k THEN e ELSE s[i-1]
      BY <2>2, InsertAtElements
    <2> QED BY <2>1, <2>3
  <1> HIDE DEF n, a
  <1>6. ASSUME NEW i \in 1..(n + 1)
        PROVE  \/ i < k /\ a[i] = s[i] /\ i \in 1..n
               \/ i = k /\ a[i] = e
               \/ i > k /\ a[i] = s[i-1] /\ i - 1 \in 1..n
    BY <1>2, <1>3, <1>5
  <1>7. ASSUME NEW i \in 1..(n + 1), NEW j \in 1..(n + 1), i < j
        PROVE  a[i].peer <= a[j].peer
    <2>1. CASE i < k /\ j < k
      <3>1. a[i] = s[i] /\ a[j] = s[j] /\ i \in 1..n /\ j \in 1..n
        BY <1>2, <1>3, <1>6, <2>1
      <3> QED BY <1>4, <1>7, <3>1
    <2>2. CASE i < k /\ j = k
      <3>1. a[i] = s[i] /\ a[j] = e /\ i \in 1..(k-1)
        BY <1>2, <1>3, <1>6, <2>2
      <3> QED BY <1>1, <1>3, <3>1
    <2>3. CASE i < k /\ j > k
      <3>1. a[i] = s[i] /\ a[j] = s[j-1] /\ i \in 1..n /\ j-1 \in 1..n /\ i < j-1
        BY <1>2, <1>3, <1>6, <2>3
      <3> QED BY <1>4, <3>1
    <2>4. CASE i = k /\ j > k
      <3>1. a[i] = e /\ a[j] = s[j-1] /\ j-1 \in k..n /\ j-1 \in 1..n
        BY <1>2, <1>3, <1>6, <2>4
      <3>2. s[j-1].peer > p /\ s[j-1].peer \in Int
        BY <1>2, <1>3, <3>1
      <3> QED BY <1>1, <1>2, <3>1, <3>2
    <2>5. CASE i > k /\ j > k
      <3>1. a[i] = s[i-1] /\ a[j] = s[j-1] /\ i-1 \in 1..n /\ j-1 \in 1..n /\ i-1 < j-1
        BY <1>2, <1>3, <1>6, <1>7, <2>5
      <3> QED BY <1>4, <3>1
    <2>6. i \in Int /\ j \in Int /\ k \in Int
      BY <1>2, <1>3
    <2> QED BY <1>7, <2>1, <2>2, <2>3, <2>4, <2>5, <2>6
  <1>8. a \in Lists
    <2>1. \A i, j \in 1..Len(a) : i < j => a[i].peer <= a[j].peer
      BY <1>5, <1>7
    <2> QED BY <1>5, <2>1 DEF Lists, SortedList
  <1>9. ASSUME NEW j \in 1..n PROVE \E i \in 1..(n + 1) : a[i] = s[j]
    <2>1. CASE j < k
      <3>1. j \in 1..(n + 1) /\ a[j] = s[j]
        BY <1>2, <1>5, <2>1
      <3> QED BY <3>1
    <2>2. CASE j >= k
      <3>1. j + 1 \in 1..(n + 1) /\ ~(j + 1 < k) /\ j + 1 # k /\ (j + 1) - 1 = j
        BY <1>2, <1>3, <2>2
      <3>2. a[j + 1] = s[j]
        BY <1>5, <3>1
      <3> QED BY <3>1, <3>2
    <2>3. j < k \/ j >= k
      BY <1>2, <1>3
    <2> QED BY <2>1, <2>2, <2>3, Zenon
  <1>10. a[k] = e
    BY <1>2, <1>3, <1>5
  <1>11. a[1] = e \/ (s # <<>> /\ a[1] = s[1])
    <2>1. 1 \in 1..(n + 1) /\ (k = 1 \/ 1 < k)
      BY <1>2, <1>3
    <2>2. CASE k = 1
      BY <1>10, <2>2
    <2>3. CASE 1 < k
      <3>1. a[1] = s[1] /\ n # 0
        BY <1>2, <1>3, <1>5, <2>1, <2>3
      <3> QED BY <1>1, <3>1, EmptySeq DEF n
    <2> QED BY <2>1, <2>2, <2>3
  <1>12. \A i \in 1..(n + 1) : a[i] = e \/ \E j \in 1..n : a[i] = s[j]
    BY <1>6
  <1> QED BY <1>3, <1>5, <1>8, <1>9, <1>10, <1>11, <1>12 DEF n, a, e

-----------------------------------------------------------------------------
(* What the shortlist goes through while the new peers are added.          *)
LEMMA ExtendedUnfolds ==
  ASSUME shortlist \in Lists
  PROVE  \E c : /\ c[0] = shortlist
                /\ \A p \in 1..Far :
                     c[p] = IF p \in NewPeers THEN Added(c[p-1], p) ELSE c[p-1]
                /\ Extended = c[Far]
  <1> DEFINE n == Far
             new == NewPeers
             at == [p \in LookupPeers |-> p]
             Step(x, p) == IF p \in new THEN Added(x, p) ELSE x
             G == [p \in 1..n |-> [x \in Lists |-> Step(x, p)]]
             Fold(f) == f = [t \in SUBSET (1..n) |->
                               IF t = {} THEN shortlist ELSE Step(f[t \ {Max(t)}], at[Max(t)])]
             h == CHOOSE f : Fold(f)
  <1>1. n \in Nat /\ DOMAIN at = 1..n /\ \A p \in 1..n : at[p] = p
    BY LookupAssumption DEF LookupPeers
  <1>2. \E f : Fold(f)
    <2>1. \A p \in 1..n : \A x \in Lists : Step(x, p) \in Lists
      BY AddedProperties DEF LookupPeers
    <2>2. \A p \in 1..n : \A x \in Lists : G[p][x] \in Lists
      BY <2>1
    <2> HIDE DEF n, G, at
    <2>3. PICK f \in [SUBSET (1..n) -> Lists] : IsFold(f, n, shortlist, G)
      BY <1>1, <2>2, FoldsExist, Zenon
    <2>4. ASSUME NEW t \in SUBSET (1..n), t # {}
          PROVE  G[Max(t)][f[t \ {Max(t)}]] = Step(f[t \ {Max(t)}], at[Max(t)])
      <3>1. Max(t) \in 1..n
        BY <1>1, <2>4, GreatestPosition
      <3>2. f[t \ {Max(t)}] \in Lists
        BY <2>3
      <3>3. at[Max(t)] = Max(t)
        BY <1>1, <3>1
      <3> HIDE DEF Step
      <3> QED BY <3>1, <3>2, <3>3 DEF G
    <2>5. Fold(f)
      <3> HIDE DEF Step
      <3> QED BY <2>3, <2>4 DEF IsFold
    <2> HIDE DEF Fold
    <2> QED BY <2>5
  <1>3. Fold(h)
    <2> HIDE DEF Fold
    <2> QED BY <1>2
  <1>4. Extended = h[1..n]
    BY <1>1 DEF Extended, FoldLeft, MapThenFoldSet, Added
  <1> DEFINE c == [k \in 0..n |-> h[1..k]]
  <1> HIDE DEF h
  <1>5. c[0] = shortlist
    <2>1. 1..0 = {} /\ 0 \in 0..n
      BY <1>1
    <2> QED BY <1>3, <2>1
  <1>6. ASSUME NEW k \in 1..n PROVE c[k] = Step(c[k-1], k)
    <2>1. Max(1..k) = k /\ (1..k) \ {k} = 1..(k-1) /\ 1..k # {}
      BY LastOfPrefix
    <2>2. k \in 0..n /\ k - 1 \in 0..n /\ 1..k \in SUBSET (1..n) /\ at[k] = k
      BY <1>1
    <2>3. h[1..k] = Step(h[1..(k-1)], at[k])
      <3> HIDE DEF n, Step, at
      <3> QED BY <1>3, <2>1, <2>2
    <2> HIDE DEF Step, n
    <2> QED BY <2>2, <2>3
  <1>7. Extended = c[n]
    BY <1>1, <1>4
  <1> HIDE DEF c
  <1>8. /\ c[0] = shortlist
        /\ \A p \in 1..Far :
             c[p] = IF p \in NewPeers THEN Added(c[p-1], p) ELSE c[p-1]
        /\ Extended = c[Far]
    BY <1>5, <1>6, <1>7
  <1> QED BY <1>8, Zenon

(* s has every candidate of the shortlist, the peers of new, and no other. *)
Extends(s, new) ==
  /\ s \in Lists
  /\ \A i \in 1..Len(s) :
       \/ \E p \in new : s[i] = Candidate(p)
       \/ \E j \in 1..Len(shortlist) : s[i] = shortlist[j]
  /\ \A j \in 1..Len(shortlist) : \E i \in 1..Len(s) : s[i] = shortlist[j]
  /\ \A p \in new : \E i \in 1..Len(s) : s[i] = Candidate(p)
  /\ s # <<>> => s[1].state = "Unqueried" \/ (shortlist # <<>> /\ s[1] = shortlist[1])

LEMMA ExtendsByOne ==
  ASSUME NEW s, NEW new, Extends(s, new), NEW p \in LookupPeers
  PROVE  Extends(Added(s, p), new \cup {p})
  <1> DEFINE a == Added(s, p)
             n == Len(s)
  <1>1. s \in Lists /\ n \in Nat
    BY ListTypes DEF Extends
  <1>2. /\ a \in Lists /\ Len(a) = n + 1
        /\ \A i \in 1..(n + 1) : a[i] = Candidate(p) \/ \E j \in 1..n : a[i] = s[j]
        /\ \A j \in 1..n : \E i \in 1..(n + 1) : a[i] = s[j]
        /\ \E i \in 1..(n + 1) : a[i] = Candidate(p)
        /\ a[1] = Candidate(p) \/ (s # <<>> /\ a[1] = s[1])
    BY <1>1, AddedProperties
  <1> HIDE DEF a
  <1>3. ASSUME NEW i \in 1..Len(a)
        PROVE  \/ \E q \in new \cup {p} : a[i] = Candidate(q)
               \/ \E j \in 1..Len(shortlist) : a[i] = shortlist[j]
    <2>1. CASE a[i] = Candidate(p)
      BY <2>1
    <2>2. CASE \E j \in 1..n : a[i] = s[j]
      <3>1. PICK j \in 1..n : a[i] = s[j]
        BY <2>2
      <3>2. \/ \E q \in new : s[j] = Candidate(q)
            \/ \E m \in 1..Len(shortlist) : s[j] = shortlist[m]
        BY <3>1 DEF Extends
      <3> QED BY <3>1, <3>2
    <2> QED BY <1>2, <2>1, <2>2
  <1>4. ASSUME NEW j \in 1..Len(shortlist) PROVE \E i \in 1..Len(a) : a[i] = shortlist[j]
    <2>1. PICK k \in 1..n : s[k] = shortlist[j]
      BY DEF Extends
    <2> QED BY <1>2, <2>1
  <1>5. ASSUME NEW q \in new \cup {p} PROVE \E i \in 1..Len(a) : a[i] = Candidate(q)
    <2>1. CASE q \in new
      <3>1. PICK k \in 1..n : s[k] = Candidate(q)
        BY <2>1 DEF Extends
      <3> QED BY <1>2, <3>1
    <2>2. CASE q = p
      BY <1>2, <2>2
    <2> QED BY <2>1, <2>2
  <1>6. a[1].state = "Unqueried" \/ (shortlist # <<>> /\ a[1] = shortlist[1])
    <2>1. Candidate(p).state = "Unqueried"
      BY DEF Candidate
    <2>2. s # <<>> => s[1].state = "Unqueried" \/ (shortlist # <<>> /\ s[1] = shortlist[1])
      BY DEF Extends
    <2> QED BY <1>2, <2>1, <2>2
  <1>7. Extends(a, new \cup {p})
    BY <1>2, <1>3, <1>4, <1>5, <1>6 DEF Extends
  <1> QED BY <1>7 DEF a

LEMMA ExtendedProperties ==
  ASSUME shortlist \in Lists, learned \subseteq LookupPeers
  PROVE  Extends(Extended, NewPeers)
  <1>1. PICK c : /\ c[0] = shortlist
                 /\ \A p \in 1..Far :
                      c[p] = IF p \in NewPeers THEN Added(c[p-1], p) ELSE c[p-1]
                 /\ Extended = c[Far]
    BY ExtendedUnfolds
  <1> DEFINE N == NewPeers
             Upto(k) == N \cap (1..k)
             T == {k \in 0..Far : Extends(c[k], Upto(k))}
  <1>2. Far \in Nat /\ N \subseteq 1..Far
    BY LookupAssumption DEF NewPeers, LookupPeers
  <1> HIDE DEF N
  <1>3. 0 \in T
    <2>1. Upto(0) = {}
      BY <1>2
    <2>2. Extends(shortlist, {})
      BY DEF Extends
    <2> HIDE DEF Upto
    <2> QED BY <1>1, <1>2, <2>1, <2>2
  <1>4. ASSUME NEW k \in 0..(Far-1), k \in T PROVE k + 1 \in T
    <2>1. k + 1 \in 0..Far /\ k + 1 \in 1..Far /\ (k + 1) - 1 = k /\ k + 1 \in LookupPeers
      BY <1>2 DEF LookupPeers
    <2>2. c[k+1] = IF k + 1 \in N THEN Added(c[k], k + 1) ELSE c[k]
      BY <1>1, <2>1 DEF N
    <2>3. CASE k + 1 \in N
      <3>1. Upto(k + 1) = Upto(k) \cup {k + 1}
        BY <1>2, <2>3
      <3> HIDE DEF Upto
      <3>2. Extends(Added(c[k], k + 1), Upto(k) \cup {k + 1})
        BY <1>4, <2>1, ExtendsByOne
      <3> QED BY <2>1, <2>2, <2>3, <3>1, <3>2
    <2>4. CASE k + 1 \notin N
      <3>1. Upto(k + 1) = Upto(k)
        BY <1>2, <2>4
      <3> HIDE DEF Upto
      <3> QED BY <1>4, <2>1, <2>2, <2>4, <3>1
    <2> QED BY <2>3, <2>4
  <1> HIDE DEF T
  <1>5. 0..Far \subseteq T
    BY <1>2, <1>3, <1>4, ReachesAll
  <1>6. Extends(c[Far], Upto(Far))
    BY <1>2, <1>5 DEF T
  <1>7. Upto(Far) = N
    BY <1>2
  <1> QED BY <1>1, <1>6, <1>7 DEF N

-----------------------------------------------------------------------------
(***************************************************************************)
(* The inductive invariant.  A peer that is not the closest and answered   *)
(* named a closer one: it is in the shortlist, or will be at the end of    *)
(* the hop.  The head of the shortlist is in flight only as long as a call *)
(* to its peer is: with a peer twice in the list, the calls mark the first *)
(* of the two, and the second stays in flight forever.                     *)
(***************************************************************************)
Named == learned \cup {shortlist[i].peer : i \in 1..Len(shortlist)}

Answered ==
  phase # "done" =>
    \A i \in 1..Len(shortlist) :
      shortlist[i].state = "Queried" /\ shortlist[i].peer # 1
        => \E q \in Named : q < shortlist[i].peer

HeadAwaited ==
  phase # "done" /\ shortlist # <<>> /\ shortlist[1].state = "InFlight"
    => asked[shortlist[1].peer] > 0

NothingUnderWay ==
  phase = "choose" => learned = {} /\ \A p \in LookupPeers : asked[p] = 0

LookupInv ==
  /\ LookupTypeOK
  /\ shortlist \in Lists
  /\ learned \subseteq LookupPeers
  /\ Answered
  /\ HeadAwaited
  /\ NothingUnderWay
  /\ FindsClosest

-----------------------------------------------------------------------------
(* s and r list the same peers, in the same order. *)
SamePeers(r, s) == r \in Lists /\ Len(r) = Len(s) /\ \A i \in 1..Len(s) : r[i].peer = s[i].peer

(* The first candidate with the peer's id is marked, and no other. *)
LEMMA Marked ==
  ASSUME shortlist \in Lists, NEW p \in LookupPeers, NEW state \in States, Mark(p, state)
  PROVE  /\ SamePeers(shortlist', shortlist)
         /\ \A i \in 1..Len(shortlist) :
              \/ shortlist'[i] = shortlist[i]
              \/ shortlist[i].peer = p /\ shortlist'[i].state = state
         /\ shortlist # <<>> =>
              IF shortlist[1].peer = p THEN shortlist'[1].state = state
                                       ELSE shortlist'[1] = shortlist[1]
  <1> DEFINE n == Len(shortlist)
             at == {i \in DOMAIN shortlist : shortlist[i].peer = p}
             First(i) == i \in at /\ \A j \in at : i <= j
             new(i) == IF First(i) THEN [shortlist[i] EXCEPT !.state = state] ELSE shortlist[i]
  <1>1. /\ n \in Nat /\ DOMAIN shortlist = 1..n
        /\ \A i \in 1..n : shortlist[i] \in Listed
    BY ListTypes, LenProperties
  <1>2. shortlist' = [i \in 1..n |-> new(i)]
    BY <1>1 DEF Mark
  <1>3. \A i \in 1..n :
          /\ new(i) \in Listed /\ new(i).peer = shortlist[i].peer
          /\ First(i) => new(i).state = state
          /\ ~First(i) => new(i) = shortlist[i]
    <2> SUFFICES ASSUME NEW i \in 1..n
                 PROVE  /\ new(i) \in Listed /\ new(i).peer = shortlist[i].peer
                        /\ First(i) => new(i).state = state
                        /\ ~First(i) => new(i) = shortlist[i]
      OBVIOUS
    <2>1. shortlist[i] \in Listed
      BY <1>1
    <2>2. LET e == [shortlist[i] EXCEPT !.state = state]
          IN  e \in Listed /\ e.peer = shortlist[i].peer /\ e.state = state
      BY <2>1 DEF Listed
    <2> HIDE DEF First
    <2> QED BY <2>1, <2>2
  <1>4. \A i \in 1..n : First(i) => shortlist[i].peer = p
    BY <1>1
  <1>5. shortlist # <<>> => 1 \in 1..n /\ (First(1) <=> shortlist[1].peer = p)
    <2>1. shortlist # <<>> => 1 \in 1..n
      BY <1>1, EmptySeq, ListTypes
    <2>2. \A j \in at : 1 <= j
      BY <1>1
    <2> QED BY <1>1, <2>1, <2>2
  <1> HIDE DEF First, new
  <1>6. SamePeers(shortlist', shortlist)
    <2>1. shortlist' \in [1..n -> Listed]
      BY <1>2, <1>3
    <2>2. shortlist' \in Seq(Listed) /\ Len(shortlist') = n
      BY <1>1, <2>1, FunctionIsSeq
    <2>3. \A i \in 1..n : shortlist'[i].peer = shortlist[i].peer
      BY <1>2, <1>3
    <2> QED BY <2>2, <2>3 DEF SamePeers, Lists, SortedList
  <1>7. \A i \in 1..n :
          \/ shortlist'[i] = shortlist[i]
          \/ shortlist[i].peer = p /\ shortlist'[i].state = state
    BY <1>2, <1>3, <1>4
  <1>8. shortlist # <<>> =>
          IF shortlist[1].peer = p THEN shortlist'[1].state = state
                                   ELSE shortlist'[1] = shortlist[1]
    BY <1>2, <1>3, <1>5
  <1> QED BY <1>6, <1>7, <1>8

(* A hop has at most ALPHA calls, and the head is called if it was not. *)
LEMMA ChosenProperties ==
  ASSUME shortlist \in Lists
  PROVE  /\ Chosen \subseteq 1..Len(shortlist)
         /\ \A T \in SUBSET Chosen : IsFiniteSet(T) /\ Cardinality(T) \in 0..ALPHA
         /\ shortlist # <<>> /\ shortlist[1].state = "Unqueried" => 1 \in Chosen
  <1> DEFINE n == Len(shortlist)
             Before(i) == {j \in Unqueried : j < i}
  <1>1. n \in Nat /\ DOMAIN shortlist = 1..n /\ ALPHA \in Nat /\ ALPHA # 0
    BY ListTypes, LenProperties, LookupAssumption
  <1>2. Chosen \subseteq Unqueried /\ Unqueried \subseteq 1..n
    BY <1>1 DEF Chosen, Unqueried, InState
  <1>3. IsFiniteSet(1..n) /\ IsFiniteSet(Unqueried) /\ IsFiniteSet(Chosen)
    <2>1. IsFiniteSet(1..n)
      BY <1>1, FS_Interval
    <2> QED BY <1>2, <2>1, FS_Subset
  <1>4. Cardinality(Chosen) \in 0..ALPHA
    <2>1. CASE Chosen = {}
      BY <1>1, <2>1, FS_EmptySet
    <2>2. CASE Chosen # {}
      <3> DEFINE m == Max(Chosen)
      <3>1. m \in Chosen /\ \A y \in Chosen : m >= y
        BY <1>1, <1>2, <2>2, GreatestPosition
      <3> HIDE DEF m
      <3>2. IsFiniteSet(Before(m)) /\ Cardinality(Before(m)) \in Nat /\ Cardinality(Before(m)) < ALPHA
        <4>1. Before(m) \in SUBSET Unqueried
          OBVIOUS
        <4>2. IsFiniteSet(Before(m)) /\ Cardinality(Before(m)) \in Nat
          BY <1>3, <4>1, FS_Subset, FS_CardinalityType
        <4>3. Cardinality(Before(m)) < ALPHA
          <5> HIDE DEF Before
          <5>1. Chosen = {i \in Unqueried : Cardinality(Before(i)) < ALPHA}
            BY DEF Chosen, Before
          <5> QED BY <3>1, <5>1
        <4> QED BY <4>2, <4>3
      <3>3. Chosen \in SUBSET (Before(m) \cup {m})
        <4>1. \A y \in Chosen : y \in Nat /\ m \in Nat
          BY <1>1, <1>2, <3>1
        <4> QED BY <1>2, <3>1, <4>1
      <3> HIDE DEF Before
      <3>4. IsFiniteSet(Before(m) \cup {m}) /\ Cardinality(Before(m) \cup {m}) <= Cardinality(Before(m)) + 1
        <4> DEFINE B == Before(m)
        <4>1. IsFiniteSet(B) /\ Cardinality(B) \in Nat
          BY <3>2
        <4> HIDE DEF B
        <4>2. /\ IsFiniteSet(B \cup {m})
              /\ Cardinality(B \cup {m}) = IF m \in B THEN Cardinality(B) ELSE Cardinality(B)+1
          BY <4>1, FS_AddElement
        <4>3. Cardinality(B \cup {m}) <= Cardinality(B) + 1
          BY <4>1, <4>2
        <4> QED BY <4>2, <4>3 DEF B
      <3>5. Cardinality(Chosen) <= Cardinality(Before(m) \cup {m})
        BY <3>3, <3>4, FS_Subset
      <3>6. Cardinality(Chosen) \in Nat /\ Cardinality(Before(m) \cup {m}) \in Nat
        BY <1>3, <3>4, FS_CardinalityType
      <3> QED BY <1>1, <3>2, <3>4, <3>5, <3>6
    <2> QED BY <2>1, <2>2
  <1>5. ASSUME NEW T \in SUBSET Chosen
        PROVE  IsFiniteSet(T) /\ Cardinality(T) \in 0..ALPHA
    <2>1. IsFiniteSet(T) /\ Cardinality(T) <= Cardinality(Chosen)
      BY <1>3, FS_Subset
    <2>2. Cardinality(T) \in Nat
      BY <2>1, FS_CardinalityType
    <2> QED BY <1>1, <1>4, <2>1, <2>2
  <1>6. ASSUME shortlist # <<>>, shortlist[1].state = "Unqueried"
        PROVE  1 \in Chosen
    <2>1. 1 \in 1..n /\ 1 \in Unqueried
      <3>1. shortlist \in Seq(Listed)
        BY ListTypes
      <3> QED BY <1>1, <1>6, <3>1, EmptySeq DEF Unqueried, InState
    <2>2. Before(1) = {}
      <3>1. \A j \in Unqueried : ~(j < 1)
        BY <1>1, <1>2
      <3> QED BY <3>1
    <2>3. Cardinality(Before(1)) = 0
      BY <2>2, FS_EmptySet
    <2> HIDE DEF Before
    <2>4. Chosen = {i \in Unqueried : Cardinality(Before(i)) < ALPHA}
      BY DEF Chosen, Before
    <2> QED BY <1>1, <2>1, <2>3, <2>4
  <1> QED BY <1>2, <1>5, <1>6

(* The lookup returns the closest peer if it is the head of the shortlist  *)
(* and no call failed.                                                     *)
LEMMA ResultHasHead ==
  ASSUME NEW s \in Lists, s # <<>>, InState(s, "Failed") = {}, s[1].peer = 1
  PROVE  Len(Result(s)) <= LookupK /\ 1 \in ToSet(Result(s))
  <1> DEFINE n == Len(s)
             good == {c \in ToSet(s) : c.state # "Failed"}
             k == IF n < LookupK THEN n ELSE LookupK
             known == TopK(s)
             r == [i \in DOMAIN known |-> known[i].peer]
  <1>1. /\ s \in Seq(Listed) /\ n \in Nat /\ n # 0 /\ DOMAIN s = 1..n
        /\ \A i \in 1..n : s[i] \in Listed
        /\ LookupK \in Nat /\ LookupK # 0
    BY ListTypes, LenProperties, EmptySeq, LookupAssumption
  <1>2. \A i \in 1..n : s[i] \in good
    BY <1>1 DEF InState, ToSet
  <1>3. Picked(s, good) = s
    <2> HIDE DEF good
    <2> QED BY <1>1, <1>2, PickedProperties
  <1>4. Result(s) = r
    BY <1>3 DEF Result
  <1>5. k \in Nat /\ 1 <= k /\ k <= n /\ k <= LookupK
    BY <1>1
  <1> HIDE DEF k
  <1>6. known \in Seq(Listed) /\ Len(known) = k /\ known[1] = s[1]
    <2>1. known = SubSeq(s, 1, k)
      BY DEF TopK, k
    <2>2. \A i \in 1..k : s[i] \in Listed
      BY <1>1, <1>5
    <2>3. /\ SubSeq(s, 1, k) \in Seq(Listed)
          /\ Len(SubSeq(s, 1, k)) = IF 1 <= k THEN k - 1 + 1 ELSE 0
          /\ \A i \in 1..(k - 1 + 1) : SubSeq(s, 1, k)[i] = s[1 + i - 1]
      BY <1>5, <2>2, SubSeqProperties
    <2> HIDE DEF known
    <2>4. 1 \in 1..(k - 1 + 1) /\ 1 + 1 - 1 = 1 /\ k - 1 + 1 = k
      BY <1>5
    <2>5. SubSeq(s, 1, k)[1] = s[1]
      BY <2>3, <2>4
    <2> QED BY <1>5, <2>1, <2>3, <2>4, <2>5
  <1> HIDE DEF known
  <1>7. DOMAIN known = 1..k
    BY <1>6, LenProperties
  <1>8. r \in [1..k -> LookupPeers]
    <2>1. \A i \in 1..k : known[i] \in Listed
      BY <1>6, ElementOfSeq
    <2> QED BY <1>7, <2>1 DEF Listed
  <1>9. r \in Seq(LookupPeers) /\ Len(r) = k
    <2> HIDE DEF r
    <2> QED BY <1>5, <1>8, FunctionIsSeq
  <1>10. 1 \in DOMAIN r /\ r[1] = 1
    BY <1>5, <1>6, <1>7
  <1> HIDE DEF r
  <1> QED BY <1>4, <1>5, <1>9, <1>10 DEF ToSet

-----------------------------------------------------------------------------
LEMMA LookupInitially == LookupInit => LookupInv
  <1> SUFFICES ASSUME LookupInit PROVE LookupInv
    OBVIOUS
  <1>1. PICK s \in Starts : shortlist = [i \in DOMAIN s |-> Candidate(s[i])]
    BY DEF LookupInit
  <1>2. PICK n \in Nat : s \in [1..n -> LookupPeers]
    BY LookupAssumption DEF Starts, BoundedSeq, SeqOf
  <1>3. \A i, j \in 1..n : i < j => s[i] <= s[j]
    BY <1>1, <1>2 DEF Starts
  <1>4. shortlist \in [1..n -> Listed] /\ \A i \in 1..n : shortlist[i] = Candidate(s[i])
    BY <1>1, <1>2 DEF Candidate, Listed, States
  <1>5. shortlist \in Seq(Listed) /\ Len(shortlist) = n
    BY <1>4, FunctionIsSeq
  <1>6. \A i \in 1..n : shortlist[i].peer = s[i] /\ shortlist[i].state = "Unqueried"
    BY <1>4 DEF Candidate
  <1>7. shortlist \in Lists
    BY <1>3, <1>5, <1>6 DEF Lists, SortedList
  <1>8. LookupTypeOK
    <2>1. \A i \in DOMAIN shortlist :
            shortlist[i].peer \in LookupPeers /\ shortlist[i].state = "Unqueried"
      BY <1>2, <1>4, <1>6
    <2>2. asked \in [LookupPeers -> 0..ALPHA]
      BY LookupAssumption DEF LookupInit
    <2> QED BY <2>1, <2>2 DEF LookupInit, LookupTypeOK
  <1>9. shortlist # <<>> => 1 \in 1..n
    BY <1>5, EmptySeq
  <1>10. Answered /\ HeadAwaited
    BY <1>5, <1>6, <1>9 DEF Answered, HeadAwaited
  <1> QED BY <1>7, <1>8, <1>10 DEF LookupInit, LookupInv, NothingUnderWay, FindsClosest

LEMMA ListTypeOK ==
  ASSUME NEW s \in Lists
  PROVE  \A i \in DOMAIN s :
           /\ s[i].peer \in LookupPeers
           /\ s[i].state \in {"Unqueried", "InFlight", "Queried", "Failed"}
  <1>1. \A i \in DOMAIN s : s[i] \in Listed
    BY ListTypes, LenProperties
  <1> QED BY <1>1 DEF Listed, States

(* With the same peers, what is known does not shrink. *)
LEMMA NamedKept ==
  ASSUME SamePeers(shortlist', shortlist), learned \subseteq learned'
  PROVE  Named \subseteq Named'
  BY DEF SamePeers, Named

LEMMA StartHopKeeps ==
  ASSUME LookupInv, StartHop
  PROVE  LookupInv'
  <1> DEFINE n == Len(shortlist)
             to(p) == {i \in Chosen : shortlist[i].peer = p}
  <1>1. /\ shortlist \in Lists /\ n \in Nat /\ DOMAIN shortlist = 1..n
        /\ \A i \in 1..n : shortlist[i] \in Listed
    BY ListTypes, LenProperties DEF LookupInv
  <1>2. /\ phase = "choose" /\ phase' = "wait" /\ learned' = learned /\ learned = {}
        /\ \A p \in LookupPeers : asked[p] = 0
    BY DEF StartHop, LookupInv, NothingUnderWay
  <1>3. \A i \in 1..n :
          /\ shortlist'[i] \in Listed /\ shortlist'[i].peer = shortlist[i].peer
          /\ IF i \in Chosen THEN shortlist'[i].state = "InFlight" ELSE shortlist'[i] = shortlist[i]
    BY <1>1 DEF StartHop, Listed, States
  <1>4. SamePeers(shortlist', shortlist)
    <2>1. shortlist' \in [1..n -> Listed]
      BY <1>1, <1>3 DEF StartHop
    <2>2. shortlist' \in Seq(Listed) /\ Len(shortlist') = n
      BY <1>1, <2>1, FunctionIsSeq
    <2> QED BY <1>1, <1>3, <2>2 DEF SamePeers, Lists, SortedList
  <1>5. shortlist' \in Lists /\ Len(shortlist') = n
    BY <1>4 DEF SamePeers
  <1>6. \A p \in LookupPeers : asked'[p] = Cardinality(to(p)) /\ asked'[p] \in 0..ALPHA
    <2>1. \A p \in LookupPeers : asked'[p] = Cardinality(to(p))
      BY DEF StartHop
    <2>2. \A p : to(p) \in SUBSET Chosen
      OBVIOUS
    <2> HIDE DEF to
    <2> QED BY <1>1, <2>1, <2>2, ChosenProperties
  <1>7. LookupTypeOK'
    <2>1. asked' \in [LookupPeers -> 0..ALPHA]
      BY <1>6 DEF StartHop
    <2>2. \A i \in DOMAIN shortlist' :
            /\ shortlist'[i].peer \in LookupPeers
            /\ shortlist'[i].state \in {"Unqueried", "InFlight", "Queried", "Failed"}
      BY <1>5, ListTypeOK
    <2> QED BY <1>2, <2>1, <2>2 DEF LookupTypeOK
  <1>8. Answered'
    <2> SUFFICES ASSUME NEW i \in 1..n, shortlist'[i].state = "Queried", shortlist'[i].peer # 1
                 PROVE  \E q \in Named' : q < shortlist'[i].peer
      BY <1>5 DEF Answered
    <2>1. shortlist[i].state = "Queried" /\ shortlist[i].peer = shortlist'[i].peer
      BY <1>3
    <2>2. \E q \in Named : q < shortlist[i].peer
      BY <1>2, <2>1 DEF LookupInv, Answered
    <2> QED BY <1>2, <1>4, <2>1, <2>2, NamedKept
  <1>9. HeadAwaited'
    <2> SUFFICES ASSUME shortlist' # <<>>, shortlist'[1].state = "InFlight"
                 PROVE  asked'[shortlist'[1].peer] > 0
      BY DEF HeadAwaited
    <2>1. 1 \in 1..n /\ shortlist # <<>>
      <3>1. n # 0
        BY <1>5, EmptySeq DEF Lists
      <3> QED BY <1>1, <3>1, EmptySeq
    <2>2. 1 \in Chosen
      <3>1. SUFFICES ASSUME 1 \notin Chosen PROVE FALSE
        OBVIOUS
      <3>2. shortlist[1].state = "InFlight"
        BY <1>3, <2>1, <3>1
      <3>3. shortlist[1].peer \in LookupPeers
        BY <1>1, <2>1, ListTypes
      <3> QED BY <1>2, <2>1, <3>2, <3>3 DEF LookupInv, HeadAwaited
    <2> DEFINE p == shortlist[1].peer
    <2>3. p \in LookupPeers /\ shortlist'[1].peer = p
      BY <1>1, <1>3, <2>1, ListTypes
    <2>4. 1 \in to(p) /\ to(p) \in SUBSET Chosen
      BY <2>2
    <2> HIDE DEF to, p
    <2>5. IsFiniteSet(to(p)) /\ Cardinality(to(p)) \in Nat /\ Cardinality(to(p)) # 0
      <3>1. IsFiniteSet(to(p)) /\ Cardinality(to(p)) \in 0..ALPHA
        BY <1>1, <2>4, ChosenProperties
      <3> QED BY <2>4, <3>1, FS_EmptySet
    <2> QED BY <1>6, <2>3, <2>5
  <1> QED BY <1>2, <1>5, <1>7, <1>8, <1>9
          DEF LookupInv, NothingUnderWay, FindsClosest

(* A call of the hop ends: what the three ways it may end have in common. *)
LEMMA CallEnds ==
  ASSUME LookupInv, phase = "wait", NEW p \in LookupPeers, NEW state \in {"Queried", "Failed"},
         Mark(p, state), asked' \in [LookupPeers -> 0..ALPHA],
         \A q \in LookupPeers : q # p => asked'[q] = asked[q],
         phase' = "wait"
  PROVE  LookupTypeOK' /\ shortlist' \in Lists /\ HeadAwaited'
  <1>1. shortlist \in Lists /\ state \in States
    BY DEF LookupInv, States
  <1>2. /\ SamePeers(shortlist', shortlist)
        /\ shortlist # <<>> =>
             IF shortlist[1].peer = p THEN shortlist'[1].state = state
                                      ELSE shortlist'[1] = shortlist[1]
    BY <1>1, Marked
  <1>3. shortlist' \in Lists /\ Len(shortlist') = Len(shortlist)
    BY <1>2 DEF SamePeers
  <1>4. LookupTypeOK'
    <2>1. \A i \in DOMAIN shortlist' :
            /\ shortlist'[i].peer \in LookupPeers
            /\ shortlist'[i].state \in {"Unqueried", "InFlight", "Queried", "Failed"}
      BY <1>3, ListTypeOK
    <2> QED BY <2>1 DEF LookupTypeOK
  <1>5. HeadAwaited'
    <2> SUFFICES ASSUME shortlist' # <<>>, shortlist'[1].state = "InFlight"
                 PROVE  asked'[shortlist'[1].peer] > 0
      BY DEF HeadAwaited
    <2>1. shortlist # <<>> /\ 1 \in 1..Len(shortlist)
      <3>1. Len(shortlist') # 0 /\ Len(shortlist) \in Nat
        BY <1>1, <1>3, EmptySeq, ListTypes DEF Lists
      <3> QED BY <1>1, <1>3, <3>1, EmptySeq
    <2>2. shortlist[1].peer # p /\ shortlist'[1] = shortlist[1]
      BY <1>2, <2>1
    <2>3. shortlist[1].peer \in LookupPeers
      BY <1>1, <2>1, ListTypes
    <2>4. asked[shortlist[1].peer] > 0
      BY <2>1, <2>2 DEF LookupInv, HeadAwaited
    <2> QED BY <2>2, <2>3, <2>4
  <1> QED BY <1>3, <1>4, <1>5

LEMMA CallsLeft ==
  ASSUME LookupInv, NEW p \in LookupPeers, Ends(p)
  PROVE  /\ asked' \in [LookupPeers -> 0..ALPHA]
         /\ \A q \in LookupPeers : q # p => asked'[q] = asked[q]
  <1>1. asked \in [LookupPeers -> 0..ALPHA] /\ ALPHA \in Nat
    BY LookupAssumption DEF LookupInv, LookupTypeOK
  <1>2. asked[p] - 1 \in 0..ALPHA
    BY <1>1 DEF Ends
  <1> QED BY <1>1, <1>2 DEF Ends

LEMMA HopAnswerKeeps ==
  ASSUME LookupInv, NEW p \in LookupPeers, HopAnswer(p)
  PROVE  LookupInv'
  <1>1. shortlist \in Lists /\ learned \subseteq LookupPeers /\ phase = "wait" /\ phase' = "wait"
    BY DEF LookupInv, HopAnswer
  <1>2. PICK S \in Answers(p) : learned' = learned \cup Kept(S)
    BY DEF HopAnswer
  <1>3. Kept(S) \subseteq LookupPeers
    <2>1. S \subseteq 0..Far /\ Far \in Nat
      BY LookupAssumption DEF Answers
    <2>2. Kept(S) \subseteq S \ {0}
      BY DEF Kept
    <2>3. (0..Far) \ {0} \subseteq LookupPeers
      BY <2>1 DEF LookupPeers
    <2> HIDE DEF Kept
    <2> QED BY <2>1, <2>2, <2>3
  <1>4. p # 1 => \E q \in Kept(S) : q < p
    <2> SUFFICES ASSUME p # 1 PROVE \E q \in Kept(S) : q < p
      OBVIOUS
    <2>1. PICK q \in S \ OwnAddr : q \in 1..(p - 1)
      BY DEF Answers
    <2>2. q \in Kept(S) /\ q < p
      BY <2>1, PeersAreNumbers DEF Kept
    <2> QED BY <2>2
  <1>5. LookupTypeOK' /\ shortlist' \in Lists /\ HeadAwaited'
    BY <1>1, CallsLeft, CallEnds DEF HopAnswer
  <1>6. /\ SamePeers(shortlist', shortlist)
        /\ \A i \in 1..Len(shortlist) :
             \/ shortlist'[i] = shortlist[i]
             \/ shortlist[i].peer = p /\ shortlist'[i].state = "Queried"
    BY <1>1, Marked DEF HopAnswer, States
  <1>7. Answered'
    <2> SUFFICES ASSUME NEW i \in 1..Len(shortlist), shortlist'[i].state = "Queried",
                        shortlist'[i].peer # 1
                 PROVE  \E q \in Named' : q < shortlist'[i].peer
      BY <1>6 DEF Answered, SamePeers
    <2>1. shortlist'[i].peer = shortlist[i].peer
      BY <1>6 DEF SamePeers
    <2>2. CASE shortlist'[i] = shortlist[i]
      <3>1. \E q \in Named : q < shortlist[i].peer
        BY <1>1, <2>2 DEF LookupInv, Answered
      <3>2. Named \subseteq Named'
        BY <1>2, <1>6, NamedKept
      <3> QED BY <2>1, <3>1, <3>2
    <2>3. CASE shortlist[i].peer = p
      <3>1. Kept(S) \subseteq Named'
        BY <1>2 DEF Named
      <3> QED BY <1>4, <2>1, <2>3, <3>1
    <2> QED BY <1>6, <2>2, <2>3
  <1> QED BY <1>1, <1>2, <1>3, <1>5, <1>7 DEF LookupInv, NothingUnderWay, FindsClosest

LEMMA HopFailureKeeps ==
  ASSUME LookupInv, NEW p \in LookupPeers, HopFailure(p)
  PROVE  LookupInv'
  <1>1. /\ shortlist \in Lists /\ learned \subseteq LookupPeers
        /\ phase = "wait" /\ phase' = "wait" /\ learned' = learned
    BY DEF LookupInv, HopFailure
  <1>2. LookupTypeOK' /\ shortlist' \in Lists /\ HeadAwaited'
    BY <1>1, CallsLeft, CallEnds DEF HopFailure
  <1>3. /\ SamePeers(shortlist', shortlist)
        /\ \A i \in 1..Len(shortlist) :
             \/ shortlist'[i] = shortlist[i]
             \/ shortlist[i].peer = p /\ shortlist'[i].state = "Failed"
    BY <1>1, Marked DEF HopFailure, States
  <1>4. Answered'
    <2> SUFFICES ASSUME NEW i \in 1..Len(shortlist), shortlist'[i].state = "Queried",
                        shortlist'[i].peer # 1
                 PROVE  \E q \in Named' : q < shortlist'[i].peer
      BY <1>3 DEF Answered, SamePeers
    <2>1. shortlist'[i] = shortlist[i]
      BY <1>3
    <2>2. \E q \in Named : q < shortlist[i].peer
      BY <1>1, <2>1 DEF LookupInv, Answered
    <2>3. Named \subseteq Named'
      BY <1>1, <1>3, NamedKept
    <2> QED BY <2>1, <2>2, <2>3
  <1> QED BY <1>1, <1>2, <1>4 DEF LookupInv, NothingUnderWay, FindsClosest

LEMMA HopValueKeeps ==
  ASSUME LookupInv, NEW p \in LookupPeers, HopValue(p)
  PROVE  LookupInv'
  <1>1. shortlist \in Lists /\ learned' = learned /\ phase' = "done" /\ outcome'.found
    BY DEF LookupInv, HopValue
  <1>2. shortlist' \in Lists
    <2>1. SamePeers(shortlist', shortlist)
      BY <1>1, Marked DEF HopValue, States
    <2> QED BY <2>1 DEF SamePeers
  <1>3. LookupTypeOK'
    <2>1. \A i \in DOMAIN shortlist' :
            /\ shortlist'[i].peer \in LookupPeers
            /\ shortlist'[i].state \in {"Unqueried", "InFlight", "Queried", "Failed"}
      BY <1>2, ListTypeOK
    <2>2. asked' \in [LookupPeers -> 0..ALPHA]
      BY LookupAssumption DEF HopValue
    <2> QED BY <1>1, <2>1, <2>2 DEF LookupTypeOK
  <1> QED BY <1>1, <1>2, <1>3
          DEF LookupInv, Answered, HeadAwaited, NothingUnderWay, FindsClosest

(* A head that answered, of a list with all that is known, is the closest. *)
LEMMA HeadIsClosest ==
  ASSUME NEW s \in Lists, s # <<>>,
         s[1].peer # 1 => \E i \in 1..Len(s) : s[i].peer < s[1].peer
  PROVE  s[1].peer = 1
  <1>1. /\ s \in Seq(Listed) /\ Len(s) \in Nat
        /\ \A i \in 1..Len(s) : s[i].peer \in LookupPeers
    BY ListTypes
  <1>2. 1 \in 1..Len(s)
    BY <1>1, EmptySeq
  <1>3. ASSUME NEW i \in 1..Len(s) PROVE ~(s[i].peer < s[1].peer)
    <2>1. s[i].peer \in Int /\ s[1].peer \in Int
      BY <1>1, <1>2, PeersAreNumbers
    <2>2. i = 1 \/ 1 < i
      BY <1>1
    <2>3. s[1].peer <= s[i].peer
      BY <1>2, <2>1, <2>2 DEF Lists, SortedList
    <2> QED BY <2>1, <2>3
  <1> QED BY <1>3

LEMMA EndHopKeeps ==
  ASSUME LookupInv, EndHop
  PROVE  LookupInv'
  <1> DEFINE s == shortlist'
             n == Len(s)
  <1>1. /\ shortlist \in Lists /\ learned \subseteq LookupPeers /\ phase = "wait"
        /\ \A p \in LookupPeers : asked[p] = 0
        /\ asked' = asked /\ learned' = {} /\ s = Extended
        /\ phase' \in {"choose", "done"}
    BY DEF LookupInv, EndHop
  <1>2. Extends(s, NewPeers)
    BY <1>1, ExtendedProperties
  <1> HIDE DEF s
  <1>3. /\ s \in Lists /\ s \in Seq(Listed) /\ n \in Nat /\ DOMAIN s = 1..n
        /\ s # <<>> => 1 \in 1..n
    <2>1. s \in Lists /\ s \in Seq(Listed) /\ n \in Nat
      BY <1>2, ListTypes DEF Extends
    <2> QED BY <2>1, EmptySeq, LenProperties
  <1>4. ASSUME NEW q \in Named PROVE \E i \in 1..n : s[i].peer = q
    <2>1. CASE q \in NewPeers
      <3>1. PICK i \in 1..n : s[i] = Candidate(q)
        BY <1>2, <2>1 DEF Extends
      <3> QED BY <3>1 DEF Candidate
    <2>2. CASE \E j \in 1..Len(shortlist) : shortlist[j].peer = q
      <3>1. PICK j \in 1..Len(shortlist) : shortlist[j].peer = q
        BY <2>2
      <3>2. PICK i \in 1..n : s[i] = shortlist[j]
        BY <1>2 DEF Extends
      <3> QED BY <3>1, <3>2
    <2>3. q \in NewPeers \/ \E j \in 1..Len(shortlist) : shortlist[j].peer = q
      <3>1. DOMAIN shortlist = 1..Len(shortlist)
        BY <1>1, ListTypes, LenProperties
      <3> QED BY <3>1 DEF Named, NewPeers
    <2> QED BY <2>1, <2>2, <2>3
  <1>5. ASSUME NEW i \in 1..n, s[i].state = "Queried", s[i].peer # 1
        PROVE  \E j \in 1..n : s[j].peer < s[i].peer
    <2>1. PICK j \in 1..Len(shortlist) : s[i] = shortlist[j]
      <3>1. \A p : s[i] # Candidate(p)
        BY <1>5 DEF Candidate
      <3> QED BY <1>2, <3>1 DEF Extends
    <2>2. PICK q \in Named : q < s[i].peer
      BY <1>1, <1>5, <2>1 DEF LookupInv, Answered
    <2> QED BY <1>4, <2>2
  <1>6. LookupTypeOK'
    <2>1. \A i \in DOMAIN s :
            /\ s[i].peer \in LookupPeers
            /\ s[i].state \in {"Unqueried", "InFlight", "Queried", "Failed"}
      BY <1>3, ListTypeOK
    <2> QED BY <1>1, <2>1 DEF LookupInv, LookupTypeOK, s
  <1>7. Answered'
    <2> SUFFICES ASSUME NEW i \in 1..n, s[i].state = "Queried", s[i].peer # 1
                 PROVE  \E q \in Named' : q < s[i].peer
      BY DEF Answered, s
    <2>1. PICK j \in 1..n : s[j].peer < s[i].peer
      BY <1>5
    <2>2. s[j].peer \in Named'
      BY DEF Named, s
    <2> QED BY <2>1, <2>2
  <1>8. HeadAwaited'
    <2> SUFFICES ASSUME s # <<>>, s[1].state = "InFlight" PROVE FALSE
      BY DEF HeadAwaited, s
    <2>1. shortlist # <<>> /\ shortlist[1].state = "InFlight"
      BY <1>2 DEF Extends
    <2>2. 1 \in 1..Len(shortlist)
      BY <1>1, <2>1, ListTypes, EmptySeq
    <2>3. shortlist[1].peer \in LookupPeers
      BY <1>1, <2>2, ListTypes
    <2> QED BY <1>1, <2>1, <2>3 DEF LookupInv, HeadAwaited
  <1>9. FindsClosest'
    <2> SUFFICES ASSUME phase' = "done", InState(s, "Failed") = {}, s # <<>>
                 PROVE  Len(outcome'.nodes) <= LookupK /\ 1 \in ToSet(outcome'.nodes)
      BY DEF FindsClosest, Failures, s
    <2>1. Stops(s) /\ outcome'.nodes = Result(s)
      BY DEF EndHop, s
    <2>2. 1 \in DOMAIN TopK(s) /\ TopK(s)[1] = s[1]
      <3> DEFINE k == IF n < LookupK THEN n ELSE LookupK
      <3>1. 1 <= k /\ k <= n /\ k \in Nat
        BY <1>3, LookupAssumption
      <3> HIDE DEF k
      <3>2. \A i \in 1..k : s[i] \in Listed
        BY <1>3, <3>1, ElementOfSeq
      <3>3. /\ SubSeq(s, 1, k) \in Seq(Listed)
            /\ Len(SubSeq(s, 1, k)) = IF 1 <= k THEN k - 1 + 1 ELSE 0
            /\ \A i \in 1..(k - 1 + 1) : SubSeq(s, 1, k)[i] = s[1 + i - 1]
        BY <3>1, <3>2, SubSeqProperties
      <3> DEFINE t == SubSeq(s, 1, k)
      <3>4. TopK(s) = t
        BY DEF TopK, k
      <3> HIDE DEF t
      <3>5. 1 \in 1..(k - 1 + 1) /\ 1 + 1 - 1 = 1 /\ k - 1 + 1 = k
        BY <3>1
      <3>6. t \in Seq(Listed) /\ Len(t) = k /\ t[1] = s[1]
        BY <3>1, <3>3, <3>5 DEF t
      <3> QED BY <3>1, <3>4, <3>6, LenProperties
    <2>3. s[1].state \in {"Queried", "Failed"}
      BY <2>1, <2>2 DEF Stops
    <2>4. s[1].state = "Queried"
      BY <1>3, <2>3 DEF InState
    <2>5. s[1].peer = 1
      BY <1>3, <1>5, <2>4, HeadIsClosest
    <2> QED BY <1>3, <2>1, <2>5, ResultHasHead
  <1> QED BY <1>1, <1>3, <1>6, <1>7, <1>8, <1>9 DEF LookupInv, NothingUnderWay, s

LEMMA ExhaustedKeeps ==
  ASSUME LookupInv, Exhausted
  PROVE  LookupInv'
  <1> DEFINE s == shortlist
             n == Len(s)
  <1>1. /\ phase = "choose" /\ phase' = "done" /\ learned = {} /\ s \in Lists
        /\ \A p \in LookupPeers : asked[p] = 0
        /\ shortlist' = s /\ learned' = learned /\ asked' = asked
        /\ outcome'.nodes = Result(s)
    BY DEF Exhausted, LookupInv, NothingUnderWay
  <1>2. /\ n \in Nat /\ DOMAIN s = 1..n
        /\ s # <<>> => 1 \in 1..n
        /\ \A i \in 1..n : s[i].peer \in LookupPeers /\ s[i].state \in States
    <2>1. s \in Seq(Listed) /\ n \in Nat /\ \A i \in 1..n : s[i] \in Listed
      BY <1>1, ListTypes
    <2> QED BY <2>1, EmptySeq, LenProperties DEF Listed
  <1>3. FindsClosest'
    <2> SUFFICES ASSUME InState(s, "Failed") = {}, s # <<>>
                 PROVE  Len(outcome'.nodes) <= LookupK /\ 1 \in ToSet(outcome'.nodes)
      BY <1>1 DEF FindsClosest, Failures
    <2>1. s[1].state # "Unqueried" /\ s[1].state # "Failed"
      BY <1>2 DEF Exhausted, Unqueried, InState
    <2>2. s[1].state # "InFlight"
      BY <1>1, <1>2 DEF LookupInv, HeadAwaited
    <2>3. s[1].state = "Queried"
      BY <1>2, <2>1, <2>2 DEF States
    <2>4. s[1].peer # 1 => \E i \in 1..n : s[i].peer < s[1].peer
      BY <1>1, <1>2, <2>3 DEF LookupInv, Answered, Named
    <2>5. s[1].peer = 1
      BY <1>1, <2>4, HeadIsClosest
    <2> QED BY <1>1, <2>5, ResultHasHead
  <1>4. LookupTypeOK'
    BY <1>1 DEF LookupInv, LookupTypeOK
  <1> QED BY <1>1, <1>3, <1>4
          DEF LookupInv, Answered, HeadAwaited, NothingUnderWay

LEMMA LookupInductive == LookupInv /\ [LookupNext]_lookupVars => LookupInv'
  <1> SUFFICES ASSUME LookupInv, [LookupNext]_lookupVars PROVE LookupInv'
    OBVIOUS
  <1>1. CASE StartHop
    BY <1>1, StartHopKeeps
  <1>2. ASSUME NEW p \in LookupPeers, HopAnswer(p) PROVE LookupInv'
    BY <1>2, HopAnswerKeeps
  <1>3. ASSUME NEW p \in LookupPeers, HopValue(p) PROVE LookupInv'
    BY <1>3, HopValueKeeps
  <1>4. ASSUME NEW p \in LookupPeers, HopFailure(p) PROVE LookupInv'
    BY <1>4, HopFailureKeeps
  <1>5. CASE EndHop
    BY <1>5, EndHopKeeps
  <1>6. CASE Exhausted
    BY <1>6, ExhaustedKeeps
  <1>7. CASE UNCHANGED lookupVars
    BY <1>7 DEF lookupVars, LookupInv, LookupTypeOK, Answered, HeadAwaited, NothingUnderWay,
                FindsClosest, Named, Failures
  <1> QED BY <1>1, <1>2, <1>3, <1>4, <1>5, <1>6, <1>7 DEF LookupNext, LookupStep

LEMMA LookupAlways == LookupSpec => []LookupInv
  <1> QED BY LookupInitially, LookupInductive, PTL DEF LookupSpec

THEOREM LookupTyped == LookupSpec => []LookupTypeOK
  <1>1. LookupInv => LookupTypeOK
    BY DEF LookupInv
  <1> QED BY <1>1, LookupAlways, PTL

(* lookup_nodes and lookup_value: if every call is answered, the closest   *)
(* peer is among the result, wherever the lookup started, in whatever      *)
(* order the answers came, with contacts that are twice in the table, for  *)
(* any number of peers, any K and any ALPHA.                               *)
THEOREM FindsClosestHolds == LookupSpec => []FindsClosest
  <1>1. LookupInv => FindsClosest
    BY DEF LookupInv
  <1> QED BY <1>1, LookupAlways, PTL
-----------------------------------------------------------------------------
(* Storage. *)
Envelope == DOMAIN Size

(* The bytes of a record. *)
RecordLen == [r \in Record |-> EncodedLen(r.value)]

(* What StorageBounded says of the records s and the byte count b of a     *)
(* node.                                                                   *)
NodeSound(s, b) ==
  /\ b = BytesOf(s)
  /\ b <= MAX_STORAGE_BYTES
  /\ Len(s) <= MAX_STORAGE_RECORDS
  /\ \A i, j \in DOMAIN s : s[i].key = s[j].key => i = j

LEMMA LeastElement ==
  ASSUME NEW T, T \subseteq Nat, T # {}
  PROVE  Min(T) \in T /\ \A y \in T : Min(T) <= y
  <1>1. \E x \in T : \A y \in T : x <= y
    BY LeastNatural
  <1> QED BY <1>1 DEF Min

(* Lengths. *)
LEMMA TotalIsNumber ==
  ASSUME NEW s \in Seq(Envelope)
  PROVE  Total(s) \in Nat /\ Total(s) = Weighed(s, Size)
  <1>1. Size \in [Envelope -> Nat]
    BY StorageAssumption DEF Envelope
  <1>2. Weighed(s, Size) \in Nat
    BY <1>1, WeightsProperties
  <1> QED BY <1>2 DEF Total, Weighed, Weights

LEMMA LengthIsNumber ==
  ASSUME NEW v \in Value
  PROVE  EncodedLen(v) \in Nat
  <1>1. v.parts \in Seq(Envelope)
    BY DEF Value, Envelope
  <1>2. Total(v.parts) \in Nat /\ Len(v.parts) \in Nat
    BY <1>1, TotalIsNumber, LenProperties
  <1> QED BY <1>2 DEF EncodedLen

LEMMA Values ==
  /\ NoBytes \in Value /\ EncodedLen(NoBytes) = 0
  /\ \A s \in Seq(Envelope) : Mailbox(s) \in Value
  /\ EncodedLen(Mailbox(<<>>)) = 2
  /\ \A e \in Envelope : Total(<<e>>) = Size[e] /\ EncodedLen(Mailbox(<<e>>)) = 2 + Size[e]
  <1>1. NoBytes \in Value /\ \A s \in Seq(Envelope) : Mailbox(s) \in Value
    BY EmptySeq DEF NoBytes, Mailbox, Value, Envelope
  <1>2. EncodedLen(NoBytes) = 0
    <2>1. Total(<<>>) = 0
      BY TotalIsNumber, WeighedEmpty, EmptySeq
    <2> QED BY <2>1 DEF EncodedLen, NoBytes
  <1>3. EncodedLen(Mailbox(<<>>)) = 2
    BY DEF EncodedLen, Mailbox
  <1>4. ASSUME NEW e \in Envelope
        PROVE  Total(<<e>>) = Size[e] /\ EncodedLen(Mailbox(<<e>>)) = 2 + Size[e]
    <2>1. Size \in [Envelope -> Nat]
      BY StorageAssumption DEF Envelope
    <2>2. <<>> \in Seq(Envelope) /\ Append(<<>>, e) = <<e>> /\ <<e>> \in Seq(Envelope)
      BY EmptySeq
    <2>3. Weighed(<<e>>, Size) = Weighed(<<>>, Size) + Size[e]
      BY <2>1, <2>2, WeighedAppend
    <2>4. Total(<<e>>) = Size[e]
      <3>1. Weighed(<<>>, Size) = 0
        BY WeighedEmpty
      <3>2. Size[e] \in Nat
        BY <2>1
      <3>3. Total(<<e>>) = Weighed(<<e>>, Size)
        BY <2>2, TotalIsNumber
      <3> QED BY <2>3, <3>1, <3>2, <3>3
    <2>5. <<e>> # <<>> /\ Len(<<e>>) = 1
      OBVIOUS
    <2> QED BY <2>1, <2>4, <2>5 DEF EncodedLen, Mailbox
  <1> QED BY <1>1, <1>2, <1>3, <1>4

LEMMA BytesAreWeights ==
  ASSUME NEW s \in Seq(Record)
  PROVE  BytesOf(s) = Weighed(s, RecordLen) /\ BytesOf(s) \in Nat
  <1>1. RecordLen \in [Record -> Nat]
    BY LengthIsNumber DEF RecordLen, Record
  <1>2. DOMAIN s = 1..Len(s) /\ \A i \in 1..Len(s) : s[i] \in Record
    BY LenProperties, ElementOfSeq
  <1>3. Weights(s, RecordLen) = [i \in DOMAIN s |-> EncodedLen(s[i].value)]
    BY <1>2 DEF Weights, RecordLen
  <1>4. Weighed(s, RecordLen) \in Nat
    BY <1>1, WeightsProperties
  <1> QED BY <1>3, <1>4 DEF BytesOf, Weighed

-----------------------------------------------------------------------------
(* A suffix of a list. *)
LEMMA SuffixProperties ==
  ASSUME NEW E, NEW s \in Seq(E), NEW i \in 0..Len(s)
  PROVE  /\ Suffix(s, i) \in Seq(E) /\ Len(Suffix(s, i)) = Len(s) - i
         /\ \A k \in 1..(Len(s) - i) : Suffix(s, i)[k] = s[i + k]
  <1>1. [e \in E |-> 0] \in [E -> Nat]
    OBVIOUS
  <1> QED BY <1>1, WeighedSplit DEF Suffix

LEMMA LastAlone ==
  ASSUME NEW E, NEW s \in Seq(E), s # <<>>
  PROVE  Suffix(s, Len(s) - 1) = <<s[Len(s)]>>
  <1> DEFINE n == Len(s)
  <1>1. n \in 1..n /\ n - 1 \in 0..n /\ s[n] \in E
    BY LenProperties, EmptySeq, ElementOfSeq
  <1>2. /\ Suffix(s, n - 1) \in Seq(E) /\ Len(Suffix(s, n - 1)) = n - (n - 1)
        /\ \A k \in 1..(n - (n - 1)) : Suffix(s, n - 1)[k] = s[(n - 1) + k]
    BY <1>1, SuffixProperties
  <1>3. n - (n - 1) = 1 /\ (n - 1) + 1 = n
    BY <1>1
  <1>4. Len(Suffix(s, n - 1)) = 1 /\ Suffix(s, n - 1)[1] = s[n]
    BY <1>2, <1>3
  <1>5. <<s[n]>> \in Seq(E) /\ Len(<<s[n]>>) = 1 /\ <<s[n]>>[1] = s[n]
    BY <1>1
  <1> HIDE DEF n
  <1>6. Suffix(s, n - 1) = <<s[n]>>
    BY <1>2, <1>4, <1>5, SeqEqual
  <1> QED BY <1>6 DEF n

LEMMA SuffixOfSuffix ==
  ASSUME NEW E, NEW s \in Seq(E), NEW d \in Nat, NEW i \in Nat, d + i <= Len(s)
  PROVE  Suffix(Suffix(s, d), i) = Suffix(s, d + i)
  <1> DEFINE n == Len(s)
             a == Suffix(s, d)
             b == Suffix(a, i)
             c == Suffix(s, d + i)
  <1>1. n \in Nat
    BY LenProperties
  <1>2. d \in 0..n /\ d + i \in 0..n /\ i \in 0..(n - d)
    BY <1>1
  <1>3. a \in Seq(E) /\ Len(a) = n - d /\ \A k \in 1..(n - d) : a[k] = s[d + k]
    BY <1>2, SuffixProperties
  <1>4. c \in Seq(E) /\ Len(c) = n - (d + i) /\ \A k \in 1..(n - (d + i)) : c[k] = s[(d + i) + k]
    BY <1>2, SuffixProperties
  <1> HIDE DEF n, a, c
  <1>5. b \in Seq(E) /\ Len(b) = (n - d) - i /\ \A k \in 1..((n - d) - i) : b[k] = a[i + k]
    <2>1. a \in Seq(E) /\ i \in 0..Len(a) /\ Len(a) = n - d
      BY <1>2, <1>3
    <2>2. /\ Suffix(a, i) \in Seq(E) /\ Len(Suffix(a, i)) = Len(a) - i
          /\ \A k \in 1..(Len(a) - i) : Suffix(a, i)[k] = a[i + k]
      BY <2>1, SuffixProperties
    <2> QED BY <2>1, <2>2
  <1> HIDE DEF b
  <1>6. ASSUME NEW k \in 1..(n - (d + i)) PROVE b[k] = c[k]
    <2>1. k \in 1..((n - d) - i) /\ i + k \in 1..(n - d) /\ d + (i + k) = (d + i) + k
      BY <1>1, <1>2
    <2> QED BY <1>3, <1>4, <1>5, <2>1
  <1>7. Len(b) = Len(c) /\ Len(b) = n - (d + i)
    BY <1>1, <1>4, <1>5
  <1>8. b = c
    BY <1>4, <1>5, <1>6, <1>7, SeqEqual
  <1> QED BY <1>8 DEF a, b, c
-----------------------------------------------------------------------------
(* merge_store_value: how much of a mailbox goes. *)
SmallEnough(s, i) ==
  \/ i = Len(s)
  \/ /\ Len(s) - i <= MAX_MAILBOX_ENVELOPES
     /\ EncodedLen(Mailbox(Suffix(s, i))) <= MAX_MAILBOX_VALUE_BYTES

LEMMA ExcessProperties ==
  ASSUME NEW s \in Seq(Envelope)
  PROVE  /\ Excess(s) \in 0..Len(s)
         /\ SmallEnough(s, Excess(s))
         /\ \A i \in 0..Len(s) : SmallEnough(s, i) => Excess(s) <= i
  <1> DEFINE T == {i \in 0..Len(s) : SmallEnough(s, i)}
  <1>1. Len(s) \in Nat
    BY LenProperties
  <1>2. T \subseteq Nat /\ Len(s) \in T
    BY <1>1 DEF SmallEnough
  <1>3. Excess(s) = Min(T)
    BY DEF Excess, SmallEnough
  <1>4. Min(T) \in T /\ \A y \in T : Min(T) <= y
    <2> HIDE DEF T
    <2> QED BY <1>2, LeastElement
  <1> QED BY <1>3, <1>4

LEMMA PrunedProperties ==
  ASSUME NEW s \in Seq(Envelope)
  PROVE  /\ Pruned(s) \in Seq(Envelope)
         /\ EncodedLen(Mailbox(Pruned(s))) <= MAX_MAILBOX_VALUE_BYTES
         /\ s # <<>> /\ EncodedLen(Mailbox(<<s[Len(s)]>>)) <= MAX_MAILBOX_VALUE_BYTES
              => s[Len(s)] \in ToSet(Pruned(s))
  <1> DEFINE n == Len(s)
             x == Excess(s)
  <1>1. n \in Nat /\ DOMAIN s = 1..n /\ \A i \in 1..n : s[i] \in Envelope
    BY LenProperties, ElementOfSeq
  <1>2. x \in 0..n /\ SmallEnough(s, x) /\ \A i \in 0..n : SmallEnough(s, i) => x <= i
    BY ExcessProperties
  <1> HIDE DEF x
  <1>3. /\ Suffix(s, x) \in Seq(Envelope) /\ Len(Suffix(s, x)) = n - x
        /\ \A k \in 1..(n - x) : Suffix(s, x)[k] = s[x + k]
    BY <1>2, SuffixProperties
  <1>4. Pruned(s) = Suffix(s, x)
    BY DEF Pruned, x
  <1>5. EncodedLen(Mailbox(Pruned(s))) <= MAX_MAILBOX_VALUE_BYTES
    <2>1. CASE x = n
      <3>1. Pruned(s) = <<>>
        BY <1>1, <1>3, <1>4, <2>1, EmptySeq
      <3> QED BY <3>1, Values, StorageAssumption
    <2>2. CASE x # n
      BY <1>2, <1>4, <2>2 DEF SmallEnough
    <2> QED BY <2>1, <2>2
  <1>6. ASSUME s # <<>>, EncodedLen(Mailbox(<<s[n]>>)) <= MAX_MAILBOX_VALUE_BYTES
        PROVE  s[n] \in ToSet(Pruned(s))
    <2>1. n \in 1..n /\ n - 1 \in 0..n
      BY <1>1, <1>6, EmptySeq
    <2>2. Suffix(s, n - 1) = <<s[n]>>
      BY <1>6, LastAlone
    <2>3. SmallEnough(s, n - 1)
      <3>1. n - (n - 1) <= MAX_MAILBOX_ENVELOPES
        BY <1>1, StorageAssumption
      <3> QED BY <1>6, <2>2, <3>1 DEF SmallEnough
    <2>4. x <= n - 1
      BY <1>2, <2>1, <2>3
    <2>5. n - x \in 1..(n - x) /\ x + (n - x) = n
      BY <1>1, <1>2, <2>4
    <2>6. Suffix(s, x)[n - x] = s[n] /\ DOMAIN Suffix(s, x) = 1..(n - x)
      BY <1>3, <2>5, LenProperties
    <2> QED BY <1>4, <2>5, <2>6 DEF ToSet
  <1> QED BY <1>3, <1>4, <1>5, <1>6

LEMMA JoinedProperties ==
  ASSUME NEW existing \in Value, NEW incoming \in Value
  PROVE  /\ Fitting(incoming.parts) \in Seq(Envelope)
         /\ Joined(existing, incoming) \in Seq(Envelope)
         /\ Fitting(incoming.parts) = incoming.parts
              <=> \A e \in ToSet(incoming.parts) : Fits(e)
  <1> DEFINE p == incoming.parts
             S == {e \in ToSet(p) : Fits(e)}
             q == IF existing.mailbox THEN existing.parts ELSE <<>>
  <1>1. p \in Seq(Envelope) /\ q \in Seq(Envelope)
    BY EmptySeq DEF Value, Envelope
  <1>2. DOMAIN p = 1..Len(p)
    BY <1>1, LenProperties
  <1> HIDE DEF p
  <1>3. /\ Picked(p, S) \in Seq(Envelope)
        /\ \A i \in 1..Len(Picked(p, S)) : Picked(p, S)[i] \in S
        /\ (\A j \in 1..Len(p) : p[j] \in S) => Picked(p, S) = p
    <2> HIDE DEF S
    <2> QED BY <1>1, PickedProperties
  <1>4. Fitting(p) = Picked(p, S)
    BY DEF Fitting
  <1>5. (\A e \in ToSet(p) : Fits(e)) => \A j \in 1..Len(p) : p[j] \in S
    BY <1>2 DEF ToSet
  <1>6. Picked(p, S) = p => \A e \in ToSet(p) : Fits(e)
    <2> SUFFICES ASSUME Picked(p, S) = p, NEW e \in ToSet(p) PROVE Fits(e)
      OBVIOUS
    <2>1. PICK i \in 1..Len(p) : p[i] = e
      BY <1>2 DEF ToSet
    <2>2. e \in S
      <3> HIDE DEF S
      <3> QED BY <1>3, <2>1
    <2> QED BY <2>2
  <1>7. AllPushed(q, Fitting(p)) \in Seq(Envelope)
    <2> HIDE DEF S, q
    <2> QED BY <1>1, <1>3, <1>4, PushedProperties
  <1>8. Joined(existing, incoming) = AllPushed(q, Fitting(p))
    BY DEF Joined, p
  <1> HIDE DEF S, q
  <1> QED BY <1>3, <1>4, <1>5, <1>6, <1>7, <1>8 DEF p

(* The bootstrap node's two loops cut what the other's two steps cut. *)
LEMMA CutsAgree ==
  ASSUME NEW s \in Seq(Envelope), NEW few,
         few = (IF Len(s) > MAX_MAILBOX_ENVELOPES
                  THEN Suffix(s, Len(s) - MAX_MAILBOX_ENVELOPES) ELSE s)
  PROVE  Suffix(few, Min({i \in 0..Len(few) :
             i = Len(few) \/ EncodedLen(Mailbox(Suffix(few, i))) <= MAX_MAILBOX_VALUE_BYTES}))
           = Pruned(s)
  <1> DEFINE n == Len(s)
             M == MAX_MAILBOX_ENVELOPES
             d == IF n > M THEN n - M ELSE 0
             Small(i) == i = Len(few) \/ EncodedLen(Mailbox(Suffix(few, i))) <= MAX_MAILBOX_VALUE_BYTES
             T == {i \in 0..Len(few) : Small(i)}
             x == Excess(s)
             y == Min(T)
  <1>1. n \in Nat /\ M \in Nat
    BY LenProperties, StorageAssumption
  <1>2. d \in 0..n
    BY <1>1
  <1>3. few = Suffix(s, d)
    <2>1. CASE n > M
      BY <2>1
    <2>2. CASE ~(n > M)
      <3>1. /\ Suffix(s, 0) \in Seq(Envelope) /\ Len(Suffix(s, 0)) = n - 0
            /\ \A k \in 1..(n - 0) : Suffix(s, 0)[k] = s[0 + k]
        BY <1>1, SuffixProperties
      <3>2. Len(Suffix(s, 0)) = n /\ \A k \in 1..n : Suffix(s, 0)[k] = s[k]
        BY <1>1, <3>1
      <3>3. Suffix(s, 0) = s
        BY <3>1, <3>2, SeqEqual
      <3> QED BY <2>2, <3>3
    <2> QED BY <2>1, <2>2
  <1>4. few \in Seq(Envelope) /\ Len(few) = n - d
    BY <1>2, <1>3, SuffixProperties
  <1>5. x \in 0..n /\ SmallEnough(s, x) /\ \A i \in 0..n : SmallEnough(s, i) => x <= i
    BY ExcessProperties
  <1>6. \A i \in 0..(n - d) : Suffix(few, i) = Suffix(s, d + i)
    BY <1>1, <1>2, <1>3, SuffixOfSuffix
  <1>7. y \in T /\ \A i \in T : y <= i
    <2>1. T \subseteq Nat /\ Len(few) \in T
      BY <1>1, <1>2, <1>4
    <2> HIDE DEF T
    <2> QED BY <2>1, LeastElement
  <1>8. \A i \in 0..n : SmallEnough(s, i) => d <= i
    <2> SUFFICES ASSUME NEW i \in 0..n, SmallEnough(s, i) PROVE d <= i
      OBVIOUS
    <2>1. i = n \/ n - i <= M
      BY DEF SmallEnough
    <2> QED BY <1>1, <2>1
  <1>9. \A i \in 0..(n - d) : SmallEnough(s, d + i) <=> Small(i)
    <2> SUFFICES ASSUME NEW i \in 0..(n - d) PROVE SmallEnough(s, d + i) <=> Small(i)
      OBVIOUS
    <2>1. (d + i = n <=> i = Len(few)) /\ n - (d + i) <= M
      <3>1. n - d <= M
        <4> HIDE DEF n, M
        <4> QED BY <1>1
      <3> HIDE DEF d, n, M
      <3> QED BY <1>1, <1>2, <1>4, <3>1
    <2>2. Suffix(few, i) = Suffix(s, d + i)
      BY <1>6
    <2> HIDE DEF d, n, M
    <2> QED BY <2>1, <2>2 DEF SmallEnough, n, M
  <1> HIDE DEF x, Small
  <1>10. d <= x /\ x - d \in 0..(n - d) /\ d + (x - d) = x
    BY <1>1, <1>2, <1>5, <1>8
  <1>11. y <= x - d
    <2>1. x - d \in T
      <3>1. Small(x - d)
        <4> HIDE DEF d, n
        <4> QED BY <1>5, <1>9, <1>10
      <3> QED BY <1>4, <1>10, <3>1
    <2> HIDE DEF T, y
    <2> QED BY <1>7, <2>1
  <1>12. y \in 0..(n - d) /\ Small(y)
    <2>1. y \in {i \in 0..Len(few) : Small(i)}
      <3> HIDE DEF y
      <3> QED BY <1>7
    <2> HIDE DEF y
    <2> QED BY <1>4, <2>1
  <1> HIDE DEF y
  <1>13. x <= d + y
    <2>1. SmallEnough(s, d + y) /\ d + y \in 0..n
      BY <1>1, <1>2, <1>9, <1>12
    <2> QED BY <1>5, <2>1
  <1>14. y = x - d
    BY <1>1, <1>2, <1>5, <1>11, <1>12, <1>13
  <1>15. Suffix(few, y) = Suffix(s, x)
    BY <1>6, <1>10, <1>14
  <1> QED BY <1>15 DEF Pruned, x, y, Small
-----------------------------------------------------------------------------
(* merge_store_value and bounded_mailbox_merge.  A bootstrap node keeps    *)
(* and acknowledges what another node would.                               *)
THEOREM MergesAgree ==
  ASSUME NEW existing \in Value, NEW incoming \in Value
  PROVE  MergeStoreValue(existing, incoming) = BoundedMailboxMerge(existing, incoming)
  <1> DEFINE all == Joined(existing, incoming)
             few == IF Len(all) > MAX_MAILBOX_ENVELOPES
                      THEN Suffix(all, Len(all) - MAX_MAILBOX_ENVELOPES) ELSE all
             cut == Min({i \in 0..Len(few) :
               i = Len(few) \/ EncodedLen(Mailbox(Suffix(few, i))) <= MAX_MAILBOX_VALUE_BYTES})
  <1>1. /\ all \in Seq(Envelope)
        /\ Fitting(incoming.parts) = incoming.parts
             <=> \A e \in ToSet(incoming.parts) : Fits(e)
    BY JoinedProperties
  <1>2. Suffix(few, cut) = Pruned(all)
    <2> HIDE DEF all
    <2> QED BY <1>1, CutsAgree
  <1>3. CASE incoming.mailbox
    <2>1. BoundedMailboxMerge(existing, incoming) =
            [value |-> Mailbox(Suffix(few, cut)),
             ok |-> Fitting(incoming.parts) = incoming.parts]
      BY <1>3 DEF BoundedMailboxMerge
    <2>2. MergeStoreValue(existing, incoming) =
            [value |-> Mailbox(Pruned(all)),
             ok |-> \A e \in ToSet(incoming.parts) : Fits(e)]
      BY <1>3 DEF MergeStoreValue
    <2> HIDE DEF all, few, cut
    <2> QED BY <1>1, <1>2, <2>1, <2>2, Zenon
  <1>4. CASE ~incoming.mailbox
    <2>1. EncodedLen(incoming) \in Nat /\ STORE_SIZE \in Nat
      BY LengthIsNumber, StorageAssumption
    <2>2. (EncodedLen(incoming) <= STORE_SIZE) <=> ~(EncodedLen(incoming) > STORE_SIZE)
      BY <2>1
    <2>3. CASE EncodedLen(incoming) <= STORE_SIZE
      BY <1>4, <2>2, <2>3 DEF MergeStoreValue, BoundedMailboxMerge
    <2>4. CASE ~(EncodedLen(incoming) <= STORE_SIZE)
      BY <1>4, <2>2, <2>4 DEF MergeStoreValue, BoundedMailboxMerge
    <2> QED BY <2>3, <2>4
  <1> QED BY <1>3, <1>4

LEMMA MergeProperties ==
  ASSUME NEW n, NEW existing \in Value, NEW incoming \in Value
  PROVE  /\ Merge(n, existing, incoming) = MergeStoreValue(existing, incoming)
         /\ Merge(n, existing, incoming).value \in Value
         /\ incoming.mailbox =>
              /\ Merge(n, existing, incoming).value = Mailbox(Pruned(Joined(existing, incoming)))
              /\ EncodedLen(Merge(n, existing, incoming).value) <= MAX_MAILBOX_VALUE_BYTES
              /\ Merge(n, existing, incoming).ok => Fitting(incoming.parts) = incoming.parts
         /\ ~incoming.mailbox =>
              \/ Merge(n, existing, incoming).value = existing
              \/ /\ Merge(n, existing, incoming).value = incoming
                 /\ EncodedLen(incoming) <= STORE_SIZE
  <1> DEFINE r == MergeStoreValue(existing, incoming)
             all == Joined(existing, incoming)
  <1>1. Merge(n, existing, incoming) = r
    BY MergesAgree DEF Merge
  <1>2. /\ all \in Seq(Envelope)
        /\ Fitting(incoming.parts) = incoming.parts
             <=> \A e \in ToSet(incoming.parts) : Fits(e)
    BY JoinedProperties
  <1>3. CASE incoming.mailbox
    <2>1. /\ r.value = Mailbox(Pruned(all))
          /\ r.ok = \A e \in ToSet(incoming.parts) : Fits(e)
      BY <1>3 DEF MergeStoreValue
    <2>2. Pruned(all) \in Seq(Envelope)
          /\ EncodedLen(Mailbox(Pruned(all))) <= MAX_MAILBOX_VALUE_BYTES
      BY <1>2, PrunedProperties
    <2>3. Mailbox(Pruned(all)) \in Value
      BY <2>2, Values
    <2> HIDE DEF r, all
    <2>4. r.ok => Fitting(incoming.parts) = incoming.parts
      BY <1>2, <2>1, Zenon
    <2>5. r.value = Mailbox(Pruned(all)) /\ r.value \in Value
          /\ EncodedLen(r.value) <= MAX_MAILBOX_VALUE_BYTES
      BY <2>1, <2>2, <2>3
    <2> QED BY <1>1, <1>3, <2>4, <2>5, Zenon DEF r, all
  <1>4. CASE ~incoming.mailbox
    <2>1. EncodedLen(incoming) \in Nat /\ STORE_SIZE \in Nat
      BY LengthIsNumber, StorageAssumption
    <2>2. \/ r.value = existing
          \/ r.value = incoming /\ EncodedLen(incoming) <= STORE_SIZE
      BY <1>4, <2>1 DEF MergeStoreValue
    <2> HIDE DEF r
    <2>3. r.value \in Value
      BY <2>2
    <2> QED BY <1>1, <1>4, <2>2, <2>3, Zenon DEF r
  <1> QED BY <1>3, <1>4

(* What a STORE that is acknowledged brings last is in what is stored.     *)
LEMMA AckedKeepsLast ==
  ASSUME NEW n, NEW existing \in Value, NEW incoming \in Value,
         incoming.mailbox, Merge(n, existing, incoming).ok,
         incoming.parts # <<>>,
         \A i \in 1..(Len(incoming.parts) - 1) : incoming.parts[i] # Last(incoming.parts),
         Last(incoming.parts) \notin ToSet(existing.parts),
         EncodedLen(Mailbox(<<Last(incoming.parts)>>)) <= MAX_MAILBOX_VALUE_BYTES
  PROVE  Last(incoming.parts) \in ToSet(Merge(n, existing, incoming).value.parts)
  <1> DEFINE p == incoming.parts
             q == IF existing.mailbox THEN existing.parts ELSE <<>>
             all == Joined(existing, incoming)
             e == p[Len(p)]
  <1>1. /\ Merge(n, existing, incoming).value = Mailbox(Pruned(all))
        /\ Fitting(p) = p
    BY MergeProperties
  <1>2. p \in Seq(Envelope) /\ q \in Seq(Envelope)
    BY EmptySeq DEF Value, Envelope
  <1>3. all = AllPushed(q, p)
    BY <1>1 DEF Joined
  <1>4. e \notin ToSet(q) /\ p # <<>> /\ \A i \in 1..(Len(p) - 1) : p[i] # e
    BY DEF Last, ToSet
  <1>5. EncodedLen(Mailbox(<<e>>)) <= MAX_MAILBOX_VALUE_BYTES
    BY DEF Last
  <1> HIDE DEF p, q, all
  <1>6. all \in Seq(Envelope) /\ all # <<>> /\ all[Len(all)] = e
    BY <1>2, <1>3, <1>4, PushedProperties
  <1> HIDE DEF e
  <1>7. e \in ToSet(Pruned(all))
    BY <1>5, <1>6, PrunedProperties
  <1>8. Mailbox(Pruned(all)).parts = Pruned(all)
    BY DEF Mailbox
  <1> QED BY <1>1, <1>7, <1>8 DEF Last, e, p

(* The envelope that EndsNew leaves out: Fits compares the envelope alone  *)
(* with the limit, so one that is at most one byte smaller passes, empties  *)
(* the mailbox it joins, itself included, and is acknowledged.             *)
THEOREM EdgeEnvelopeEmptiesMailbox ==
  ASSUME NEW existing \in Value, existing.mailbox,
         NEW e \in Envelope, Size[e] <= MAX_MAILBOX_VALUE_BYTES,
         Size[e] > MAX_MAILBOX_VALUE_BYTES - 2, e \notin ToSet(existing.parts)
  PROVE  MergeStoreValue(existing, Mailbox(<<e>>)) = [value |-> Mailbox(<<>>), ok |-> TRUE]
  <1> DEFINE m == Mailbox(<<e>>)
             s == Joined(existing, m)
             n == Len(s)
             x == Excess(s)
  <1>1. Size \in [Envelope -> Nat] /\ MAX_MAILBOX_VALUE_BYTES \in Nat
    BY StorageAssumption DEF Envelope
  <1>2. <<e>> \in Seq(Envelope) /\ m \in Value /\ m.mailbox /\ m.parts = <<e>>
    <2>1. <<e>> \in Seq(Envelope)
      OBVIOUS
    <2>2. m \in Value
      <3> HIDE DEF m
      <3> QED BY <2>1, Values DEF m
    <2> QED BY <2>1, <2>2 DEF Mailbox
  <1>3. ToSet(<<e>>) = {e} /\ Fits(e)
    BY DEF ToSet, Fits
  <1>4. s \in Seq(Envelope) /\ Fitting(<<e>>) = <<e>>
    BY <1>2, <1>3, JoinedProperties
  <1>5. s = AllPushed(existing.parts, <<e>>)
    BY <1>2, <1>4 DEF Joined
  <1>6. existing.parts \in Seq(Envelope)
    BY DEF Value, Envelope
  <1>7. s # <<>> /\ s[n] = e
    <2>1. <<e>> # <<>> /\ Len(<<e>>) = 1 /\ <<e>>[1] = e
      OBVIOUS
    <2>2. \A i \in 1..(Len(<<e>>) - 1) : <<e>>[i] # <<e>>[Len(<<e>>)]
      BY <2>1
    <2>3. <<e>>[Len(<<e>>)] = e
      BY <2>1
    <2> DEFINE t == <<e>>
    <2>4. t # <<>> /\ t[Len(t)] \notin ToSet(existing.parts)
          /\ \A i \in 1..(Len(t) - 1) : t[i] # t[Len(t)]
      BY <2>1, <2>2, <2>3
    <2>5. t \in Seq(Envelope) /\ s = AllPushed(existing.parts, t) /\ t[Len(t)] = e
      BY <1>2, <1>5, <2>3
    <2> HIDE DEF s, m, t
    <2> QED BY <1>6, <2>4, <2>5, PushedProperties
  <1>8. n \in Nat /\ n # 0 /\ \A i \in 1..n : s[i] \in Envelope
    BY <1>4, <1>7, LenProperties, ElementOfSeq, EmptySeq
  <1> HIDE DEF s, m
  <1>9. ASSUME NEW i \in 0..(n-1) PROVE ~SmallEnough(s, i)
    <2> DEFINE t == Suffix(s, i)
               b == SubSeq(t, 1, Len(t) - 1)
               c == Suffix(t, Len(t) - 1)
    <2>1. t \in Seq(Envelope) /\ Len(t) = n - i /\ \A k \in 1..(n - i) : t[k] = s[i + k]
      <3>1. i \in 0..Len(s)
        BY <1>8
      <3> QED BY <1>4, <3>1, SuffixProperties
    <2>2. n - i \in 1..(n - i) /\ i + (n - i) = n
      BY <1>8
    <2>3. t # <<>> /\ t[Len(t)] = e
      <3>1. t[n - i] = s[n]
        BY <2>1, <2>2
      <3>2. Len(t) # 0
        BY <2>1, <2>2
      <3> HIDE DEF t, n
      <3> QED BY <1>7, <2>1, <3>1, <3>2
    <2> HIDE DEF t
    <2>4. b \in Seq(Envelope) /\ Weighed(t, Size) = Weighed(b, Size) + Weighed(c, Size)
      <3>1. Len(t) - 1 \in 0..Len(t) /\ (Len(t) - 1) + 1 = Len(t)
        BY <1>8, <2>1
      <3>2. /\ SubSeq(t, 1, Len(t) - 1) \in Seq(Envelope)
            /\ Weighed(t, Size) = Weighed(SubSeq(t, 1, Len(t) - 1), Size)
                                   + Weighed(SubSeq(t, (Len(t) - 1) + 1, Len(t)), Size)
        BY <1>1, <2>1, <3>1, WeighedSplit
      <3> QED BY <3>2 DEF Suffix
    <2>5. Weighed(c, Size) = Size[e] /\ Weighed(b, Size) \in Nat
      <3>1. c = <<e>>
        BY <2>1, <2>3, LastAlone
      <3>2. Weighed(<<e>>, Size) = Total(<<e>>) /\ Total(<<e>>) = Size[e]
        BY <1>2, TotalIsNumber, Values
      <3>3. Weighed(b, Size) \in Nat
        BY <1>1, <2>4, WeightsProperties
      <3> HIDE DEF b, c
      <3> QED BY <3>1, <3>2, <3>3
    <2>6. Total(t) = Weighed(t, Size)
      BY <2>1, TotalIsNumber
    <2>7. Mailbox(t).mailbox /\ Mailbox(t).parts = t
      BY DEF Mailbox
    <2>8. EncodedLen(Mailbox(t)) = 1 + Total(t) + Len(t)
      BY <2>3, <2>7 DEF EncodedLen
    <2>9. EncodedLen(Mailbox(t)) > MAX_MAILBOX_VALUE_BYTES
      <3>1. Len(t) \in Nat /\ Len(t) >= 1 /\ Size[e] \in Nat
        BY <1>1, <1>8, <2>1
      <3> HIDE DEF b, c, n
      <3> QED BY <1>1, <2>4, <2>5, <2>6, <2>8, <3>1
    <2>10. i # Len(s) /\ EncodedLen(Mailbox(t)) \in Nat
      <3>1. Mailbox(t) \in Value
        BY <2>1, Values
      <3> QED BY <1>8, <3>1, LengthIsNumber
    <2> QED BY <1>1, <2>9, <2>10 DEF SmallEnough, t
  <1>10. x = n
    <2>1. x \in 0..n /\ SmallEnough(s, x)
      BY <1>4, ExcessProperties
    <2> HIDE DEF x
    <2> QED BY <1>8, <1>9, <2>1
  <1>11. Pruned(s) = <<>>
    <2>1. n \in 0..Len(s) /\ Suffix(s, n) \in Seq(Envelope) /\ Len(Suffix(s, n)) = n - n
      BY <1>4, <1>8, SuffixProperties
    <2>2. Len(Suffix(s, n)) = 0
      BY <1>8, <2>1
    <2> HIDE DEF n
    <2> QED BY <1>10, <2>1, <2>2, EmptySeq DEF Pruned
  <1>12. \A g \in ToSet(m.parts) : Fits(g)
    BY <1>2, <1>3
  <1> QED BY <1>2, <1>11, <1>12 DEF MergeStoreValue, s, m-----------------------------------------------------------------------------
(* One node's records.  What get returns, of any records s. *)
AvailableIn(s, k) == {r.value : r \in {x \in ToSet(s) : x.key = k /\ ~Expired(x)}}
FoundIn(s, k) == IF AvailableIn(s, k) = {} THEN NoBytes ELSE CHOOSE v \in AvailableIn(s, k) : TRUE

LEMMA FoundIsValue ==
  ASSUME NEW s \in Seq(Record), NEW k
  PROVE  AvailableIn(s, k) \subseteq Value /\ FoundIn(s, k) \in Value
  <1>1. \A r \in ToSet(s) : r \in Record
    BY LenProperties, ElementOfSeq DEF ToSet
  <1>2. AvailableIn(s, k) \subseteq Value
    BY <1>1 DEF AvailableIn, Record
  <1>3. AvailableIn(s, k) # {} => FoundIn(s, k) \in AvailableIn(s, k)
    BY DEF FoundIn
  <1> QED BY <1>2, <1>3, Values DEF FoundIn

(* A filter keeps the records of a node sound, with the bytes they have. *)
LEMMA FilterSound ==
  ASSUME NEW s \in Seq(Record), NEW b, NodeSound(s, b), NEW S
  PROVE  /\ Picked(s, S) \in Seq(Record)
         /\ BytesOf(Picked(s, S)) \in Nat /\ BytesOf(Picked(s, S)) <= b
         /\ NodeSound(Picked(s, S), BytesOf(Picked(s, S)))
  <1> DEFINE p == Picked(s, S)
             U == ToSet(s) \ S
             q == Picked(s, U)
             key == [r \in Record |-> r.key]
  <1>1. DOMAIN s = 1..Len(s) /\ \A i \in 1..Len(s) : s[i] \in Record /\ s[i] \in ToSet(s)
    BY LenProperties, ElementOfSeq DEF ToSet
  <1>2. p \in Seq(Record) /\ Len(p) <= Len(s) /\ q \in Seq(Record)
    <2> HIDE DEF U
    <2> QED BY PickedProperties
  <1>3. RecordLen \in [Record -> Nat]
    BY LengthIsNumber DEF RecordLen, Record
  <1>4. Weighed(s, RecordLen) = Weighed(p, RecordLen) + Weighed(q, RecordLen)
    <2>1. \A i \in 1..Len(s) : s[i] \in S <=> s[i] \notin U
      BY <1>1
    <2> HIDE DEF U
    <2> QED BY <1>3, <2>1, WeighedPicked
  <1>5. \A i, j \in 1..Len(s) : key[s[i]] = key[s[j]] => i = j
    <2>1. \A i \in 1..Len(s) : key[s[i]] = s[i].key
      BY <1>1
    <2> HIDE DEF key
    <2> QED BY <1>1, <2>1 DEF NodeSound
  <1> HIDE DEF key
  <1>6. \A i, j \in 1..Len(p) : key[p[i]] = key[p[j]] => i = j
    BY <1>5, PickedDistinct
  <1> HIDE DEF p, q
  <1>7. BytesOf(s) = Weighed(s, RecordLen) /\ BytesOf(p) = Weighed(p, RecordLen)
        /\ BytesOf(p) \in Nat /\ Weighed(q, RecordLen) \in Nat
    BY <1>2, <1>3, BytesAreWeights, WeightsProperties
  <1>8. BytesOf(p) <= b
    BY <1>4, <1>7 DEF NodeSound
  <1>9. DOMAIN p = 1..Len(p) /\ \A i \in 1..Len(p) : p[i] \in Record /\ key[p[i]] = p[i].key
    <2>1. DOMAIN p = 1..Len(p) /\ \A i \in 1..Len(p) : p[i] \in Record
      BY <1>2, LenProperties, ElementOfSeq
    <2> QED BY <2>1 DEF key
  <1>10. \A i, j \in DOMAIN p : p[i].key = p[j].key => i = j
    BY <1>6, <1>9
  <1>11. Len(p) <= MAX_STORAGE_RECORDS /\ BytesOf(p) <= MAX_STORAGE_BYTES
    <2>1. Len(p) \in Nat /\ Len(s) \in Nat /\ b \in Nat /\ MAX_STORAGE_BYTES \in Nat
          /\ MAX_STORAGE_RECORDS \in Nat
      BY <1>2, LenProperties, BytesAreWeights, StorageAssumption DEF NodeSound
    <2> QED BY <1>2, <1>7, <1>8, <2>1 DEF NodeSound
  <1> QED BY <1>2, <1>7, <1>8, <1>10, <1>11 DEF NodeSound, p

(* What a key has and what the others have make up all there is.           *)
LEMMA KeyApart ==
  ASSUME NEW s \in Seq(Record), NEW k
  PROVE  /\ Others(s, k) \in Seq(Record) /\ Previous(s, k) \in Seq(Record)
         /\ BytesOf(s) = BytesOf(Others(s, k)) + BytesOf(Previous(s, k))
         /\ \A i \in 1..Len(Others(s, k)) : Others(s, k)[i].key # k
  <1> DEFINE S == {r \in ToSet(s) : r.key # k}
             U == {r \in ToSet(s) : r.key = k}
  <1>1. \A i \in 1..Len(s) : s[i] \in S <=> s[i] \notin U
    BY LenProperties DEF ToSet
  <1>2. RecordLen \in [Record -> Nat]
    BY LengthIsNumber DEF RecordLen, Record
  <1>3. Others(s, k) = Picked(s, S) /\ Previous(s, k) = Picked(s, U)
    BY DEF Others, Previous
  <1>4. \A r \in S : r.key # k
    OBVIOUS
  <1> HIDE DEF S, U
  <1>5. /\ Picked(s, S) \in Seq(Record) /\ Picked(s, U) \in Seq(Record)
        /\ \A i \in 1..Len(Picked(s, S)) : Picked(s, S)[i] \in S
    BY PickedProperties
  <1>6. Weighed(s, RecordLen) = Weighed(Picked(s, S), RecordLen) + Weighed(Picked(s, U), RecordLen)
    BY <1>1, <1>2, WeighedPicked
  <1> QED BY <1>3, <1>4, <1>5, <1>6, BytesAreWeights

(* Records whose ages change weigh what they did. *)
LEMMA AgesDoNotMatter ==
  ASSUME NEW s \in Seq(Record), NEW t \in Seq(Record), NEW b, NodeSound(s, b),
         Len(t) = Len(s),
         \A i \in 1..Len(s) : t[i].key = s[i].key /\ t[i].value = s[i].value
  PROVE  NodeSound(t, b)
  <1>1. DOMAIN s = 1..Len(s) /\ DOMAIN t = 1..Len(s)
    BY LenProperties
  <1>2. [i \in DOMAIN s |-> EncodedLen(s[i].value)] = [i \in DOMAIN t |-> EncodedLen(t[i].value)]
    BY <1>1
  <1>3. BytesOf(s) = BytesOf(t)
    BY <1>2 DEF BytesOf
  <1> QED BY <1>1, <1>3 DEF NodeSound

LEMMA EmptySound ==
  /\ <<>> \in Seq(Record) /\ NodeSound(<<>>, 0)
  <1>1. <<>> \in Seq(Record) /\ Len(<<>>) = 0 /\ DOMAIN <<>> = {}
    BY EmptySeq
  <1>2. BytesOf(<<>>) = 0
    BY <1>1, BytesAreWeights, WeighedEmpty
  <1> QED BY <1>1, <1>2, StorageAssumption DEF NodeSound
LEMMA RoomProperties ==
  ASSUME NEW s \in Seq(Record), NEW bytes \in Int, NEW size \in Nat
  PROVE  /\ Room(s, bytes, size) \in 0..Len(s)
         /\ LET i == Room(s, bytes, size)
            IN  \/ i = Len(s)
                \/ /\ bytes - BytesOf(SubSeq(s, 1, i)) + size <= MAX_STORAGE_BYTES
                   /\ Len(s) - i < MAX_STORAGE_RECORDS
  <1> DEFINE Fit(i) == \/ i = Len(s)
                       \/ /\ bytes - BytesOf(SubSeq(s, 1, i)) + size <= MAX_STORAGE_BYTES
                          /\ Len(s) - i < MAX_STORAGE_RECORDS
             T == {i \in 0..Len(s) : Fit(i)}
             x == Room(s, bytes, size)
  <1>1. T \subseteq Nat /\ Len(s) \in T
    BY LenProperties
  <1>2. x = Min(T)
    BY DEF Room
  <1>3. Min(T) \in T
    <2> HIDE DEF T
    <2> QED BY <1>1, LeastElement
  <1>4. x \in T
    BY <1>2, <1>3
  <1> HIDE DEF x, Fit
  <1>5. x \in 0..Len(s) /\ Fit(x)
    BY <1>4
  <1> QED BY <1>5 DEF Fit, x

(* put: evicting the oldest makes room for the new record, and what get    *)
(* then returns is the value that was put.                                 *)
NewRecord(k, v) == [key |-> k, value |-> v, ttl |-> RecordTtl, due |-> RepublishInterval]

Evicted(s, b, k, v) == Room(Others(s, k), b - BytesOf(Previous(s, k)), EncodedLen(v))

RecordsAfterPut(s, b, k, v) ==
  Append(Suffix(Others(s, k), Evicted(s, b, k, v)), NewRecord(k, v))

BytesAfterPut(s, b, k, v) ==
  b - BytesOf(Previous(s, k)) - BytesOf(SubSeq(Others(s, k), 1, Evicted(s, b, k, v)))
    + EncodedLen(v)

LEMMA PutSound ==
  ASSUME NEW s \in Seq(Record), NEW b, NodeSound(s, b), NEW k \in DHTKeys, NEW v \in Value,
         EncodedLen(v) <= MAX_STORAGE_BYTES
  PROVE  /\ RecordsAfterPut(s, b, k, v) \in Seq(Record)
         /\ BytesAfterPut(s, b, k, v) \in Nat
         /\ NodeSound(RecordsAfterPut(s, b, k, v), BytesAfterPut(s, b, k, v))
         /\ FoundIn(RecordsAfterPut(s, b, k, v), k) = v
  <1> DEFINE others == Others(s, k)
             bytes == b - BytesOf(Previous(s, k))
             i == Evicted(s, b, k, v)
             t == RecordsAfterPut(s, b, k, v)
             c == BytesAfterPut(s, b, k, v)
             r == NewRecord(k, v)
             size == EncodedLen(v)
             u == Suffix(others, i)
             p == SubSeq(others, 1, i)
  <1>1. r \in Record /\ r.key = k /\ r.value = v /\ r.ttl = RecordTtl
    BY StorageAssumption DEF NewRecord, Record
  <1>2. size \in Nat
    BY LengthIsNumber
  <1>3. /\ others \in Seq(Record) /\ Previous(s, k) \in Seq(Record)
        /\ BytesOf(s) = BytesOf(others) + BytesOf(Previous(s, k))
        /\ \A j \in 1..Len(others) : others[j].key # k
    BY KeyApart
  <1>4. bytes = BytesOf(others) /\ bytes \in Nat
    <2> HIDE DEF others
    <2>1. BytesOf(others) \in Nat /\ BytesOf(Previous(s, k)) \in Nat
      BY <1>3, BytesAreWeights
    <2>2. b = BytesOf(s)
      BY DEF NodeSound
    <2> QED BY <1>3, <2>1, <2>2
  <1>5. /\ \A m, j \in 1..Len(others) : others[m].key = others[j].key => m = j
    <2>1. NodeSound(others, BytesOf(others))
      BY FilterSound DEF Others
    <2> HIDE DEF others
    <2>2. DOMAIN others = 1..Len(others)
      BY <1>3, LenProperties
    <2> QED BY <2>1, <2>2 DEF NodeSound
  <1> HIDE DEF r, size, others, bytes
  <1>6. /\ i \in 0..Len(others)
        /\ \/ i = Len(others)
           \/ /\ bytes - BytesOf(p) + size <= MAX_STORAGE_BYTES
              /\ Len(others) - i < MAX_STORAGE_RECORDS
    <2>1. i = Room(others, bytes, size)
      BY DEF Evicted, others, bytes, size
    <2> HIDE DEF i
    <2> QED BY <1>2, <1>3, <1>4, <2>1, RoomProperties
  <1> HIDE DEF i
  <1>7. RecordLen \in [Record -> Nat]
    BY LengthIsNumber DEF RecordLen, Record
  <1>8. /\ p \in Seq(Record) /\ u \in Seq(Record) /\ Len(u) = Len(others) - i
        /\ \A j \in 1..(Len(others) - i) : u[j] = others[i + j]
        /\ Weighed(others, RecordLen) = Weighed(p, RecordLen) + Weighed(u, RecordLen)
    <2>1. /\ SubSeq(others, 1, i) \in Seq(Record)
          /\ SubSeq(others, i + 1, Len(others)) \in Seq(Record)
          /\ Len(SubSeq(others, i + 1, Len(others))) = Len(others) - i
          /\ \A j \in 1..(Len(others) - i) : SubSeq(others, i + 1, Len(others))[j] = others[i + j]
          /\ Weighed(others, RecordLen) = Weighed(SubSeq(others, 1, i), RecordLen)
               + Weighed(SubSeq(others, i + 1, Len(others)), RecordLen)
      <3>1. others \in Seq(Record) /\ i \in 0..Len(others)
        BY <1>3, <1>6
      <3> HIDE DEF p, u
      <3> QED BY <1>7, <3>1, WeighedSplit
    <2>2. u = SubSeq(others, i + 1, Len(others))
      BY DEF Suffix
    <2> HIDE DEF u
    <2> QED BY <2>1, <2>2
  <1>9. Len(others) \in Nat
    BY <1>3, LenProperties
  <1> HIDE DEF u, p, t, c
  <1>10. /\ t \in Seq(Record) /\ Len(t) = Len(u) + 1 /\ t[Len(u) + 1] = r
         /\ \A j \in 1..Len(u) : t[j] = u[j]
         /\ DOMAIN t = 1..Len(t)
    <2>1. t = Append(u, r)
      BY DEF RecordsAfterPut, t, i, u, r, others
    <2>2. u \in Seq(Record) /\ r \in Record
      BY <1>1, <1>8
    <2>3. /\ t \in Seq(Record) /\ Len(t) = Len(u) + 1
          /\ t[Len(u) + 1] = r /\ \A j \in 1..Len(u) : t[j] = u[j]
      BY <2>1, <2>2, AppendProperties
    <2> QED BY <2>3, LenProperties
  <1>11. /\ BytesOf(t) = BytesOf(u) + size
         /\ bytes = BytesOf(p) + BytesOf(u)
         /\ BytesOf(u) \in Nat /\ BytesOf(p) \in Nat
    <2>1. t = Append(u, r)
      BY DEF RecordsAfterPut, t, i, u, r, others
    <2>2. Weighed(t, RecordLen) = Weighed(u, RecordLen) + RecordLen[r]
      <3>1. u \in Seq(Record) /\ r \in Record
        BY <1>1, <1>8
      <3> QED BY <1>7, <2>1, <3>1, WeighedAppend
    <2>3. RecordLen[r] = size
      BY <1>1 DEF RecordLen, size
    <2>4. /\ BytesOf(t) = Weighed(t, RecordLen) /\ BytesOf(u) = Weighed(u, RecordLen)
          /\ BytesOf(p) = Weighed(p, RecordLen) /\ BytesOf(others) = Weighed(others, RecordLen)
          /\ BytesOf(u) \in Nat /\ BytesOf(p) \in Nat
      BY <1>3, <1>8, <1>10, BytesAreWeights
    <2> QED BY <1>4, <1>8, <2>2, <2>3, <2>4
  <1>12. c = BytesOf(t) /\ c \in Nat /\ c = bytes - BytesOf(p) + size
    <2>1. c = bytes - BytesOf(p) + size
      BY DEF BytesAfterPut, c, i, others, bytes, p, size
    <2> QED BY <1>2, <1>11, <2>1
  <1>13. c <= MAX_STORAGE_BYTES /\ Len(t) <= MAX_STORAGE_RECORDS
    <2>1. MAX_STORAGE_BYTES \in Nat /\ MAX_STORAGE_RECORDS \in Nat /\ 1 <= MAX_STORAGE_RECORDS
          /\ size <= MAX_STORAGE_BYTES
      BY StorageAssumption DEF size
    <2>2. CASE i = Len(others)
      <3>1. Len(u) = 0
        BY <1>8, <1>9, <2>2
      <3>2. u = <<>>
        BY <1>8, <3>1, EmptySeq
      <3>3. BytesOf(u) = 0
        BY <3>2, EmptySound DEF NodeSound
      <3> QED BY <1>2, <1>10, <1>11, <1>12, <2>1, <3>1, <3>3
    <2>3. CASE i # Len(others)
      <3>1. c <= MAX_STORAGE_BYTES
        BY <1>6, <1>12, <2>3
      <3>2. Len(others) - i < MAX_STORAGE_RECORDS
        BY <1>6, <2>3
      <3> QED BY <1>6, <1>8, <1>9, <1>10, <2>1, <3>1, <3>2
    <2> QED BY <2>2, <2>3
  <1>14. \A j \in 1..Len(u) : t[j].key # k
    <2> SUFFICES ASSUME NEW j \in 1..Len(u) PROVE t[j].key # k
      OBVIOUS
    <2>1. i + j \in 1..Len(others) /\ j \in 1..(Len(others) - i)
      BY <1>6, <1>8, <1>9
    <2>2. t[j] = others[i + j]
      BY <1>8, <1>10, <2>1
    <2> QED BY <1>3, <2>1, <2>2
  <1>15. \A m, j \in DOMAIN t : t[m].key = t[j].key => m = j
    <2> SUFFICES ASSUME NEW m \in DOMAIN t, NEW j \in DOMAIN t, t[m].key = t[j].key PROVE m = j
      OBVIOUS
    <2>1. Len(u) \in Nat
      BY <1>8, LenProperties
    <2>2. m \in 1..Len(u) \/ m = Len(u) + 1
      BY <1>10, <2>1
    <2>3. j \in 1..Len(u) \/ j = Len(u) + 1
      BY <1>10, <2>1
    <2>4. CASE m \in 1..Len(u) /\ j \in 1..Len(u)
      <3>1. i + m \in 1..Len(others) /\ m \in 1..(Len(others) - i)
            /\ i + j \in 1..Len(others) /\ j \in 1..(Len(others) - i)
        BY <1>6, <1>8, <1>9, <2>4
      <3>2. t[m] = others[i + m] /\ t[j] = others[i + j]
        BY <1>8, <1>10, <2>4, <3>1
      <3>3. i + m = i + j
        BY <1>5, <3>1, <3>2
      <3> QED BY <1>6, <2>1, <2>4, <3>3
    <2>5. t[Len(u) + 1].key = k
      BY <1>1, <1>10
    <2> QED BY <1>14, <2>2, <2>3, <2>4, <2>5
  <1>16. FoundIn(t, k) = v
    <2>1. ~Expired(r)
      <3>1. RecordTtl \in Nat
        BY StorageAssumption
      <3> QED BY <1>1, <3>1 DEF Expired
    <2>2. Len(u) \in Nat
      BY <1>8, LenProperties
    <2>3. ToSet(t) = {t[j] : j \in 1..Len(u)} \cup {r}
      <3>1. 1..Len(t) = (1..Len(u)) \cup {Len(u) + 1}
        BY <1>10, <2>2
      <3> QED BY <1>10, <3>1 DEF ToSet
    <2>4. {x \in ToSet(t) : x.key = k /\ ~Expired(x)} = {r}
      <3>1. \A x \in ToSet(t) : x # r => x.key # k
        BY <1>10, <1>14, <2>3
      <3>2. r \in ToSet(t) /\ r.key = k
        BY <1>1, <2>3
      <3> QED BY <2>1, <3>1, <3>2
    <2>5. AvailableIn(t, k) = {v}
      BY <1>1, <2>4 DEF AvailableIn
    <2> QED BY <2>5 DEF FoundIn
  <1> QED BY <1>10, <1>12, <1>13, <1>15, <1>16 DEF NodeSound, t, c-----------------------------------------------------------------------------
(* The nodes' records, step by step. *)
Shelves ==
  /\ records \in [StoreNodes -> Seq(Record)]
  /\ storedBytes \in [StoreNodes -> Nat]
  /\ StorageBounded

LEMMA ShelvesAre ==
  Shelves <=> /\ records \in [StoreNodes -> Seq(Record)]
              /\ storedBytes \in [StoreNodes -> Nat]
              /\ \A n \in StoreNodes : NodeSound(records[n], storedBytes[n])
  BY DEF Shelves, StorageBounded, NodeSound

LEMMA FoundIsFoundIn ==
  /\ \A n, k : Found(n, k) = FoundIn(records[n], k) /\ Available(n, k) = AvailableIn(records[n], k)
  /\ \A n, k : Found(n, k)' = FoundIn(records'[n], k)
  BY DEF Found, FoundIn, Available, AvailableIn

LEMMA OneShelfChanges ==
  ASSUME Shelves, NEW n \in StoreNodes, NEW t \in Seq(Record), NEW c \in Nat, NodeSound(t, c),
         records' = [records EXCEPT ![n] = t], storedBytes' = [storedBytes EXCEPT ![n] = c]
  PROVE  Shelves' /\ records'[n] = t
  <1>1. /\ records \in [StoreNodes -> Seq(Record)]
        /\ storedBytes \in [StoreNodes -> Nat]
        /\ \A m \in StoreNodes : NodeSound(records[m], storedBytes[m])
    BY ShelvesAre
  <1>2. records'[n] = t /\ storedBytes'[n] = c
        /\ \A m \in StoreNodes : m # n => records'[m] = records[m] /\ storedBytes'[m] = storedBytes[m]
    BY <1>1
  <1>3. records' \in [StoreNodes -> Seq(Record)] /\ storedBytes' \in [StoreNodes -> Nat]
    BY <1>1
  <1>4. \A m \in StoreNodes : NodeSound(records'[m], storedBytes'[m])
    <2> SUFFICES ASSUME NEW m \in StoreNodes PROVE NodeSound(records'[m], storedBytes'[m])
      OBVIOUS
    <2>1. CASE m = n
      BY <1>2, <2>1
    <2>2. CASE m # n
      <3>1. records'[m] = records[m] /\ storedBytes'[m] = storedBytes[m] /\ NodeSound(records[m], storedBytes[m])
        BY <1>1, <1>2, <2>2
      <3> QED BY <3>1
    <2> QED BY <2>1, <2>2
  <1> QED BY <1>2, <1>3, <1>4 DEF Shelves, StorageBounded, NodeSound

LEMMA SameShelves ==
  ASSUME Shelves, UNCHANGED <<records, storedBytes>>
  PROVE  Shelves'
  BY DEF Shelves, StorageBounded

LEMMA PutKeeps ==
  ASSUME Shelves, NEW n \in StoreNodes, NEW k \in DHTKeys, NEW v \in Value, Put(n, k, v)
  PROVE  Shelves' /\ (EncodedLen(v) <= MAX_STORAGE_BYTES => Found(n, k)' = v)
  <1> DEFINE s == records[n]
             b == storedBytes[n]
             t == RecordsAfterPut(s, b, k, v)
             c == BytesAfterPut(s, b, k, v)
  <1>1. s \in Seq(Record) /\ NodeSound(s, b)
    BY ShelvesAre
  <1>2. EncodedLen(v) \in Nat /\ MAX_STORAGE_BYTES \in Nat
    BY LengthIsNumber, StorageAssumption
  <1>3. CASE EncodedLen(v) > MAX_STORAGE_BYTES
    BY <1>2, <1>3, SameShelves DEF Put
  <1>4. CASE ~(EncodedLen(v) > MAX_STORAGE_BYTES)
    <2>1. EncodedLen(v) <= MAX_STORAGE_BYTES
      BY <1>2, <1>4
    <2>2. records' = [records EXCEPT ![n] = t] /\ storedBytes' = [storedBytes EXCEPT ![n] = c]
      BY <1>4 DEF Put, RecordsAfterPut, BytesAfterPut, Evicted, NewRecord
    <2> HIDE DEF s, b
    <2>3. t \in Seq(Record) /\ c \in Nat /\ NodeSound(t, c) /\ FoundIn(t, k) = v
      BY <1>1, <2>1, PutSound
    <2> HIDE DEF t, c
    <2>4. Shelves' /\ records'[n] = t
      BY <2>2, <2>3, OneShelfChanges
    <2> QED BY <2>3, <2>4, FoundIsFoundIn
  <1> QED BY <1>3, <1>4

LEMMA DropKeeps ==
  ASSUME Shelves, NEW n \in StoreNodes, NEW k, Drop(n, k)
  PROVE  Shelves'
  <1> DEFINE s == records[n]
             t == Others(s, k)
             c == BytesOf(t)
  <1>1. s \in Seq(Record) /\ NodeSound(s, storedBytes[n]) /\ storedBytes[n] \in Nat
        /\ storedBytes \in [StoreNodes -> Nat]
    BY ShelvesAre
  <1>2. records' = [records EXCEPT ![n] = t]
        /\ storedBytes' = [storedBytes EXCEPT ![n] = storedBytes[n] - BytesOf(Previous(s, k))]
    BY DEF Drop, Shelves
  <1> HIDE DEF s
  <1>3. t \in Seq(Record) /\ c \in Nat /\ NodeSound(t, c)
    BY <1>1, FilterSound DEF Others
  <1>4. storedBytes[n] - BytesOf(Previous(s, k)) = c
    <2>1. BytesOf(s) = c + BytesOf(Previous(s, k)) /\ BytesOf(Previous(s, k)) \in Nat
      BY <1>1, KeyApart, BytesAreWeights
    <2> HIDE DEF c
    <2> QED BY <1>1, <1>3, <2>1 DEF NodeSound
  <1> HIDE DEF t, c
  <1> QED BY <1>2, <1>3, <1>4, OneShelfChanges

LEMMA ClearKeeps ==
  ASSUME Shelves, NEW n \in StoreNodes, Clear(n)
  PROVE  Shelves'
  BY EmptySound, OneShelfChanges DEF Clear

LEMMA CleanupKeeps ==
  ASSUME Shelves, NEW n \in StoreNodes, CleanupStale(n)
  PROVE  Shelves'
  <1> DEFINE S == {r \in ToSet(records[n]) : ~Expired(r)}
             t == Picked(records[n], S)
             c == BytesOf(t)
  <1>1. records[n] \in Seq(Record) /\ NodeSound(records[n], storedBytes[n])
    BY ShelvesAre
  <1>2. records' = [records EXCEPT ![n] = t] /\ storedBytes' = [storedBytes EXCEPT ![n] = c]
    BY DEF CleanupStale
  <1> HIDE DEF S
  <1>3. t \in Seq(Record) /\ c \in Nat /\ NodeSound(t, c)
    BY <1>1, FilterSound
  <1> HIDE DEF t, c
  <1> QED BY <1>2, <1>3, OneShelfChanges
LEMMA AgesKeepShelves ==
  ASSUME Shelves,
         records' \in [StoreNodes -> Seq(Record)], UNCHANGED storedBytes,
         \A n \in StoreNodes :
           /\ Len(records'[n]) = Len(records[n])
           /\ \A i \in 1..Len(records[n]) :
                /\ records'[n][i].key = records[n][i].key
                /\ records'[n][i].value = records[n][i].value
  PROVE  Shelves'
  <1>1. /\ records \in [StoreNodes -> Seq(Record)]
        /\ storedBytes \in [StoreNodes -> Nat]
        /\ \A m \in StoreNodes : NodeSound(records[m], storedBytes[m])
    BY ShelvesAre
  <1>2. \A n \in StoreNodes : NodeSound(records'[n], storedBytes'[n])
    <2> SUFFICES ASSUME NEW n \in StoreNodes PROVE NodeSound(records'[n], storedBytes'[n])
      OBVIOUS
    <2> DEFINE s == records[n]
               t == records'[n]
    <2>1. s \in Seq(Record) /\ t \in Seq(Record) /\ NodeSound(s, storedBytes[n]) /\ Len(t) = Len(s)
          /\ \A i \in 1..Len(s) : t[i].key = s[i].key /\ t[i].value = s[i].value
      BY <1>1
    <2> HIDE DEF s, t
    <2>2. NodeSound(t, storedBytes[n])
      BY <2>1, AgesDoNotMatter
    <2> QED BY <2>2 DEF t
  <1> QED BY <1>1, <1>2 DEF Shelves, StorageBounded, NodeSound

(* A record grows older, or is given a new time to be republished.         *)
LEMMA AgedRecords ==
  ASSUME NEW r \in Record
  PROVE  /\ Older(r) \in Record /\ Older(r).key = r.key /\ Older(r).value = r.value
         /\ [r EXCEPT !.due = RepublishInterval] \in Record
  <1>1. RecordTtl \in Nat /\ RepublishInterval \in Nat
    BY StorageAssumption
  <1> DEFINE a == IF r.ttl < 0 THEN r.ttl ELSE r.ttl - 1
             b == IF r.due = 0 THEN r.due ELSE r.due - 1
  <1>2. Older(r) = [r EXCEPT !.ttl = a, !.due = b]
    BY DEF Older, Record
  <1>3. r.ttl \in -1..RecordTtl /\ r.due \in 0..RepublishInterval
    BY DEF Record
  <1>4. a \in -1..RecordTtl
    BY <1>1, <1>3
  <1>5. b \in 0..RepublishInterval
    BY <1>1, <1>3
  <1> HIDE DEF a, b
  <1>6. [r EXCEPT !.due = RepublishInterval] \in Record
    BY <1>1 DEF Record
  <1> QED BY <1>2, <1>4, <1>5, <1>6 DEF Record

LEMMA RepublishKeeps ==
  ASSUME Shelves, NEW n \in StoreNodes, Republish(n)
  PROVE  Shelves'
  <1> DEFINE s == records[n]
             t == [i \in DOMAIN s |->
                     IF Republished(s[i]) THEN [s[i] EXCEPT !.due = RepublishInterval] ELSE s[i]]
  <1>1. s \in Seq(Record) /\ records \in [StoreNodes -> Seq(Record)]
    BY DEF Shelves
  <1>2. records' = [records EXCEPT ![n] = t] /\ UNCHANGED storedBytes
    BY <1>1 DEF Republish
  <1> HIDE DEF s
  <1>3. DOMAIN s = 1..Len(s) /\ Len(s) \in Nat /\ \A i \in 1..Len(s) : s[i] \in Record
    BY <1>1, LenProperties, ElementOfSeq
  <1>4. \A i \in 1..Len(s) : t[i] \in Record /\ t[i].key = s[i].key /\ t[i].value = s[i].value
    <2> SUFFICES ASSUME NEW i \in 1..Len(s)
                 PROVE  t[i] \in Record /\ t[i].key = s[i].key /\ t[i].value = s[i].value
      OBVIOUS
    <2>1. CASE Republished(s[i])
      <3>1. t[i] = [s[i] EXCEPT !.due = RepublishInterval] /\ s[i] \in Record
        BY <1>3, <2>1
      <3>2. [s[i] EXCEPT !.due = RepublishInterval] \in Record
        BY <3>1, AgedRecords
      <3> HIDE DEF t
      <3> QED BY <3>1, <3>2 DEF Record
    <2>2. CASE ~Republished(s[i])
      BY <1>3, <2>2
    <2> QED BY <2>1, <2>2
  <1>5. t \in [1..Len(s) -> Record]
    <2>1. t = [i \in 1..Len(s) |-> t[i]]
      BY <1>3
    <2> HIDE DEF t
    <2> QED BY <1>4, <2>1
  <1> HIDE DEF t
  <1>6. t \in Seq(Record) /\ Len(t) = Len(s)
    BY <1>3, <1>5, FunctionIsSeq
  <1>7. records' \in [StoreNodes -> Seq(Record)] /\ records'[n] = t
        /\ \A m \in StoreNodes : m # n => records'[m] = records[m]
    <2>1. records \in [StoreNodes -> Seq(Record)] /\ records' = [records EXCEPT ![n] = t]
          /\ t \in Seq(Record)
      BY <1>1, <1>2, <1>6
    <2> QED BY <2>1
  <1>8. ASSUME NEW m \in StoreNodes
        PROVE  /\ Len(records'[m]) = Len(records[m])
               /\ \A i \in 1..Len(records[m]) :
                    /\ records'[m][i].key = records[m][i].key
                    /\ records'[m][i].value = records[m][i].value
    <2>1. CASE m = n
      BY <1>4, <1>6, <1>7, <2>1 DEF s
    <2>2. CASE m # n
      BY <1>7, <2>2
    <2> QED BY <2>1, <2>2
  <1> QED BY <1>2, <1>7, <1>8, AgesKeepShelves

LEMMA TickKeeps ==
  ASSUME Shelves, StorageTick
  PROVE  Shelves'
  <1> DEFINE t(n) == [i \in DOMAIN records[n] |-> Older(records[n][i])]
  <1>1. records' = [n \in StoreNodes |-> t(n)] /\ UNCHANGED storedBytes
    BY DEF StorageTick
  <1>2. ASSUME NEW n \in StoreNodes
        PROVE  /\ t(n) \in Seq(Record) /\ Len(t(n)) = Len(records[n])
               /\ \A i \in 1..Len(records[n]) :
                    t(n)[i].key = records[n][i].key /\ t(n)[i].value = records[n][i].value
    <2> DEFINE s == records[n]
               u == [i \in DOMAIN s |-> Older(s[i])]
    <2>1. s \in Seq(Record)
      BY DEF Shelves
    <2> HIDE DEF s
    <2>2. DOMAIN s = 1..Len(s) /\ Len(s) \in Nat /\ \A i \in 1..Len(s) : s[i] \in Record
      BY <2>1, LenProperties, ElementOfSeq
    <2>3. \A i \in 1..Len(s) : u[i] \in Record /\ u[i].key = s[i].key /\ u[i].value = s[i].value
      BY <2>2, AgedRecords
    <2>4. u = [i \in 1..Len(s) |-> u[i]]
      BY <2>2
    <2> HIDE DEF u
    <2>5. u \in [1..Len(s) -> Record]
      BY <2>3, <2>4
    <2>6. u \in Seq(Record) /\ Len(u) = Len(s)
      BY <2>2, <2>5, FunctionIsSeq
    <2>7. u = t(n)
      BY DEF u, s
    <2> QED BY <2>3, <2>6, <2>7 DEF s
  <1> HIDE DEF t
  <1>3. records' \in [StoreNodes -> Seq(Record)] /\ \A n \in StoreNodes : records'[n] = t(n)
    BY <1>1, <1>2
  <1> QED BY <1>1, <1>2, <1>3, AgesKeepShelves-----------------------------------------------------------------------------
(* The types and limits of the whole storage. *)
Lookings == [StoreNodes -> {NoGet} \cup [key : DHTKeys, answer : SUBSET Value]]
StoreMessage == [to : StoreNodes, key : DHTKeys, value : Value]
OnTheWire(S) == S \subseteq StoreMessage /\ \A m \in S : Sendable(m.value)

StorageInv == StorageTypeOK /\ StorageBounded /\ AnswersFit

LEMMA StorageInvIs ==
  StorageInv <=> Shelves /\ looking \in Lookings /\ OnTheWire(storing) /\ AnswersFit
  BY DEF StorageInv, Shelves, StorageTypeOK, Lookings, OnTheWire, StoreMessage

LEMMA StorageInvIsPrime ==
  (Shelves' /\ looking' \in Lookings /\ OnTheWire(storing') /\ AnswersFit') => StorageInv'
  BY DEF StorageInv, Shelves, StorageTypeOK, Lookings, OnTheWire, StoreMessage

LEMMA StoresAreSendable ==
  ASSUME NEW n, NEW k \in DHTKeys, NEW v \in Value
  PROVE  OnTheWire(Stores(n, k, v))
  BY DEF OnTheWire, Stores, StoreMessage

LEMMA SameGets ==
  ASSUME AnswersFit, UNCHANGED looking
  PROVE  AnswersFit'
  BY DEF AnswersFit

LEMMA ApplicationPutStep ==
  ASSUME StorageInv, NEW p \in Puts, ApplicationPut(p[1], p[2], p[3])
  PROVE  StorageInv'
  <1>1. p[1] \in StoreNodes /\ p[2] \in DHTKeys /\ p[3] \in Value
    BY StorageAssumption
  <1>2. Shelves'
    BY <1>1, StorageInvIs, PutKeeps DEF ApplicationPut
  <1>3. OnTheWire(storing')
    <2>1. OnTheWire(Stores(p[1], p[2], p[3])) /\ OnTheWire(storing)
      BY <1>1, StoresAreSendable, StorageInvIs
    <2> QED BY <2>1 DEF ApplicationPut, OnTheWire
  <1>4. looking' \in Lookings /\ AnswersFit'
    BY StorageInvIs, SameGets DEF ApplicationPut
  <1> QED BY <1>2, <1>3, <1>4, StorageInvIsPrime

LEMMA MergedIsValue ==
  ASSUME StorageInv, NEW m \in storing
  PROVE  /\ m.to \in StoreNodes /\ m.key \in DHTKeys /\ m.value \in Value
         /\ Found(m.to, m.key) \in Value
         /\ Merge(m.to, Found(m.to, m.key), m.value).value \in Value
  <1>1. m.to \in StoreNodes /\ m.key \in DHTKeys /\ m.value \in Value
    BY StorageInvIs DEF OnTheWire, StoreMessage
  <1>2. records[m.to] \in Seq(Record)
    BY <1>1, StorageInvIs DEF Shelves
  <1>3. Found(m.to, m.key) \in Value
    BY <1>2, FoundIsValue, FoundIsFoundIn
  <1> QED BY <1>1, <1>3, MergeProperties

LEMMA HandleStoreStep ==
  ASSUME StorageInv, NEW m \in storing, HandleStore(m)
  PROVE  StorageInv'
  <1> DEFINE merged == Merge(m.to, Found(m.to, m.key), m.value)
  <1>1. m.to \in StoreNodes /\ m.key \in DHTKeys /\ merged.value \in Value
    BY MergedIsValue
  <1>2. \/ Put(m.to, m.key, merged.value)
        \/ UNCHANGED <<records, storedBytes>>
    BY DEF HandleStore
  <1> HIDE DEF merged
  <1>3. Shelves'
    BY <1>1, <1>2, StorageInvIs, PutKeeps, SameShelves
  <1>4. OnTheWire(storing')
    BY StorageInvIs DEF HandleStore, OnTheWire
  <1>5. looking' \in Lookings /\ AnswersFit'
    BY StorageInvIs, SameGets DEF HandleStore
  <1> QED BY <1>3, <1>4, <1>5, StorageInvIsPrime

LEMMA StoreLostStep ==
  ASSUME StorageInv, NEW m \in storing, StoreLost(m)
  PROVE  StorageInv'
  <1>1. Shelves'
    BY StorageInvIs, SameShelves DEF StoreLost
  <1>2. OnTheWire(storing')
    BY StorageInvIs DEF StoreLost, OnTheWire
  <1>3. looking' \in Lookings /\ AnswersFit'
    BY StorageInvIs, SameGets DEF StoreLost
  <1> QED BY <1>1, <1>2, <1>3, StorageInvIsPrime

(* A get begins without an answer, and ends without one.                   *)
LEMMA GetMissStep ==
  ASSUME StorageInv, NEW g \in Gets, GetMiss(g[1], g[2])
  PROVE  StorageInv'
  <1>1. g[1] \in StoreNodes /\ g[2] \in DHTKeys
    BY StorageAssumption
  <1>2. looking' = [looking EXCEPT ![g[1]] = [key |-> g[2], answer |-> {}]]
    BY DEF GetMiss
  <1>3. looking \in Lookings
    BY StorageInvIs
  <1>4. looking' \in Lookings
    BY <1>1, <1>2, <1>3 DEF Lookings
  <1>5. AnswersFit'
    <2> SUFFICES ASSUME NEW n \in StoreNodes, looking'[n] # NoGet, NEW v \in looking'[n].answer
                 PROVE  EncodedLen(v) <= IF v.mailbox THEN MAX_MAILBOX_VALUE_BYTES ELSE STORE_SIZE
      BY DEF AnswersFit
    <2>1. n # g[1]
      BY <1>1, <1>2, <1>3 DEF Lookings
    <2>2. looking'[n] = looking[n]
      BY <1>1, <1>2, <1>3, <2>1 DEF Lookings
    <2> QED BY <2>2, StorageInvIs DEF AnswersFit
  <1>6. Shelves' /\ OnTheWire(storing')
    BY StorageInvIs, SameShelves DEF GetMiss
  <1> QED BY <1>4, <1>5, <1>6, StorageInvIsPrime

LEMMA GetEnds ==
  ASSUME StorageInv, NEW n \in StoreNodes, looking' = [looking EXCEPT ![n] = NoGet]
  PROVE  looking' \in Lookings /\ AnswersFit'
  <1>1. looking \in Lookings
    BY StorageInvIs
  <1>2. looking' \in Lookings
    BY <1>1 DEF Lookings
  <1>3. AnswersFit'
    <2> SUFFICES ASSUME NEW m \in StoreNodes, looking'[m] # NoGet, NEW v \in looking'[m].answer
                 PROVE  EncodedLen(v) <= IF v.mailbox THEN MAX_MAILBOX_VALUE_BYTES ELSE STORE_SIZE
      BY DEF AnswersFit
    <2>1. m # n
      BY <1>1 DEF Lookings
    <2>2. looking'[m] = looking[m]
      BY <1>1, <2>1 DEF Lookings
    <2> QED BY <2>2, StorageInvIs DEF AnswersFit
  <1> QED BY <1>2, <1>3
LEMMA GetFoundStep ==
  ASSUME StorageInv, NEW n \in StoreNodes, GetFound(n)
  PROVE  StorageInv'
  <1>1. looking[n] \in [key : DHTKeys, answer : SUBSET Value]
    BY StorageInvIs DEF GetFound, Lookings
  <1>2. PICK v \in looking[n].answer : Put(n, looking[n].key, v)
    BY DEF GetFound
  <1>3. looking[n].key \in DHTKeys /\ v \in Value
    BY <1>1
  <1>4. Shelves'
    BY <1>2, <1>3, StorageInvIs, PutKeeps
  <1>5. looking' \in Lookings /\ AnswersFit'
    BY GetEnds DEF GetFound
  <1>6. OnTheWire(storing')
    BY StorageInvIs DEF GetFound, OnTheWire
  <1> QED BY <1>4, <1>5, <1>6, StorageInvIsPrime

LEMMA GetNotFoundStep ==
  ASSUME StorageInv, NEW n \in StoreNodes, GetNotFound(n)
  PROVE  StorageInv'
  <1>1. looking' \in Lookings /\ AnswersFit'
    BY GetEnds DEF GetNotFound
  <1>2. Shelves' /\ OnTheWire(storing')
    BY StorageInvIs, SameShelves DEF GetNotFound
  <1> QED BY <1>1, <1>2, StorageInvIsPrime

(* What FIND_VALUE serves: the repaired mailbox when the stored one is     *)
(* larger than it, and the stored value otherwise.                         *)
FitsInReply(v) == EncodedLen(v) <= IF v.mailbox THEN MAX_MAILBOX_VALUE_BYTES ELSE STORE_SIZE

LEMMA ServedFits ==
  ASSUME NEW n, NEW value \in Value
  PROVE  LET bounded == Merge(n, NoBytes, value).value
         IN  /\ bounded \in Value
             /\ IF EncodedLen(bounded) < EncodedLen(value)
                  THEN FitsInReply(bounded) ELSE FitsInReply(value)
  <1> DEFINE bounded == Merge(n, NoBytes, value).value
  <1>1. bounded \in Value
    BY Values, MergeProperties
  <1>2. EncodedLen(value) \in Nat /\ EncodedLen(bounded) \in Nat
        /\ MAX_MAILBOX_VALUE_BYTES \in Nat /\ STORE_SIZE \in Nat
    BY <1>1, LengthIsNumber, StorageAssumption
  <1>3. CASE value.mailbox
    <2>1. bounded = Mailbox(Pruned(Joined(NoBytes, value)))
          /\ EncodedLen(bounded) <= MAX_MAILBOX_VALUE_BYTES
      BY <1>3, Values, MergeProperties
    <2>2. bounded.mailbox
      BY <2>1 DEF Mailbox
    <2> HIDE DEF bounded
    <2>3. CASE EncodedLen(bounded) < EncodedLen(value)
      BY <1>1, <2>1, <2>2, <2>3 DEF FitsInReply, bounded
    <2>4. CASE ~(EncodedLen(bounded) < EncodedLen(value))
      <3>1. EncodedLen(value) <= MAX_MAILBOX_VALUE_BYTES
        BY <1>2, <2>1, <2>4
      <3> QED BY <1>1, <1>3, <2>4, <3>1 DEF FitsInReply, bounded
    <2> QED BY <2>3, <2>4
  <1>4. CASE ~value.mailbox
    <2>1. \/ bounded = NoBytes
          \/ bounded = value /\ EncodedLen(value) <= STORE_SIZE
      BY <1>4, Values, MergeProperties
    <2> HIDE DEF bounded
    <2>2. CASE EncodedLen(bounded) < EncodedLen(value)
      <3>1. bounded = NoBytes
        BY <1>2, <2>1, <2>2
      <3>2. FitsInReply(bounded)
        BY <1>2, <3>1, Values DEF FitsInReply, NoBytes
      <3> QED BY <1>1, <2>2, <3>2 DEF bounded
    <2>3. CASE ~(EncodedLen(bounded) < EncodedLen(value))
      <3>1. EncodedLen(value) <= STORE_SIZE
        BY <1>2, <2>1, <2>3, Values
      <3> QED BY <1>1, <1>4, <2>3, <3>1 DEF FitsInReply, bounded
    <2> QED BY <2>2, <2>3
  <1> QED BY <1>3, <1>4

LEMMA HandleFindValueStep ==
  ASSUME StorageInv, NEW n \in StoreNodes, NEW asker \in StoreNodes, HandleFindValue(n, asker)
  PROVE  StorageInv'
  <1> DEFINE k == looking[asker].key
             value == Found(n, k)
             bounded == Merge(n, NoBytes, value).value
  <1>1. looking[asker] \in [key : DHTKeys, answer : SUBSET Value] /\ looking \in Lookings
    BY StorageInvIs DEF HandleFindValue, Lookings
  <1>2. k \in DHTKeys
    BY <1>1
  <1>3. value \in Value
    <2>1. records[n] \in Seq(Record)
      BY StorageInvIs DEF Shelves
    <2> QED BY <2>1, FoundIsValue, FoundIsFoundIn
  <1>4. \/ /\ EncodedLen(bounded) < EncodedLen(value)
           /\ Put(n, k, bounded)
           /\ looking' = [looking EXCEPT ![asker].answer = {bounded}]
        \/ /\ ~(EncodedLen(bounded) < EncodedLen(value))
           /\ looking' = [looking EXCEPT ![asker].answer = {value}]
           /\ UNCHANGED <<records, storedBytes>>
    BY Zenon DEF HandleFindValue
  <1> HIDE DEF k, value
  <1>5. bounded \in Value
        /\ IF EncodedLen(bounded) < EncodedLen(value) THEN FitsInReply(bounded) ELSE FitsInReply(value)
    BY <1>3, ServedFits
  <1> HIDE DEF bounded
  <1>6. Shelves'
    BY <1>2, <1>4, <1>5, StorageInvIs, PutKeeps, SameShelves
  <1>7. PICK w \in Value : FitsInReply(w) /\ looking' = [looking EXCEPT ![asker].answer = {w}]
    BY <1>3, <1>4, <1>5
  <1>8. looking' \in Lookings
    BY <1>1, <1>7 DEF Lookings
  <1>9. AnswersFit'
    <2> SUFFICES ASSUME NEW m \in StoreNodes, looking'[m] # NoGet, NEW v \in looking'[m].answer
                 PROVE  FitsInReply(v)
      BY DEF AnswersFit, FitsInReply
    <2>1. CASE m = asker
      <3>1. looking'[m].answer = {w}
        BY <1>1, <1>7, <2>1 DEF Lookings
      <3> QED BY <1>7, <3>1
    <2>2. CASE m # asker
      <3>1. looking'[m] = looking[m]
        BY <1>1, <1>7, <2>2 DEF Lookings
      <3> QED BY <3>1, StorageInvIs DEF AnswersFit, FitsInReply
    <2> QED BY <2>1, <2>2
  <1>10. OnTheWire(storing')
    BY StorageInvIs DEF HandleFindValue, OnTheWire
  <1> QED BY <1>6, <1>8, <1>9, <1>10, StorageInvIsPrime

(* The steps that only change what nodes hold.                             *)
LEMMA LocalStep ==
  ASSUME StorageInv,
         \/ \E n \in StoreNodes :
              (\E k \in DHTKeys : Drop(n, k)) \/ Clear(n) \/ CleanupStale(n)
         \/ StorageTick
  PROVE  StorageInv'
  <1>1. Shelves'
    BY StorageInvIs, DropKeeps, ClearKeeps, CleanupKeeps, TickKeeps
  <1>2. UNCHANGED <<looking, storing>>
    BY DEF Drop, Clear, CleanupStale, StorageTick
  <1>3. looking' \in Lookings /\ AnswersFit' /\ OnTheWire(storing')
    BY <1>2, StorageInvIs, SameGets
  <1> QED BY <1>1, <1>3, StorageInvIsPrime

LEMMA RepublishStep ==
  ASSUME StorageInv, NEW n \in StoreNodes, Republish(n)
  PROVE  StorageInv'
  <1>1. Shelves'
    BY StorageInvIs, RepublishKeeps
  <1>2. looking' \in Lookings /\ AnswersFit'
    BY StorageInvIs, SameGets DEF Republish
  <1>3. OnTheWire(storing')
    <2>1. \A r \in ToSet(records[n]) : OnTheWire(Stores(n, r.key, r.value))
      <3>1. \A r \in ToSet(records[n]) : r \in Record
        <4>1. records[n] \in Seq(Record)
          BY StorageInvIs DEF Shelves
        <4> QED BY <4>1, LenProperties, ElementOfSeq DEF ToSet
      <3> QED BY <3>1, StoresAreSendable DEF Record
    <2>2. storing' = storing \cup
            UNION {Stores(n, r.key, r.value) : r \in {x \in ToSet(records[n]) : Republished(x)}}
      BY DEF Republish
    <2> QED BY <2>1, <2>2, StorageInvIs DEF OnTheWire
  <1> QED BY <1>1, <1>2, <1>3, StorageInvIsPrime
LEMMA StorageInitInv == StorageInit => StorageInv
  <1> SUFFICES ASSUME StorageInit PROVE StorageInv
    OBVIOUS
  <1>1. Shelves
    <2>1. records \in [StoreNodes -> Seq(Record)] /\ storedBytes \in [StoreNodes -> Nat]
          /\ \A n \in StoreNodes : records[n] = <<>> /\ storedBytes[n] = 0
      BY EmptySound DEF StorageInit
    <2>2. \A n \in StoreNodes : NodeSound(records[n], storedBytes[n])
      BY <2>1, EmptySound
    <2> QED BY <2>1, <2>2, ShelvesAre
  <1>2. looking \in Lookings /\ AnswersFit
    BY DEF StorageInit, Lookings, AnswersFit
  <1>3. OnTheWire(storing)
    BY DEF StorageInit, OnTheWire
  <1> QED BY <1>1, <1>2, <1>3, StorageInvIs

LEMMA StorageInvStep == StorageInv /\ [StorageNext]_storageVars => StorageInv'
  <1> SUFFICES ASSUME StorageInv, [StorageNext]_storageVars PROVE StorageInv'
    OBVIOUS
  <1>1. ASSUME NEW p \in Puts, ApplicationPut(p[1], p[2], p[3]) PROVE StorageInv'
    BY <1>1, ApplicationPutStep
  <1>2. ASSUME NEW g \in Gets, GetMiss(g[1], g[2]) PROVE StorageInv'
    BY <1>2, GetMissStep
  <1>3. ASSUME NEW m \in storing, HandleStore(m) \/ StoreLost(m) PROVE StorageInv'
    BY <1>3, HandleStoreStep, StoreLostStep
  <1>4. ASSUME NEW n \in StoreNodes, NEW asker \in StoreNodes, HandleFindValue(n, asker)
        PROVE  StorageInv'
    BY <1>4, HandleFindValueStep
  <1>5. ASSUME NEW n \in StoreNodes, GetFound(n) \/ GetNotFound(n) \/ Republish(n)
        PROVE  StorageInv'
    BY <1>5, GetFoundStep, GetNotFoundStep, RepublishStep
  <1>6. ASSUME \/ \E n \in Drains : Clear(n) \/ \E k \in DHTKeys : Drop(n, k)
               \/ \E n \in StoreNodes : CleanupStale(n)
               \/ StorageTick
        PROVE  StorageInv'
    <2>1. Drains \subseteq StoreNodes
      BY StorageAssumption
    <2> QED BY <1>6, <2>1, LocalStep
  <1>7. CASE UNCHANGED storageVars
    BY <1>7, StorageInvIs, StorageInvIsPrime, SameShelves, SameGets DEF storageVars
  <1> QED BY <1>1, <1>2, <1>3, <1>4, <1>5, <1>6, <1>7 DEF StorageNext

THEOREM StorageInvariant == StorageSpec => []StorageInv
  BY StorageInitInv, StorageInvStep, PTL DEF StorageSpec

LEMMA SeedsAgreeStep == StorageInv => SeedsAgree
  <1> SUFFICES ASSUME StorageInv, NEW n \in StoreNodes, NEW m \in storing
               PROVE  MergeStoreValue(Found(n, m.key), m.value)
                        = BoundedMailboxMerge(Found(n, m.key), m.value)
    BY DEF SeedsAgree
  <1>1. m.value \in Value
    BY MergedIsValue
  <1>2. Found(n, m.key) \in Value
    <2>1. records[n] \in Seq(Record)
      BY StorageInvIs DEF Shelves
    <2> QED BY <2>1, FoundIsValue, FoundIsFoundIn
  <1> QED BY <1>1, <1>2, MergesAgree

(* No limit of the storage is ever exceeded, its byte count is that of the *)
(* records it holds, every answer fits in a reply, and a bootstrap node    *)
(* keeps and acknowledges what any other node would.                       *)
THEOREM StorageLimitsHold ==
  StorageSpec => [](StorageTypeOK /\ StorageBounded /\ AnswersFit /\ SeedsAgree)
  <1>1. StorageInv => StorageTypeOK /\ StorageBounded /\ AnswersFit /\ SeedsAgree
    BY SeedsAgreeStep DEF StorageInv
  <1> QED BY <1>1, StorageInvariant, PTL

LEMMA AckedStep ==
  ASSUME StorageInv, NEW m \in storing, HandleStore(m), EndsNew(m),
         Merge(m.to, Found(m.to, m.key), m.value).ok
  PROVE  Last(m.value.parts) \in ToSet(Found(m.to, m.key)'.parts)
  <1> DEFINE existing == Found(m.to, m.key)
             merged == Merge(m.to, existing, m.value)
  <1>1. /\ m.to \in StoreNodes /\ m.key \in DHTKeys /\ m.value \in Value
        /\ existing \in Value /\ merged.value \in Value
    BY MergedIsValue
  <1>2. Put(m.to, m.key, merged.value)
    BY DEF HandleStore
  <1>3. m.value.mailbox
    BY DEF EndsNew
  <1>4. Last(m.value.parts) \in ToSet(merged.value.parts)
    BY <1>1, AckedKeepsLast DEF EndsNew
  <1>5. EncodedLen(merged.value) <= MAX_MAILBOX_VALUE_BYTES
    BY <1>1, <1>3, MergeProperties
  <1> HIDE DEF merged
  <1>6. EncodedLen(merged.value) <= MAX_STORAGE_BYTES
    <2>1. /\ EncodedLen(merged.value) \in Nat /\ MAX_MAILBOX_VALUE_BYTES \in Nat
          /\ MAX_STORAGE_BYTES \in Nat /\ MAX_MAILBOX_VALUE_BYTES <= MAX_STORAGE_BYTES
      BY <1>1, LengthIsNumber, StorageAssumption
    <2> QED BY <1>5, <2>1
  <1>7. Found(m.to, m.key)' = merged.value
    BY <1>1, <1>2, <1>6, StorageInvIs, PutKeeps
  <1> QED BY <1>4, <1>7

(* A STORE that is acknowledged is stored, whatever was pruned from the    *)
(* mailbox or evicted from the storage to make room for it.                *)
THEOREM AckedIsStoredHolds == StorageSpec => AckedIsStored
  <1> DEFINE Readable ==
        \A m \in storing :
          HandleStore(m) /\ EndsNew(m) /\ Merge(m.to, Found(m.to, m.key), m.value).ok
          => Last(m.value.parts) \in ToSet(Found(m.to, m.key)'.parts)
  <1>1. StorageInv => Readable
    BY AckedStep
  <1> HIDE DEF Readable
  <1>2. StorageSpec => [][Readable]_storageVars
    BY <1>1, StorageInvariant, PTL
  <1> QED BY <1>2 DEF Readable, AckedIsStored

-----------------------------------------------------------------------------
(***************************************************************************)
(* What holds of the calls of Rpc for any number of calls, retries and     *)
(* permits.                                                                *)
(***************************************************************************)
(* A channel holds only what some reply put into it, and that reply took   *)
(* the entry.                                                              *)
ChannelsTruthful ==
  \A c \in Calls :
    /\ chan[c] = "answered" => <<c, TRUE>> \in replies
    /\ chan[c] = "canceled" => <<c, FALSE>> \in replies
    /\ chan[c] \in {"answered", "canceled"} => c \notin pending

RpcInv ==
  /\ RpcTypeOK
  /\ PendingOwned
  /\ ChannelsTruthful
  /\ OnlyTargetAnswers
  /\ CanceledByStranger

USE DEF Ended, Running, Active, rpcVars

LEMMA RpcInitInv == RpcInit => RpcInv
  BY RpcAssumption DEF RpcInit, RpcInv, RpcTypeOK, PendingOwned, ChannelsTruthful,
     OnlyTargetAnswers, CanceledByStranger

(* Each step of a caller keeps the map and its calls in agreement.         *)
LEMMA CallerStepInv ==
  ASSUME RpcInv, NEW c \in Calls,
         \/ Call(c) \/ Register(c) \/ Send(c) \/ SendFails(c) \/ TakeReply(c)
         \/ ChannelCanceled(c) \/ Timeout(c) \/ Forget(c)
  PROVE  RpcInv'
<1> USE RpcAssumption DEF RpcInv, RpcTypeOK, PendingOwned, ChannelsTruthful,
        OnlyTargetAnswers, CanceledByStranger
<1>1. CASE Call(c)
  BY <1>1 DEF Call
<1>2. CASE Register(c)
  BY <1>2 DEF Register
<1>3. CASE Send(c)
  BY <1>3 DEF Send
<1>4. CASE SendFails(c)
  BY <1>4 DEF SendFails
<1>5. CASE TakeReply(c)
  <2>1. RpcTypeOK'
    BY <1>5 DEF TakeReply
  <2>2. PendingOwned'
    BY <1>5 DEF TakeReply
  <2>3. ChannelsTruthful'
    BY <1>5 DEF TakeReply
  <2>4. OnlyTargetAnswers'
    BY <1>5 DEF TakeReply
  <2>5. CanceledByStranger'
    BY <1>5 DEF TakeReply
  <2> QED
    BY <2>1, <2>2, <2>3, <2>4, <2>5
<1>6. CASE ChannelCanceled(c)
  BY <1>6 DEF ChannelCanceled
<1>7. CASE Timeout(c)
  BY <1>7 DEF Timeout
<1>8. CASE Forget(c)
  <2>1. RpcTypeOK'
    BY <1>8 DEF Forget
  <2>2. PendingOwned'
    BY <1>8 DEF Forget
  <2>3. ChannelsTruthful'
    BY <1>8 DEF Forget
  <2>4. OnlyTargetAnswers'
    BY <1>8 DEF Forget
  <2>5. CanceledByStranger'
    BY <1>8 DEF Forget
  <2> QED
    BY <2>1, <2>2, <2>3, <2>4, <2>5
<1> QED
  BY <1>1, <1>2, <1>3, <1>4, <1>5, <1>6, <1>7, <1>8

(* So does each step of a peer, of the receive loop and of an aborted hop. *)
LEMMA OtherStepInv ==
  ASSUME RpcInv, NEW c \in Calls, NEW t \in BOOLEAN,
         FoundValue(c) \/ Answer(c, t) \/ ReceiveReply(c, t)
  PROVE  RpcInv'
<1> USE RpcAssumption DEF RpcInv, RpcTypeOK, PendingOwned, ChannelsTruthful,
        OnlyTargetAnswers, CanceledByStranger
<1>1. CASE FoundValue(c)
  BY <1>1 DEF FoundValue
<1>2. CASE Answer(c, t)
  <2>1. RpcTypeOK'
    BY <1>2 DEF Answer
  <2>2. PendingOwned'
    BY <1>2 DEF Answer
  <2>3. ChannelsTruthful'
    BY <1>2 DEF Answer
  <2>4. OnlyTargetAnswers'
    BY <1>2 DEF Answer
  <2>5. CanceledByStranger'
    BY <1>2 DEF Answer
  <2> QED
    BY <2>1, <2>2, <2>3, <2>4, <2>5
<1>3. CASE ReceiveReply(c, t)
  BY <1>3 DEF ReceiveReply
<1> QED
  BY <1>1, <1>2, <1>3

LEMMA ServingStepInv ==
  ASSUME RpcInv, NEW q \in Requests, ReceiveRequest(q) \/ FinishRequest(q)
  PROVE  RpcInv'
  BY RpcAssumption DEF RpcInv, RpcTypeOK, PendingOwned, ChannelsTruthful,
      OnlyTargetAnswers,
     CanceledByStranger, ReceiveRequest, FinishRequest

LEMMA RpcStepInv == RpcInv /\ [RpcNext]_rpcVars => RpcInv'
<1> SUFFICES ASSUME RpcInv, [RpcNext]_rpcVars PROVE RpcInv'
  OBVIOUS
<1>1. CASE \E c \in Calls : \E t \in BOOLEAN :
             FoundValue(c) \/ Answer(c, t) \/ ReceiveReply(c, t)
  BY <1>1, OtherStepInv
<1>2. CASE \E c \in Calls : \/ Call(c) \/ Register(c) \/ Send(c) \/ SendFails(c) \/ TakeReply(c)
                            \/ ChannelCanceled(c) \/ Timeout(c) \/ Forget(c)
  BY <1>2, CallerStepInv
<1>3. CASE \E q \in Requests : ReceiveRequest(q) \/ FinishRequest(q)
  BY <1>3, ServingStepInv
<1>4. CASE UNCHANGED rpcVars
  BY <1>4 DEF RpcInv, RpcTypeOK, PendingOwned, ChannelsTruthful, OnlyTargetAnswers,
     CanceledByStranger
<1> QED
  BY <1>1, <1>2, <1>3, <1>4 DEF RpcNext

(* Type correctness of the model of calls.                                 *)
THEOREM RpcTypeOKHolds == RpcSpec => []RpcTypeOK
<1>1. RpcInv => RpcTypeOK
  BY DEF RpcInv
<1> QED
  BY <1>1, RpcInitInv, RpcStepInv, PTL DEF RpcSpec

(* The pending map holds the entries of calls being made, and those of     *)
(* aborted lookups, only; no call waits for an entry that is gone.         *)
THEOREM PendingOwnedHolds == RpcSpec => []PendingOwned
<1>1. RpcInv => PendingOwned
  BY DEF RpcInv
<1> QED
  BY <1>1, RpcInitInv, RpcStepInv, PTL DEF RpcSpec

(* A call succeeds only if the peer it called answered it.                 *)
THEOREM OnlyTargetAnswersHolds == RpcSpec => []OnlyTargetAnswers
<1>1. RpcInv => OnlyTargetAnswers
  BY DEF RpcInv
<1> QED
  BY <1>1, RpcInitInv, RpcStepInv, PTL DEF RpcSpec

(* A call is canceled only by a reply that came from another address.      *)
THEOREM CanceledByStrangerHolds == RpcSpec => []CanceledByStranger
<1>1. RpcInv => CanceledByStranger
  BY DEF RpcInv
<1> QED
  BY <1>1, RpcInitInv, RpcStepInv, PTL DEF RpcSpec
-----------------------------------------------------------------------------
(* The permits.                                                            *)

Pinging == {c \in Evictions : Active(c)}

(* A step that starts no handler and no ping takes no permit.              *)
LEMMA NoPermitTaken ==
  ASSUME RpcTypeOK, RpcTypeOK', SlotsBounded, serving' \subseteq serving, Pinging' \subseteq Pinging
  PROVE  SlotsBounded'
<1>1. IsFiniteSet(serving) /\ IsFiniteSet(Pinging)
  BY RpcAssumption, FS_Subset DEF RpcTypeOK, Pinging
<1>2. Cardinality(serving') <= Cardinality(serving) /\ Cardinality(Pinging') <= Cardinality(Pinging)
  BY <1>1, FS_Subset
<1>3. IsFiniteSet(serving') /\ IsFiniteSet(Pinging')
  BY <1>1, FS_Subset
<1>4. /\ Cardinality(serving) \in Nat /\ Cardinality(Pinging) \in Nat
      /\ Cardinality(serving') \in Nat /\ Cardinality(Pinging') \in Nat
  BY <1>1, <1>3, FS_CardinalityType
<1> QED
  BY <1>2, <1>4, RpcAssumption DEF SlotsBounded, HeldSlots, Pinging

(* A step that takes one permit does so under the guard of try_acquire.    *)
LEMMA OnePermitTaken ==
  ASSUME RpcTypeOK, HeldSlots < Slots,
         \/ \E q \in Requests : serving' = serving \cup {q} /\ Pinging' = Pinging
         \/ \E c \in Calls : serving' = serving /\ Pinging' = Pinging \cup {c}
  PROVE  SlotsBounded'
<1>1. IsFiniteSet(serving) /\ IsFiniteSet(Pinging)
  BY RpcAssumption, FS_Subset DEF RpcTypeOK, Pinging
<1>2. Cardinality(serving) \in Nat /\ Cardinality(Pinging) \in Nat
  BY <1>1, FS_CardinalityType
<1>3. CASE \E q \in Requests : serving' = serving \cup {q} /\ Pinging' = Pinging
  <2>1. Cardinality(serving') \in {Cardinality(serving), Cardinality(serving) + 1}
    BY <1>1, <1>3, FS_AddElement
  <2> QED
    BY <1>2, <1>3, <2>1, RpcAssumption DEF SlotsBounded, HeldSlots, Pinging
<1>4. CASE \E c \in Calls : serving' = serving /\ Pinging' = Pinging \cup {c}
  <2>1. Cardinality(Pinging') \in {Cardinality(Pinging), Cardinality(Pinging) + 1}
    BY <1>1, <1>4, FS_AddElement
  <2> QED
    BY <1>2, <1>4, <2>1, RpcAssumption DEF SlotsBounded, HeldSlots, Pinging
<1> QED
  BY <1>3, <1>4

LEMMA SlotsStep == RpcInv /\ SlotsBounded /\ [RpcNext]_rpcVars => SlotsBounded'
<1> SUFFICES ASSUME RpcInv, SlotsBounded, [RpcNext]_rpcVars PROVE SlotsBounded'
  OBVIOUS
<1>0. RpcTypeOK /\ RpcTypeOK'
  BY RpcStepInv DEF RpcInv
<1>1. ASSUME NEW c \in Calls, Call(c) PROVE SlotsBounded'
  <2>1. serving' = serving
    BY <1>1 DEF Call
  <2>2. CASE c \in Evictions
    <3>1. HeldSlots < Slots
      BY <1>1, <2>2 DEF Call
    <3>2. Pinging' = Pinging \cup {c}
      BY <1>0, <1>1, <2>2 DEF Call, Pinging, RpcTypeOK
    <3> QED
      BY <1>0, <2>1, <3>1, <3>2, OnePermitTaken
  <2>3. CASE c \notin Evictions
    <3>1. Pinging' \subseteq Pinging
      BY <1>0, <1>1, <2>3, RpcAssumption DEF Call, Pinging, RpcTypeOK
    <3> QED
      BY <1>0, <2>1, <3>1, NoPermitTaken
  <2> QED
    BY <2>2, <2>3
<1>2. ASSUME NEW q \in Requests, ReceiveRequest(q) PROVE SlotsBounded'
  <2>1. HeldSlots < Slots /\ serving' = serving \cup {q} /\ Pinging' = Pinging
    BY <1>2 DEF ReceiveRequest, Pinging
  <2> QED
    BY <1>0, <2>1, OnePermitTaken
<1>3. ASSUME NEW q \in Requests, FinishRequest(q) PROVE SlotsBounded'
  <2>1. serving' \subseteq serving /\ Pinging' \subseteq Pinging
    BY <1>3 DEF FinishRequest, Pinging
  <2> QED
    BY <1>0, <2>1, NoPermitTaken
<1>4. ASSUME NEW c \in Calls, NEW t \in BOOLEAN,
             \/ Register(c) \/ Send(c) \/ SendFails(c) \/ TakeReply(c) \/ ChannelCanceled(c)
             \/ Timeout(c) \/ Forget(c) \/ FoundValue(c) \/ Answer(c, t) \/ ReceiveReply(c, t)
      PROVE  SlotsBounded'
  <2>1. serving' = serving
    BY <1>4 DEF Register, Send, SendFails, TakeReply, ChannelCanceled, Timeout,
        Forget,
       FoundValue, Answer, ReceiveReply
  <2>2. \A d \in Calls : pc'[d] \in Running => pc[d] \in Running
    BY <1>0, <1>4 DEF RpcTypeOK, Register, Send, SendFails, TakeReply,
        ChannelCanceled, Timeout,
       Forget, FoundValue, Answer, ReceiveReply
  <2>3. Pinging' \subseteq Pinging
    BY <2>2, RpcAssumption DEF Pinging
  <2> QED
    BY <1>0, <2>1, <2>3, NoPermitTaken
<1>5. CASE UNCHANGED rpcVars
  <2>1. serving' \subseteq serving /\ Pinging' \subseteq Pinging
    BY <1>5 DEF Pinging
  <2> QED
    BY <1>0, <2>1, NoPermitTaken
<1> QED
  BY <1>1, <1>2, <1>3, <1>4, <1>5 DEF RpcNext

(* Handlers and eviction pings never hold more permits than there are.     *)
THEOREM SlotsBoundedHolds == RpcSpec => []SlotsBounded
<1>1. RpcInit => SlotsBounded
  <2> SUFFICES ASSUME RpcInit PROVE SlotsBounded
    OBVIOUS
  <2>1. {c \in Evictions : Active(c)} = {}
    BY RpcAssumption DEF RpcInit
  <2>2. serving = {}
    BY DEF RpcInit
  <2> QED
    BY <2>1, <2>2, FS_EmptySet, RpcAssumption DEF SlotsBounded, HeldSlots
<1> QED
  BY <1>1, SlotsStep, RpcInitInv, RpcStepInv, PTL DEF RpcSpec
=============================================================================
