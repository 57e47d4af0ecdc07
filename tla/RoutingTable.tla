---------------------------- MODULE RoutingTable ----------------------------
(***************************************************************************)
(* The Kademlia routing table of one node and the tasks that change it:    *)
(* the RPC receive loop, which enters the sender of every message and, for *)
(* a full bucket, spawns a task that pings the head and replaces it when   *)
(* the ping fails; lookups, which enter the contacts they are told of; and *)
(* discover_peer, which corrects an address.  Between a ping and the       *)
(* replacement the table is unlocked and goes on changing.                 *)
(*                                                                         *)
(* Peers are honest, answer a ping that reaches them or not, and may move  *)
(* to a new address.                                                       *)
(***************************************************************************)
EXTENDS Integers, Sequences, FiniteSets, SequencesExt

CONSTANTS
  Peers,        \* ids of the other nodes
  Self,         \* local_id
  Buckets,      \* indices of the buckets (0..159)
  BucketIndex,  \* bucket_index: the bucket of each id
  K,            \* capacity of a bucket (20)
  REQUEST_SLOTS,\* permits of the receive loop (256)
  MaxClock,     \* bound: contacts created
  MaxMoves      \* bound: moves of a peer to a new address

Ids == Peers \cup {Self}

ASSUME RoutingTableConstants ==
  /\ Self \notin Peers
  /\ BucketIndex \in [Ids -> Buckets]
  /\ K \in Nat \ {0}
  /\ {REQUEST_SLOTS, MaxClock, MaxMoves} \subseteq Nat

(* A peer's addresses are numbered in the order it has them; -1 stands for *)
(* an address no one can have (port 0, unspecified or multicast).          *)
Unusable == -1
Addrs == 0..MaxMoves

Contact == [id : Ids, addr : Addrs \cup {Unusable}, seen : 1..MaxClock]
Task == [new : Contact, oldest : Contact, state : {"pinging", "failed"}]

VARIABLES
  buckets,  \* the contacts of each bucket, head first
  tasks,    \* eviction tasks; each holds a permit
  home,     \* the address each node has now
  clock     \* Instant::now, ticking once per contact created

vars == <<buckets, tasks, home, clock>>

Init ==
  /\ buckets = [b \in Buckets |-> <<>>]
  /\ tasks = {}
  /\ home = [n \in Ids |-> 0]
  /\ clock = 0

-----------------------------------------------------------------------------
(* KBucket *)

Has(s, n) == \E i \in 1..Len(s) : s[i].id = n

(* The first contact with id n is at this position. *)
Position(s, n) == CHOOSE i \in 1..Len(s) : s[i].id = n /\ \A j \in 1..(i-1) : s[j].id # n

(* A fault to detect: the capacity test is off by one. *)
KBucketUpdateOneMore(s, c) ==
  IF Has(s, c.id)
  THEN LET i == Position(s, c.id)
       IN  Append(RemoveAt(s, i), [s[i] EXCEPT !.seen = c.seen])
  ELSE IF Len(s) <= K THEN Append(s, c) ELSE s

(* update: a known contact goes to the tail with its old address, a new    *)
(* one is appended while there is room.                                    *)
KBucketUpdate(s, c) ==
  IF Has(s, c.id)
  THEN LET i == Position(s, c.id)
       IN  Append(RemoveAt(s, i), [s[i] EXCEPT !.seen = c.seen])
  ELSE IF Len(s) < K THEN Append(s, c) ELSE s

(* force_update: the same, but with the new address. *)
KBucketForceUpdate(s, c) ==
  IF Has(s, c.id)
  THEN Append(RemoveAt(s, Position(s, c.id)), c)
  ELSE IF Len(s) < K THEN Append(s, c) ELSE s

(* Result Full of either. *)
IsFull(s, c) == ~Has(s, c.id) /\ Len(s) >= K

(* A fault to detect: the head goes, the newcomer does not come. *)
ReplaceOldestHalf(s, c) == IF s = <<>> THEN <<c>> ELSE Tail(s)

(* replace_oldest: whatever is at the head by now makes room. *)
ReplaceOldest(s, c) == Append(IF s = <<>> THEN <<>> ELSE Tail(s), c)

-----------------------------------------------------------------------------
(* RoutingTable *)

(* A fault to detect: the node's own id is not recognised. *)
AcceptableButSelf(c) == c.addr # Unusable

(* What update and force_update let in: not SelfIgnored. *)
Acceptable(c) == c.id # Self /\ c.addr # Unusable

BucketOf(c) == BucketIndex[c.id]

Updated(c) ==
  IF Acceptable(c)
  THEN [buckets EXCEPT ![BucketOf(c)] = KBucketUpdate(@, c)]
  ELSE buckets

ForceUpdated(c) ==
  IF Acceptable(c)
  THEN [buckets EXCEPT ![BucketOf(c)] = KBucketForceUpdate(@, c)]
  ELSE buckets

(* A fault to detect: the time is read before the clock has moved. *)
NewContactStale(n, a) == [id |-> n, addr |-> a, seen |-> clock]

NewContact(n, a) == [id |-> n, addr |-> a, seen |-> clock + 1]

Tick == clock < MaxClock /\ clock' = clock + 1

(***************************************************************************)
(* The receive loop gets a message of n while the tasks ts run: n is       *)
(* entered; when its bucket is full, a task is spawned to ping the head,   *)
(* if there is a permit (request handlers hold permits too).               *)
(***************************************************************************)
Arrival(n, ts) ==
  LET c == NewContact(n, home[n])
      s == buckets[BucketOf(c)]
      t == [new |-> c, oldest |-> Head(s), state |-> "pinging"]
  IN  /\ Tick
      /\ buckets' = Updated(c)
      /\ \/ tasks' = ts
         \/ /\ Acceptable(c) /\ IsFull(s, c)
            /\ Cardinality(ts) < REQUEST_SLOTS
            /\ tasks' = ts \cup {t}
      /\ UNCHANGED home

Receive(n) == Arrival(n, tasks)

(* The pinged contact answers: its message arrives, and the task ends. *)
Pong(t) ==
  /\ t \in tasks /\ t.state = "pinging"
  /\ t.oldest.addr = home[t.oldest.id]
  /\ Arrival(t.oldest.id, tasks \ {t})

(* No answer to the ping and its repetition. *)
PingTimeout(t) ==
  /\ t \in tasks /\ t.state = "pinging"
  /\ tasks' = (tasks \ {t}) \cup {[t EXCEPT !.state = "failed"]}
  /\ UNCHANGED <<buckets, home, clock>>

(* The task gets the lock and puts the newcomer in. *)
Evict(t) ==
  /\ t \in tasks /\ t.state = "failed"
  /\ tasks' = tasks \ {t}
  /\ buckets' = [buckets EXCEPT ![BucketOf(t.new)] = ReplaceOldest(@, t.new)]
  /\ UNCHANGED <<home, clock>>

(* A lookup, the bootstrap or the state file names n at an address it has  *)
(* or had, or at a useless one.                                            *)
Learn(n) ==
  /\ Tick
  /\ \E a \in 0..home[n] \cup {Unusable} : buckets' = Updated(NewContact(n, a))
  /\ UNCHANGED <<tasks, home>>

(* discover_peer and import_stego_avatar: a signed card names n at an      *)
(* address it has or had, or at a useless one.                             *)
ForceUpdate(n) ==
  /\ Tick
  /\ \E a \in 0..home[n] \cup {Unusable} :
         buckets' = ForceUpdated(NewContact(n, a))
  /\ UNCHANGED <<tasks, home>>

Move(n) ==
  /\ n \in Peers /\ home[n] < MaxMoves
  /\ home' = [home EXCEPT ![n] = @ + 1]
  /\ UNCHANGED <<buckets, tasks, clock>>

Next ==
  \/ \E n \in Ids : Receive(n) \/ Learn(n) \/ ForceUpdate(n) \/ Move(n)
  \/ \E t \in tasks : Pong(t) \/ PingTimeout(t) \/ Evict(t)

Spec == Init /\ [][Next]_vars

-----------------------------------------------------------------------------
(* Properties *)

(* Every variable has its type. *)
TypeOK ==
  /\ buckets \in [Buckets -> Seq(Contact)]
  /\ tasks \subseteq Task
  /\ home \in [Ids -> Addrs]
  /\ clock \in 0..MaxClock

(* No interleaving of updates and late replacements takes a bucket over    *)
(* its capacity, although replace_oldest tests nothing.                    *)
BucketsBounded == \A b \in Buckets : Len(buckets[b]) <= K

(* A contact is in the bucket of its id, has an address one can send to,   *)
(* and is not the node itself: replace_oldest, which checks none of this,  *)
(* only ever gets contacts that update had let through.                    *)
WellPlaced ==
  \A b \in Buckets : \A i \in 1..Len(buckets[b]) :
    LET c == buckets[b][i]
    IN  BucketIndex[c.id] = b /\ c.id \in Peers /\ c.addr \in Addrs

(* Every bucket keeps its shape, however late its contacts are replaced.   *)
BucketsSound == BucketsBounded /\ WellPlaced

Known == {n \in Peers : \E b \in Buckets : Has(buckets[b], n)}

(* A contact leaves the table only when some ping into its bucket failed:  *)
(* newcomers alone do not push it out, and a bucket never shrinks.         *)
OnlyEvictionRemoves ==
  [][/\ \A b \in Buckets : Len(buckets'[b]) >= Len(buckets[b])
     /\ \A n \in Known \ Known' :
          \E t \in tasks : /\ t.state = "failed"
                           /\ BucketOf(t.new) = BucketIndex[n]
                           /\ tasks' = tasks \ {t}]_vars

-----------------------------------------------------------------------------
(* What a document says and the code does not do *)

(* docs/networking.md:15: "Dead nodes are evicted from active routing      *)
(* buckets".  The contact that is replaced is the one that was returned    *)
(* for pinging and did not answer.                                         *)
EvictsThePinged ==
  [][\A t \in tasks : Evict(t) => Head(buckets[BucketOf(t.new)]).id = t.oldest.id]_vars
=============================================================================
