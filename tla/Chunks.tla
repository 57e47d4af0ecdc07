------------------------------- MODULE Chunks -------------------------------
(***************************************************************************)
(* ChunkAssembler of nodex-kademlia (chunking.rs) and the datagram         *)
(* dispatch of the receive loop that feeds it (rpc.rs).                    *)
(*                                                                         *)
(* The network may deliver every datagram of Datagrams at any time, any    *)
(* number of times and in any order.  A chunk is a record [kind |->        *)
(* "chunk", src, id, index, count, intact]; intact says that its payload   *)
(* matches its CRC32.  The address of a sender is src, and IpOf[src] its   *)
(* IP.  The payload of a chunk stands for itself: what is assembled is the *)
(* sequence of the chunks' indices.                                        *)
(***************************************************************************)
EXTENDS Integers, FiniteSets, Sequences

CONSTANTS
  Datagrams,
  IpOf,
  MAX_CHUNKS_PER_MESSAGE,
  MAX_PENDING_ASSEMBLIES,
  MAX_PENDING_PER_IP,
  ReassemblyTimeout      \* in ticks of the model's clock

ASSUME ChunksAssumption ==
  /\ \A d \in Datagrams : d.kind = "chunk" =>
       /\ d.index \in Nat
       /\ d.count \in Nat
       /\ d.intact \in BOOLEAN
  /\ MAX_CHUNKS_PER_MESSAGE \in Nat
  /\ MAX_PENDING_ASSEMBLIES \in Nat
  /\ MAX_PENDING_PER_IP \in Nat
  /\ ReassemblyTimeout \in Nat \ {0}

VARIABLES
  assemblies,   \* (source, message id) -> [chunks, count, age]
  arrived,      \* the intact chunks that have arrived so far
  emitted       \* what the last step handed on

chunkVars == <<assemblies, arrived, emitted>>

NoEvent == [to |-> "none"]
Chunk == {d \in Datagrams : d.kind = "chunk"}
Key(d) == <<d.src, d.id>>
Keys == {Key(d) : d \in Chunk}

ChunksTypeOK ==
  /\ DOMAIN assemblies \subseteq Keys
  /\ \A k \in DOMAIN assemblies :
       /\ assemblies[k].chunks \subseteq 0..(MAX_CHUNKS_PER_MESSAGE - 1)
       /\ assemblies[k].count \in 2..MAX_CHUNKS_PER_MESSAGE
       /\ assemblies[k].age \in 0..ReassemblyTimeout
  /\ arrived \subseteq Chunk
  /\ emitted.to \in {"none", "voice", "rpc", "complete"}

ChunksInit ==
  /\ assemblies = << >>
  /\ arrived = {}
  /\ emitted = NoEvent

GeometryOK(d) ==
  /\ d.count \in 1..MAX_CHUNKS_PER_MESSAGE
  /\ d.index < d.count

(* cleanup_expired runs first whenever a chunk is added, and only then.    *)
Cleaned ==
  LET live == {k \in DOMAIN assemblies : assemblies[k].age < ReassemblyTimeout}
  IN  [k \in live |-> assemblies[k]]

(* A fault to detect: the limit counts the ports of an address apart. *)
MayOpenPerAddress(asm, d) ==
  \/ Key(d) \in DOMAIN asm
  \/ Cardinality({k \in DOMAIN asm : k[1] = d.src}) < MAX_PENDING_PER_IP

(* Opening an assembly beyond a limit is refused.                          *)
MayOpen(asm, d) ==
  \/ Key(d) \in DOMAIN asm
  \/ /\ Cardinality(DOMAIN asm) < MAX_PENDING_ASSEMBLIES
     /\ Cardinality({k \in DOMAIN asm : IpOf[k[1]] = IpOf[d.src]}) < MAX_PENDING_PER_IP

Entry(asm, d) ==
  IF Key(d) \in DOMAIN asm THEN asm[Key(d)] ELSE [chunks |-> {}, count |-> d.count, age |-> 0]

With(asm, k, e) == [x \in DOMAIN asm \cup {k} |-> IF x = k THEN e ELSE asm[x]]
Without(asm, k) == [x \in DOMAIN asm \ {k} |-> asm[x]]

----------------------------------------------------------------------------
(* A frame of a call is handed to the messenger undecoded.                 *)
ReceiveVoice(d) ==
  /\ d.kind = "voice"
  /\ emitted' = [to |-> "voice"]
  /\ UNCHANGED <<assemblies, arrived>>

(* What is not a chunk is an RPC message or is dropped.                    *)
ReceiveRpc(d) ==
  /\ d.kind \in {"rpc", "noise"}
  /\ emitted' = IF d.kind = "rpc" THEN [to |-> "rpc"] ELSE NoEvent
  /\ UNCHANGED <<assemblies, arrived>>

(* A fault to detect: chunks of another geometry join. *)
DroppedUnlessCountsDiffer(asm, d) ==
  \/ ~GeometryOK(d)
  \/ ~d.intact
  \/ d.count > 1 /\ ~MayOpen(asm, d)

(* A fault to detect: the checksum is not compared. *)
DroppedUnlessDamaged(asm, d) ==
  \/ ~GeometryOK(d)
  \/ d.count > 1 /\ (~MayOpen(asm, d) \/ Entry(asm, d).count # d.count)

(* A chunk that is malformed, damaged, beyond a limit or of another count  *)
(* than the assembly it belongs to is dropped.                             *)
Dropped(asm, d) ==
  \/ ~GeometryOK(d)
  \/ ~d.intact
  \/ d.count > 1 /\ (~MayOpen(asm, d) \/ Entry(asm, d).count # d.count)

(* The message of an entry whose chunks are all there, in the order of     *)
(* their indices.                                                          *)
Assembled(e) == [i \in 1..e.count |-> i - 1]

AddChunk(d) ==
  /\ d.kind = "chunk"
  /\ arrived' = arrived \cup {x \in {d} : x.intact}
  /\ LET asm == Cleaned
         e == [Entry(asm, d) EXCEPT !.chunks = @ \cup {d.index}]
         complete == Cardinality(e.chunks) = e.count
     IN  \/ /\ Dropped(asm, d)
            /\ assemblies' = asm
            /\ emitted' = NoEvent
         \/ /\ ~Dropped(asm, d)
            /\ d.count = 1
            /\ assemblies' = asm
            /\ emitted' = [to |-> "complete", key |-> Key(d), message |-> <<0>>]
         \/ /\ ~Dropped(asm, d)
            /\ d.count > 1
            /\ assemblies' = IF complete THEN Without(asm, Key(d)) ELSE With(asm, Key(d), e)
            /\ emitted' = IF complete
                            THEN [to |-> "complete", key |-> Key(d), message |-> Assembled(e)]
                            ELSE NoEvent

(* Time passes; ages beyond the timeout are alike.                         *)
ChunkTick ==
  /\ \E k \in DOMAIN assemblies : assemblies[k].age < ReassemblyTimeout
  /\ assemblies' = [k \in DOMAIN assemblies |->
       [assemblies[k] EXCEPT !.age = IF @ < ReassemblyTimeout THEN @ + 1 ELSE @]]
  /\ emitted' = NoEvent
  /\ UNCHANGED arrived

ChunksNext ==
  \/ \E d \in Datagrams : ReceiveVoice(d) \/ ReceiveRpc(d) \/ AddChunk(d)
  \/ ChunkTick

ChunksSpec == ChunksInit /\ [][ChunksNext]_chunkVars

----------------------------------------------------------------------------
(* Half-received messages take a bounded number of places, together and    *)
(* per IP address.                                                         *)
AssembliesBounded ==
  /\ Cardinality(DOMAIN assemblies) <= MAX_PENDING_ASSEMBLIES
  /\ \A k \in DOMAIN assemblies :
       Cardinality({j \in DOMAIN assemblies : IpOf[j[1]] = IpOf[k[1]]}) <= MAX_PENDING_PER_IP

(* An assembly that is kept misses a chunk: none waits although complete,  *)
(* whatever counts its chunks claimed.                                     *)
AssembliesIncomplete ==
  \A k \in DOMAIN assemblies :
    /\ assemblies[k].chunks # {}
    /\ assemblies[k].chunks \subseteq 0..(assemblies[k].count - 1)
    /\ assemblies[k].chunks # 0..(assemblies[k].count - 1)

(* A message that is handed on is made of intact chunks that all arrived   *)
(* from its source, under its id, for its length: no part of another       *)
(* message, none missing and none damaged.                                 *)
AssembledFromArrived ==
  emitted.to = "complete" =>
    \A i \in DOMAIN emitted.message :
      \E d \in arrived :
        /\ Key(d) = emitted.key
        /\ d.index = emitted.message[i]
        /\ d.count = Len(emitted.message)
=============================================================================
