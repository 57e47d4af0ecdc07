----------------------------- MODULE MCNetwork -----------------------------
(* The instances of the network node's components for TLC, side by side:   *)
(* they share no variable, and an initial choice says which one runs.      *)
EXTENDS
  RoutingTable, Lookup, Storage, Rpc, Chunks, Codec, HolePunch, Stun, PortMapping,
  Relay, TLC

CONSTANTS self, p1, p2, p3, p4, c1, c2, c3, q1

VARIABLE part   \* the component
-----------------------------------------------------------------------------
(* RoutingTable: two buckets, of which the second has all peers but one.   *)
FourPeers == {p1, p2, p3, p4}
TwoBuckets == {0, 1}
AllButOneInBucketOne == [n \in Ids |-> IF n = p4 THEN 0 ELSE 1]

(* Rpc: the two calls of a hop, an eviction ping, a request.               *)
ThreeCalls == {c1, c2, c3}
HopCalls == {c1, c2}
PingCalls == {c3}
OneRequest == {q1}

(* Alike are the peers of a bucket and the calls of a hop.                 *)
NetworkSymmetry == Permutations({p1, p2, p3}) \cup Permutations(HopCalls)

(* Chunks: three sources at two addresses; ids whose chunks disagree about *)
(* the count, a damaged chunk, an index past the end, and other datagrams. *)
Ck(s, m, i, n, ok) ==
  [kind |-> "chunk", src |-> s, id |-> m, index |-> i, count |-> n, intact |-> ok]
TwoAddresses == [s \in {"p1", "p2", "q"} |-> IF s = "q" THEN "q" ELSE "p"]
SomeDatagrams ==
  {Ck("p1", "m", i, 3, TRUE) : i \in 0 .. 2}
    \cup {Ck("p1", "m", 1, 2, TRUE), Ck("p2", "m", 0, 2, TRUE),
          Ck("q", "n", 0, 2, TRUE), Ck("q", "n", 1, 2, FALSE),
          Ck("q", "n", 2, 2, TRUE), Ck("q", "o", 0, 2, TRUE),
          Ck("q", "s", 0, 1, TRUE)}
    \cup [kind : {"voice", "rpc", "noise"}]

(* Codec: values and contact lists at and past their limits, addresses     *)
(* that are not routable, and cuts at every field.                         *)
Ct(t, c, p) == [ip_type |-> t, class |-> c, port |-> p]
Good == Ct(4, "unicast", 1)
Copies(c, n) == [i \in 1 .. n |-> c]
Ms(t, v, cs) == [type |-> t, value |-> v, contacts |-> cs]
Dg(t, v, n, cs, l) == [type |-> t, value |-> v, count |-> n, contacts |-> cs, len |-> l]
SomeMessages ==
  {Ms(t, NoValue, <<>>) : t \in {"Ping", "FindNode", "StoreAck", "FindNodeResp"}}
    \cup {Ms("Store", n, <<>>) : n \in {0, 65536, 65537}}
    \cup {Ms("FindNodeResp", NoValue, cs) :
            cs \in {Copies(Good, 20), Copies(Ct(6, "unicast", 1), 21),
                    <<Good, Ct(4, "unspecified", 1)>>}}
    \cup {Ms("FindValueResp", NoValue, Copies(Good, 21)),
          Ms("FindValueResp", 65536, <<Good>>), Ms("FindValueResp", 0, <<>>)}
OneContact(c) == Dg("FindNodeResp", NoValue, 1, <<c>>, 30 + 39)
StrangeDatagrams ==
  {Dg("unknown", NoValue, 0, <<>>, 29),
   Dg("Store", 65537, 0, <<>>, 65590),
   Dg("Store", 3, 0, <<>>, 100),
   Dg("FindNodeResp", NoValue, 255, Copies(Good, 25), 30 + 25 * 39),
   Dg("FindNodeResp", NoValue, 21, Copies(Good, 20), 30 + 20 * 39),
   Dg("FindNodeResp", NoValue, 2, <<Good, Ct(9, "unicast", 1)>>, 30 + 2 * 39),
   Dg("FindValueResp", 2, 1, <<Good>>, 36 + 2 + 39)}
    \cup {OneContact(Ct(6, "broadcast", 1)), OneContact(Ct(4, "broadcast", 1)),
          OneContact(Ct(4, "unicast", 0))}
CutLengthsSeen == {0, 28, 29, 30, 34, 52, 53, 400, 809, 65570, 65588}

(* Storage: a node and a bootstrap node, a mailbox that outgrows its limit *)
(* and a media chunk too large for a STORE.  Of the envelopes one is as    *)
(* large as a mailbox may be and one is larger.                            *)
Mb(s) == [mailbox |-> TRUE, parts |-> s]
SomePuts ==
  {<<"n", "m", Mb(<<"a", "b">>)>>, <<"s", "m", Mb(<<"c">>)>>, <<"s", "m", Mb(<<"big">>)>>,
   <<"s", "m", Mb(<<"edge">>)>>,
   <<"n", "f", [mailbox |-> FALSE, parts |-> <<"chunk">>]>>}
SomeGets == {<<"s", "f">>, <<"n", "m">>}
SomeSizes ==
  [e \in {"a", "b", "c", "edge", "big", "chunk"} |->
     CASE e = "c" -> 4 [] e = "edge" -> 8 [] e = "big" -> 9 [] e = "chunk" -> 12 [] OTHER -> 2]

(* Stun: two servers; responses with the address, without one, with one in *)
(* the old attribute, and with an attribute that overruns the message.     *)
A(k) == [kind |-> k]
TwoServers == <<"s", "t">>
SomeBodies ==
  {<<A("other"), A("xor")>>, <<A("mapped")>>, <<A("overrun"), A("xor")>>, <<A("other")>>}
-----------------------------------------------------------------------------
(* The starting points of a lookup are many: the others keep one of them.  *)
NetworkInit ==
  /\ part \in {"routing", "rpc", "chunks", "codec", "storage", "lookup",
               "punch", "stun", "mapping", "relay"}
  /\ Init
  /\ RpcInit
  /\ ChunksInit
  /\ CodecInit
  /\ StorageInit
  /\ LookupInit
  /\ PunchInit
  /\ StunInit
  /\ PortMappingInit
  /\ RelayInit
  /\ part # "lookup" => kind = "nodes" /\ shortlist = <<>>

RoutingSteps ==
  /\ part = "routing"
  /\ Next
  /\ UNCHANGED
       <<part, rpcVars, chunkVars, codecVars, storageVars, lookupVars,
         punchVars, stunVars, mapVars, relayVars>>

RpcSteps ==
  /\ part = "rpc"
  /\ RpcNext
  /\ UNCHANGED
       <<part, vars, chunkVars, codecVars, storageVars, lookupVars,
         punchVars, stunVars, mapVars, relayVars>>

ChunksSteps ==
  /\ part = "chunks"
  /\ ChunksNext
  /\ UNCHANGED
       <<part, vars, rpcVars, codecVars, storageVars, lookupVars,
         punchVars, stunVars, mapVars, relayVars>>

CodecSteps ==
  /\ part = "codec"
  /\ CodecNext
  /\ UNCHANGED
       <<part, vars, rpcVars, chunkVars, storageVars, lookupVars,
         punchVars, stunVars, mapVars, relayVars>>

StorageSteps ==
  /\ part = "storage"
  /\ StorageNext
  /\ UNCHANGED
       <<part, vars, rpcVars, chunkVars, codecVars, lookupVars, punchVars,
         stunVars, mapVars, relayVars>>

LookupSteps ==
  /\ part = "lookup"
  /\ LookupNext
  /\ UNCHANGED
       <<part, vars, rpcVars, chunkVars, codecVars, storageVars, punchVars,
         stunVars, mapVars, relayVars>>

PunchSteps ==
  /\ part = "punch"
  /\ PunchNext
  /\ UNCHANGED
       <<part, vars, rpcVars, chunkVars, codecVars, storageVars,
         lookupVars, stunVars, mapVars, relayVars>>

StunSteps ==
  /\ part = "stun"
  /\ StunNext
  /\ UNCHANGED
       <<part, vars, rpcVars, chunkVars, codecVars, storageVars,
         lookupVars, punchVars, mapVars, relayVars>>

MappingSteps ==
  /\ part = "mapping"
  /\ PortMappingNext
  /\ UNCHANGED
       <<part, vars, rpcVars, chunkVars, codecVars, storageVars,
         lookupVars, punchVars, stunVars, relayVars>>

RelaySteps ==
  /\ part = "relay"
  /\ RelayNext
  /\ UNCHANGED
       <<part, vars, rpcVars, chunkVars, codecVars, storageVars,
         lookupVars, punchVars, stunVars, mapVars>>

NetworkNext ==
  \/ RoutingSteps
  \/ RpcSteps
  \/ ChunksSteps
  \/ CodecSteps
  \/ StorageSteps
  \/ LookupSteps
  \/ PunchSteps
  \/ StunSteps
  \/ MappingSteps
  \/ RelaySteps

networkVars ==
  <<part, vars, rpcVars, chunkVars, codecVars, storageVars, lookupVars,
    punchVars, stunVars, mapVars, relayVars>>

NetworkSpec == NetworkInit /\ [][NetworkNext]_networkVars
-----------------------------------------------------------------------------
(* Every variable of the node's components has its type.                   *)
NetworkTypeOK ==
  /\ TypeOK
  /\ RpcTypeOK
  /\ ChunksTypeOK
  /\ CodecTypeOK
  /\ StorageTypeOK
  /\ LookupTypeOK
  /\ PunchTypeOK
  /\ StunTypeOK
  /\ PortMappingTypeOK
  /\ RelayTypeOK

(* Every limit of the node holds whatever overlaps: the permits of the     *)
(* receive loop, half-received messages per address and together, records  *)
(* and bytes of the storage and of what it answers, relay sessions and the *)
(* packets they forward; and a bootstrap node, whose storage is another    *)
(* program, applies the limits the other nodes apply.                      *)
LimitsHold ==
  /\ SlotsBounded
  /\ AssembliesBounded
  /\ StorageBounded
  /\ AnswersFit
  /\ SeedsAgree
  /\ RelayBounded

(* What the NAT traversal reports was said to this very attempt: by the    *)
(* candidate itself, by a STUN server and, as long as it is the router     *)
(* that answers, by the router.                                            *)
TraversalIsConfirmed ==
  /\ VerifiedAnswered
  /\ ReportedWasSeen
  /\ ReportedWasGranted
=============================================================================
