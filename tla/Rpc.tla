-------------------------------- MODULE Rpc --------------------------------
(***************************************************************************)
(* NetworkManager of nodex-kademlia (rpc.rs): the calls this node makes,   *)
(* the map of pending requests they share with the receive loop, and the   *)
(* permits that bound the tasks the receive loop spawns.                   *)
(*                                                                         *)
(* A call is named by its request id, a fresh random u64.  A reply is what *)
(* the network may deliver, as often and as late as it likes, so replies   *)
(* only grow; a reply that comes from another address than the one called  *)
(* is that of a peer that answers through a second interface or NAT port.  *)
(***************************************************************************)
EXTENDS Integers, FiniteSets

CONSTANTS
  Calls,        \* request ids
  Hop,          \* the calls of one hop of a value lookup: a JoinSet's tasks
  Evictions,    \* the pings of the oldest contact of a full bucket
  Requests,     \* requests other nodes send to this one
  RPC_RETRIES,  \* attempts after the first one
  Slots         \* request_slots

ASSUME RpcAssumption ==
  /\ Hop \subseteq Calls
  /\ Evictions \subseteq Calls
  /\ Hop \cap Evictions = {}
  /\ IsFiniteSet(Calls)
  /\ IsFiniteSet(Requests)
  /\ RPC_RETRIES \in Nat
  /\ Slots \in Nat

VARIABLES
  pending,   \* the calls that have an entry in the pending map
  pc,        \* where each call is
  attempt,   \* the attempt each call makes
  chan,      \* the oneshot channel of the current attempt
  replies,   \* <<call, from target>>: the replies the network may deliver
  serving    \* the requests with a running handler

rpcVars == <<pending, pc, attempt, chan, replies, serving>>

Ended == {"ok", "send_error", "canceled", "timed_out", "aborted"}
Running == {"register", "sending", "waiting", "expired"}
Active(c) == pc[c] \in Running

(* Permits are held by request handlers and by eviction pings.             *)
HeldSlots == Cardinality(serving) + Cardinality({c \in Evictions : Active(c)})

RpcTypeOK ==
  /\ pending \subseteq Calls
  /\ pc \in [Calls -> {"idle"} \cup Running \cup Ended]
  /\ attempt \in [Calls -> 0..RPC_RETRIES]
  /\ chan \in [Calls -> {"none", "open", "answered", "canceled"}]
  /\ replies \subseteq (Calls \X BOOLEAN)
  /\ serving \subseteq Requests

RpcInit ==
  /\ pending = {}
  /\ pc = [c \in Calls |-> "idle"]
  /\ attempt = [c \in Calls |-> 0]
  /\ chan = [c \in Calls |-> "none"]
  /\ replies = {}
  /\ serving = {}

----------------------------------------------------------------------------
(* The caller.                                                             *)

(* A new call; the receive loop starts an eviction ping only if it gets a  *)
(* permit without waiting.                                                 *)
Call(c) ==
  /\ pc[c] = "idle"
  /\ c \in Evictions => HeldSlots < Slots
  /\ pc' = [pc EXCEPT ![c] = "register"]
  /\ UNCHANGED <<pending, attempt, chan, replies, serving>>

(* One attempt: the entry is made, with a new channel, before the datagram *)
(* is sent.                                                                *)
Register(c) ==
  /\ pc[c] = "register"
  /\ pending' = pending \cup {c}
  /\ chan' = [chan EXCEPT ![c] = "open"]
  /\ pc' = [pc EXCEPT ![c] = "sending"]
  /\ UNCHANGED <<attempt, replies, serving>>

Send(c) ==
  /\ pc[c] = "sending"
  /\ pc' = [pc EXCEPT ![c] = "waiting"]
  /\ UNCHANGED <<pending, attempt, chan, replies, serving>>

(* A fault to detect: the entry stays when sending fails. *)
SendFailsLeaving(c) ==
  /\ pc[c] = "sending"
  /\ chan' = [chan EXCEPT ![c] = "none"]
  /\ pc' = [pc EXCEPT ![c] = "send_error"]
  /\ UNCHANGED <<pending, attempt, replies, serving>>

SendFails(c) ==
  /\ pc[c] = "sending"
  /\ pending' = pending \ {c}
  /\ chan' = [chan EXCEPT ![c] = "none"]
  /\ pc' = [pc EXCEPT ![c] = "send_error"]
  /\ UNCHANGED <<attempt, replies, serving>>

TakeReply(c) ==
  /\ pc[c] = "waiting"
  /\ chan[c] = "answered"
  /\ pc' = [pc EXCEPT ![c] = "ok"]
  /\ UNCHANGED <<pending, attempt, chan, replies, serving>>

(* The sender half was dropped: the call ends whatever attempts it had     *)
(* left.                                                                   *)
ChannelCanceled(c) ==
  /\ pc[c] = "waiting"
  /\ chan[c] = "canceled"
  /\ pending' = pending \ {c}
  /\ pc' = [pc EXCEPT ![c] = "canceled"]
  /\ UNCHANGED <<attempt, chan, replies, serving>>

(* The receiver is polled before the timer, so a value that is there wins. *)
(* The receiver is dropped before the pending map is locked.               *)
Timeout(c) ==
  /\ pc[c] = "waiting"
  /\ chan[c] = "open"
  /\ chan' = [chan EXCEPT ![c] = "none"]
  /\ pc' = [pc EXCEPT ![c] = "expired"]
  /\ UNCHANGED <<pending, attempt, replies, serving>>

(* A fault to detect: the attempts are not counted. *)
ForgetAndRetryForever(c) ==
  /\ pc[c] = "expired"
  /\ pending' = pending \ {c}
  /\ pc' = [pc EXCEPT ![c] = "register"]
  /\ UNCHANGED <<attempt, chan, replies, serving>>

Forget(c) ==
  /\ pc[c] = "expired"
  /\ pending' = pending \ {c}
  /\ IF attempt[c] = RPC_RETRIES
       THEN /\ pc' = [pc EXCEPT ![c] = "timed_out"]
            /\ UNCHANGED attempt
       ELSE /\ pc' = [pc EXCEPT ![c] = "register"]
            /\ attempt' = [attempt EXCEPT ![c] = @ + 1]
  /\ UNCHANGED <<chan, replies, serving>>

(* lookup_value returns with the first value and drops its JoinSet: the    *)
(* other calls of the hop are aborted where they wait, and nothing removes *)
(* their entries.                                                          *)
FoundValue(h) ==
  /\ h \in Hop
  /\ pc[h] = "ok"
  /\ \E c \in Hop : Active(c)
  /\ pc' = [c \in Calls |-> IF c \in Hop /\ Active(c) THEN "aborted" ELSE pc[c]]
  /\ chan' = [c \in Calls |-> IF c \in Hop /\ Active(c) THEN "none" ELSE chan[c]]
  /\ UNCHANGED <<pending, attempt, replies, serving>>

----------------------------------------------------------------------------
(* The peers, as soon as the datagram may be out.                          *)

Answer(c, fromTarget) ==
  /\ pc[c] \notin {"idle", "register"} \/ attempt[c] > 0
  /\ replies' = replies \cup {<<c, fromTarget>>}
  /\ UNCHANGED <<pending, pc, attempt, chan, serving>>

----------------------------------------------------------------------------
(* The receive loop.                                                       *)

(* A fault to detect: the source of a reply is not compared. *)
ReceiveReplyFromAnywhere(c, fromTarget) ==
  /\ <<c, fromTarget>> \in replies
  /\ c \in pending
  /\ pending' = pending \ {c}
  /\ chan' = [chan EXCEPT ![c] = IF @ # "open" THEN @ ELSE "answered"]
  /\ UNCHANGED <<pc, attempt, replies, serving>>

(* The entry is taken out before the source is compared; a reply from      *)
(* elsewhere drops the sender half with the entry.                         *)
ReceiveReply(c, fromTarget) ==
  /\ <<c, fromTarget>> \in replies
  /\ c \in pending
  /\ pending' = pending \ {c}
  /\ chan' = [chan EXCEPT ![c] =
                IF @ # "open" THEN @ ELSE IF fromTarget THEN "answered" ELSE "canceled"]
  /\ UNCHANGED <<pc, attempt, replies, serving>>

(* A fault to detect: a request needs no permit. *)
ReceiveRequestUnbounded(q) ==
  /\ q \notin serving
  /\ serving' = serving \cup {q}
  /\ UNCHANGED <<pending, pc, attempt, chan, replies>>

(* A request without a permit is dropped; the sender retries.              *)
ReceiveRequest(q) ==
  /\ q \notin serving
  /\ HeldSlots < Slots
  /\ serving' = serving \cup {q}
  /\ UNCHANGED <<pending, pc, attempt, chan, replies>>

FinishRequest(q) ==
  /\ q \in serving
  /\ serving' = serving \ {q}
  /\ UNCHANGED <<pending, pc, attempt, chan, replies>>

----------------------------------------------------------------------------
RpcNext ==
  \/ \E c \in Calls :
       \/ Call(c)
       \/ Register(c)
       \/ Send(c)
       \/ SendFails(c)
       \/ TakeReply(c)
       \/ ChannelCanceled(c)
       \/ Timeout(c)
       \/ Forget(c)
       \/ FoundValue(c)
       \/ \E t \in BOOLEAN : Answer(c, t) \/ ReceiveReply(c, t)
  \/ \E q \in Requests : ReceiveRequest(q) \/ FinishRequest(q)

(* The runtime goes on with some task that can run; nothing obliges a peer *)
(* to answer or the network to deliver.                                    *)
RpcStep ==
  \E c \in Calls :
    \/ Register(c) \/ Send(c) \/ SendFails(c) \/ TakeReply(c)
    \/ ChannelCanceled(c) \/ Timeout(c) \/ Forget(c)

RpcFairness == WF_rpcVars(RpcStep)

RpcSpec == RpcInit /\ [][RpcNext]_rpcVars

----------------------------------------------------------------------------
(* The pending map and its calls agree: an entry belongs to a call that is *)
(* still being made, except for the entries that an aborted lookup leaves, *)
(* and no call waits for an entry that is gone.                            *)
PendingOwned ==
  \A c \in Calls :
    /\ c \in pending => pc[c] \in {"sending", "waiting", "expired", "aborted"}
    /\ pc[c] \in {"sending", "waiting"} /\ chan[c] = "open" => c \in pending

(* A call succeeds only if the peer it called answered it, over retries,   *)
(* duplicates, late replies and replies from other addresses.              *)
OnlyTargetAnswers ==
  \A c \in Calls : pc[c] = "ok" => <<c, TRUE>> \in replies

(* Handlers and eviction pings together never hold more permits than there *)
(* are.                                                                    *)
SlotsBounded == HeldSlots <= Slots

(* A call gives up early only after a reply from another address.          *)
CanceledByStranger ==
  \A c \in Calls : pc[c] = "canceled" => <<c, FALSE>> \in replies

(* Every call ends, whatever is lost: no caller waits forever, and the     *)
(* permit of an eviction ping comes back.                                  *)
EveryCallEnds == \A c \in Calls : Active(c) ~> pc[c] \in Ended
=============================================================================
