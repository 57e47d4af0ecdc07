----------------------------- MODULE HolePunch -----------------------------
(***************************************************************************)
(* Tier 2 of the delivery cascade: probes with a fresh nonce go out from   *)
(* the node's own UDP socket, and the candidates that acknowledge this     *)
(* nonce are tried.  The puncher reads the very socket the receive loop    *)
(* reads: a datagram belongs to whichever of the two takes it.             *)
(***************************************************************************)
EXTENDS Naturals, FiniteSets, Sequences

CONSTANTS
  Candidates,   \* the addresses of the recipient that are tried
  Strangers,    \* other addresses that send to this socket
  Awaited,      \* requests of this node that wait for a reply
  MaxAttempts,  \* bounds the cascades
  MaxInbox      \* bounds the datagrams in the socket's buffer

ASSUME PunchAssumption ==
  {MaxAttempts, MaxInbox} \subseteq Nat /\ Candidates \cap Strangers = {}

Address == Candidates \cup Strangers
Probe == [kind : {"probe"}, to : Candidates, nonce : 1 .. MaxAttempts]
Ack == [kind : {"ack"}, from : Address, nonce : 1 .. MaxAttempts]
Reply == [kind : {"reply"}, call : Awaited]

VARIABLES
  nonce,      \* the attempt's nonce, 0 before the first
  puncher,    \* "idle", "probing" or "listening"
  left,       \* candidates that were not probed yet
  probes,     \* probes on their way
  acks,       \* acknowledgements on their way
  inbox,      \* the socket's receive buffer
  verified,   \* what this attempt verified
  calls,      \* per request: "waiting", "replied", "answered" or "lost"
  acked       \* ghost: who has acknowledged which nonce

punchVars == <<nonce, puncher, left, probes, acks, inbox, verified, calls, acked>>

PunchTypeOK ==
  /\ nonce \in 0 .. MaxAttempts
  /\ puncher \in {"idle", "probing", "listening"}
  /\ left \subseteq Candidates
  /\ probes \subseteq Probe
  /\ acks \subseteq Ack
  /\ inbox \in Seq(Ack \cup Reply) /\ Len(inbox) <= MaxInbox
  /\ verified \subseteq Candidates
  /\ calls \in [Awaited -> {"waiting", "replied", "answered", "lost"}]
  /\ acked \subseteq Address \X (1 .. MaxAttempts)

PunchInit ==
  /\ nonce = 0
  /\ puncher = "idle"
  /\ left = {}
  /\ probes = {}
  /\ acks = {}
  /\ inbox = <<>>
  /\ verified = {}
  /\ calls = [c \in Awaited |-> "waiting"]
  /\ acked = {}
-----------------------------------------------------------------------------
(* The puncher: a new nonce, three probes to each candidate in turn (one   *)
(* that arrives is enough), then it listens.                               *)
StartPunch ==
  /\ puncher = "idle"
  /\ nonce < MaxAttempts
  /\ nonce' = nonce + 1
  /\ puncher' = "probing"
  /\ left' = Candidates
  /\ verified' = {}
  /\ UNCHANGED <<probes, acks, inbox, calls, acked>>

ProbeCandidate(a) ==
  /\ puncher = "probing"
  /\ a \in left
  /\ left' = left \ {a}
  /\ probes' = probes \cup {[kind |-> "probe", to |-> a, nonce |-> nonce]}
  /\ puncher' = IF left' = {} THEN "listening" ELSE "probing"
  /\ UNCHANGED <<nonce, acks, inbox, verified, calls, acked>>

(* A fault to detect: any acknowledgement counts, of whatever attempt.     *)
VerifiesAnyNonce(d) == d.kind = "ack" /\ d.from \in Candidates

(* What makes an address verified: an acknowledgement of this attempt's    *)
(* nonce from one of the candidates.                                       *)
Verifies(d) ==
  /\ d.kind = "ack"
  /\ d.nonce = nonce
  /\ d.from \in Candidates

(* The puncher takes the next datagram, whatever it is; a reply to one of  *)
(* the node's requests is gone with it.                                    *)
PuncherReads ==
  /\ puncher = "listening"
  /\ inbox # <<>>
  /\ LET d == Head(inbox)
     IN /\ inbox' = Tail(inbox)
        /\ verified' = IF Verifies(d) THEN verified \cup {d.from} ELSE verified
        /\ calls' = IF d.kind = "reply" THEN [calls EXCEPT ![d.call] = "lost"] ELSE calls
  /\ UNCHANGED <<nonce, puncher, left, probes, acks, acked>>

(* 250 ms with nothing to read end the attempt.                            *)
PuncherGivesUp ==
  /\ puncher = "listening"
  /\ inbox = <<>>
  /\ puncher' = "idle"
  /\ UNCHANGED <<nonce, left, probes, acks, inbox, verified, calls, acked>>

(* The receive loop takes the next datagram: an acknowledgement is not an  *)
(* RPC message and is dropped.                                             *)
LoopReads ==
  /\ inbox # <<>>
  /\ LET d == Head(inbox)
     IN calls' = IF d.kind = "reply" THEN [calls EXCEPT ![d.call] = "answered"] ELSE calls
  /\ inbox' = Tail(inbox)
  /\ UNCHANGED <<nonce, puncher, left, probes, acks, verified, acked>>

(* respond_to_probe at a peer that calls it: the nonce is sent back.       *)
RespondToProbe(p) ==
  /\ p \in probes
  /\ probes' = probes \ {p}
  /\ acks' = acks \cup {[kind |-> "ack", from |-> p.to, nonce |-> p.nonce]}
  /\ acked' = acked \cup {<<p.to, p.nonce>>}
  /\ UNCHANGED <<nonce, puncher, left, inbox, verified, calls>>

(* The network: probes and acknowledgements are lost, delivered late, or   *)
(* sent by somebody who overheard a probe; a request's peer replies.       *)
Lose(p) ==
  /\ p \in probes
  /\ probes' = probes \ {p}
  /\ UNCHANGED <<nonce, puncher, left, acks, inbox, verified, calls, acked>>

Deliver(d) ==
  /\ d \in acks
  /\ Len(inbox) < MaxInbox
  /\ acks' = acks \ {d}
  /\ inbox' = Append(inbox, d)
  /\ UNCHANGED <<nonce, puncher, left, probes, verified, calls, acked>>

StrangerAcks(s, p) ==
  /\ p \in probes
  /\ Len(inbox) < MaxInbox
  /\ inbox' = Append(inbox, [kind |-> "ack", from |-> s, nonce |-> p.nonce])
  /\ UNCHANGED <<nonce, puncher, left, probes, acks, verified, calls, acked>>

PeerReplies(c) ==
  /\ calls[c] = "waiting"
  /\ Len(inbox) < MaxInbox
  /\ inbox' = Append(inbox, [kind |-> "reply", call |-> c])
  /\ calls' = [calls EXCEPT ![c] = "replied"]
  /\ UNCHANGED <<nonce, puncher, left, probes, acks, verified, acked>>

PunchNext ==
  \/ StartPunch
  \/ \E a \in Candidates : ProbeCandidate(a)
  \/ PuncherReads
  \/ PuncherGivesUp
  \/ LoopReads
  \/ \E p \in probes : RespondToProbe(p) \/ Lose(p)
  \/ \E d \in acks : Deliver(d)
  \/ \E s \in Strangers, p \in probes : StrangerAcks(s, p)
  \/ \E c \in Awaited : PeerReplies(c)

PunchSpec == PunchInit /\ [][PunchNext]_punchVars
-----------------------------------------------------------------------------
(* An address is delivered to only when that candidate itself acknowledged *)
(* a probe of this very attempt: a late answer to an earlier attempt, whose*)
(* mapping may be closed, or one of a third party, never stands for it.    *)
VerifiedAnswered == \A a \in verified : a \in Candidates /\ <<a, nonce>> \in acked

(* What sharing the socket breaks: a reply the peer sent reaches the call  *)
(* that waits for it.                                                      *)
NothingStolen == \A c \in Awaited : calls[c] # "lost"
=============================================================================
