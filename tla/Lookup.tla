------------------------------- MODULE Lookup -------------------------------
(***************************************************************************)
(* The iterative lookups of nodex-kademlia (lookup.rs): lookup_nodes and   *)
(* lookup_value.                                                           *)
(*                                                                         *)
(* Peers are numbered by their XOR distance to the target, 1 the closest;  *)
(* 0 is this node.  What a peer answers is the K closest contacts of its   *)
(* routing table: any contacts, but with a node that is closer than the    *)
(* peer itself, unless the peer is the closest.  OwnAddr are old ids of    *)
(* this node that others still list under its address.                     *)
(***************************************************************************)
EXTENDS Integers, Sequences, FiniteSets, SequencesExt, Filters

CONSTANTS
  Far,        \* the most distant peer
  OwnAddr,    \* peers that are this node under an old id, not the closest
  LookupK,    \* contacts in an answer and in a result
  ALPHA       \* calls of a hop

ASSUME LookupAssumption ==
  /\ {Far, LookupK, ALPHA} \subseteq Nat \ {0}
  /\ OwnAddr \subseteq 2..Far

LookupPeers == 1..Far

VARIABLES
  kind,        \* "nodes" or "value"
  phase,       \* where the loop is
  shortlist,   \* sequence of [peer, state]
  asked,       \* the calls of the hop that have not ended: a bag of peers
  learned,     \* new_contacts
  outcome      \* what the lookup returned

lookupVars == <<kind, phase, shortlist, asked, learned, outcome>>

Candidate(p) == [peer |-> p, state |-> "Unqueried"]
TopK(s) == SubSeq(s, 1, IF Len(s) < LookupK THEN Len(s) ELSE LookupK)
InState(s, state) == {i \in DOMAIN s : s[i].state = state}

(* The shortlist starts with what find_closest returns and is not at this  *)
(* node's address: sorted, and with a peer twice if its bucket has it      *)
(* twice.                                                                  *)
Starts ==
  {s \in BoundedSeq(LookupPeers \ OwnAddr, LookupK) : \A i, j \in DOMAIN s : i < j => s[i] <= s[j]}

LookupInit ==
  /\ kind \in {"nodes", "value"}
  /\ phase = "choose"
  /\ \E s \in Starts : shortlist = [i \in DOMAIN s |-> Candidate(s[i])]
  /\ asked = [p \in LookupPeers |-> 0]
  /\ learned = {}
  /\ outcome = [found |-> FALSE, nodes |-> <<>>]

----------------------------------------------------------------------------
Unqueried == InState(shortlist, "Unqueried")

(* The first ALPHA candidates that have not been asked.                    *)
Chosen == {i \in Unqueried : Cardinality({j \in Unqueried : j < i}) < ALPHA}

StartHop ==
  /\ phase = "choose"
  /\ Unqueried # {}
  /\ shortlist' = [i \in DOMAIN shortlist |->
       IF i \in Chosen THEN [shortlist[i] EXCEPT !.state = "InFlight"] ELSE shortlist[i]]
  /\ asked' = [p \in LookupPeers |-> Cardinality({i \in Chosen : shortlist[i].peer = p})]
  /\ phase' = "wait"
  /\ UNCHANGED <<kind, learned, outcome>>

(* A call ends: the first candidate with the peer's id is marked.          *)
Mark(p, state) ==
  LET at == {i \in DOMAIN shortlist : shortlist[i].peer = p}
  IN  shortlist' = [i \in DOMAIN shortlist |->
        IF i \in at /\ \A j \in at : i <= j THEN [shortlist[i] EXCEPT !.state = state]
                                            ELSE shortlist[i]]

Ends(p) == asked[p] > 0 /\ asked' = [asked EXCEPT ![p] = @ - 1]

(* The contacts a peer may answer with.                                    *)
Answers(p) ==
  {S \in SUBSET (0..Far) : Cardinality(S) <= LookupK /\ (p = 1 \/ \E q \in S \ OwnAddr : q \in 1..(p - 1))}

(* lookup_nodes drops this node from the answers, by id and by address;    *)
(* lookup_value only by id.                                                *)
Kept(S) == IF kind = "nodes" THEN S \ ({0} \cup OwnAddr) ELSE S \ {0}

HopAnswer(p) ==
  /\ phase = "wait"
  /\ Ends(p)
  /\ Mark(p, "Queried")
  /\ \E S \in Answers(p) : learned' = learned \cup Kept(S)
  /\ UNCHANGED <<kind, phase, outcome>>

(* The value comes: the lookup returns, and the other calls are aborted.   *)
HopValue(p) ==
  /\ phase = "wait"
  /\ kind = "value"
  /\ asked[p] > 0
  /\ asked' = [q \in LookupPeers |-> 0]
  /\ Mark(p, "Queried")
  /\ outcome' = [found |-> TRUE, nodes |-> <<p>>]
  /\ phase' = "done"
  /\ UNCHANGED <<kind, learned>>


HopFailure(p) ==
  /\ phase = "wait"
  /\ Ends(p)
  /\ Mark(p, "Failed")
  /\ UNCHANGED <<kind, phase, learned, outcome>>

NewPeers == {p \in learned : \A i \in DOMAIN shortlist : shortlist[i].peer # p}

(* The place of a peer in a sorted shortlist.                              *)
Place(s, p) ==
  CHOOSE k \in 1..(Len(s) + 1) :
    /\ \A i \in 1..(k - 1) : s[i].peer <= p
    /\ \A i \in k..Len(s) : s[i].peer > p

(* Each new peer is added once, and the shortlist is sorted.               *)
Extended ==
  LET new == NewPeers
  IN  FoldLeft(LAMBDA s, p : IF p \in new THEN InsertAt(s, Place(s, p), Candidate(p)) ELSE s,
               shortlist, [p \in LookupPeers |-> p])

(* A fault to detect: one answer among the K closest is enough to stop.    *)
StopsEarly(s) == InState(TopK(s), "Queried") # {}

(* The K closest have been asked, and one of them answered.                *)
Stops(s) ==
  /\ \A i \in DOMAIN TopK(s) : TopK(s)[i].state \in {"Queried", "Failed"}
  /\ InState(TopK(s), "Queried") # {}

(* What the lookup returns: the K closest that did not fail, asked or not. *)
Result(s) ==
  LET known == TopK(Picked(s, {c \in ToSet(s) : c.state # "Failed"}))
  IN  [i \in DOMAIN known |-> known[i].peer]

EndHop ==
  /\ phase = "wait"
  /\ \A p \in LookupPeers : asked[p] = 0
  /\ learned' = {}
  /\ shortlist' = Extended
  /\ IF Stops(shortlist')
       THEN phase' = "done" /\ outcome' = [found |-> FALSE, nodes |-> Result(shortlist')]
       ELSE phase' = "choose" /\ UNCHANGED outcome
  /\ UNCHANGED <<kind, asked>>

Exhausted ==
  /\ phase = "choose"
  /\ Unqueried = {}
  /\ phase' = "done"
  /\ outcome' = [found |-> FALSE, nodes |-> Result(shortlist)]
  /\ UNCHANGED <<kind, shortlist, asked, learned>>

LookupStep ==
  \/ StartHop
  \/ \E p \in LookupPeers : HopAnswer(p) \/ HopValue(p) \/ HopFailure(p)
  \/ EndHop
  \/ Exhausted

LookupNext == LookupStep
LookupSpec == LookupInit /\ [][LookupNext]_lookupVars

(* Every call of a hop ends, by its timeout if need be (Rpc, EveryCallEnds).*)
LookupFairness == WF_lookupVars(LookupStep)

----------------------------------------------------------------------------
LookupTypeOK ==
  /\ \A i \in DOMAIN shortlist :
       /\ shortlist[i].peer \in LookupPeers
       /\ shortlist[i].state \in {"Unqueried", "InFlight", "Queried", "Failed"}
  /\ asked \in [LookupPeers -> 0..ALPHA]
  /\ phase \in {"choose", "wait", "done"}

Failures == InState(shortlist, "Failed")

(* If every call is answered, a lookup finds the closest peer there is,    *)
(* whoever it started from, whatever the order of the answers and whether  *)
(* or not the routing table had a contact twice.                           *)
FindsClosest ==
  phase = "done" /\ ~outcome.found /\ Failures = {} /\ shortlist # <<>> =>
    /\ Len(outcome.nodes) <= LookupK
    /\ 1 \in ToSet(outcome.nodes)

(* A lookup ends, whoever fails and whatever is answered.                  *)
LookupEnds == phase # "done" ~> phase = "done"
=============================================================================
