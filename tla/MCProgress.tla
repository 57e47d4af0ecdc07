----------------------------- MODULE MCProgress -----------------------------
(* The components that must get something done, for TLC and side by side:  *)
(* they share no variable, and an initial choice says which one runs.      *)
EXTENDS Rpc, Inbox, Lookup, Startup, Presence

CONSTANTS c1, c2

VARIABLE part   \* the component

-----------------------------------------------------------------------------
(* Rpc: the two calls of a hop.                                            *)
TwoCalls == {c1, c2}
None == {}

(* Inbox: two envelopes the peer seals, one of its last day in the window; *)
(* one of mine, one of the future, an old version, one of a blocked peer.  *)
En(f, t, v, ep) ==
  [from |-> f, ts |-> t, version |-> v, ephemeral |-> ep, bound |-> TRUE,
   signed |-> TRUE, opens |-> TRUE]
Sealed == {En("peer", 1, 3, TRUE), En("peer", 3, 3, TRUE)}
SomeEnvelopes ==
  Sealed \cup {En("me", 1, 3, TRUE), En("peer", 8, 1, FALSE),
               En("peer", 2, 2, FALSE), En("blocked", 2, 2, TRUE)}

(* Startup: a desktop client and a daemon under the supervisor.            *)
TheGui == {"gui"}
TheDaemon == {"cli"}
ThePrograms == TheGui \cup TheDaemon

(* Lookup: an old id of this node that others still list.                  *)
OldIds == {3}
-----------------------------------------------------------------------------
(* Lookups and programs start in many ways: the others keep one of them.   *)
ProgressInit ==
  /\ part \in {"rpc", "inbox", "lookup", "startup", "presence"}
  /\ RpcInit
  /\ InboxInit
  /\ LookupInit
  /\ StartupInit
  /\ PresenceInit
  /\ part # "lookup" => kind = "nodes" /\ shortlist = <<>>
  /\ part # "startup" => seedUp

RpcSteps ==
  /\ part = "rpc"
  /\ RpcNext
  /\ UNCHANGED <<part, inboxVars, lookupVars, startupVars, presenceVars>>

InboxSteps ==
  /\ part = "inbox"
  /\ InboxNext
  /\ UNCHANGED <<part, rpcVars, lookupVars, startupVars, presenceVars>>

LookupSteps ==
  /\ part = "lookup"
  /\ LookupNext
  /\ UNCHANGED <<part, rpcVars, inboxVars, startupVars, presenceVars>>

StartupSteps ==
  /\ part = "startup"
  /\ StartupNext
  /\ UNCHANGED <<part, rpcVars, inboxVars, lookupVars, presenceVars>>

PresenceSteps ==
  /\ part = "presence"
  /\ PresenceNext
  /\ UNCHANGED <<part, rpcVars, inboxVars, lookupVars, startupVars>>

ProgressNext ==
  \/ RpcSteps
  \/ InboxSteps
  \/ LookupSteps
  \/ StartupSteps
  \/ PresenceSteps

progressVars ==
  <<part, rpcVars, inboxVars, lookupVars, startupVars, presenceVars>>

ProgressSpec ==
  /\ ProgressInit
  /\ [][ProgressNext]_progressVars
  /\ \/ part = "rpc" /\ RpcFairness
     \/ part = "inbox" /\ InboxFairness
     \/ part = "lookup" /\ LookupFairness
     \/ part = "startup" /\ StartupFairness
     \/ part = "presence" /\ PresenceFairness
-----------------------------------------------------------------------------
(* Every variable has its type, the replay cache its bound, and each       *)
(* program that runs an account of its own.                                *)
ProgressTypeOK ==
  /\ OneProgramPerAccount
  /\ RpcTypeOK
  /\ CacheBounded
  /\ InboxTypeOK
  /\ LookupTypeOK
  /\ StartupTypeOK
  /\ PresenceTypeOK

=============================================================================
