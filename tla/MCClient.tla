------------------------------ MODULE MCClient ------------------------------
(* The instances of the client's components for TLC, side by side: they    *)
(* share no variable, and an initial choice says which one runs.           *)
EXTENDS Outbox, KeyStore, Calls, CallAudio, Mirror, Session

CONSTANTS v1, g1, s1

VARIABLE part   \* the component
-----------------------------------------------------------------------------
(* Outbox: one message of each kind but text.                              *)
NoText == {}
OneMedia == {v1}
OneGroup == {g1}
OneSaved == {s1}

(* Calls: two users call each other at the same time while a third calls.  *)
ThreeUsers == {"a", "b", "c"}
Dl(b, t) == [by |-> b, to |-> t]
CrossedCalls ==
  [id \in {"c1", "c2", "c3"} |->
     CASE id = "c1" -> Dl("a", "b") [] id = "c2" -> Dl("b", "a") [] OTHER -> Dl("c", "a")]

-----------------------------------------------------------------------------
ClientInit ==
  /\ part \in {"outbox", "keys", "calls", "audio", "mirror", "session"}
  /\ Init
  /\ KeyStoreInit
  /\ CallsInit
  /\ AudioInit
  /\ MirrorInit
  /\ SessionInit

OutboxSteps ==
  /\ part = "outbox"
  /\ Next
  /\ UNCHANGED <<part, keyVars, callVars, audioVars, mirrorVars, sessionVars>>

KeysSteps ==
  /\ part = "keys"
  /\ KeyStoreNext
  /\ UNCHANGED <<part, vars, callVars, audioVars, mirrorVars, sessionVars>>

CallsSteps ==
  /\ part = "calls"
  /\ CallsNext
  /\ UNCHANGED <<part, vars, keyVars, audioVars, mirrorVars, sessionVars>>

AudioSteps ==
  /\ part = "audio"
  /\ AudioNext
  /\ UNCHANGED <<part, vars, keyVars, callVars, mirrorVars, sessionVars>>

MirrorSteps ==
  /\ part = "mirror"
  /\ MirrorNext
  /\ UNCHANGED <<part, vars, keyVars, callVars, audioVars, sessionVars>>

SessionSteps ==
  /\ part = "session"
  /\ SessionNext
  /\ UNCHANGED <<part, vars, keyVars, callVars, audioVars, mirrorVars>>

ClientNext ==
  \/ OutboxSteps
  \/ KeysSteps
  \/ CallsSteps
  \/ AudioSteps
  \/ MirrorSteps
  \/ SessionSteps

clientVars == <<part, vars, keyVars, callVars, audioVars, mirrorVars, sessionVars>>

ClientSpec == ClientInit /\ [][ClientNext]_clientVars
-----------------------------------------------------------------------------
(* Every variable of the client's components has its type.                 *)
ClientTypeOK ==
  /\ TypeOK
  /\ KeyStoreTypeOK
  /\ CallsTypeOK
  /\ AudioTypeOK
  /\ MirrorTypeOK
  /\ SessionTypeOK

(* What the window shows of a message that came under an identifier of the *)
(* peer's own is what the database holds, and nothing the peer sends       *)
(* deletes or rewords one of the user's, but a message of its own with the *)
(* same identifier.                                                        *)
WindowMirrors == []MirrorsReceived /\ PeerLeavesMineAlone
=============================================================================
