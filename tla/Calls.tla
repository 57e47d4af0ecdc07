-------------------------------- MODULE Calls --------------------------------
(***************************************************************************)
(* Voice calls of the desktop client: the signals of calls.rs, what        *)
(* app.rs does with them and with the buttons of call_modal.rs, and the    *)
(* sound and microphone each user hears and is heard by.                   *)
(*                                                                         *)
(* Every signal is a message of its own that the transport cascade sends   *)
(* in a task of its own: signals overtake each other, and are lost or      *)
(* discarded when they are older than 45 seconds.                          *)
(*                                                                         *)
(* A call's id is the second it was placed in and the callee, so two calls *)
(* to one user in the same second would share it: assumed here is that     *)
(* there are none.                                                         *)
(***************************************************************************)
EXTENDS Integers, FiniteSets

CONSTANTS
  Users,
  Dials      \* the calls users start, as [by, to] : call id -> who calls whom

VARIABLES
  call,      \* user -> the call state of the window, or NoCall
  sound,     \* user -> what the main sink loops: "none", "ringtone", "dial"
  speaker,   \* user -> BOOLEAN: the call audio sink is open
  mic,       \* user -> BOOLEAN: the microphone records
  signals,   \* the signals under way: [type, id, from, to]
  placed,    \* the calls that were placed
  answered,  \* <<user, id>>: the calls a user answered
  logged,    \* user -> id -> entries in the message list
  unheard    \* <<user, id>>: ends of a call that never came to act on it

callVars == <<call, sound, speaker, mic, signals, placed, answered, logged, unheard>>

CallIds == DOMAIN Dials

(* Nobody calls himself: the chat view shows no call button for that.      *)
ASSUME CallsAssumption ==
  /\ \A c \in CallIds : Dials[c].by \in Users /\ Dials[c].to \in Users \ {Dials[c].by}
  /\ "none" \notin CallIds
NoCall == [id |-> "none", peer |-> "none", incoming |-> FALSE, connected |-> FALSE]
Busy(u) == call[u] # NoCall
Signal(type, id, from, to) == [type |-> type, id |-> id, from |-> from, to |-> to]
Ends(s) == s.type \in {"Reject", "Hangup"}

(* The signal is about the call the window shows.                          *)
Matches(u, s) == Busy(u) /\ call[u].peer = s.from /\ call[u].id = s.id

CallState ==
  [id : CallIds \cup {"none"}, peer : Users \cup {"none"}, incoming : BOOLEAN,
   connected : BOOLEAN]
CallSignal ==
  [type : {"Offer", "Answer", "Reject", "Hangup"}, id : CallIds, from : Users, to : Users]

CallsTypeOK ==
  /\ call \in [Users -> CallState]
  /\ sound \in [Users -> {"none", "ringtone", "dial"}]
  /\ speaker \in [Users -> BOOLEAN] /\ mic \in [Users -> BOOLEAN]
  /\ signals \subseteq CallSignal
  /\ placed \subseteq CallIds
  /\ answered \subseteq Users \X CallIds
  /\ logged \in [Users -> [CallIds -> Nat]]
  /\ unheard \subseteq Users \X CallIds

CallsInit ==
  /\ call = [u \in Users |-> NoCall]
  /\ sound = [u \in Users |-> "none"]
  /\ speaker = [u \in Users |-> FALSE]
  /\ mic = [u \in Users |-> FALSE]
  /\ signals = {}
  /\ placed = {}
  /\ answered = {}
  /\ logged = [u \in Users |-> [c \in CallIds |-> 0]]
  /\ unheard = {}

(* log_call_message                                                        *)
Log(u, id) == logged' = [logged EXCEPT ![u][id] = @ + 1]

(* stop, stop_call_audio, play_hangup_sound and the recorder's stop.       *)
Silence(u) ==
  /\ sound' = [sound EXCEPT ![u] = "none"]
  /\ speaker' = [speaker EXCEPT ![u] = FALSE]
  /\ mic' = [mic EXCEPT ![u] = FALSE]

(* start_call_audio ends a ringtone or dial tone.                          *)
StartCallAudio(u) ==
  /\ sound' = [sound EXCEPT ![u] = "none"]
  /\ speaker' = [speaker EXCEPT ![u] = TRUE]

----------------------------------------------------------------------------
(* The user.                                                               *)

(* A call that was there is replaced without a word to its peer.           *)
StartCall(c) ==
  LET u == Dials[c].by
  IN  /\ c \notin placed
      /\ placed' = placed \cup {c}
      /\ call' = [call EXCEPT ![u] =
           [id |-> c, peer |-> Dials[c].to, incoming |-> FALSE, connected |-> FALSE]]
      /\ sound' = [sound EXCEPT ![u] = "dial"]
      /\ signals' = signals \cup {Signal("Offer", c, u, Dials[c].to)}
      /\ unheard' = IF Busy(u) THEN unheard \cup {<<call[u].peer, call[u].id>>} ELSE unheard
      /\ UNCHANGED <<speaker, mic, answered, logged>>

(* A fault to detect: the ringtone plays on.                               *)
AcceptCallRinging(u) ==
  /\ Busy(u) /\ call[u].incoming /\ ~call[u].connected
  /\ speaker' = [speaker EXCEPT ![u] = TRUE]
  /\ mic' = [mic EXCEPT ![u] = TRUE]
  /\ call' = [call EXCEPT ![u].connected = TRUE]
  /\ answered' = answered \cup {<<u, call[u].id>>}
  /\ signals' = signals \cup {Signal("Answer", call[u].id, u, call[u].peer)}
  /\ UNCHANGED <<sound, placed, logged, unheard>>

AcceptCall(u) ==
  /\ Busy(u) /\ call[u].incoming /\ ~call[u].connected
  /\ StartCallAudio(u)
  /\ mic' = [mic EXCEPT ![u] = TRUE]
  /\ call' = [call EXCEPT ![u].connected = TRUE]
  /\ answered' = answered \cup {<<u, call[u].id>>}
  /\ signals' = signals \cup {Signal("Answer", call[u].id, u, call[u].peer)}
  /\ UNCHANGED <<placed, logged, unheard>>

DeclineCall(u) ==
  /\ Busy(u) /\ call[u].incoming /\ ~call[u].connected
  /\ Silence(u)
  /\ call' = [call EXCEPT ![u] = NoCall]
  /\ Log(u, call[u].id)
  /\ signals' = signals \cup {Signal("Reject", call[u].id, u, call[u].peer)}
  /\ UNCHANGED <<placed, answered, unheard>>

(* A fault to detect: the peer is not told.                                *)
EndCallSilently(u) ==
  /\ Busy(u)
  /\ Silence(u)
  /\ call' = [call EXCEPT ![u] = NoCall]
  /\ Log(u, call[u].id)
  /\ UNCHANGED <<signals, placed, answered, unheard>>

(* The end button, which a ringing call does not show, and the window's    *)
(* close button, which it does.                                            *)
EndCall(u) ==
  /\ Busy(u)
  /\ Silence(u)
  /\ call' = [call EXCEPT ![u] = NoCall]
  /\ Log(u, call[u].id)
  /\ signals' = signals \cup {Signal("Hangup", call[u].id, u, call[u].peer)}
  /\ UNCHANGED <<placed, answered, unheard>>

----------------------------------------------------------------------------
(* The signals.                                                            *)

(* Who has a call, ringing or connected, is busy.                          *)
ReceiveOffer(s) ==
  /\ s \in signals /\ s.type = "Offer"
  /\ IF Busy(s.to)
       THEN /\ signals' = (signals \ {s}) \cup {Signal("Reject", s.id, s.to, s.from)}
            /\ UNCHANGED <<call, sound>>
       ELSE /\ call' = [call EXCEPT ![s.to] =
                 [id |-> s.id, peer |-> s.from, incoming |-> TRUE, connected |-> FALSE]]
            /\ sound' = [sound EXCEPT ![s.to] = "ringtone"]
            /\ signals' = signals \ {s}
  /\ UNCHANGED <<speaker, mic, placed, answered, logged, unheard>>

(* A fault to detect: any answer of the peer counts.                       *)
ReceiveAnswerOfPeer(s) ==
  /\ s \in signals /\ s.type = "Answer"
  /\ signals' = signals \ {s}
  /\ StartCallAudio(s.to)
  /\ IF Busy(s.to) /\ call[s.to].peer = s.from
       THEN /\ call' = [call EXCEPT ![s.to].connected = TRUE]
            /\ mic' = [mic EXCEPT ![s.to] = TRUE]
       ELSE UNCHANGED <<call, mic>>
  /\ UNCHANGED <<placed, answered, logged, unheard>>

(* The call audio starts before the answer is compared with the call.      *)
ReceiveAnswer(s) ==
  /\ s \in signals /\ s.type = "Answer"
  /\ signals' = signals \ {s}
  /\ StartCallAudio(s.to)
  /\ IF Matches(s.to, s) /\ ~call[s.to].incoming
       THEN /\ call' = [call EXCEPT ![s.to].connected = TRUE]
            /\ mic' = [mic EXCEPT ![s.to] = TRUE]
       ELSE UNCHANGED <<call, mic>>
  /\ UNCHANGED <<placed, answered, logged, unheard>>

(* A fault to detect: an end of a call that is over is logged again.       *)
ReceiveEndOfAnyCall(s) ==
  /\ s \in signals /\ Ends(s)
  /\ signals' = signals \ {s}
  /\ Silence(s.to)
  /\ call' = [call EXCEPT ![s.to] = NoCall]
  /\ Log(s.to, s.id)
  /\ UNCHANGED <<placed, answered, unheard>>

(* Reject and Hangup: the sound stops before the signal is compared with   *)
(* the call, which ends and is logged only if it is the same.              *)
ReceiveEnd(s) ==
  /\ s \in signals /\ Ends(s)
  /\ signals' = signals \ {s}
  /\ Silence(s.to)
  /\ IF Matches(s.to, s)
       THEN /\ call' = [call EXCEPT ![s.to] = NoCall]
            /\ Log(s.to, s.id)
            /\ UNCHANGED unheard
       ELSE /\ unheard' = unheard \cup {<<s.to, s.id>>}
            /\ UNCHANGED <<call, logged>>
  /\ UNCHANGED <<placed, answered>>

(* Lost by every tier of the cascade, or older than 45 seconds.            *)
SignalLost(s) ==
  /\ s \in signals
  /\ signals' = signals \ {s}
  /\ unheard' = IF Ends(s) THEN unheard \cup {<<s.to, s.id>>} ELSE unheard
  /\ UNCHANGED <<call, sound, speaker, mic, placed, answered, logged>>

(* A frame of the window: a connected call keeps the microphone on, and    *)
(* the first sound of the peer opens the sink.                             *)
UpdateFrame(u) ==
  /\ Busy(u) /\ call[u].connected
  /\ ~mic[u] \/ ~speaker[u]
  /\ mic' = [mic EXCEPT ![u] = TRUE]
  /\ \/ ~speaker[u] /\ StartCallAudio(u)
     \/ UNCHANGED <<sound, speaker>>
  /\ UNCHANGED <<call, signals, placed, answered, logged, unheard>>

CallsNext ==
  \/ \E c \in CallIds : StartCall(c)
  \/ \E u \in Users : AcceptCall(u) \/ DeclineCall(u) \/ EndCall(u) \/ UpdateFrame(u)
  \/ \E s \in signals :
       ReceiveOffer(s) \/ ReceiveAnswer(s) \/ ReceiveEnd(s) \/ SignalLost(s)

CallsSpec == CallsInit /\ [][CallsNext]_callVars

----------------------------------------------------------------------------
(* A call is connected, on either side, only if the user who was called    *)
(* answered this very call, whatever answers of other calls come late.     *)
ConnectedIsAccepted ==
  \A u \in Users : call[u].connected =>
    <<IF call[u].incoming THEN u ELSE call[u].peer, call[u].id>> \in answered

(* No tone loops and no microphone records without a call to show for it,  *)
(* and no tone loops once the call is connected.                           *)
DevicesFollowCall ==
  \A u \in Users :
    /\ sound[u] # "none" => Busy(u) /\ ~call[u].connected
    /\ mic[u] => Busy(u)

(* A call that a user is in is one its peer is in as well, unless the end  *)
(* of it, or its offer or rejection, is still under way, or its end was    *)
(* lost, came before the offer, or was never sent because another call     *)
(* replaced it.                                                            *)
NobodyTalksToNobody ==
  \A u \in Users : call[u].connected =>
    LET peer == call[u].peer
    IN  \/ call[peer].id = call[u].id
        \/ \E s \in signals : Ends(s) /\ s.to = u /\ s.id = call[u].id
        \/ <<u, call[u].id>> \in unheard

(* A call that is over is in the list of messages once at most.            *)
LoggedOnce == \A u \in Users, c \in CallIds : logged[u][c] <= 1

(* A call is connected only after the user who was called answered it, and *)
(* nobody talks into a call the other one has left and said so; tones and  *)
(* microphones follow the call, and each call is logged once.              *)
CallsAgree ==
  /\ ConnectedIsAccepted
  /\ NobodyTalksToNobody
  /\ DevicesFollowCall
  /\ LoggedOnce
=============================================================================
