------------------------------ MODULE CallAudio ------------------------------
(***************************************************************************)
(* The sound of connected calls: the window's frame that drains the        *)
(* microphone (app.rs, mic_recorder.rs), send_call_audio and the task that *)
(* receives audio datagrams (messenger.rs), and the sink that plays them   *)
(* (audio_player.rs).                                                      *)
(*                                                                         *)
(* One direction of a sequence of calls with one peer.  Datagrams may be   *)
(* lost, duplicated and reordered.  A frame is [call, seq].  The audio     *)
(* that older programs send as messages is left out: none of these does.   *)
(***************************************************************************)
EXTENDS Integers, Sequences, FiniteSets

CONSTANTS
  AudioCalls,       \* the number of calls
  FrameTimes,       \* milliseconds between two frames of the window
  SendInterval,     \* 20 ms
  BytesPerMs,       \* 16 samples of 2 bytes
  MAX_AUDIO_BYTES,  \* 900
  MAX_STREAMS,      \* 4096
  MAX_QUEUED,       \* 40
  MaxSeq            \* bound on the frames sent in a call

ASSUME AudioAssumption ==
  /\ AudioCalls \in Nat \ {0}
  /\ FrameTimes \subseteq Nat
  /\ BytesPerMs \in Nat /\ MAX_STREAMS \in Nat /\ MAX_QUEUED \in Nat /\ MaxSeq \in Nat

VARIABLES
  audioCall,     \* the call under way, at both ends
  muted,
  buffered,      \* bytes the microphone has captured and nobody drained
  sinceSend,     \* milliseconds since last_audio_send
  audioSeq,      \* the sender's counter, which restarts with each call
  datagrams,     \* the frames that are under way
  lastSeq,       \* call -> the highest sequence number received: never pruned
  queued,        \* frames in the sink
  played,        \* the frames the sink took, in order
  refused        \* history: a frame had too many bytes and was not sent

audioVars == <<audioCall, muted, buffered, sinceSend, audioSeq, datagrams, lastSeq, queued,
               played, refused>>

AudioFrame == [call : 1..AudioCalls, seq : 1..MaxSeq]

SenderTypeOK ==
  /\ audioCall \in 1..AudioCalls
  /\ muted \in BOOLEAN /\ refused \in BOOLEAN
  /\ buffered \in Nat /\ sinceSend \in Nat
  /\ audioSeq \in 0..MaxSeq
  /\ datagrams \subseteq AudioFrame

ReceiverTypeOK ==
  /\ lastSeq \in [DOMAIN lastSeq -> 1..MaxSeq]
  /\ DOMAIN lastSeq \subseteq 1..AudioCalls
  /\ Cardinality(DOMAIN lastSeq) <= MAX_STREAMS
  /\ queued \in 0..(MAX_QUEUED + 1)
  /\ played \in Seq(AudioFrame)

AudioTypeOK == SenderTypeOK /\ ReceiverTypeOK

AudioInit ==
  /\ audioCall = 1
  /\ muted = FALSE
  /\ buffered = 0
  /\ sinceSend = 0
  /\ audioSeq = 0
  /\ datagrams = {}
  /\ lastSeq = << >>
  /\ queued = 0
  /\ played = <<>>
  /\ refused = FALSE

----------------------------------------------------------------------------
(* The sender.                                                             *)

(* What the recorder hands out at 16 kHz; its buffer is empty afterwards.  *)
Drained(dt) == buffered + dt * BytesPerMs

FrameTooSoon(dt) ==
  /\ sinceSend + dt < SendInterval
  /\ buffered' = Drained(dt)
  /\ sinceSend' = sinceSend + dt
  /\ UNCHANGED <<audioCall, muted, audioSeq, datagrams, lastSeq, queued, played, refused>>

(* The counter advances whether or not the frame is small enough to go.    *)
FrameSends(dt) ==
  /\ sinceSend + dt >= SendInterval
  /\ audioSeq < MaxSeq
  /\ sinceSend' = 0
  /\ buffered' = 0
  /\ IF muted THEN UNCHANGED <<audioSeq, datagrams, refused>>
     ELSE /\ audioSeq' = audioSeq + 1
          /\ IF Drained(dt) <= MAX_AUDIO_BYTES
               THEN /\ datagrams' = datagrams \cup {[call |-> audioCall, seq |-> audioSeq + 1]}
                    /\ UNCHANGED refused
               ELSE /\ refused' = TRUE
                    /\ UNCHANGED datagrams
  /\ UNCHANGED <<audioCall, muted, lastSeq, queued, played>>

Mute ==
  /\ muted' = ~muted
  /\ UNCHANGED <<audioCall, buffered, sinceSend, audioSeq, datagrams, lastSeq, queued,
                 played, refused>>

(* The call ends and the next one begins: the sink is closed, the recorder *)
(* is emptied and the counter restarts; the receiver keeps its streams.    *)
NextCall ==
  /\ audioCall < AudioCalls
  /\ audioCall' = audioCall + 1
  /\ muted' = FALSE
  /\ buffered' = 0
  /\ sinceSend' = 0
  /\ audioSeq' = 0
  /\ queued' = 0
  /\ UNCHANGED <<datagrams, lastSeq, played, refused>>

----------------------------------------------------------------------------
(* The receiver.                                                           *)

LastOf(c) == IF c \in DOMAIN lastSeq THEN lastSeq[c] ELSE -1

(* A fault to detect: only a repetition of the last frame is dropped.      *)
FreshFrameUnlessRepeated(f) == f.seq # LastOf(f.call)

FreshFrame(f) ==
  /\ f.seq > LastOf(f.call)
  /\ f.call \in DOMAIN lastSeq \/ Cardinality(DOMAIN lastSeq) < MAX_STREAMS

(* A fault to detect: the sink takes whatever comes.                       *)
TakesAll == TRUE

(* The sink takes a frame unless more than MAX_QUEUED wait in it.          *)
Takes == queued <= MAX_QUEUED

(* A frame that is not new is dropped; a new one is handed to the window,  *)
(* which plays it if its call is the one that is connected.                *)
ReceiveFrame(f) ==
  /\ f \in datagrams
  /\ FreshFrame(f)
  /\ lastSeq' = [c \in DOMAIN lastSeq \cup {f.call} |-> IF c = f.call THEN f.seq ELSE lastSeq[c]]
  /\ IF f.call = audioCall /\ Takes
       THEN queued' = queued + 1 /\ played' = Append(played, f)
       ELSE UNCHANGED <<queued, played>>
  /\ UNCHANGED <<audioCall, muted, buffered, sinceSend, audioSeq, datagrams, refused>>

FrameLost(f) ==
  /\ f \in datagrams
  /\ datagrams' = datagrams \ {f}
  /\ UNCHANGED <<audioCall, muted, buffered, sinceSend, audioSeq, lastSeq, queued, played,
                 refused>>

PlayOut ==
  /\ queued > 0
  /\ queued' = queued - 1
  /\ UNCHANGED <<audioCall, muted, buffered, sinceSend, audioSeq, datagrams, lastSeq, played,
                 refused>>

AudioNext ==
  \/ \E dt \in FrameTimes : FrameTooSoon(dt) \/ FrameSends(dt)
  \/ Mute \/ NextCall
  \/ \E f \in datagrams : ReceiveFrame(f) \/ FrameLost(f)
  \/ PlayOut

AudioSpec == AudioInit /\ [][AudioNext]_audioVars

----------------------------------------------------------------------------
(* A frame is played once, in the order it was recorded in, and never in a *)
(* later call than its own, whatever the network duplicates or reorders.   *)
PlayedInOrder ==
  \A i, j \in DOMAIN played : i < j =>
    \/ played[i].call < played[j].call
    \/ played[i].call = played[j].call /\ played[i].seq < played[j].seq

(* What the microphone captures between two frames can be sent.            *)
NothingRefused == ~refused
=============================================================================
